# A formal model of jeepay-epay-adapter

The adapter stands between NewAPI, which speaks the epay protocol and holds the
users' top-ups, and a Jeepay gateway, which takes payments by WeChat. It keeps
its orders in SQLite. This directory holds TLA+ modules translated from the Go
code, TLC configurations that check them on small instances, and TLAPS proofs of
what matters most, for instances of any size.

Paths below are relative to `src/`. A definition keeps the name of the Go
function it translates where there is one; `PROJECT.json` ("map") names the lines
each definition stands for.

## 1. Inventory

| part | state it keeps | operations | hard behaviours | what makes it correct |
| --- | --- | --- | --- | --- |
| order store (`internal/store/store.go`) | tables `orders`, `refund_debits`; one connection, each statement one transaction | `Insert`, `UpdateJeepay`, `MarkPaid`, `MarkFailed`, `MarkFailedIfCreated`, `SetExpireAt`, `SetChannelClosed`, `BlockExpire`, `NotifySucceeded`, `NotifyRetry`, `DueCloses`, `DueNotifies`, `migrate`, `ClaimRefund`, `FinishRefund`, `ReleaseRefund` | some updates are guarded by `pay_status`, some are not; rows are handed out as copies | paid is final; a deadline never moves; limits and order of the batches |
| checkout (`Submit`, `recoverExistingJeepay` in `internal/app/service.go`) | none of its own: a copy of the row per request | read or insert the row, set its deadline, place the gateway order, record the answer, recover after an error | two requests for one order, a retry after a crash, an answer lost after the order was placed | amount and deadline of row and gateway order agree; only what is paid is recorded as paid; an open order is not given up |
| payment notification (`HandleJeepayNotify`) | none | mark the order paid if amounts agree | repeated, delayed, lost, concurrent with the closer | credits only what was paid |
| closer (`internal/app/close.go`) | one goroutine; the batch of copies, the time of the tick | query, close at the gateway, wait, expire the top-up, record it | payments between query and expiry, lost answers, restart between two calls, a batch worked off with one reading of the clock | nothing paid is expired; failed only after the wallet confirmed it; nothing is expired early; every due order is settled |
| notification worker (`internal/app/notify.go`) and cashier polling (`payStatus` in `internal/app/http.go`, `confirmFromJeepay`) | one goroutine and any number of requests; each a copy of the row | take due rows, post the epay notification, record success or the next attempt; a poll also asks the gateway first | both deliver one order at once; a handled post whose answer is lost; limits and backoff | credited once and only if paid; no success recorded that was none; every paid order answered or given up; failed attempts spaced and limited |
| refund debits (`internal/app/refund.go`, `internal/newapi/client.go`) | rows of `refund_debits`, a mutex | claim, look for an earlier subtraction in NewAPI's log, subtract, finish or release | no answer to a subtraction, a crash after it, repeated notifications, two refunds of one order | each refund taken back at most once, done only if it was, settled in the end |
| wallet client (`internal/wallet/expire.go`) | a connection pool | `pay.expire_epay_topup`, probe | a two-second timeout after which the effect is unknown | -- |
| Jeepay client (`internal/jeepay/client.go`) | none | unified order, query, close, classification of close answers | an answer that does not verify | a close is recorded only on a verified success |
| signing (`internal/epay/sign.go`, `internal/jeepay/sign.go`), money conversion (`internal/epay/money.go`, `creditedQuota`) | none | sign and verify a form; yuan to fen; dollars to quota; numbers of a signed answer | integer width, rounding, notations of one amount, names that differ in case only, texts that are not escaped, `float64` | exact or refused; what was signed is taken up, and nothing that was changed |
| process start and stop (`cmd/adapter/main.go`) | none | starts worker, closer and HTTP server over one store, stops them together | everything above at once; a stop at any point | the parts together keep what they promise |
| configuration, HTML pages, session lookup, mocks, deployment | none that a property is about | | | |

The parts share the orders table, the gateway orders and NewAPI's top-ups, and
run at the same time: the closer and the worker are goroutines, submissions,
polls and notifications are HTTP requests. SQLite serialises statements, nothing
serialises the sequences of statements and calls a part makes. The exception is
`refundMu`, which is held for the whole of a refund.

## 2. Modules

    OrderStore      rows, and the statements of the store as operators on rows
      CloseDecision closeStepOf, decideQuery, decideClose, missedDue
        Payments    the shared world: clock, orders, gateway orders, top-ups;
                    HandleJeepayNotify; restart; shared properties
          Closing   the closer
          Delivery  the worker and the cashier polls
          Checkout  Submit and recoverExistingJeepay   (MCCheckout: symmetry)
          Adapter   worker, closer and submissions over one table
            Retries     Adapter, remembering each failed attempt
    TopUp           what the adapter promises of a top-up, abstractly
    Refund          HandleRefundNotify and its debits  (MCRefund: instances)
    Decimals        YuanToFen, creditedQuota, the integers they return
    Signing         the signatures of epay and Jeepay
      Forms         calls of both, and of what verifies an answer (MCForms)

    PaymentsProofs         the statements of the store and the shared world
      ClosingProofs        types, credit, order of wallet and row
        ClosingTimeProofs  dates, payments in time, Closing implements TopUp
      DeliveryProofs       theorems of Delivery, Delivery implements TopUp
      CheckoutProofs       theorems of Checkout
      AdapterProofs        theorems of all parts together, Adapter implements TopUp
    RefundProofs           theorems of Refund
    FormsProofs            theorems of Forms, with powers and sorted sequences

Each module `EXTENDS` the one it is indented under (a proof module also the
module it is about); a component adds its own variable and
composes its steps with those of the shared world. Where a component depends on
the outcome of another one, the effect of the other on one order appears as one
external action (`Delivered` in Closing, `ExpiredUnpaid` in Delivery). Adapter
has no such actions: it takes the steps of the three components by `INSTANCE`,
with the shared variables in common, and so shows that they stand for what
really happens.

**TopUp.** The abstract specification. Of each order it knows whether the
customer's money was taken, what NewAPI has made of the top-up, and what became of
the notification NewAPI is owed. It credits only for money taken and on a
notification that is owed, answers only what NewAPI has dealt with, and, where
`OnTime` says that the closer's calls are quick, never takes money for an expired
top-up nor expires one whose money was taken. `MoneyTaken`, `TopUpState` and `NoticeState`
in Payments are the refinement mapping: the three are read off `gw`, `wallet` and
`notify_status`. `PromiseKept` in Closing, Delivery and Adapter is that the module
implements TopUp under this mapping.

**OrderStore.** A row keeps the columns a decision reads. `jeepay_pay_order_id`
and `pay_data` are reduced to "known or not". `Selections` is `ORDER BY ... LIMIT`
with ties in any order. A fetched row is a record holding a copy.

**Payments.** `gw[o]` is the gateway order: its state, amount, expiry, whether the
customer's money was taken (`captured`), and when it was taken or the channel
ceased to take payments (`since`). A payment is possible up to the expiry of the order, one
under way when the order was closed may succeed up to `SettleLag` later, and a
payment is visible to a query at most `SettleLag` after it was made: the clock
waits for it. `wallet[o]` is the top-up. Both systems are outside the
repository; they are modelled from what the clients, the mocks and the comments
of `close.go` rely on. The initial states are the rows the store may hold at start:
with and without deadline, gateway order present or not, gateway id recorded or
not, top-up pending, missing, or of another payment method.

**Closing.** `closer.pc` says which call comes next; every call is one step, so
anything may happen between two. `closer.at` is the time the tick started, used by all
its decisions. Calls may fail with and without effect. `SlowCalls` says whether
time may pass while a tick is running. A restart loses the tick and runs `migrate`.

**Delivery.** `job[d]` is the position of the worker or of a poll in `deliver`. The
attempt recorded is one more than the count in the copy. `silent` are the orders
submitted without a `notify_url`: `deliver` counts them as notified, and the
mapping as given up.

**Checkout.** `submit[s]` is the position of a request in `Submit`, with its copy of
the row. `UnifiedOrder` may answer, be lost before or after the order was
placed, or be refused because the order exists.

**Adapter.** Starts with an empty table, but for orders an earlier process has left
in the notification queue (`Queued`). An order may be submitted again up to `SubmitFor`
after its row was made (`InItsTime`): NewAPI's page repeats a submission soon or not at all, and
the time to live sent to the gateway starts anew each time. `OrdersBy` bounds when rows are
made. One restart stops all components at once.

**Retries.** `next_notify_at` is written by `NotifyRetry` and by `MarkPaid`, so it does not tell
how long a failed attempt has waited. `tried[o]` is a history variable beside Adapter: when the
last failed attempt was recorded, and whether `MarkPaid` has queued the notification again since.

**Forms.** Each behaviour is one call: arguments of a bounded set, then the
outcome. Decimals has what `shopspring/decimal` and `int64` do, with coefficient
and exponent, so one amount comes in several notations, and with a width
`IntBits` beyond which integers wrap; `Ten` and `Two` are the powers it needs. Signing has the text both
`Sign` functions write: `name=value` pieces with "&" between them, in an order (`Sorts`: what a sort
of the names may return), and nothing escaped. A text is the sequence of its pieces, from one "&" to the
next, so a value with an "&" in it is written as several, and `name=a&money=b` is one text whether
`money` is a field or the end of a value. The hash is taken to tell any two texts and any two keys apart. Names have
no "&" and no "=", and in epay, where the key follows the last value without a separator, it is taken
not to be mistaken for the end of that value. The sort of the
Jeepay signature is not stable and runs over a Go map, so `JeepaySigns` is a set: the signatures a call may
return. `Float` reads a JSON number into a `float64` with `MantissaBits` bits.

**Refund.** One handler at a time, as `refundMu` has it. `debited[r]` counts what
NewAPI carried out, `log` is what its log shows (its clock may be behind by
`ClockLag`). There are two specifications. In `RefundSpec` NewAPI has carried out a request
when the adapter gives it up, or never will. In `LateSpec` it may also do so later:
`inflight` holds the requests given up (`SubtractUnfinished`) that it may yet carry out
(`LateSubtract`, within `ApplyLag`).

## 3. Runs

Passing runs:

| run | instance | shows |
| --- | --- | --- |
| `closing_safety` | one order, two amounts, with and without deadline, a restart, `SlowCalls = FALSE` | `NoExpireOfPaid`, `FailedOnlyAfterWallet`, `CreditBacked`, `ExpireIsDue`, `GraceAfterClose`, and that Closing implements TopUp (`PromiseKept`) |
| `closing_liveness` | one order, slow calls, a restart | `DueIsResolved`: every unpaid order known to both sides is in the end paid, failed or blocked; `PaidIsFinal`, which only ticks that take time put to the test: a payment then falls between the expiry of the top-up and its record |
| `delivery` | one order with or without a notify URL, worker and a page, two amounts, a restart | `NoSilentLoss`, `CreditBacked`, `PaidIsFinal`, `PaidIsAnswered`, and that Delivery implements TopUp (`PromiseKept`) |
| `adapter` | one order from its first submission on; closer, worker and a request that submits and submits again, failed posts, repeated reports of the payment, a restart | the composition implements TopUp (`PromiseKept`); `NoOrderForExpired`; `RetriesWait`: the worker repeats a failed attempt only when its delay, counted from that attempt, is over or the payment has been reported again; `SuccessIsFinal`: what was answered is not owed again |
| `checkout_safety` | two requests, two amounts, a restart | `AmountAgreement`, `DeadlineBeforeOrder`, `PaidIsCaptured`, `DeadlineIsFixed` |
| `refund` | two orders of one user with different quotas, a refund each, repeated notifications | `DebitedOnce`, `DoneIsDebited`, `PendingIsSettled` |
| `forms` | amounts with up to four decimals, quotas on both sides of a half, forms of four fields, sent as they were signed, with another value, left out, empty or twice, one value with an "&" after which it reads like a field, two names that differ in case only, two keys, numbers up to twice 2^`MantissaBits` | `FenIsExact`, `QuotaIsNearest`, `EpayVerifiesTheSigned`, `JeepayVerifiesTheSigned`, `AnswerIsExact` |

Runs that find the code at odds with what its documentation says:

| run | property | what happens |
| --- | --- | --- |
| `checkout_overwrite` | `PaidIsFinal` | a second submission is refused by the gateway and its recovery fails; `MarkFailed` has no guard and overwrites an order that was marked paid meanwhile |
| `checkout_recover` | `OpenOrderIsNotFailed` | the answer to `UnifiedOrder` is lost; `recoverExistingJeepay` finds the order but has no payment code, so the open order is recorded as failed and neither closer nor polls look at it again |
| `retries_reported` | `RetriesAreSpaced` | after a failed attempt the payment is reported again, `MarkPaid` sets `next_notify_at` to now, and the worker posts without the wait |
| `refund_late` | `DebitedOnce` | the thirty seconds are counted from the claim, not from the last attempt, so a second unanswered subtraction is repeated at once |
| `refund_again` | `DoneStopsDebits` | an earlier refund of the order left pending is subtracted although another one was done since |

Properties the passing runs state under an assumption, and what the assumption
stands for:

* `NoExpireOfPaid` and `GraceAfterClose` need a tick that is quick against
  `channelGraceSec` and `missedGraceSec` (`SlowCalls = FALSE`). The closer reads
  the clock once per tick and records that time as `channel_closed_at`; with
  twenty orders and calls of up to twenty seconds the wait after a close can be
  shorter than 120 seconds. They also need `SettleLag < ChannelGrace` and
  `Skew + ChannelGrace <= MissedGrace` (`InTime`, section 5).
* `DueIsResolved` needs a batch not filled by orders that no tick can settle: an
  order the gateway does not know, left behind by a submission that stopped between
  `SetExpireAt` and `UnifiedOrder`, stays first in `DueCloses` for
  ever, and once there are `closeBatch` of them no later order is closed. The run has one order.
* `RetriesWait` makes an exception for a new report of the payment, which makes the notification due at
  once (`retries_reported`). The same `MarkPaid` takes up again a notification that was
  given up, beyond the ten attempts of the repository's README, line 48. `RetriesWait` and `SuccessIsFinal` are
  about the adapter without cashier pages: `payStatus` delivers without
  looking at `next_notify_at` or at the count of attempts, and its failed attempt may be recorded
  over the worker's success. NewAPI answers the notification that follows with success once more.
* `PromiseKept` in `closing_safety` and `adapter` includes the promises about
  expiry and so assumes quick ticks, and `adapter` that an order is submitted again no later than
  `SubmitFor` after the first time: its gateway deadline then lies little enough past
  `expire_at` for `MissedGrace` (`InTime` of AdapterProofs, section 5). `delivery`
  leaves the expiry out (`OnTime <- FALSE`).
* `FenIsExact` and `QuotaIsNearest` are about values that fit an `int64`; beyond, `IntPart`
  wraps without an error (`Fits` in the properties).
* `EpayVerifiesTheSigned` and `JeepayVerifiesTheSigned` promise that a form that verifies has
  the fields that were signed only where no value has an "&"; with one, two forms can have the
  same text. That what was signed is taken up they promise of every form.
* `JeepayVerifiesTheSigned` promises that a good form is taken up only where no
  two names differ in case alone; with two such names a call may refuse it.
* `DoneIsDebited` needs different quotas for the refunds of one user, since
  `HasSubtract` recognises a subtraction by user, quota and time. With two of the same size the
  entry of one is taken for that of the other, and a refund whose subtraction never arrived is marked done;
  `RefundDoneIsLogged` (section 5) says what a done row stands for then. `DebitedOnce`
  needs a page of 50 log entries that holds the entry (`LogComplete`), no request
  carried out after the client gave up (`RefundSpec`, not `LateSpec`), and a NewAPI clock at
  most one second behind (`ClockLag = 1`).

### Bounds

The clock stops at `MaxTime` (seconds are scaled down: what matters is the order
of deadline, lead, graces and lag, and every instance leaves time for all of them to
pass); `MaxRestarts` bounds restarts; `AttemptCap` lies one above the limits of attempts, so passing the limit is
visible; `MaxDebits = 2` is one more than is right. Deadlines are such that the
clock starts before the deadline minus the lead and ends after the deadline plus the long
grace. One order is enough for the properties of Closing, Delivery and
Checkout that speak of one order at a time, since orders share only the batches;
what a batch of several rows does is left to the theorems, which have any number of orders.
`adapter` has one order, no pages and no orders of an earlier process,
which keeps the instance small: pages and posts meet in `delivery`. Its three attempts with a step
of two seconds leave room for a wait that a restart, a closer's tick or a report falls into. Two
requests are the least that interfere in Checkout; they are interchangeable and
all its properties are of safety, so their symmetry is used.

`forms` has integers of 12 bits and mantissas of 4, so that conversions overflow and numbers
lose digits within the instance; the functions treat every digit, field
and bit alike, and the sets hold each kind: below, at and above a fen, a half, the maximum, the
mantissa; known and unknown fields; names that differ in case.

Deadlock is not checked: all behaviours end when the bounded clock has stopped and
nothing is left to do, and a request, a page or a notification never has to
come.

### Fairness

* Closing: the closer and the clock never stop (`Closer.Run` loops on a ticker).
  A call or statement that is tried again and again for an order succeeds once
  (strong fairness per step and order). The gateway confirms payments and closes
  what expired. Close requests may fail for ever; nothing is assumed about customers.
* Delivery: the worker and the clock never stop, a delivery begun ends (its HTTP
  client has a timeout), and the store does not refuse the worker's outcome for ever. Every post
  may fail.
* Refund: Jeepay or a person repeats a notification that was not accepted, a
  handler does not stop half way, and what is repeated for ever succeeds once.
  Nothing in the adapter itself takes up a pending row, so without the repetition
  `PendingIsSettled` does not hold.

## 4. Hazards

`PROJECT.json` lists every place of the code that is hard to test, with the
properties that would be violated if it went wrong.

## 5. Proofs

The theorems hold for any finite set of orders, any number of pages and of
concurrent requests, any amounts, delays, limits, batch sizes and numbers of
restarts that satisfy the assumptions of the modules: sets that the system cannot be
without are not empty, amounts are positive, delays are numbers. Those on Forms hold for any
finite set of names, any values, with any number of "&" in them, any decimals and widths, provided an
integer is more than two bits
wider than a mantissa (64 and 53 in the code) and `quota_per_unit` is positive, as
`newapi.Client.Billing` demands. No theorem uses fairness. Every safety invariant, action property
and refinement that a passing run checks is the subject of one, with the exception of `DoneIsDebited`;
what is left beside it is liveness.

| theorem | property | hypothesis |
| --- | --- | --- |
| `ClosingType`, `DeliveryType`, `CheckoutType`, `RefundType` | the type invariants | |
| `ClosingCreditBacked`, `DeliveryCreditBacked` | only what was paid at its amount is credited | |
| `ClosingPaidIsFinal`, `DeliveryPaidIsFinal` | an order recorded as paid stays paid | |
| `ClosingFailedOnlyAfterWallet` | an order is recorded as failed only when its top-up was failed | |
| `ClosingExpireIsDue` | no top-up is expired early, blocked or without a deadline | |
| `ClosingNoExpireOfPaid` | no top-up is expired that is or will be paid | `InTime` |
| `ClosingGraceAfterClose` | the wait after a close is kept | `InTime` |
| `ClosingPromiseKept` | Closing implements TopUp | `SlowCalls \/ InTime` |
| `DeliveryNoSilentLoss` | no success recorded that was none | |
| `DeliveryPromiseKept` | Delivery implements TopUp (without expiry) | |
| `CheckoutAmountAgreement` | one amount in row and gateway order | |
| `CheckoutDeadlineBeforeOrder` | no gateway order without a deadline in the row | |
| `CheckoutPaidIsCaptured` | only what is paid is recorded as paid | |
| `CheckoutDeadlineIsFixed` | a deadline never moves | |
| `RefundDoneIsLogged` | a refund marked done stands for a subtraction of its size, of its user, logged since it was claimed (`DoneIsLogged`), also for refunds that look the same, for late requests and an incomplete page | `ClocksAgree` |
| `RefundDebitedOnce` | a refund is subtracted at most once | `LogIsProof` |
| `AdapterType` | the type invariant of all parts together | |
| `AdapterNoOrderForExpired` | no gateway order for an expired top-up | |
| `AdapterRetriesWait` | a failed attempt waits for its delay, or for a new report of the payment | `Pollers = {}` |
| `AdapterSuccessIsFinal` | what was answered is not owed again | `Pollers = {}` |
| `AdapterPromiseKept` | worker, closer, pages and submissions together implement TopUp | `SlowCalls \/ InTime` |
| `FormsType` | results are integers of their width, and zero with an error | |
| `FormsFen` | an amount becomes exactly its fen, or there is none | |
| `FormsQuota` | the quota nearest to what dollars were worth, or none is in range | |
| `FormsEpay` | a submission is taken up if it is what was signed, and without "&" in a value only then | |
| `FormsJeepay` | a notification is taken up if it is what was signed, and without "&" in a value only then | |
| `FormsAnswer` | the number of an answer is read as signed, or refused | |

### The hypotheses

* `InTime` (ClosingTimeProofs): ticks take no time (`~ SlowCalls`), a payment is visible before
  the wait after a close is over (`SettleLag < ChannelGrace`), and the wait after a
  missed deadline covers the gateway's own deadline and that wait
  (`Skew + ChannelGrace <= MissedGrace`). The code has 120 seconds for
  `channelGraceSec` and 1800 for `missedGraceSec` (`close.go`), which leaves a `Skew` of 28
  minutes. `closing_safety` checks an instance in which it is satisfied with equality.
  Slow ticks are a limit of the code, explained in section 3.
* `InTime` (AdapterProofs): the same for all parts together. Here the gateway's deadline is not bounded by a
  `Skew` but comes from the submissions: the last one, at most `SubmitFor` after the row was
  made, sends `OrderTTL` again, and this with the wait must lie within `MissedGrace` of the deadline
  in the row, which is `OrderTTL` or `LegacyTTL` after the row was made. With the 7200 seconds of
  `LegacyTTL` and the two lives the configuration accepts, `SubmitFor` may be 28 minutes. The
  `adapter` run satisfies it with equality.
* `ClosingPromiseKept` and `AdapterPromiseKept` have no hypothesis on delays when calls are slow: TopUp then makes no
  promise about expiry (`OnTime <- ~ SlowCalls`), and all it says of credit and
  notification is proved.
* `ClocksAgree` (RefundProofs): NewAPI's clock is at most one second behind
  (`finishPendingRefund` looks from `createdAt - 1`).
* `LogIsProof` (RefundProofs): beside that, the page of 50 entries holds the entry. That no
  request is carried out after the adapter gave up on it is `RefundSpec`; under `LateSpec`
  `refund_late` finds a refund subtracted twice. `RefundType` and `RefundDoneIsLogged` hold of both
  specifications.
* `Pollers = {}`: a page polling for its payment posts at once and then writes the row,
  so the pauses are the worker's alone. The `adapter` run
  has no pages either.

An instance does not bring the assumptions of its module along, so `AdapterAssumption`
repeats those of Closing, Delivery and Checkout.

### The arguments

**Shared world (PaymentsProofs).** `WorldInv` says that an order recorded as paid was
paid at its amount or completed by an administrator (`PaidBacked`), that only
paid orders are queued for notification (`PendingIsPaid`), and that success at
the gateway means a payment (`SuccessIsCaptured`). `CreditBacked` is not
inductive without them: the credit is given on the strength of a queued notification. `Stable(o)` collects
what no step takes back: a payment, an amount, a decision of the wallet, an order
recorded as paid. Every step of the world preserves `WorldInv` and is `Stable`.
Before that come lemmas on the statements of the store: what they return, which
columns they leave alone, what a batch consists of.

**Closing, without time (ClosingProofs).** `IInv == WorldInv /\ CloserInv /\
FailedOnlyAfterWallet`. `CloserInv` says what the closer knows of the order it works
on: its copy has the row's amount, it is about to mark paid only what was paid at
its amount, and the answer of the wallet it is about to record is still true.
It survives the steps of everybody else because it is made of `Stable` facts
(`OthersKeepCloser`).

**Closing, with time (ClosingTimeProofs).** `DueInv` follows the dates: copies have the deadline of the row, a
recorded close stays recorded, and the closer goes on to the wallet only for an
order that is due. It holds for slow calls too and gives `ExpireIsDue`. `TimeInv`
says what a date means at the gateway: `OverAt(g, t)` is that `g` is unpaid and
`ChannelGrace` has passed since the channel ceased to take payments, and `Timely(o)`
that every top-up failed in the wallet is over in this sense, that `channel_closed_at` is
not earlier than the close, and that a payment is visible `SettleLag` after it was made.
`NoExpireOfPaid` alone is not inductive: a payment under way when the
channel was closed would violate it in a state where the wallet has already been told, and
only these dates exclude the state. The closer's own part (`CloserInTime`) is
that its verdict on the fresh query still holds when it calls the wallet.

**Delivery (DeliveryProofs).** A deliverer acts on copies. `JobAgrees` adds to `WorldInv`
what of a copy still holds when it is used: the amount; that an order being
posted is paid; that a poll about to mark an order paid has seen it paid at its
amount; that after NewAPI's answer the top-up has left "pending". `PaidHasNotice`
(a paid order's notification is owed, answered or given up) is what the refinement needs: without it an
order could be credited by a post that TopUp does not know to be owed.

**Checkout (CheckoutProofs).** `MarkFailed` and `UpdateJeepay` have no guard, so a
request can overwrite an order recorded as paid: `PaidIsFinal`, `PendingIsPaid` and `Stable` are false here
(`checkout_overwrite`) and `WorldInv` cannot be used. `Kept` is the
weaker set of facts that no request undoes: the row exists, its amount, its deadline once set, and
a payment once taken. `RequestAgrees` says what a request knows in terms of them
alone, position by position; for example, that a row has a deadline from the
moment its request has passed `SetExpireAt`, whoever set it.

**Refund (RefundProofs).** `RefundIInv`: a handler at work finds its own row
`pending`, so what it finishes or releases is what it claimed, and only
`FinishRefund` adds a done row. `DoneInv`: a handler about to finish has found its subtraction in the log or has
been told of it just now, so `Logged` holds of its row, and the log never forgets.
`OnceInv`: what was subtracted is in the log at a time at which it is looked for
(`Logged`), so a handler about to send has not been preceded by a subtraction.

**All parts (AdapterProofs).** Nothing is assumed of a component that another one could break:
`AdapterIInv` is proved from the steps of all. `Quiet(r, q)` is what every step but the
record of a failed attempt does to a row (no further attempt, no later date), and
`Remembers(o)` that the gateway forgets no order and that only an order it knows has its
top-up expired. `CloserOK` says the latter of the closer: in the positions after an answer of
the gateway the order at hand is known there, and stays so whatever submissions do.
This gives `ExpiredIsKnown`, and an order known at the gateway is never placed for the first time.
For the pauses, `RetriesIInv`. `Waits(o)` says that the due time of a notification that is owed, and has
not been reported again, is the time of the last failed attempt and its delay; `Turn` that the orders
of the worker's batch are pairwise different
and still due: quiet steps keep that, and the one step that is not quiet concerns
the first order of the batch, which then leaves it. So an order posted from a copy that is
a batch old is posted no earlier than one read just now. A row about to be inserted has not
been posted (`SubmitOK`), so an insertion is quiet too. `StaysAnswered` is read off the same steps.

**All parts keep the promise (AdapterProofs, from `InTime` on).** The invariants of the components do not
compose as they stand: a submission may overwrite an order recorded as paid, so what
is queued need not be recorded as paid, and `WorldInv` is false here. `PromiseInv`
says instead what nobody undoes. Of an order (`Backed`, `Timely`): one whose notification was ever
asked for was paid or completed by hand; what is recorded as paid has a notification; a row has a
deadline that is one of the two lives after it was made; the gateway's deadline is at most
`SubmitFor + OrderTTL` after that; a recorded close is a close; and a failed top-up
is over at the gateway. Of what each part goes by: a fetched row, a verdict, a post under way, a request between two
calls (`CloserRight`, `JobRight`, `RequestRight`).
The proof has two halves. `OneMove` lists what a step of anybody does to the shared
state: one row, one gateway order, one top-up, or the clock; every step of the parts is shown to be
one of these moves, and every move preserves `Backed` and `Timely` and is a step of
TopUp or a stutter (`PromiseStep`). And every move of another part is `Lasting`, so what a part goes by stays right
until it acts. The closer fails a top-up only when `OverAt` holds of its order: closed for good, or
past the deadline the last submission can have given it. An order the gateway does not know is
never `OverAt`, so by `ExpiredIsKnown` no submission places one for a failed top-up.

**Forms (FormsProofs).** A call is one step, so the invariants `SignedInv` and `NumberInv`, which are lemmas here, only say that the
outcome is what the functions make of the arguments; the work is in the functions. For the
signatures: a sequence of `SetToSeqs` holds every name (`SeqsCover`), so a signature covers just the fields
it is made over; without an "&" every field is one piece (`OnePiece`, `FlatSingles`), so the pieces of a text are
its fields (`WrittenCovers`, `SameFields`); names whose ranks differ can be sorted (`AnOrder`) and in one way only
(`OnlyOrder`, by the first place where two sorted sequences differ), so both sides write the
same text. Names equal but for case are where the second fails, and where
`JeepayVerifiesTheSigned` makes its exception. For the numbers: `Power` is a recursive function, whose existence is shown by
finite approximations and least counterexamples (`PowersAgree`, `PowersExist`, `PowerDef`),
because the induction theorems of the library cannot be used. `FenExact` compares an amount with its fen
for exponents from zero up, for -1, and below. `RoundIs` shows that `Round` cuts off all digits but the first after the point and
is none the worse for it: the result is the one multiple nearest to the product (`NearestMultiple`,
`NearestUnique`). Two assumptions came out of these proofs: without a positive `quota_per_unit` a product
that rounds below the least integer would wrap to a quota, and a mantissa as wide as the
integers would let the number of an answer exceed them.

**Refinement.** The steps of Closing and Delivery are mapped one by one: under `MoneyTaken`,
`TopUpState` and `NoticeState` a payment is `TakeMoney`, a row recorded as paid is `Owe`, the
outcome of a post `CreditTopUp`, `Answer` or `Retry`, an expired top-up `Expire`, and
everything else a stutter. The guards of TopUp's steps come from the inductive
invariants above.

### Only model-checked

* `DueIsResolved`, `PaidIsAnswered`, `PendingIsSettled`: the prover has no rules for
  fairness and ENABLED.
* `DoneIsDebited`: it holds where user and quota tell any two refunds apart, which nothing in the
  code ensures, so a theorem would be about systems other than this one. `RefundDoneIsLogged` is proved in its place.

## 6. Not modelled

* The text of messages: JSON, HTTP, HTML, QR codes, the digits of a number. In the
  modules with state a message is handled or it is not; Forms says which forms verify.
* `Submit`'s other checks of its parameters (`pid`, `out_trade_no`, `type`): they precede every
  effect and depend on nothing else.
* Configuration parsing; its values are constants here.
* `ByMchOrderNo` finds an order by its number alone, whatever the merchant id; one
  merchant is configured.
* `StuckCloseCount`, which only warns; `RefundedTradeNos` and `SessionUser`, which
  only read.
* The deadline of a gateway order placed again long after the first submission:
  `Skew` bounds by how much it lies past `expire_at`.

## 7. Plan

Done: the modules and runs above; a theorem for every safety invariant, action
property and refinement that a passing run checks, but for `DoneIsDebited`.

Left, if the modelling is taken up again: the quota of an order changing between two claims,
a page in Adapter's run (its theorems on types, credit and expiry have pages already), two orders in the closer's liveness
with a batch that orders nobody can settle do not fill, and two of them with a batch that they do.
