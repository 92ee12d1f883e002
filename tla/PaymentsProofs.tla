--------------------------- MODULE PaymentsProofs ---------------------------
(***************************************************************************)
(* What the statements of OrderStore do to a row, and what the steps of    *)
(* Payments preserve.  WorldInv is the part of the inductive invariants of *)
(* the component specifications that speaks of the shared state alone.     *)
(***************************************************************************)
EXTENDS Payments, SequenceTheorems, TLAPS

-----------------------------------------------------------------------------
(* What the statements of OrderStore do to a row, for every row. *)

\* Every statement makes a row of a row.
LEMMA RowOpsType ==
  ASSUME NEW r \in Rows, NEW t \in Nat, NEW b \in BOOLEAN
  PROVE  /\ MarkPaid(r, b, t) \in Rows
         /\ MarkFailedIfCreated(r) \in Rows
         /\ SetChannelClosed(r, t) \in Rows
         /\ BlockExpire(r) \in Rows
         /\ NotifySucceeded(r) \in Rows
<1>1. MarkPaid(r, b, t) \in Rows
  BY DEF MarkPaid, Rows, PayStatuses, NotifyStatuses
<1>2. MarkFailedIfCreated(r) \in Rows
  BY DEF MarkFailedIfCreated, Rows, PayStatuses
<1>3. SetChannelClosed(r, t) \in Rows
  BY DEF SetChannelClosed, Rows
<1>4. BlockExpire(r) \in Rows
  BY DEF BlockExpire, Rows
<1>5. NotifySucceeded(r) \in Rows
  BY DEF NotifySucceeded, Rows, NotifyStatuses
<1> QED
  BY <1>1, <1>2, <1>3, <1>4, <1>5

\* No statement but Insert changes an amount, and of these none changes the
\* deadline.
LEMMA RowOpsKeep ==
  ASSUME NEW r \in Rows, NEW t \in Nat, NEW b \in BOOLEAN,
         NEW q \in {MarkPaid(r, b, t), MarkFailedIfCreated(r), SetChannelClosed(r, t),
                    BlockExpire(r), NotifySucceeded(r)}
  PROVE  q.amount = r.amount /\ q.expireAt = r.expireAt /\ q.createdAt = r.createdAt
BY DEF MarkPaid, MarkFailedIfCreated, SetChannelClosed, BlockExpire, NotifySucceeded, Rows

\* What each of them does to pay_status, notify_status and channel_closed_at.
LEMMA RowOpsStatus ==
  ASSUME NEW r \in Rows, NEW t \in Nat, NEW b \in BOOLEAN
  PROVE  /\ MarkPaid(r, b, t).status = "paid"
         /\ MarkPaid(r, b, t).closedAt = r.closedAt
         /\ MarkFailedIfCreated(r).status =
              (IF r.status = "created" THEN "failed" ELSE r.status)
         /\ MarkFailedIfCreated(r).notify = r.notify
         /\ MarkFailedIfCreated(r).closedAt = r.closedAt
         /\ SetChannelClosed(r, t).status = r.status
         /\ SetChannelClosed(r, t).notify = r.notify
         /\ SetChannelClosed(r, t).closedAt \in {r.closedAt, t}
         /\ BlockExpire(r).status = r.status
         /\ BlockExpire(r).notify = r.notify
         /\ BlockExpire(r).closedAt = r.closedAt
         /\ NotifySucceeded(r).status = r.status
         /\ NotifySucceeded(r).notify = "succeeded"
         /\ NotifySucceeded(r).closedAt = r.closedAt
BY DEF MarkPaid, MarkFailedIfCreated, SetChannelClosed, BlockExpire, NotifySucceeded, Rows

\* None of them moves the time a channel was closed, and only BlockExpire blocks.
LEMMA RowOpsClosed ==
  ASSUME NEW r \in Rows, NEW t \in Nat, NEW b \in BOOLEAN
  PROVE  /\ r.closedAt > 0 => SetChannelClosed(r, t).closedAt = r.closedAt
         /\ MarkPaid(r, b, t).blocked = r.blocked
         /\ MarkFailedIfCreated(r).blocked = r.blocked
         /\ SetChannelClosed(r, t).blocked = r.blocked
         /\ NotifySucceeded(r).blocked = r.blocked
BY DEF MarkPaid, MarkFailedIfCreated, SetChannelClosed, NotifySucceeded, Rows

\* migrate only gives a deadline to rows that have none.
LEMMA MigrateKeeps ==
  ASSUME NEW table \in [Orders -> Rows], NEW o \in Orders
  PROVE  /\ Migrate(table)[o].amount = table[o].amount
         /\ Migrate(table)[o].status = table[o].status
         /\ Migrate(table)[o].notify = table[o].notify
         /\ Migrate(table)[o].closedAt = table[o].closedAt
         /\ Migrate(table)[o].blocked = table[o].blocked
         /\ Migrate(table)[o].createdAt = table[o].createdAt
         /\ Migrate(table)[o].expireAt =
              (IF table[o].expireAt = 0 /\ table[o].status = "created"
               THEN table[o].createdAt + LegacyTTL ELSE table[o].expireAt)
<1>1. table[o] \in Rows
  OBVIOUS
<1> QED
  BY <1>1 DEF Migrate, Rows

\* migrate keeps the table a table.
LEMMA MigrateType ==
  ASSUME NEW table \in [Orders -> Rows]
  PROVE  Migrate(table) \in [Orders -> Rows]
<1> SUFFICES ASSUME NEW o \in Orders
             PROVE  Migrate(table)[o] \in Rows
  BY DEF Migrate
<1>1. table[o] \in Rows
  OBVIOUS
<1> QED
  BY <1>1, LegacyTTLAssumption DEF Migrate, Rows

\* A function on 1..n is a sequence.
LEMMA FunctionIsSeq ==
  ASSUME NEW T, NEW n \in Nat, NEW f \in [1..n -> T]
  PROVE  f \in Seq(T)
BY SeqDef

\* The first element of a sequence, and what is left without it.
LEMMA HeadFacts ==
  ASSUME NEW T, NEW b \in Seq(T), b # <<>>
  PROVE  1 \in DOMAIN b /\ Head(b) = b[1] /\ Head(b) \in T
OBVIOUS

LEMMA TailFacts ==
  ASSUME NEW T, NEW b \in Seq(T), b # <<>>, Len(b) # 1
  PROVE  /\ Tail(b) \in Seq(T) /\ Tail(b) # <<>>
         /\ \A i \in DOMAIN Tail(b) : i + 1 \in DOMAIN b /\ Tail(b)[i] = b[i + 1]
<1>1. Len(b) \in Nat /\ Len(b) >= 1
  OBVIOUS
<1>2. /\ Tail(b) \in Seq(T) /\ Len(Tail(b)) = Len(b) - 1
      /\ \A i \in 1..Len(Tail(b)) : Tail(b)[i] = b[i + 1]
  BY HeadTailProperties
<1>3. DOMAIN b = 1..Len(b) /\ DOMAIN Tail(b) = 1..Len(Tail(b))
  BY <1>2
<1>4. Len(Tail(b)) # 0
  BY <1>1, <1>2
<1>5. Tail(b) # <<>>
  BY <1>2, <1>4, EmptySeq
<1>6. \A i \in DOMAIN Tail(b) : i + 1 \in DOMAIN b /\ Tail(b)[i] = b[i + 1]
  BY <1>1, <1>2, <1>3
<1> QED
  BY <1>2, <1>5, <1>6

\* A selection is a sequence of the rows selected from.
LEMMA SelectionType ==
  ASSUME NEW S, NEW key, NEW limit \in Nat, NEW s \in Selections(S, key, limit)
  PROVE  s \in Seq(S)
<1>1. PICK k \in 0..limit : s \in [1..k -> S]
  BY DEF Selections
<1> QED
  BY <1>1, FunctionIsSeq

\* A fetched batch is a sequence of rows, each as the table has it.
LEMMA FetchType ==
  ASSUME NEW table \in [Orders -> Rows], NEW s \in Seq(Orders)
  PROVE  /\ Fetch(table, s) \in Seq(Fetched)
         /\ \A i \in DOMAIN Fetch(table, s) :
              Fetch(table, s)[i].row = table[Fetch(table, s)[i].order]
<1>1. DOMAIN s = 1..Len(s) /\ Len(s) \in Nat
  OBVIOUS
<1>2. \A i \in DOMAIN s : s[i] \in Orders
  OBVIOUS
<1>3. Fetch(table, s) \in [1..Len(s) -> Fetched]
  BY <1>1, <1>2 DEF Fetch, Fetched
<1>4. Fetch(table, s) \in Seq(Fetched)
  BY <1>1, <1>3, FunctionIsSeq
<1>5. \A i \in DOMAIN Fetch(table, s) :
        Fetch(table, s)[i].row = table[Fetch(table, s)[i].order]
  BY DEF Fetch
<1> QED
  BY <1>4, <1>5

\* What the closer reads at a tick.
LEMMA DueClosesType ==
  ASSUME NEW table \in [Orders -> Rows], NEW dueAt, NEW limit \in Nat,
         NEW batch \in DueCloses(table, dueAt, limit)
  PROVE  /\ batch \in Seq(Fetched)
         /\ \A i \in DOMAIN batch : /\ batch[i].row = table[batch[i].order]
                                    /\ table[batch[i].order].status = "created"
<1> DEFINE due == {o \in Orders : /\ table[o].status = "created"
                                  /\ ~ table[o].blocked
                                  /\ table[o].expireAt > 0
                                  /\ table[o].expireAt <= dueAt}
           key == [o \in Orders |-> table[o].expireAt]
<1>1. PICK s \in Selections(due, key, limit) : batch = Fetch(table, s)
  BY DEF DueCloses
<1>2. s \in Seq(due)
  BY <1>1, SelectionType
<1>3. s \in Seq(Orders)
  BY <1>2
<1>4. \A i \in DOMAIN s : s[i] \in due
  BY <1>2
<1>5. \A i \in DOMAIN batch : batch[i].order \in due
  BY <1>1, <1>4 DEF Fetch
<1> QED
  BY <1>1, <1>3, <1>5, FetchType

\* What the worker reads at a tick: rows waiting for their notification.
LEMMA DueNotifiesType ==
  ASSUME NEW table \in [Orders -> Rows], NEW limit \in Nat, NEW at,
         NEW batch \in DueNotifies(table, limit, at)
  PROVE  /\ batch \in Seq(Fetched)
         /\ \A i \in DOMAIN batch : /\ batch[i].row = table[batch[i].order]
                                    /\ table[batch[i].order].notify = "pending"
<1> DEFINE due == {o \in Orders : /\ table[o].status # "absent"
                                  /\ table[o].notify = "pending"
                                  /\ table[o].nextAt <= at}
           key == [o \in Orders |-> table[o].nextAt]
<1>1. PICK s \in Selections(due, key, limit) : batch = Fetch(table, s)
  BY DEF DueNotifies
<1>2. s \in Seq(due)
  BY <1>1, SelectionType
<1>3. s \in Seq(Orders)
  BY <1>2
<1>4. \A i \in DOMAIN s : s[i] \in due
  BY <1>2
<1>5. \A i \in DOMAIN batch : batch[i].order \in due
  BY <1>1, <1>4 DEF Fetch
<1> QED
  BY <1>1, <1>3, <1>5, FetchType

\* MarkPaid queues the notification unless it has already succeeded.
LEMMA MarkPaidNotify ==
  ASSUME NEW r \in Rows, NEW t \in Nat, NEW b \in BOOLEAN
  PROVE  MarkPaid(r, b, t).notify =
           (IF r.notify = "succeeded" THEN "succeeded" ELSE "pending")
BY DEF MarkPaid, Rows

\* Arithmetic of the backoff, apart from what is said of rows.
LEMMA ProductIsNat == ASSUME NEW a \in Nat, NEW b \in Nat PROVE a * b \in Nat
OBVIOUS

\* A failed attempt leaves a row that is tried again or given up, and nothing
\* else of it changed that a payment depends on.
LEMMA NotifyRetryFacts ==
  ASSUME NEW r \in Rows, NEW attempts \in Nat, NEW nextAt \in Nat, NEW giveUp \in BOOLEAN
  PROVE  LET q == NotifyRetry(r, attempts, nextAt, giveUp)
         IN /\ q \in Rows
            /\ q.amount = r.amount /\ q.status = r.status
            /\ q.notify = IF giveUp THEN "failed" ELSE "pending"
BY DEF NotifyRetry, Rows, NotifyStatuses

-----------------------------------------------------------------------------
(* The shared state. *)

\* An order recorded as paid has been paid at its amount, or an administrator
\* has completed the top-up.
PaidBacked ==
  \A o \in Orders : orders[o].status = "paid" =>
    \/ gw[o].captured /\ gw[o].amount = orders[o].amount
    \/ wallet[o] = "granted"

\* Only paid orders are notified.
PendingIsPaid == \A o \in Orders : orders[o].notify = "pending" => orders[o].status = "paid"

SuccessIsCaptured == \A o \in Orders : gw[o].state = StateSuccess => gw[o].captured

WorldInv == /\ WorldTypeOK
            /\ CreditBacked
            /\ PaidBacked
            /\ PendingIsPaid
            /\ SuccessIsCaptured

\* What no step takes back: a payment, an amount, what the wallet has made of a
\* top-up, an order recorded as paid.  An order is recorded as failed only once the wallet
\* has failed its top-up.
Stable(o) ==
  /\ gw[o].captured => gw'[o].captured
  /\ gw'[o].amount = gw[o].amount
  /\ orders'[o].amount = orders[o].amount
  /\ wallet[o] # "pending" => wallet'[o] = wallet[o]
  /\ orders[o].status = "paid" => orders'[o].status = "paid"
  /\ orders'[o].status = "failed" => orders[o].status = "failed" \/ wallet'[o] = "failed"

USE DEF GatewayStates, NoOrder, StateInit, StateIng, StateSuccess, StateFail, StateClosed

-----------------------------------------------------------------------------
\* The shared state a run starts with.
LEMMA WorldInitInv ==
  ASSUME WorldInit
  PROVE  /\ WorldInv
         /\ \A o \in Orders : /\ orders[o].status = "created" /\ orders[o].notify = "none"
                             /\ orders[o].closedAt = 0
                             /\ ~ gw[o].captured /\ gw[o].since = 0
                             /\ wallet[o] \in {"pending", "missing", "not_epay"}
<1>1. ASSUME NEW r \in FirstRows
      PROVE  /\ r \in Rows /\ r.status = "created" /\ r.notify = "none"
             /\ r.closedAt = 0
  <2>1. PICK a \in Amounts, e \in Deadlines, p \in BOOLEAN : r = FirstRow(a, e, p)
    BY DEF FirstRows
  <2>2. e \in Nat /\ StartTime \in Nat
    BY TimeAssumption
  <2> QED
    BY <2>1, <2>2 DEF FirstRow, Insert, Rows, PayStatuses, NotifyStatuses
<1>2. /\ orders \in [Orders -> Rows]
      /\ \A o \in Orders : /\ orders[o].status = "created" /\ orders[o].notify = "none"
                          /\ orders[o].closedAt = 0
  <2>1. orders \in [Orders -> FirstRows]
    BY DEF WorldInit
  <2> QED
    BY <1>1, <2>1
<1>3. ASSUME NEW g \in FirstGatewayOrders
      PROVE  g \in GatewayOrders /\ g.state # StateSuccess /\ ~ g.captured /\ g.since = 0
  <2>1. g \in [state : FirstStates, amount : Amounts, expiry : 0..MaxTime + Skew,
               captured : {FALSE}, since : {0}]
    BY DEF FirstGatewayOrders
  <2>2. /\ g = [state |-> g.state, amount |-> g.amount, expiry |-> g.expiry,
                captured |-> g.captured, since |-> g.since]
        /\ g.state \in FirstStates /\ g.amount \in Amounts
        /\ g.expiry \in 0..MaxTime + Skew /\ g.captured \in {FALSE} /\ g.since \in {0}
    BY <2>1
  <2>3. FirstStates \subseteq GatewayStates /\ StateSuccess \notin FirstStates
    BY TimeAssumption
  <2>4. g.state \in GatewayStates /\ g.state # StateSuccess
    BY <2>2, <2>3
  <2>5. \A n \in 0..MaxTime + Skew : n \in Nat
    OBVIOUS
  <2>6. g.expiry \in Nat
    BY <2>2, <2>5
  <2>7. g.captured \in BOOLEAN /\ ~ g.captured
    BY <2>2
  <2>8. g.since \in Nat /\ g.since = 0
    BY <2>2
  <2> QED
    BY <2>2, <2>4, <2>6, <2>7, <2>8 DEF GatewayOrders
<1>4. /\ gw \in [Orders -> GatewayOrders]
      /\ \A o \in Orders : /\ gw[o].state # StateSuccess
                          /\ ~ gw[o].captured /\ gw[o].since = 0
  <2>1. gw \in [Orders -> FirstGatewayOrders]
    BY DEF WorldInit
  <2> QED
    BY <1>3, <2>1
<1>5. /\ wallet \in [Orders -> WalletStates]
      /\ \A o \in Orders : wallet[o] \in {"pending", "missing", "not_epay"}
  <2>1. wallet \in [Orders -> FirstWallet]
    BY DEF WorldInit
  <2>2. FirstWallet \subseteq {"pending", "missing", "not_epay"}
    BY TimeAssumption
  <2> QED
    BY <2>1, <2>2 DEF WalletStates
<1>6. WorldTypeOK
  BY <1>2, <1>4, <1>5, TimeAssumption DEF WorldInit, WorldTypeOK
<1>7. WorldInv
  BY <1>2, <1>4, <1>5, <1>6
     DEF WorldInv, CreditBacked, PaidBacked, PendingIsPaid, SuccessIsCaptured
<1> QED
  BY <1>2, <1>4, <1>5, <1>7

-----------------------------------------------------------------------------
\* A close request leaves a gateway order a gateway order, of the same amount,
\* paid if it was paid and not suddenly successful.
LEMMA ClosedFacts ==
  ASSUME NEW g \in GatewayOrders, NEW at \in Nat
  PROVE  /\ Closed(g, at) \in GatewayOrders
         /\ Closed(g, at).amount = g.amount
         /\ Closed(g, at).captured = g.captured
         /\ Closed(g, at).expiry = g.expiry
         /\ Closed(g, at).state = StateClosed
         /\ g.state # StateIng => Closed(g, at).since = 0
         /\ g.state = StateIng => /\ Closed(g, at).since <= at
                                  /\ Closed(g, at).since <= g.expiry
<1> DEFINE since == CASE g.state # StateIng -> 0
                      [] g.state = StateIng /\ at <= g.expiry -> at
                      [] OTHER -> g.expiry
           c == [g EXCEPT !.state = StateClosed, !.since = since]
<1>1. g.expiry \in Nat
  BY DEF GatewayOrders
<1>2. /\ since \in Nat
      /\ g.state # StateIng => since = 0
      /\ g.state = StateIng => since <= at /\ since <= g.expiry
  <2>1. CASE g.state # StateIng
    BY <2>1
  <2>2. CASE g.state = StateIng /\ at <= g.expiry
    BY <1>1, <2>2
  <2>3. CASE g.state = StateIng /\ ~ (at <= g.expiry)
    BY <1>1, <2>3
  <2> QED
    BY <2>1, <2>2, <2>3
<1>3. Closed(g, at) = c
  BY DEF Closed
<1> HIDE DEF since
<1>4. /\ c \in GatewayOrders /\ c.state = StateClosed /\ c.since = since
      /\ c.amount = g.amount /\ c.captured = g.captured /\ c.expiry = g.expiry
  BY <1>2 DEF GatewayOrders
<1> HIDE DEF c
<1> QED
  BY <1>2, <1>3, <1>4

LEMMA CloseAnswersFacts ==
  ASSUME NEW g \in GatewayOrders, NEW at \in Nat, NEW answer \in CloseAnswers(g, at)
  PROVE  /\ answer.kind \in CloseKinds
         /\ answer.order \in GatewayOrders
         /\ answer.order.amount = g.amount
         /\ answer.order.captured = g.captured
         /\ answer.order.state = StateSuccess => g.state = StateSuccess
         /\ answer.order = g \/ (/\ answer.order = Closed(g, at)
                                 /\ g.state \in {StateInit, StateIng}
                                 /\ ~ g.captured)
<1>1. CASE g.state \in {StateInit, StateIng} /\ ~ g.captured
  <2>1. \/ answer = [kind |-> "success", order |-> Closed(g, at)]
        \/ answer = [kind |-> "failed",  order |-> Closed(g, at)]
        \/ answer = [kind |-> "failed",  order |-> g]
    BY <1>1 DEF CloseAnswers
  <2> QED
    BY <1>1, <2>1, ClosedFacts DEF CloseKinds
<1>2. CASE ~ (g.state \in {StateInit, StateIng} /\ ~ g.captured)
  <2>1. CASE g.state \in {StateInit, StateIng} /\ g.captured
    <3>1. answer \in {[kind |-> "paid", order |-> g], [kind |-> "failed", order |-> g]}
      BY <1>2, <2>1 DEF CloseAnswers
    <3> QED
      BY <3>1 DEF CloseKinds
  <2>2. CASE g.state \notin {StateInit, StateIng}
    <3>1. answer \in {[kind |-> "rejected", order |-> g]}
      BY <1>2, <2>2 DEF CloseAnswers
    <3> QED
      BY <3>1 DEF CloseKinds
  <2>3. answer.order = g /\ answer.kind \in CloseKinds
    BY <1>2, <2>1, <2>2
  <2> QED
    BY <2>3
<1> QED
  BY <1>1, <1>2

-----------------------------------------------------------------------------
\* A step of the gateway that keeps the amount, takes no payment back and
\* reports success only of a captured order.
LEMMA GatewayStepInv ==
  ASSUME WorldInv, NEW o \in Orders, NEW g \in GatewayOrders, GatewayStep(o, g),
         g.amount = gw[o].amount, gw[o].captured => g.captured,
         g.state = StateSuccess => g.captured
  PROVE  WorldInv' /\ \A x \in Orders : Stable(x)
<1> USE DEF WorldInv, GatewayStep
<1>1. gw' \in [Orders -> GatewayOrders]
  BY DEF WorldTypeOK
<1>2. \A x \in Orders : gw'[x] = IF x = o THEN g ELSE gw[x]
  BY DEF WorldTypeOK
<1>3. WorldTypeOK'
  BY <1>1 DEF WorldTypeOK
<1>4. CreditBacked'
  BY <1>2 DEF CreditBacked
<1>5. PaidBacked'
  BY <1>2 DEF PaidBacked
<1>6. PendingIsPaid'
  BY DEF PendingIsPaid
<1>7. SuccessIsCaptured'
  BY <1>2 DEF SuccessIsCaptured
<1>8. \A x \in Orders : Stable(x)
  BY <1>2 DEF Stable
<1> QED
  BY <1>3, <1>4, <1>5, <1>6, <1>7, <1>8

LEMMA WorldStepInv ==
  ASSUME WorldInv, WorldStep
  PROVE  WorldInv' /\ \A x \in Orders : Stable(x)
<1>1. PICK o \in Orders : \/ GatewaySends(o)
                          \/ CustomerPays(o)
                          \/ LatePayment(o)
                          \/ GatewayConfirms(o)
                          \/ GatewayFails(o)
                          \/ GatewayExpires(o)
                          \/ AdministratorGrants(o)
                          \/ HandleJeepayNotify(o)
  BY DEF WorldStep
<1>2. gw[o] \in GatewayOrders /\ orders[o] \in Rows /\ now \in Nat
  BY DEF WorldInv, WorldTypeOK
<1>3. CASE GatewaySends(o)
  <2> DEFINE g == [gw[o] EXCEPT !.state = StateIng]
  <2>1. /\ g \in GatewayOrders /\ g.amount = gw[o].amount
        /\ g.captured = gw[o].captured /\ g.state # StateSuccess
    BY <1>2 DEF GatewayOrders
  <2>2. GatewayStep(o, g)
    BY <1>3 DEF GatewaySends
  <2> HIDE DEF g
  <2> QED
    BY <2>1, <2>2, GatewayStepInv
<1>4. CASE CustomerPays(o)
  <2> DEFINE g == [gw[o] EXCEPT !.captured = TRUE, !.since = now]
  <2>1. /\ g \in GatewayOrders /\ g.amount = gw[o].amount /\ g.captured
    BY <1>2 DEF GatewayOrders
  <2>2. GatewayStep(o, g)
    BY <1>4 DEF CustomerPays
  <2> HIDE DEF g
  <2> QED
    BY <2>1, <2>2, GatewayStepInv
<1>5. CASE LatePayment(o)
  <2> DEFINE g == [gw[o] EXCEPT !.captured = TRUE]
  <2>1. /\ g \in GatewayOrders /\ g.amount = gw[o].amount /\ g.captured
    BY <1>2 DEF GatewayOrders
  <2>2. GatewayStep(o, g)
    BY <1>5 DEF LatePayment
  <2> HIDE DEF g
  <2> QED
    BY <2>1, <2>2, GatewayStepInv
<1>6. CASE GatewayConfirms(o)
  <2> DEFINE g == [gw[o] EXCEPT !.state = StateSuccess]
  <2>1. /\ g \in GatewayOrders /\ g.amount = gw[o].amount /\ g.captured
    BY <1>2, <1>6 DEF GatewayOrders, GatewayConfirms
  <2>2. GatewayStep(o, g)
    BY <1>6 DEF GatewayConfirms
  <2> HIDE DEF g
  <2> QED
    BY <2>1, <2>2, GatewayStepInv
<1>7. CASE GatewayFails(o)
  <2> DEFINE g == [gw[o] EXCEPT !.state = StateFail]
  <2>1. /\ g \in GatewayOrders /\ g.amount = gw[o].amount
        /\ g.captured = gw[o].captured /\ g.state # StateSuccess
    BY <1>2 DEF GatewayOrders
  <2>2. GatewayStep(o, g)
    BY <1>7 DEF GatewayFails
  <2> HIDE DEF g
  <2> QED
    BY <2>1, <2>2, GatewayStepInv
<1>8. CASE GatewayExpires(o)
  <2> DEFINE g == Closed(gw[o], now)
  <2>1. /\ g \in GatewayOrders /\ g.amount = gw[o].amount
        /\ g.captured = gw[o].captured /\ g.state # StateSuccess
    BY <1>2, ClosedFacts
  <2>2. GatewayStep(o, g)
    BY <1>8 DEF GatewayExpires
  <2> HIDE DEF g
  <2> QED
    BY <2>1, <2>2, GatewayStepInv
<1>9. CASE AdministratorGrants(o)
  <2>1. \A x \in Orders : wallet'[x] = IF x = o THEN "granted" ELSE wallet[x]
    BY <1>9 DEF AdministratorGrants, WorldInv, WorldTypeOK
  <2>2. WorldTypeOK'
    BY <1>9 DEF AdministratorGrants, WorldInv, WorldTypeOK, WalletStates
  <2>3. (CreditBacked /\ PaidBacked /\ PendingIsPaid /\ SuccessIsCaptured)'
    BY <1>9, <2>1 DEF AdministratorGrants, WorldInv, CreditBacked, PaidBacked,
                      PendingIsPaid, SuccessIsCaptured
  <2>4. \A x \in Orders : Stable(x)
    BY <1>9, <2>1 DEF AdministratorGrants, Stable
  <2> QED
    BY <2>2, <2>3, <2>4 DEF WorldInv
<1>10. CASE HandleJeepayNotify(o)
  <2> DEFINE r == MarkPaid(orders[o], TRUE, now)
  <2>1. r \in Rows /\ r.amount = orders[o].amount /\ r.status = "paid"
    BY <1>2, RowOpsType, RowOpsKeep, RowOpsStatus
  <2>2. /\ orders' = [orders EXCEPT ![o] = r]
        /\ UNCHANGED <<now, gw, wallet, restarts>>
        /\ gw[o].state = StateSuccess /\ gw[o].amount = orders[o].amount
    BY <1>10 DEF HandleJeepayNotify
  <2> HIDE DEF r
  <2>3. \A x \in Orders : orders'[x] = IF x = o THEN r ELSE orders[x]
    BY <2>2 DEF WorldInv, WorldTypeOK
  <2>4. WorldTypeOK'
    BY <2>1, <2>2 DEF WorldInv, WorldTypeOK
  <2>5. (CreditBacked /\ PaidBacked /\ PendingIsPaid /\ SuccessIsCaptured)'
    BY <2>1, <2>2, <2>3 DEF WorldInv, CreditBacked, PaidBacked, PendingIsPaid,
                            SuccessIsCaptured
  <2>6. \A x \in Orders : Stable(x)
    BY <2>1, <2>2, <2>3 DEF Stable
  <2> QED
    BY <2>4, <2>5, <2>6 DEF WorldInv
<1> QED
  BY <1>1, <1>3, <1>4, <1>5, <1>6, <1>7, <1>8, <1>9, <1>10

LEMMA TickInv ==
  ASSUME WorldInv, Tick
  PROVE  WorldInv' /\ \A x \in Orders : Stable(x)
BY DEF WorldInv, WorldTypeOK, Tick, CreditBacked, PaidBacked, PendingIsPaid,
       SuccessIsCaptured, Stable

LEMMA ReopenInv ==
  ASSUME WorldInv, Reopen
  PROVE  WorldInv' /\ \A x \in Orders : Stable(x)
<1>1. orders \in [Orders -> Rows]
  BY DEF WorldInv, WorldTypeOK
<1>2. orders' \in [Orders -> Rows]
  BY <1>1, MigrateType DEF Reopen
<1>3. WorldTypeOK'
  BY <1>2 DEF Reopen, WorldInv, WorldTypeOK
<1>4. \A o \in Orders : /\ orders'[o].amount = orders[o].amount
                        /\ orders'[o].status = orders[o].status
                        /\ orders'[o].notify = orders[o].notify
  BY <1>1, MigrateKeeps DEF Reopen
<1>5. (CreditBacked /\ PaidBacked /\ PendingIsPaid /\ SuccessIsCaptured)'
  BY <1>4 DEF Reopen, WorldInv, CreditBacked, PaidBacked, PendingIsPaid,
              SuccessIsCaptured
<1>6. \A x \in Orders : Stable(x)
  BY <1>4 DEF Reopen, Stable
<1> QED
  BY <1>3, <1>5, <1>6 DEF WorldInv

-----------------------------------------------------------------------------
(* The shared state as module TopUp sees it, order by order. *)

TopUpOf(w) == CASE w = "pending" -> "open"
                [] w = "failed"  -> "expired"
                [] w \in {"missing", "not_epay"} -> "foreign"
                [] OTHER -> w

NoticeOf(n, gone) == CASE n = "pending" -> "owed"
                       [] n = "none"    -> "none"
                       [] n = "succeeded" /\ ~ gone -> "answered"
                       [] OTHER -> "given up"

LEMMA Views ==
  ASSUME NEW o \in Orders, NEW silent
  PROVE  /\ MoneyTaken[o] = gw[o].captured
         /\ TopUpState[o] = TopUpOf(wallet[o])
         /\ NoticeState(silent)[o] = NoticeOf(orders[o].notify, o \in silent)
BY DEF MoneyTaken, TopUpState, NoticeState, TopUpOf, NoticeOf

\* A step that changes the payment, the top-up or the notification of one order
\* at most is seen as doing so.
LEMMA MoneyMoves ==
  ASSUME NEW o \in Orders, \A x \in Orders : x # o => gw'[x].captured = gw[x].captured
  PROVE  MoneyTaken' = [MoneyTaken EXCEPT ![o] = gw'[o].captured]
BY DEF MoneyTaken

LEMMA TopUpMoves ==
  ASSUME NEW o \in Orders, \A x \in Orders : x # o => wallet'[x] = wallet[x]
  PROVE  TopUpState' = [TopUpState EXCEPT ![o] = TopUpOf(wallet'[o])]
<1>1. TopUpState = [x \in Orders |-> TopUpOf(wallet[x])]
  BY DEF TopUpState, TopUpOf
<1>2. TopUpState' = [x \in Orders |-> TopUpOf(wallet'[x])]
  BY DEF TopUpState, TopUpOf
<1> QED
  BY <1>1, <1>2

LEMMA NoticeMoves ==
  ASSUME NEW o \in Orders, NEW silent,
         \A x \in Orders : x # o => orders'[x].notify = orders[x].notify
  PROVE  NoticeState(silent)' =
           [NoticeState(silent) EXCEPT ![o] = NoticeOf(orders'[o].notify, o \in silent)]
<1>1. NoticeState(silent) =
        [x \in Orders |-> NoticeOf(orders[x].notify, x \in silent)]
  BY DEF NoticeState, NoticeOf
<1>2. NoticeState(silent)' =
        [x \in Orders |-> NoticeOf(orders'[x].notify, x \in silent)]
  BY DEF NoticeState, NoticeOf
<1> QED
  BY <1>1, <1>2

\* What changes none of them is not seen at all.
LEMMA Unseen ==
  ASSUME NEW silent,
         \A x \in Orders : /\ gw'[x].captured = gw[x].captured
                           /\ wallet'[x] = wallet[x]
                           /\ orders'[x].notify = orders[x].notify
  PROVE  UNCHANGED <<MoneyTaken, TopUpState, NoticeState(silent)>>
<1>1. MoneyTaken' = MoneyTaken
  BY DEF MoneyTaken
<1>2. TopUpState' = TopUpState
  BY DEF TopUpState
<1>3. NoticeState(silent)' = NoticeState(silent)
  BY DEF NoticeState
<1> QED
  BY <1>1, <1>2, <1>3

LEMMA ViewTypes ==
  ASSUME WorldTypeOK, NEW silent
  PROVE  /\ MoneyTaken \in [Orders -> BOOLEAN]
         /\ TopUpState \in [Orders -> {"open", "credited", "granted", "expired", "foreign"}]
         /\ NoticeState(silent) \in [Orders -> {"none", "owed", "answered", "given up"}]
<1>1. MoneyTaken \in [Orders -> BOOLEAN]
  BY DEF WorldTypeOK, GatewayOrders, MoneyTaken
<1>2. TopUpState \in [Orders -> {"open", "credited", "granted", "expired", "foreign"}]
  BY DEF WorldTypeOK, WalletStates, TopUpState
<1>3. NoticeState(silent) \in [Orders -> {"none", "owed", "answered", "given up"}]
  BY DEF NoticeState
<1> QED
  BY <1>1, <1>2, <1>3

-----------------------------------------------------------------------------
(* Gateway orders and time. *)

\* The gateway order g is unpaid at time t, and too late to be paid.
OverAt(g, t) ==
  /\ g.state # NoOrder /\ ~ g.captured
  /\ \/ t >= g.expiry + ChannelGrace
     \/ g.state = StateClosed /\ t >= g.since + ChannelGrace

Shut(g) == g.state \in {StateClosed, StateSuccess}

\* How the dates of the gateway order g agree with each other and with time t.
DatesAgree(g, t) ==
  /\ g.since <= g.expiry
  /\ g.captured => g.state = StateIng \/ Shut(g)
  /\ g.captured /\ g.state # StateSuccess => t <= g.since + SettleLag

\* What may become of a gateway order at time t.
Move(g, h, t) ==
  /\ h.expiry = g.expiry
  /\ \/ h = g
     \/ /\ g.state = StateInit /\ h.state = StateIng
        /\ h.captured = g.captured /\ h.since = g.since
     \/ /\ g.state = StateIng /\ ~ g.captured /\ t <= g.expiry
        /\ h.state = StateIng /\ h.captured /\ h.since = t
     \/ /\ g.state = StateClosed /\ ~ g.captured /\ t <= g.since + SettleLag
        /\ h.state = StateClosed /\ h.captured /\ h.since = g.since
     \/ /\ g.state \in {StateIng, StateClosed} /\ g.captured
        /\ h.state = StateSuccess /\ h.captured /\ h.since = g.since
     \/ /\ g.state \in {StateInit, StateIng} /\ ~ g.captured
        /\ h.state = StateFail /\ ~ h.captured /\ h.since = g.since
     \/ /\ g.state \in {StateInit, StateIng} /\ ~ g.captured
        /\ h.state = StateClosed /\ ~ h.captured /\ h.since <= g.expiry

LEMMA ClosedMove ==
  ASSUME NEW g \in GatewayOrders, NEW t \in Nat,
         g.state \in {StateInit, StateIng}, ~ g.captured
  PROVE  Move(g, Closed(g, t), t) /\ Closed(g, t).since <= t
<1>1. g.expiry \in Nat /\ g.captured \in BOOLEAN
  BY DEF GatewayOrders
<1> DEFINE c == Closed(g, t)
<1>2. /\ c.captured = g.captured /\ c.expiry = g.expiry /\ c.state = StateClosed
      /\ g.state # StateIng => c.since = 0
      /\ g.state = StateIng => c.since <= t /\ c.since <= g.expiry
  BY ClosedFacts
<1> HIDE DEF c
<1>3. c.since <= g.expiry /\ c.since <= t
  BY <1>1, <1>2
<1> QED
  BY <1>2, <1>3 DEF Move, c

\* What the gateway, the customer and the administrator do is a move of one
\* gateway order, a grant, or a payment notification.
LEMMA WorldTurns ==
  ASSUME WorldTypeOK, WorldStep
  PROVE  \E o \in Orders :
           \/ \E h \in GatewayOrders : GatewayStep(o, h) /\ Move(gw[o], h, now)
           \/ AdministratorGrants(o)
           \/ HandleJeepayNotify(o)
<1>1. PICK o \in Orders : \/ GatewaySends(o)
                          \/ CustomerPays(o)
                          \/ LatePayment(o)
                          \/ GatewayConfirms(o)
                          \/ GatewayFails(o)
                          \/ GatewayExpires(o)
                          \/ AdministratorGrants(o)
                          \/ HandleJeepayNotify(o)
  BY DEF WorldStep
<1> DEFINE turn(h) == h \in GatewayOrders /\ Move(gw[o], h, now)
<1>2. gw[o] \in GatewayOrders /\ now \in Nat
  BY DEF WorldTypeOK
<1>3. ASSUME GatewaySends(o)
      PROVE  turn([gw[o] EXCEPT !.state = StateIng])
  BY <1>2, <1>3 DEF GatewaySends, Move, GatewayOrders
<1>4. ASSUME CustomerPays(o)
      PROVE  turn([gw[o] EXCEPT !.captured = TRUE, !.since = now])
  BY <1>2, <1>4 DEF CustomerPays, Move, GatewayOrders
<1>5. ASSUME LatePayment(o)
      PROVE  turn([gw[o] EXCEPT !.captured = TRUE])
  BY <1>2, <1>5 DEF LatePayment, Move, GatewayOrders
<1>6. ASSUME GatewayConfirms(o)
      PROVE  turn([gw[o] EXCEPT !.state = StateSuccess])
  BY <1>2, <1>6 DEF GatewayConfirms, Move, GatewayOrders
<1>7. ASSUME GatewayFails(o)
      PROVE  turn([gw[o] EXCEPT !.state = StateFail])
  BY <1>2, <1>7 DEF GatewayFails, Move, GatewayOrders
<1>8. ASSUME GatewayExpires(o)
      PROVE  turn(Closed(gw[o], now))
  BY <1>2, <1>8, ClosedFacts, ClosedMove DEF GatewayExpires
<1> HIDE DEF turn
<1>9. \/ \E h : GatewayStep(o, h) /\ turn(h)
      \/ AdministratorGrants(o) \/ HandleJeepayNotify(o)
  BY <1>1, <1>3, <1>4, <1>5, <1>6, <1>7, <1>8
     DEF GatewaySends, CustomerPays, LatePayment, GatewayConfirms, GatewayFails, GatewayExpires
<1> QED
  BY <1>9 DEF turn

LEMMA CloseMoves ==
  ASSUME NEW g \in GatewayOrders, NEW t \in Nat, NEW answer \in CloseAnswers(g, t)
  PROVE  /\ Move(g, answer.order, t)
         /\ answer.kind = "success" =>
              answer.order.state = StateClosed /\ answer.order.since <= t
<1>1. CASE g.state \in {StateInit, StateIng} /\ ~ g.captured
  <2>1. \/ answer = [kind |-> "success", order |-> Closed(g, t)]
        \/ answer = [kind |-> "failed",  order |-> Closed(g, t)]
        \/ answer = [kind |-> "failed",  order |-> g]
    BY <1>1 DEF CloseAnswers
  <2>2. Move(g, Closed(g, t), t) /\ Closed(g, t).since <= t /\ Closed(g, t).state = StateClosed
    BY <1>1, ClosedMove, ClosedFacts
  <2>3. Move(g, g, t)
    BY DEF Move
  <2> QED
    BY <2>1, <2>2, <2>3
<1>2. CASE ~ (g.state \in {StateInit, StateIng} /\ ~ g.captured)
  <2>1. answer.order = g /\ answer.kind # "success"
    <3>1. CASE g.state \in {StateInit, StateIng} /\ g.captured
      <4>1. answer \in {[kind |-> "paid", order |-> g], [kind |-> "failed", order |-> g]}
        BY <1>2, <3>1 DEF CloseAnswers
      <4> QED
        BY <4>1
    <3>2. CASE g.state \notin {StateInit, StateIng}
      <4>1. answer \in {[kind |-> "rejected", order |-> g]}
        BY <1>2, <3>2 DEF CloseAnswers
      <4> QED
        BY <4>1
    <3> QED
      BY <1>2, <3>1, <3>2
  <2> QED
    BY <2>1 DEF Move
<1> QED
  BY <1>1, <1>2

\* The dates agree after a move, and after a tick that waits for confirmations.
LEMMA DatesKept ==
  ASSUME NEW g \in GatewayOrders, NEW h \in GatewayOrders, NEW t \in Nat, NEW u \in Nat,
         DatesAgree(g, t), Move(g, h, t),
         \/ u = t
         \/ h = g /\ (g.captured /\ g.state # StateSuccess => u <= g.since + SettleLag)
  PROVE  DatesAgree(h, u)
<1>1. /\ g.expiry \in Nat /\ g.since \in Nat /\ h.since \in Nat /\ h.expiry \in Nat
      /\ g.captured \in BOOLEAN /\ h.captured \in BOOLEAN /\ SettleLag \in Nat
  BY TimeAssumption DEF GatewayOrders
<1>2. CASE h = g
  BY <1>2 DEF DatesAgree
<1>3. CASE h # g
  BY <1>1, <1>3 DEF DatesAgree, Move, Shut
<1> QED
  BY <1>2, <1>3

\* What is shut stays shut, and keeps its time.
LEMMA ShutKept ==
  ASSUME NEW g, NEW h, NEW t, Move(g, h, t), Shut(g)
  PROVE  Shut(h) /\ h.since = g.since
BY DEF Move, Shut

\* What is over stays over.
LEMMA OverKept ==
  ASSUME SettleLag < ChannelGrace, NEW g \in GatewayOrders, NEW h \in GatewayOrders,
         NEW t \in Nat, NEW u \in Nat, u >= t,
         DatesAgree(g, t), Move(g, h, t), OverAt(g, t)
  PROVE  OverAt(h, u)
<1>1. /\ g.expiry \in Nat /\ g.since \in Nat /\ h.since \in Nat /\ h.expiry \in Nat
      /\ SettleLag \in Nat /\ ChannelGrace \in Nat
  BY TimeAssumption, CloseAssumption DEF GatewayOrders
<1>2. g.since <= g.expiry
  BY DEF DatesAgree
<1>3. ~ g.captured /\ ~ h.captured /\ h.state # NoOrder
  <2>1. \/ t >= g.expiry + ChannelGrace
        \/ g.state = StateClosed /\ t >= g.since + ChannelGrace
    BY DEF OverAt
  <2>2. g.state = StateIng => ~ (t <= g.expiry)
    BY <1>1, <2>1
  <2>3. ~ (t <= g.since + SettleLag)
    BY <1>1, <1>2, <2>1
  <2>4. ~ g.captured /\ g.state # NoOrder
    BY DEF OverAt
  <2>5. ~ h.captured
    BY <2>2, <2>3, <2>4 DEF Move
  <2> QED
    BY <2>4, <2>5 DEF Move
<1>4. h.expiry = g.expiry
  BY DEF Move
<1>5. CASE t >= g.expiry + ChannelGrace
  <2>1. u >= h.expiry + ChannelGrace
    BY <1>1, <1>4, <1>5
  <2> QED
    BY <1>3, <2>1 DEF OverAt
<1>6. CASE g.state = StateClosed /\ t >= g.since + ChannelGrace
  <2>1. h.state = StateClosed
    BY <1>3, <1>6 DEF Move
  <2>2. h.since = g.since
    BY <1>3, <1>6 DEF Move
  <2>3. t >= g.since + ChannelGrace
    BY <1>6
  <2>4. u >= h.since + ChannelGrace
    BY <1>1, <2>2, <2>3
  <2> QED
    BY <1>3, <2>1, <2>4 DEF OverAt
<1> QED
  BY <1>5, <1>6 DEF OverAt

\* No payment is under way so long after the channel ceased to take payments.
LEMMA NoneUnderWay ==
  ASSUME SettleLag < ChannelGrace, NEW g \in GatewayOrders, NEW t \in Nat, DatesAgree(g, t),
         t >= g.expiry + ChannelGrace \/ (Shut(g) /\ t >= g.since + ChannelGrace)
  PROVE  g.state \notin {NoOrder, StateSuccess} => OverAt(g, t)
<1>1. /\ g.expiry \in Nat /\ g.since \in Nat
      /\ SettleLag \in Nat /\ ChannelGrace \in Nat
  BY TimeAssumption, CloseAssumption DEF GatewayOrders
<1>2. g.since <= g.expiry
  BY DEF DatesAgree
<1>3. t >= g.expiry + ChannelGrace \/ t >= g.since + ChannelGrace
  OBVIOUS
<1>4. ~ (t <= g.since + SettleLag)
  BY <1>1, <1>2, <1>3
<1>5. g.state # StateSuccess => ~ g.captured
  BY <1>4 DEF DatesAgree
<1> QED
  BY <1>5 DEF OverAt, Shut

\* What is over has ceased to take payments ChannelGrace ago.
LEMMA OverIsLate ==
  ASSUME NEW g \in GatewayOrders, NEW t \in Nat, DatesAgree(g, t), OverAt(g, t)
  PROVE  t >= g.since + ChannelGrace
<1>1. g.expiry \in Nat /\ g.since \in Nat /\ ChannelGrace \in Nat
  BY CloseAssumption DEF GatewayOrders
<1>2. g.since <= g.expiry
  BY DEF DatesAgree
<1>3. t >= g.expiry + ChannelGrace \/ t >= g.since + ChannelGrace
  BY DEF OverAt
<1> QED
  BY <1>1, <1>2, <1>3

\* ChannelGrace after a time at which the channel had ceased to take payments.
LEMMA ClosedIsLate ==
  ASSUME NEW g \in GatewayOrders, NEW at \in Nat, NEW t \in Nat,
         g.since <= at, t >= at + ChannelGrace
  PROVE  t >= g.since + ChannelGrace
<1>1. g.since \in Nat /\ ChannelGrace \in Nat
  BY CloseAssumption DEF GatewayOrders
<1> QED
  BY <1>1

-----------------------------------------------------------------------------
(* The decisions of the closer. *)

\* A plan to expire without asking the gateway to close is made of an order that
\* was closed before or missed; a plan to close first, of one that is missed.
LEMMA DecideQueryDue ==
  ASSUME NEW state \in GatewayStates, NEW amount, NEW orderAmount,
         NEW requery \in BOOLEAN, NEW at, NEW expireAt
  PROVE  LET plan == decideQuery(state, amount, orderAmount, requery, at, expireAt)
         IN /\ plan.expire => requery \/ missedDue(at, expireAt)
            /\ plan.callClose => ~ requery
            /\ plan.callClose => ~ plan.markPaid /\ ~ plan.block
            /\ plan.expire \/ plan.callClose => state # StateSuccess
            /\ plan.markPaid => state = StateSuccess
<1> DEFINE plan == decideQuery(state, amount, orderAmount, requery, at, expireAt)
<1>1. CASE state = StateSuccess
  BY <1>1 DEF decideQuery, paidPlan, NoPlan
<1>2. CASE state # StateSuccess /\ requery
  BY <1>2 DEF decideQuery, NoPlan
<1>3. CASE state # StateSuccess /\ ~ requery
  <2>1. plan = openPlan(state, at, expireAt)
    BY <1>3 DEF decideQuery
  <2>2. missedDue(at, expireAt) \in BOOLEAN
    BY DEF missedDue
  <2> DEFINE p == openPlan(state, at, expireAt)
  <2>3. /\ p.expire => missedDue(at, expireAt)
        /\ ~ p.markPaid /\ ~ p.block
    <3>1. CASE state = StateIng
      BY <3>1 DEF openPlan, NoPlan
    <3>2. CASE state = StateInit
      BY <2>2, <3>2 DEF openPlan, NoPlan
    <3>3. CASE state \in {StateFail, StateClosed}
      BY <2>2, <3>3 DEF openPlan, NoPlan
    <3>4. CASE state = NoOrder
      BY <3>4 DEF openPlan, NoPlan
    <3> QED
      BY <1>3, <3>1, <3>2, <3>3, <3>4
  <2> HIDE DEF plan, p
  <2>4. plan = p
    BY <2>1 DEF plan, p
  <2>5. /\ plan.expire => requery \/ missedDue(at, expireAt)
        /\ plan.callClose => ~ requery
        /\ plan.callClose => ~ plan.markPaid /\ ~ plan.block
        /\ plan.expire \/ plan.callClose => state # StateSuccess
        /\ plan.markPaid => state = StateSuccess
    BY <1>3, <2>3, <2>4
  <2> QED
    BY <2>5 DEF plan
<1> QED
  BY <1>1, <1>2, <1>3
=============================================================================
