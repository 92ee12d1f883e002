------------------------------ MODULE Payments ------------------------------
(***************************************************************************)
(* What the adapter's components share: the clock, the orders table, and   *)
(* the two systems the adapter stands between.                             *)
(*                                                                         *)
(*   gw[o]      the Jeepay order with merchant number o                    *)
(*   wallet[o]  the NewAPI top-up with trade number o                      *)
(*                                                                         *)
(* The gateway and the wallet are outside the repository; they are         *)
(* modelled from how internal/jeepay, internal/wallet, internal/app and    *)
(* the two mocks use them.  The one handler of the adapter defined here is *)
(* the gateway's payment notification, because every component runs        *)
(* against it.                                                             *)
(***************************************************************************)
EXTENDS CloseDecision

CONSTANTS SettleLag,   \* longest time from a payment to state Success
          Skew,        \* most by which a gateway deadline may lie past expire_at
          Deadlines,   \* expire_at values of the orders a run starts with
          FirstStates, \* states the gateway orders of a run start in
          FirstWallet, \* states the top-ups of a run start in
          StartTime,   \* the clock when a run starts
          MaxTime,     \* bound: the clock stops here
          MaxRestarts  \* bound: restarts of the adapter

ASSUME TimeAssumption == /\ SettleLag \in Nat
                         /\ Skew \in Nat
                         /\ Deadlines \subseteq Nat
                         /\ FirstStates \subseteq {NoOrder, StateInit, StateIng}
                         /\ FirstWallet \subseteq {"pending", "missing", "not_epay"}
                         /\ StartTime \in Nat \ {0}
                         /\ MaxTime \in Nat
                         /\ MaxRestarts \in Nat

VARIABLES now, orders, gw, wallet, restarts

worldVars == <<now, orders, gw, wallet, restarts>>

WalletStates == {"pending",   \* waiting for the payment
                 "credited",  \* credited by the adapter's notification
                 "granted",   \* completed by an administrator
                 "failed",    \* expired through pay.expire_epay_topup
                 "missing",   \* no such top-up
                 "not_epay"}  \* a top-up of another payment method

\* captured: the customer's money has been taken.
\* since:    when it was taken or, before that, when the channel ceased to take
\*           payments.
GatewayOrders == [state    : GatewayStates,
                  amount   : Amounts,
                  expiry   : Nat,
                  captured : BOOLEAN,
                  since    : Nat]

WorldTypeOK == /\ now \in Nat
               /\ orders \in [Orders -> Rows]
               /\ gw \in [Orders -> GatewayOrders]
               /\ wallet \in [Orders -> WalletStates]
               /\ restarts \in Nat

\* The deadline a row has, or gets from the next migrate.
Deadline(row) ==
  IF row.expireAt = 0 THEN row.createdAt + LegacyTTL ELSE row.expireAt

\* Created orders, some of them left behind by an earlier crash: without a
\* deadline, without a gateway order, or with a gateway order whose answer
\* was never recorded.
FirstRow(amount, expireAt, payId) ==
  [Insert(amount, StartTime) EXCEPT !.expireAt = expireAt, !.payId = payId]

FirstRows == {FirstRow(a, e, p) : a \in Amounts, e \in Deadlines, p \in BOOLEAN}

FirstGatewayOrders ==
  {g \in [state : FirstStates, amount : Amounts, expiry : 0..MaxTime + Skew,
          captured : {FALSE}, since : {0}] : g.state = NoOrder => g.expiry = 0}

WorldInit ==
  /\ now = StartTime
  /\ restarts = 0
  /\ orders \in [Orders -> FirstRows]
  /\ gw \in [Orders -> FirstGatewayOrders]
  /\ \A o \in Orders :
       IF gw[o].state = NoOrder
       THEN ~ orders[o].payId /\ gw[o].amount = orders[o].amount
       ELSE gw[o].expiry \in Deadline(orders[o])..(Deadline(orders[o]) + Skew)
  /\ wallet \in [Orders -> FirstWallet]

-----------------------------------------------------------------------------
(* The gateway and the customer. *)

GatewayStep(o, order) ==
  /\ gw' = [gw EXCEPT ![o] = order]
  /\ UNCHANGED <<now, orders, wallet, restarts>>

\* The order reaches the payment channel, which can then be paid through.
GatewaySends(o) ==
  /\ gw[o].state = StateInit /\ now <= gw[o].expiry
  /\ GatewayStep(o, [gw[o] EXCEPT !.state = StateIng])

CustomerPays(o) ==
  /\ gw[o].state = StateIng /\ ~ gw[o].captured /\ now <= gw[o].expiry
  /\ GatewayStep(o, [gw[o] EXCEPT !.captured = TRUE, !.since = now])

\* A payment that was under way when the channel was closed still succeeds.
LatePayment(o) ==
  /\ gw[o].state = StateClosed /\ ~ gw[o].captured
  /\ gw[o].since > 0 /\ now <= gw[o].since + SettleLag
  /\ GatewayStep(o, [gw[o] EXCEPT !.captured = TRUE])

\* The gateway learns of the payment.
GatewayConfirms(o) ==
  /\ gw[o].captured /\ gw[o].state \in {StateIng, StateClosed}
  /\ GatewayStep(o, [gw[o] EXCEPT !.state = StateSuccess])

GatewayFails(o) ==
  /\ gw[o].state \in {StateInit, StateIng} /\ ~ gw[o].captured
  /\ GatewayStep(o, [gw[o] EXCEPT !.state = StateFail])

\* What closing does to a gateway order.  No payment is taken after the
\* expiry, and none is under way for an order that never reached the channel.
Closed(g, at) ==
  [g EXCEPT !.state = StateClosed,
            !.since = CASE g.state # StateIng -> 0
                        [] g.state = StateIng /\ at <= g.expiry -> at
                        [] OTHER -> g.expiry]

GatewayExpires(o) ==
  /\ gw[o].state \in {StateInit, StateIng} /\ ~ gw[o].captured
  /\ now > gw[o].expiry
  /\ GatewayStep(o, Closed(gw[o], now))

\* An answer to a close request for g received at the given time, and what
\* the request did.  An answer whose signature does not verify is "failed".
CloseAnswers(g, at) ==
  CASE g.state \in {StateInit, StateIng} /\ ~ g.captured ->
         {[kind |-> "success", order |-> Closed(g, at)],
          [kind |-> "failed",  order |-> Closed(g, at)],
          [kind |-> "failed",  order |-> g]}
    [] g.state \in {StateInit, StateIng} /\ g.captured ->
         {[kind |-> "paid", order |-> g], [kind |-> "failed", order |-> g]}
    [] OTHER -> {[kind |-> "rejected", order |-> g]}

-----------------------------------------------------------------------------
(* The wallet. *)

\* What pay.expire_epay_topup answers about a top-up, and does to it.
ExpireAnswer(w) == CASE w = "pending" -> "expired"
                     [] w \in {"credited", "granted"} -> "success"
                     [] OTHER -> w

ExpireEffect(w) == IF w = "pending" THEN "failed" ELSE w

\* NewAPI credits a pending top-up when it is told of the payment.
Credit(w) == IF w = "pending" THEN "credited" ELSE w

\* The answers it then gives.  It confirms what it has credited, denies what
\* it does not know, and may do either for what it can no longer credit.
CreditAnswers(w) == CASE w \in {"pending", "credited", "granted"} -> {"success"}
                      [] w = "missing" -> {"fail"}
                      [] OTHER -> {"success", "fail"}

\* An administrator completes the top-up by hand.
AdministratorGrants(o) ==
  /\ wallet[o] = "pending"
  /\ wallet' = [wallet EXCEPT ![o] = "granted"]
  /\ UNCHANGED <<now, orders, gw, restarts>>

-----------------------------------------------------------------------------
(* The adapter's handler of a payment notification.  The gateway sends one *)
(* when an order succeeds and repeats it for as long as it likes; one that *)
(* never comes is one that was lost.                                       *)

\* Mutant of HandleJeepayNotify: the amount is not compared.
HandleAnyAmount(o) ==
  /\ gw[o].state = StateSuccess
  /\ orders[o].status # "absent"
  /\ orders' = [orders EXCEPT ![o] = MarkPaid(@, TRUE, now)]
  /\ UNCHANGED <<now, gw, wallet, restarts>>

HandleJeepayNotify(o) ==
  /\ gw[o].state = StateSuccess
  /\ orders[o].status # "absent"
  /\ gw[o].amount = orders[o].amount
  /\ orders' = [orders EXCEPT ![o] = MarkPaid(@, TRUE, now)]
  /\ UNCHANGED <<now, gw, wallet, restarts>>

WorldStep == \E o \in Orders : \/ GatewaySends(o)
                               \/ CustomerPays(o)
                               \/ LatePayment(o)
                               \/ GatewayConfirms(o)
                               \/ GatewayFails(o)
                               \/ GatewayExpires(o)
                               \/ AdministratorGrants(o)
                               \/ HandleJeepayNotify(o)

\* A payment is confirmed within SettleLag, so time waits for it.
Tick == /\ now < MaxTime
        /\ \A o \in Orders :
             gw[o].captured /\ gw[o].state # StateSuccess => now < gw[o].since + SettleLag
        /\ now' = now + 1
        /\ UNCHANGED <<orders, gw, wallet, restarts>>

\* What a restart of the process does to the shared state.
Reopen == /\ restarts < MaxRestarts
          /\ restarts' = restarts + 1
          /\ orders' = Migrate(orders)
          /\ UNCHANGED <<now, gw, wallet>>

-----------------------------------------------------------------------------
(* Properties that the specifications built on this module share. *)

\* The notification credits only what was paid, at the amount ordered:
\* whatever route marked the order paid (HandleJeepayNotify, confirmFromJeepay,
\* Closer.one, or a wallet that already reported success).
CreditBacked ==
  \A o \in Orders : wallet[o] = "credited" =>
    gw[o].captured /\ gw[o].amount = orders[o].amount

\* The shared state as module TopUp sees it.
MoneyTaken == [o \in Orders |-> gw[o].captured]

TopUpState ==
  [o \in Orders |-> CASE wallet[o] = "pending" -> "open"
                     [] wallet[o] = "failed"  -> "expired"
                     [] wallet[o] \in {"missing", "not_epay"} -> "foreign"
                     [] OTHER -> wallet[o]]

\* A notification there is nobody to send to is given up, whatever the row says.
NoticeState(silent) ==
  [o \in Orders |-> CASE orders[o].notify = "pending" -> "owed"
                     [] orders[o].notify = "none"    -> "none"
                     [] orders[o].notify = "succeeded" /\ o \notin silent -> "answered"
                     [] OTHER -> "given up"]

\* An order recorded as paid stays so: no late decision of the closer, no
\* notification and no restart takes it back (MarkFailedIfCreated,
\* close_test.go TestMarkFailedIfCreatedDoesNotOverwritePaid).
PaidIsFinal ==
  [][\A o \in Orders : orders[o].status = "paid" => orders'[o].status = "paid"]_orders
=============================================================================
