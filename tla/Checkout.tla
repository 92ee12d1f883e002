------------------------------ MODULE Checkout ------------------------------
(***************************************************************************)
(* Placing an order (Submit and recoverExistingJeepay of                   *)
(* internal/app/service.go).  NewAPI sends the customer's browser to       *)
(* submit.php, so the same order may be submitted twice at once, again     *)
(* later, or again after a crash; no lock is held across the steps.  Each  *)
(* request works on the copy of the row it read or inserted at the start.  *)
(***************************************************************************)
EXTENDS Payments

CONSTANTS Submitters,  \* requests being served
          OrderTTL     \* PAY_ORDER_TTL_SEC: 3600 or 7200

ASSUME CheckoutAssumption == /\ OrderTTL \in Nat \ {0}
                             /\ Orders # {}
                             /\ Amounts # {}

VARIABLE submit

checkoutVars == <<now, orders, gw, wallet, restarts, submit>>

\* Not running; about to insert the row; to set its deadline; to place the
\* gateway order; to record the answer; to record that it is already paid; to
\* query the gateway after an error; to record what it knows; to record that
\* as paid; to record the order as failed.
SubmitPCs == {"idle", "insert", "deadline", "order", "update", "paid",
              "recover", "reupdate", "repaid", "fail"}

NoRequest == [pc |-> "idle", order |-> CHOOSE o \in Orders : TRUE,
              copy |-> Insert(CHOOSE a \in Amounts : TRUE, 0), state |-> NoOrder]

Requests == [pc : SubmitPCs, order : Orders, copy : Rows, state : GatewayStates]

Absent(row) == [row EXCEPT !.status = "absent"]

CheckoutInit ==
  /\ now = StartTime /\ restarts = 0
  /\ orders = [o \in Orders |-> Absent(NoRequest.copy)]
  /\ gw = [o \in Orders |-> [state |-> NoOrder, amount |-> CHOOSE a \in Amounts : TRUE,
                             expiry |-> 0, captured |-> FALSE, since |-> 0]]
  /\ wallet = [o \in Orders |-> "pending"]
  /\ submit = [s \in Submitters |-> NoRequest]

target(s) == submit[s].order
copy(s) == submit[s].copy

SetRequest(s, r) == submit' = [submit EXCEPT ![s] = r]
At(s, pc) == submit[s].pc = pc
Return(s) == SetRequest(s, NoRequest)
Continue(s, pc) == SetRequest(s, [submit[s] EXCEPT !.pc = pc])

Write(s, row) == /\ orders' = [orders EXCEPT ![target(s)] = row]
                 /\ UNCHANGED <<now, gw, wallet, restarts>>

-----------------------------------------------------------------------------
(* Submit *)

\* A row that is paid or has its payment code is answered with its page.
HasPage(row) == row.status = "paid" \/ row.payData

\* Mutant of SubmitReads: goes on with the amount of the request.
SubmitReadsRequested(s, o, amount) ==
  /\ At(s, "idle")
  /\ IF orders[o].status # "absent" /\ HasPage(orders[o])
     THEN Return(s)
     ELSE SetRequest(s, [NoRequest EXCEPT
            !.pc    = IF orders[o].status = "absent" THEN "insert" ELSE "deadline",
            !.order = o,
            !.copy  = IF orders[o].status = "absent" THEN Insert(amount, 0)
                      ELSE [orders[o] EXCEPT !.amount = amount]])
  /\ UNCHANGED worldVars

SubmitReads(s, o, amount) ==
  /\ At(s, "idle")
  /\ IF orders[o].status # "absent" /\ HasPage(orders[o])
     THEN Return(s)
     ELSE SetRequest(s, [NoRequest EXCEPT
            !.pc    = IF orders[o].status = "absent" THEN "insert" ELSE "deadline",
            !.order = o,
            !.copy  = IF orders[o].status = "absent" THEN Insert(amount, 0) ELSE orders[o]])
  /\ UNCHANGED worldVars

\* The row gets its creation time as it is inserted.  When another request has
\* inserted the row meanwhile, its page is returned.
SubmitInserts(s) ==
  /\ At(s, "insert")
  /\ IF orders[target(s)].status = "absent"
     THEN /\ Write(s, [copy(s) EXCEPT !.createdAt = now])
          /\ SetRequest(s, [submit[s] EXCEPT !.pc = "deadline", !.copy.createdAt = now])
     ELSE Return(s) /\ UNCHANGED worldVars

\* SetExpireAt is called when the copy has no deadline, whatever the row has.
SubmitSetsDeadline(s) ==
  /\ At(s, "deadline")
  /\ Write(s, IF copy(s).expireAt = 0
              THEN SetExpireAt(orders[target(s)], now + OrderTTL)
              ELSE orders[target(s)])
  /\ SetRequest(s, [submit[s] EXCEPT
       !.pc = "order",
       !.copy.expireAt = IF @ = 0 THEN now + OrderTTL ELSE @])

\* Mutant of Placed: a time to live turned into a moment of the past.
PlacedBackwards(amount, state) ==
  [state |-> state, amount |-> amount, expiry |-> now - OrderTTL,
   captured |-> state = StateSuccess,
   since |-> IF state = StateSuccess THEN now ELSE 0]

\* The gateway order as it is placed: not yet sent to the payment channel,
\* waiting for the payment, paid at once, or refused by the channel.  A payment
\* code comes with the second.
Placed(amount, state) ==
  [state |-> state, amount |-> amount, expiry |-> now + OrderTTL,
   captured |-> state = StateSuccess,
   since |-> IF state = StateSuccess THEN now ELSE 0]

PlacedStates == {StateInit, StateIng, StateSuccess, StateFail}

SubmitPlacesOrder(s, state) ==
  /\ At(s, "order") /\ gw[target(s)].state = NoOrder
  /\ gw' = [gw EXCEPT ![target(s)] = Placed(copy(s).amount, state)]
  /\ SetRequest(s, [submit[s] EXCEPT !.pc = "update", !.state = state])
  /\ UNCHANGED <<now, orders, wallet, restarts>>

\* An error: no answer to an order that was placed, none to one that was not,
\* or the refusal of a second order under the same number.
SubmitOrderFails(s) ==
  /\ At(s, "order")
  /\ \/ UNCHANGED gw
     \/ /\ gw[target(s)].state = NoOrder
        /\ \E state \in PlacedStates :
             gw' = [gw EXCEPT ![target(s)] = Placed(copy(s).amount, state)]
  /\ Continue(s, "recover")
  /\ UNCHANGED <<now, orders, wallet, restarts>>

SubmitUpdates(s) ==
  /\ At(s, "update")
  /\ Write(s, UpdateJeepay(orders[target(s)], TRUE, submit[s].state = StateIng))
  /\ IF submit[s].state = StateSuccess THEN Continue(s, "paid") ELSE Return(s)

SubmitMarksPaid(s) ==
  /\ At(s, "paid")
  /\ Write(s, MarkPaid(orders[target(s)], TRUE, now))
  /\ Return(s)

-----------------------------------------------------------------------------
(* recoverExistingJeepay, and MarkFailed when it fails *)

RecoverQueryFails(s) ==
  /\ At(s, "recover")
  /\ Continue(s, "fail")
  /\ UNCHANGED worldVars

RecoverQueries(s) ==
  /\ At(s, "recover") /\ gw[target(s)].state # NoOrder
  /\ SetRequest(s, [submit[s] EXCEPT !.pc = "reupdate", !.state = gw[target(s)].state])
  /\ UNCHANGED worldVars

\* Mutant of RecoverUpdates: an order the gateway has is taken for a paid one.
RecoverUpdatesKnown(s) ==
  /\ At(s, "reupdate")
  /\ Write(s, UpdateJeepay(orders[target(s)], TRUE, copy(s).payData))
  /\ IF submit[s].state # StateFail THEN Continue(s, "repaid") ELSE Continue(s, "fail")

\* The payment code written is that of the copy, which has none.
RecoverUpdates(s) ==
  /\ At(s, "reupdate")
  /\ Write(s, UpdateJeepay(orders[target(s)], TRUE, copy(s).payData))
  /\ CASE submit[s].state = StateSuccess -> Continue(s, "repaid")
       [] submit[s].state # StateSuccess /\ copy(s).payData -> Return(s)
       [] OTHER -> Continue(s, "fail")

RecoverMarksPaid(s) ==
  /\ At(s, "repaid")
  /\ Write(s, MarkPaid(orders[target(s)], TRUE, now))
  /\ Return(s)

SubmitFails(s) ==
  /\ At(s, "fail")
  /\ Write(s, MarkFailed(orders[target(s)]))
  /\ Return(s)

\* Mutant of SubmitGivesUp: goes on when the deadline cannot be written.
SubmitGoesOn(s) ==
  /\ submit[s].pc \in {"insert", "deadline", "update", "paid", "reupdate", "repaid", "fail"}
  /\ CASE At(s, "deadline") -> Continue(s, "order")
       [] At(s, "reupdate") -> Continue(s, "fail")
       [] OTHER -> Return(s)
  /\ UNCHANGED worldVars

\* The readiness probe of the wallet or a statement of the store fails: the
\* request ends, but for the update of recoverExistingJeepay, whose error
\* leads to MarkFailed like its others.
SubmitGivesUp(s) ==
  /\ submit[s].pc \in {"insert", "deadline", "update", "paid", "reupdate", "repaid", "fail"}
  /\ IF At(s, "reupdate") THEN Continue(s, "fail") ELSE Return(s)
  /\ UNCHANGED worldVars

SubmitStep(s) ==
  \/ \E o \in Orders, amount \in Amounts : SubmitReads(s, o, amount)
  \/ SubmitInserts(s)
  \/ SubmitSetsDeadline(s)
  \/ \E state \in PlacedStates : SubmitPlacesOrder(s, state)
  \/ SubmitOrderFails(s)
  \/ SubmitUpdates(s)
  \/ SubmitMarksPaid(s)
  \/ RecoverQueryFails(s)
  \/ RecoverQueries(s)
  \/ RecoverUpdates(s)
  \/ RecoverMarksPaid(s)
  \/ SubmitFails(s)
  \/ SubmitGivesUp(s)

-----------------------------------------------------------------------------
CheckoutRestart == Reopen /\ submit' = [s \in Submitters |-> NoRequest]

CheckoutNext == \/ \E s \in Submitters : SubmitStep(s)
                \/ WorldStep /\ UNCHANGED submit
                \/ Tick /\ UNCHANGED submit
                \/ CheckoutRestart

CheckoutSpec == CheckoutInit /\ [][CheckoutNext]_checkoutVars

-----------------------------------------------------------------------------
(* Properties *)

\* Every variable keeps its type.
CheckoutTypeOK ==
  /\ now \in Nat /\ restarts \in Nat
  /\ orders \in [Orders -> Rows]
  /\ gw \in [Orders -> GatewayOrders]
  /\ wallet \in [Orders -> WalletStates]
  /\ submit \in [Submitters -> Requests]

\* The amount asked of the customer is the amount of the row, even when
\* requests for one order name different amounts (README:48): otherwise every
\* confirmation of the payment would be refused.
AmountAgreement ==
  \A o \in Orders : gw[o].state # NoOrder =>
    orders[o].status # "absent" /\ gw[o].amount = orders[o].amount

\* A gateway order exists only once the row has its deadline, so that whatever
\* crashes, the closer will see it (Submit sets expire_at before UnifiedOrder).
DeadlineBeforeOrder ==
  \A o \in Orders : gw[o].state # NoOrder => orders[o].expireAt > 0

\* The deadline of a row never moves, whoever submits the order again
\* (SetExpireAt, and migrate at each restart).
DeadlineIsFixed ==
  [][\A o \in Orders : orders[o].expireAt > 0 =>
       orders'[o].expireAt = orders[o].expireAt]_orders

\* Only an order somebody has paid for is recorded as paid.
PaidIsCaptured ==
  \A o \in Orders : orders[o].status = "paid" => gw[o].captured

\* An order the gateway holds open is not recorded as failed: the closer would
\* never close it and no query would ever confirm it (service.go:164).
OpenOrderIsNotFailed ==
  \A o \in Orders : gw[o].state = StateIng => orders[o].status # "failed"
=============================================================================
