--------------------------- MODULE CheckoutProofs ---------------------------
(***************************************************************************)
(* What module Checkout keeps for any set of orders, any number of         *)
(* requests served at once, any amounts they name and any time to live.    *)
(*                                                                         *)
(* No lock is held across the steps of a request, and MarkFailed and       *)
(* UpdateJeepay write whatever the row has become.  What a request relies  *)
(* on is what no other request undoes (Kept): a row that exists, its       *)
(* amount, its deadline once it has one, and a payment once taken.         *)
(***************************************************************************)
EXTENDS Checkout, PaymentsProofs, TLAPS

USE DEF GatewayStates, NoOrder, StateInit, StateIng, StateSuccess, StateFail, StateClosed

\* The gateway order and the row of one order.
OrderAgrees(row, g) ==
  /\ g.state # NoOrder => /\ row.status # "absent"
                          /\ g.amount = row.amount
                          /\ row.expireAt # 0
  /\ g.captured => g.state # NoOrder
  /\ g.state = StateSuccess => g.captured
  /\ row.status = "paid" => g.captured
  /\ row.status = "absent" => row.expireAt = 0

\* What a request knows of the order it works on.
RequestAgrees(r, row, g) ==
  /\ r.pc = "insert" => r.copy.status = "created" /\ r.copy.expireAt = 0
  /\ r.pc \notin {"idle", "insert"} => row.status # "absent" /\ r.copy.amount = row.amount
  /\ r.pc = "deadline" /\ r.copy.expireAt # 0 => row.expireAt # 0
  /\ r.pc \notin {"idle", "insert", "deadline"} => row.expireAt # 0
  /\ r.pc \in {"paid", "repaid"} => g.captured
  /\ r.pc \in {"update", "reupdate"} /\ r.state = StateSuccess => g.captured

CheckoutIInv ==
  /\ WorldTypeOK
  /\ submit \in [Submitters -> Requests]
  /\ \A o \in Orders : OrderAgrees(orders[o], gw[o])
  /\ \A s \in Submitters : RequestAgrees(submit[s], orders[target(s)], gw[target(s)])

\* What no step undoes.
Kept(row, g, newRow, newG) ==
  /\ row.status # "absent" => newRow.status # "absent" /\ newRow.amount = row.amount
  /\ row.expireAt # 0 => newRow.expireAt = row.expireAt
  /\ g.captured => newG.captured

StepGoal == /\ CheckoutIInv'
            /\ \A o \in Orders : Kept(orders[o], gw[o], orders'[o], gw'[o])

-----------------------------------------------------------------------------
LEMMA RequestKept ==
  ASSUME NEW r, NEW row, NEW g, NEW newRow, NEW newG,
         RequestAgrees(r, row, g), Kept(row, g, newRow, newG)
  PROVE  RequestAgrees(r, newRow, newG)
BY DEF RequestAgrees, Kept

LEMMA StepKeeps ==
  ASSUME CheckoutIInv, WorldTypeOK', submit' \in [Submitters -> Requests],
         \A o \in Orders : /\ OrderAgrees(orders'[o], gw'[o])
                           /\ Kept(orders[o], gw[o], orders'[o], gw'[o]),
         \A s \in Submitters : submit'[s] # submit[s] =>
           RequestAgrees(submit'[s], orders'[submit'[s].order], gw'[submit'[s].order])
  PROVE  StepGoal
<1>1. ASSUME NEW s \in Submitters
      PROVE  RequestAgrees(submit'[s], orders'[submit'[s].order], gw'[submit'[s].order])
  <2>1. CASE submit'[s] = submit[s]
    <3>1. submit[s].order \in Orders
      BY DEF CheckoutIInv, Requests
    <3>2. RequestAgrees(submit[s], orders[submit[s].order], gw[submit[s].order])
      BY DEF CheckoutIInv, target
    <3>3. RequestAgrees(submit[s], orders'[submit[s].order], gw'[submit[s].order])
      BY <3>1, <3>2, RequestKept
    <3> QED
      BY <2>1, <3>3
  <2> QED
    BY <2>1
<1>2. CheckoutIInv'
  BY <1>1 DEF CheckoutIInv, target
<1> QED
  BY <1>2 DEF StepGoal

LEMMA Target ==
  ASSUME CheckoutIInv, NEW s \in Submitters
  PROVE  /\ submit \in [Submitters -> Requests] /\ submit[s] \in Requests
         /\ target(s) \in Orders /\ copy(s) \in Rows
         /\ orders \in [Orders -> Rows] /\ orders[target(s)] \in Rows
         /\ gw \in [Orders -> GatewayOrders] /\ gw[target(s)] \in GatewayOrders
         /\ now \in Nat
         /\ OrderAgrees(orders[target(s)], gw[target(s)])
         /\ RequestAgrees(submit[s], orders[target(s)], gw[target(s)])
BY DEF CheckoutIInv, Requests, WorldTypeOK, target, copy

LEMMA NoRequestFacts ==
  /\ NoRequest \in Requests /\ NoRequest.pc = "idle" /\ NoRequest.copy \in Rows
  /\ NoRequest.copy.expireAt = 0
  /\ \A row, g : RequestAgrees(NoRequest, row, g)
<1> DEFINE o == CHOOSE x \in Orders : TRUE
           a == CHOOSE x \in Amounts : TRUE
<1>1. o \in Orders /\ a \in Amounts
  BY CheckoutAssumption
<1>2. Insert(a, 0) \in Rows /\ Insert(a, 0).expireAt = 0
  BY <1>1 DEF Insert, Rows, PayStatuses, NotifyStatuses
<1>3. NoRequest = [pc |-> "idle", order |-> o, copy |-> Insert(a, 0), state |-> NoOrder]
  BY DEF NoRequest
<1> HIDE DEF o, a
<1>4. NoRequest \in Requests /\ NoRequest.pc = "idle" /\ NoRequest.copy = Insert(a, 0)
  BY <1>1, <1>2, <1>3 DEF Requests, SubmitPCs
<1> QED
  BY <1>2, <1>4 DEF RequestAgrees

\* One request goes on, and the row or the gateway order it works on with it.
LEMMA RequestStep ==
  ASSUME CheckoutIInv, NEW s \in Submitters, NEW r \in Requests, SetRequest(s, r),
         NEW q \in Rows, NEW h \in GatewayOrders,
         orders' = [orders EXCEPT ![target(s)] = q], gw' = [gw EXCEPT ![target(s)] = h],
         UNCHANGED <<now, wallet, restarts>>,
         OrderAgrees(q, h), Kept(orders[target(s)], gw[target(s)], q, h),
         \/ r.order = target(s) /\ RequestAgrees(r, q, h)
         \/ r = NoRequest
  PROVE  StepGoal
<1>1. /\ submit \in [Submitters -> Requests] /\ orders \in [Orders -> Rows]
      /\ gw \in [Orders -> GatewayOrders] /\ target(s) \in Orders
  BY Target
<1>2. \A o \in Orders : /\ orders'[o] = IF o = target(s) THEN q ELSE orders[o]
                        /\ gw'[o] = IF o = target(s) THEN h ELSE gw[o]
  BY <1>1
<1>3. WorldTypeOK'
  <2>1. orders' \in [Orders -> Rows] /\ gw' \in [Orders -> GatewayOrders]
    BY <1>1
  <2> QED
    BY <2>1 DEF CheckoutIInv, WorldTypeOK
<1>4. /\ submit' \in [Submitters -> Requests]
      /\ \A t \in Submitters : submit'[t] = IF t = s THEN r ELSE submit[t]
  BY <1>1 DEF SetRequest
<1>5. \A o \in Orders : /\ OrderAgrees(orders'[o], gw'[o])
                        /\ Kept(orders[o], gw[o], orders'[o], gw'[o])
  BY <1>2 DEF CheckoutIInv, Kept
<1>6. ASSUME NEW t \in Submitters, submit'[t] # submit[t]
      PROVE  RequestAgrees(submit'[t], orders'[submit'[t].order], gw'[submit'[t].order])
  <2>1. submit'[t] = r
    BY <1>4, <1>6
  <2>2. CASE r = NoRequest
    BY <2>1, <2>2, NoRequestFacts
  <2>3. CASE r.order = target(s) /\ RequestAgrees(r, q, h)
    BY <1>1, <1>2, <2>1, <2>3
  <2> QED
    BY <2>2, <2>3
<1> QED
  BY <1>3, <1>4, <1>5, <1>6, StepKeeps

\* A request that writes the row, or only reads.
LEMMA WriteStep ==
  ASSUME CheckoutIInv, NEW s \in Submitters, NEW r \in Requests, SetRequest(s, r),
         NEW q \in Rows, Write(s, q),
         OrderAgrees(q, gw[target(s)]),
         Kept(orders[target(s)], gw[target(s)], q, gw[target(s)]),
         \/ r.order = target(s) /\ RequestAgrees(r, q, gw[target(s)])
         \/ r = NoRequest
  PROVE  StepGoal
<1> DEFINE h == gw[target(s)]
<1>1. h \in GatewayOrders /\ gw' = [gw EXCEPT ![target(s)] = h]
  BY Target DEF Write
<1>2. orders' = [orders EXCEPT ![target(s)] = q] /\ UNCHANGED <<now, wallet, restarts>>
  BY DEF Write
<1> QED
  BY <1>1, <1>2, RequestStep

LEMMA ReadStep ==
  ASSUME CheckoutIInv, NEW s \in Submitters, NEW r \in Requests, SetRequest(s, r),
         UNCHANGED worldVars,
         \/ /\ r.order \in Orders
            /\ RequestAgrees(r, orders[r.order], gw[r.order])
         \/ r = NoRequest
  PROVE  StepGoal
<1>1. UNCHANGED <<now, orders, gw, wallet, restarts>>
  BY DEF worldVars
<1>2. WorldTypeOK'
  BY <1>1 DEF CheckoutIInv, WorldTypeOK
<1>3. \A o \in Orders : /\ OrderAgrees(orders'[o], gw'[o])
                        /\ Kept(orders[o], gw[o], orders'[o], gw'[o])
  BY <1>1 DEF CheckoutIInv, Kept
<1>4. /\ submit' \in [Submitters -> Requests]
      /\ \A t \in Submitters : submit'[t] = IF t = s THEN r ELSE submit[t]
  BY Target DEF SetRequest
<1>5. ASSUME NEW t \in Submitters, submit'[t] # submit[t]
      PROVE  RequestAgrees(submit'[t], orders'[submit'[t].order], gw'[submit'[t].order])
  <2>1. submit'[t] = r
    BY <1>4, <1>5
  <2> QED
    BY <1>1, <2>1, NoRequestFacts
<1> QED
  BY <1>2, <1>3, <1>4, <1>5, StepKeeps

-----------------------------------------------------------------------------
(* Submit *)

\* SET expire_at = ? WHERE expire_at = 0.
LEMMA SetExpireAtFacts ==
  ASSUME NEW r \in Rows, NEW t \in Nat
  PROVE  /\ SetExpireAt(r, t) \in Rows
         /\ SetExpireAt(r, t).status = r.status /\ SetExpireAt(r, t).amount = r.amount
         /\ SetExpireAt(r, t).expireAt = (IF r.expireAt = 0 THEN t ELSE r.expireAt)
BY DEF SetExpireAt, Rows

LEMMA MarkPaidFacts ==
  ASSUME NEW r \in Rows, NEW t \in Nat
  PROVE  LET q == MarkPaid(r, TRUE, t)
         IN q \in Rows /\ q.status = "paid" /\ q.amount = r.amount /\ q.expireAt = r.expireAt
<1>1. TRUE \in BOOLEAN
  OBVIOUS
<1> QED
  BY <1>1, RowOpsType, RowOpsKeep, RowOpsStatus

LEMMA ReturnKeeps ==
  ASSUME CheckoutIInv, NEW s \in Submitters, Return(s), UNCHANGED worldVars
  PROVE  StepGoal
BY NoRequestFacts, ReadStep DEF Return

\* Going on to another step, with the rest of the request as it was.
LEMMA GoOn ==
  ASSUME CheckoutIInv, NEW s \in Submitters, NEW pc \in SubmitPCs
  PROVE  LET r == [submit[s] EXCEPT !.pc = pc]
         IN /\ r \in Requests /\ r.pc = pc /\ r.order = target(s)
            /\ r.copy = copy(s) /\ r.state = submit[s].state
<1>1. submit[s] \in Requests
  BY Target
<1> QED
  BY <1>1 DEF Requests, target, copy

LEMMA SubmitReadsKeeps ==
  ASSUME CheckoutIInv, NEW s \in Submitters, NEW o \in Orders, NEW amount \in Amounts,
         SubmitReads(s, o, amount)
  PROVE  StepGoal
<1> DEFINE new == orders[o].status = "absent"
           c == IF new THEN Insert(amount, 0) ELSE orders[o]
           pc == IF new THEN "insert" ELSE "deadline"
           r == [NoRequest EXCEPT !.pc = pc, !.order = o, !.copy = c]
<1>1. orders[o] \in Rows /\ now \in Nat /\ OrderAgrees(orders[o], gw[o])
  BY DEF CheckoutIInv, WorldTypeOK
<1>2. CASE orders[o].status # "absent" /\ HasPage(orders[o])
  BY <1>2, ReturnKeeps DEF SubmitReads
<1>3. CASE ~ (orders[o].status # "absent" /\ HasPage(orders[o]))
  <2>1. SetRequest(s, r) /\ UNCHANGED worldVars
    BY <1>3 DEF SubmitReads
  <2>2. /\ Insert(amount, 0) \in Rows /\ Insert(amount, 0).status = "created"
        /\ Insert(amount, 0).expireAt = 0
    BY <1>1 DEF Insert, Rows, PayStatuses, NotifyStatuses
  <2>3. c \in Rows /\ pc \in SubmitPCs
    BY <1>1, <2>2 DEF SubmitPCs
  <2> HIDE DEF c, pc
  <2>4. r \in Requests /\ r.pc = pc /\ r.order = o /\ r.copy = c
    BY <2>3, NoRequestFacts DEF Requests
  <2> HIDE DEF r
  <2>5. RequestAgrees(r, orders[o], gw[o])
    BY <2>2, <2>4 DEF RequestAgrees, c, pc
  <2> QED
    BY <2>1, <2>4, <2>5, ReadStep
<1> QED
  BY <1>2, <1>3

LEMMA SubmitInsertsKeeps ==
  ASSUME CheckoutIInv, NEW s \in Submitters, SubmitInserts(s)
  PROVE  StepGoal
<1>1. At(s, "insert")
  BY DEF SubmitInserts
<1>2. CASE orders[target(s)].status = "absent"
  <2> DEFINE c == [copy(s) EXCEPT !.createdAt = now]
             r == [submit[s] EXCEPT !.pc = "deadline", !.copy = c]
  <2>1. Write(s, c) /\ SetRequest(s, r)
    BY <1>2 DEF SubmitInserts, copy
  <2>2. c \in Rows /\ c.status = "created" /\ c.expireAt = 0
    <3>1. /\ copy(s).status = "created" /\ copy(s).expireAt = 0 /\ copy(s) \in Rows
          /\ now \in Nat
      BY <1>1, Target DEF RequestAgrees, At, copy
    <3> QED
      BY <3>1 DEF Rows
  <2> HIDE DEF c
  <2>3. r \in Requests /\ r.pc = "deadline" /\ r.order = target(s) /\ r.copy = c
    <3>1. submit[s] \in Requests /\ "deadline" \in SubmitPCs
      BY Target DEF SubmitPCs
    <3> QED
      BY <2>2, <3>1 DEF Requests, target
  <2> HIDE DEF r
  <2>4. OrderAgrees(c, gw[target(s)]) /\ orders[target(s)].expireAt = 0
    BY <1>2, <2>2, Target DEF OrderAgrees
  <2>5. Kept(orders[target(s)], gw[target(s)], c, gw[target(s)])
    BY <1>2, <2>4 DEF Kept
  <2>6. RequestAgrees(r, c, gw[target(s)])
    BY <2>2, <2>3 DEF RequestAgrees
  <2> QED
    BY <2>1, <2>2, <2>3, <2>4, <2>5, <2>6, WriteStep
<1>3. CASE orders[target(s)].status # "absent"
  BY <1>3, ReturnKeeps DEF SubmitInserts
<1> QED
  BY <1>2, <1>3

LEMMA LaterIsPositive == ASSUME NEW t \in Nat PROVE t + OrderTTL \in Nat /\ t + OrderTTL # 0
BY CheckoutAssumption

LEMMA SubmitSetsDeadlineKeeps ==
  ASSUME CheckoutIInv, NEW s \in Submitters, SubmitSetsDeadline(s)
  PROVE  StepGoal
<1> DEFINE t == now + OrderTTL
           row == orders[target(s)]
           q == IF copy(s).expireAt = 0 THEN SetExpireAt(row, t) ELSE row
           r == [submit[s] EXCEPT !.pc = "order",
                                  !.copy.expireAt = IF @ = 0 THEN t ELSE @]
<1>1. At(s, "deadline") /\ Write(s, q) /\ SetRequest(s, r)
  BY DEF SubmitSetsDeadline
<1>2. t \in Nat /\ t # 0
  BY LaterIsPositive, Target
<1> HIDE DEF t
<1>3. /\ submit[s] \in Requests /\ copy(s) \in Rows /\ row \in Rows
      /\ OrderAgrees(row, gw[target(s)])
      /\ RequestAgrees(submit[s], row, gw[target(s)])
  BY Target
<1>4. /\ row.status # "absent" /\ copy(s).amount = row.amount
      /\ copy(s).expireAt # 0 => row.expireAt # 0
  BY <1>1, <1>3 DEF RequestAgrees, At, copy
<1>5. /\ q \in Rows /\ q.status = row.status /\ q.amount = row.amount
      /\ q.expireAt # 0 /\ (row.expireAt # 0 => q.expireAt = row.expireAt)
  BY <1>2, <1>3, <1>4, SetExpireAtFacts
<1> HIDE DEF q
<1>6. r \in Requests /\ r.pc = "order" /\ r.order = target(s) /\ r.copy.amount = copy(s).amount
  <2> DEFINE c == [copy(s) EXCEPT !.expireAt = IF @ = 0 THEN t ELSE @]
  <2>1. c \in Rows /\ c.amount = copy(s).amount
    BY <1>2, <1>3 DEF Rows
  <2>2. r = [submit[s] EXCEPT !.pc = "order", !.copy = c]
    BY DEF copy
  <2> HIDE DEF c, r
  <2> QED
    BY <1>3, <2>1, <2>2 DEF Requests, SubmitPCs, target
<1> HIDE DEF r
<1>7. OrderAgrees(q, gw[target(s)]) /\ Kept(row, gw[target(s)], q, gw[target(s)])
  BY <1>3, <1>4, <1>5 DEF OrderAgrees, Kept
<1>8. RequestAgrees(r, q, gw[target(s)])
  BY <1>4, <1>5, <1>6 DEF RequestAgrees
<1> QED
  BY <1>1, <1>5, <1>6, <1>7, <1>8, WriteStep

\* The gateway order as it is placed.
LEMMA PlacedFacts ==
  ASSUME NEW amount \in Amounts, NEW state \in PlacedStates, now \in Nat
  PROVE  LET h == Placed(amount, state)
         IN /\ h \in GatewayOrders /\ h.state = state /\ h.amount = amount
            /\ h.captured => state = StateSuccess
            /\ state = StateSuccess => h.captured
<1>1. now + OrderTTL \in Nat
  BY LaterIsPositive
<1>2. (IF state = StateSuccess THEN now ELSE 0) \in Nat
  OBVIOUS
<1> DEFINE t == now + OrderTTL
           e == IF state = StateSuccess THEN now ELSE 0
           c == state = StateSuccess
           h == [state |-> state, amount |-> amount, expiry |-> t, captured |-> c, since |-> e]
<1>3. Placed(amount, state) = h
  BY DEF Placed
<1>4. t \in Nat /\ e \in Nat /\ c \in BOOLEAN /\ state \in GatewayStates
  BY <1>1, <1>2 DEF PlacedStates
<1> HIDE DEF t, e, c
<1>5. h \in GatewayOrders /\ h.state = state /\ h.amount = amount /\ h.captured = c
  BY <1>4 DEF GatewayOrders
<1> HIDE DEF h
<1>6. (c => state = StateSuccess) /\ (state = StateSuccess => c)
  BY DEF c
<1> QED
  BY <1>3, <1>5, <1>6

\* A gateway order is placed, or not, and the request goes on to r.
LEMMA PlacingStep ==
  ASSUME CheckoutIInv, NEW s \in Submitters, At(s, "order"),
         NEW r \in Requests, SetRequest(s, r), r.order = target(s), r.copy = copy(s),
         NEW state \in PlacedStates, gw[target(s)].state = NoOrder,
         gw' = [gw EXCEPT ![target(s)] = Placed(copy(s).amount, state)],
         UNCHANGED <<now, orders, wallet, restarts>>,
         r.pc = "recover" \/ (r.pc = "update" /\ r.state = state)
  PROVE  StepGoal
<1> DEFINE row == orders[target(s)]
           h == Placed(copy(s).amount, state)
<1>1. /\ row \in Rows /\ copy(s) \in Rows /\ now \in Nat
      /\ OrderAgrees(row, gw[target(s)])
      /\ RequestAgrees(submit[s], row, gw[target(s)])
  BY Target
<1>2. row.status # "absent" /\ copy(s).amount = row.amount /\ row.expireAt # 0
  BY <1>1 DEF RequestAgrees, At, copy
<1>3. copy(s).amount \in Amounts
  BY <1>1 DEF Rows
<1>4. /\ h \in GatewayOrders /\ h.state = state /\ h.amount = copy(s).amount
      /\ h.captured => state = StateSuccess
      /\ state = StateSuccess => h.captured
  BY <1>1, <1>3, PlacedFacts
<1>5. orders' = [orders EXCEPT ![target(s)] = row] /\ gw' = [gw EXCEPT ![target(s)] = h]
  BY Target
<1> HIDE DEF h
<1>6. ~ gw[target(s)].captured /\ row.status # "paid"
  BY <1>1 DEF OrderAgrees
<1>7. OrderAgrees(row, h)
  BY <1>2, <1>4, <1>6 DEF OrderAgrees
<1>8. Kept(row, gw[target(s)], row, h)
  BY <1>6 DEF Kept
<1>9. RequestAgrees(r, row, h)
  BY <1>2, <1>4 DEF RequestAgrees
<1> QED
  BY <1>1, <1>4, <1>5, <1>7, <1>8, <1>9, RequestStep

LEMMA SubmitPlacesOrderKeeps ==
  ASSUME CheckoutIInv, NEW s \in Submitters, NEW state \in PlacedStates,
         SubmitPlacesOrder(s, state)
  PROVE  StepGoal
<1> DEFINE r == [submit[s] EXCEPT !.pc = "update", !.state = state]
<1>1. /\ At(s, "order") /\ gw[target(s)].state = NoOrder /\ SetRequest(s, r)
      /\ gw' = [gw EXCEPT ![target(s)] = Placed(copy(s).amount, state)]
      /\ UNCHANGED <<now, orders, wallet, restarts>>
  BY DEF SubmitPlacesOrder
<1>2. /\ r \in Requests /\ r.pc = "update" /\ r.order = target(s)
      /\ r.copy = copy(s) /\ r.state = state
  <2>1. submit[s] \in Requests /\ "update" \in SubmitPCs /\ state \in GatewayStates
    BY Target DEF SubmitPCs, PlacedStates
  <2> QED
    BY <2>1 DEF Requests, target, copy
<1> HIDE DEF r
<1> QED
  BY <1>1, <1>2, PlacingStep

LEMMA SubmitOrderFailsKeeps ==
  ASSUME CheckoutIInv, NEW s \in Submitters, SubmitOrderFails(s)
  PROVE  StepGoal
<1> DEFINE r == [submit[s] EXCEPT !.pc = "recover"]
<1>1. At(s, "order") /\ SetRequest(s, r) /\ UNCHANGED <<now, orders, wallet, restarts>>
  BY DEF SubmitOrderFails, Continue
<1>2. /\ r \in Requests /\ r.pc = "recover" /\ r.order = target(s) /\ r.copy = copy(s)
  <2>1. "recover" \in SubmitPCs
    BY DEF SubmitPCs
  <2> QED
    BY <2>1, GoOn
<1> HIDE DEF r
<1>3. CASE UNCHANGED gw
  <2>1. RequestAgrees(r, orders[target(s)], gw[target(s)])
    BY <1>1, <1>2, Target DEF RequestAgrees, At, copy
  <2> QED
    BY <1>1, <1>2, <1>3, <2>1, Target, ReadStep DEF worldVars
<1>4. CASE /\ gw[target(s)].state = NoOrder
           /\ \E state \in PlacedStates :
                gw' = [gw EXCEPT ![target(s)] = Placed(copy(s).amount, state)]
  BY <1>1, <1>2, <1>4, PlacingStep
<1> QED
  BY <1>3, <1>4 DEF SubmitOrderFails

\* UpdateJeepay keeps the status, the amount and the deadline of the row.
LEMMA UpdatedRow ==
  ASSUME CheckoutIInv, NEW s \in Submitters, NEW p \in BOOLEAN
  PROVE  LET row == orders[target(s)]
             q == UpdateJeepay(row, TRUE, p)
             g == gw[target(s)]
         IN /\ q \in Rows /\ OrderAgrees(q, g) /\ Kept(row, g, q, g)
            /\ q.status = row.status /\ q.amount = row.amount /\ q.expireAt = row.expireAt
<1> DEFINE row == orders[target(s)]
           q == UpdateJeepay(row, TRUE, p)
<1>1. row \in Rows /\ OrderAgrees(row, gw[target(s)])
  BY Target
<1>2. /\ q \in Rows /\ q.status = row.status /\ q.amount = row.amount
      /\ q.expireAt = row.expireAt
  BY <1>1 DEF UpdateJeepay, Rows
<1> HIDE DEF q
<1>3. OrderAgrees(q, gw[target(s)]) /\ Kept(row, gw[target(s)], q, gw[target(s)])
  BY <1>1, <1>2 DEF OrderAgrees, Kept
<1> QED
  BY <1>2, <1>3 DEF q

LEMMA SubmitUpdatesKeeps ==
  ASSUME CheckoutIInv, NEW s \in Submitters, SubmitUpdates(s)
  PROVE  StepGoal
<1> DEFINE r == [submit[s] EXCEPT !.pc = "paid"]
           q == UpdateJeepay(orders[target(s)], TRUE, submit[s].state = StateIng)
<1>1. At(s, "update") /\ Write(s, q)
  BY DEF SubmitUpdates
<1>2. /\ q \in Rows /\ OrderAgrees(q, gw[target(s)])
      /\ Kept(orders[target(s)], gw[target(s)], q, gw[target(s)])
      /\ q.status = orders[target(s)].status /\ q.amount = orders[target(s)].amount
      /\ q.expireAt = orders[target(s)].expireAt
  <2>1. (submit[s].state = StateIng) \in BOOLEAN
    OBVIOUS
  <2> QED
    BY <2>1, UpdatedRow
<1> HIDE DEF q
<1>3. CASE submit[s].state = StateSuccess
  <2>1. SetRequest(s, r)
    BY <1>3 DEF SubmitUpdates, Continue
  <2>2. r \in Requests /\ r.pc = "paid" /\ r.order = target(s) /\ r.copy = copy(s)
    <3>1. "paid" \in SubmitPCs
      BY DEF SubmitPCs
    <3> QED
      BY <3>1, GoOn
  <2> HIDE DEF r
  <2>3. RequestAgrees(r, q, gw[target(s)])
    BY <1>1, <1>2, <1>3, <2>2, Target DEF RequestAgrees, At, copy
  <2> QED
    BY <1>1, <1>2, <2>1, <2>2, <2>3, WriteStep
<1>4. CASE submit[s].state # StateSuccess
  BY <1>1, <1>2, <1>4, NoRequestFacts, WriteStep DEF SubmitUpdates, Return
<1> QED
  BY <1>3, <1>4

\* A payment that is known to have been made is recorded.
LEMMA MarksPaidKeeps ==
  ASSUME CheckoutIInv, NEW s \in Submitters, At(s, "paid") \/ At(s, "repaid"),
         Write(s, MarkPaid(orders[target(s)], TRUE, now)), Return(s)
  PROVE  StepGoal
<1> DEFINE row == orders[target(s)]
           q == MarkPaid(row, TRUE, now)
<1>1. /\ row \in Rows /\ now \in Nat /\ OrderAgrees(row, gw[target(s)])
      /\ RequestAgrees(submit[s], row, gw[target(s)])
  BY Target
<1>2. q \in Rows /\ q.status = "paid" /\ q.amount = row.amount /\ q.expireAt = row.expireAt
  BY <1>1, MarkPaidFacts
<1>3. Write(s, q) /\ SetRequest(s, NoRequest)
  BY DEF Return
<1> HIDE DEF q
<1>4. gw[target(s)].captured
  BY <1>1 DEF RequestAgrees, At
<1>5. OrderAgrees(q, gw[target(s)]) /\ Kept(row, gw[target(s)], q, gw[target(s)])
  BY <1>1, <1>2, <1>4 DEF OrderAgrees, Kept
<1> QED
  BY <1>2, <1>3, <1>5, NoRequestFacts, WriteStep

-----------------------------------------------------------------------------
(* recoverExistingJeepay, and the end of a request that failed *)

\* A request past its deadline step goes on, without anything learnt.
LEMMA OnlyGoesOn ==
  ASSUME CheckoutIInv, NEW s \in Submitters, NEW pc \in SubmitPCs,
         submit[s].pc \notin {"idle", "insert", "deadline"},
         pc \notin {"insert", "paid", "repaid", "update", "reupdate"}
  PROVE  LET r == [submit[s] EXCEPT !.pc = pc]
         IN /\ r \in Requests /\ r.order = target(s) /\ r.pc = pc
            /\ RequestAgrees(r, orders[target(s)], gw[target(s)])
<1> DEFINE r == [submit[s] EXCEPT !.pc = pc]
<1>1. r \in Requests /\ r.order = target(s) /\ r.pc = pc /\ r.copy = copy(s)
  BY GoOn
<1> HIDE DEF r
<1>2. RequestAgrees(r, orders[target(s)], gw[target(s)])
  BY <1>1, Target DEF RequestAgrees, copy
<1> QED
  BY <1>1, <1>2 DEF r

LEMMA RecoverQueryFailsKeeps ==
  ASSUME CheckoutIInv, NEW s \in Submitters, RecoverQueryFails(s)
  PROVE  StepGoal
<1> DEFINE r == [submit[s] EXCEPT !.pc = "fail"]
<1>1. SetRequest(s, r) /\ UNCHANGED worldVars /\ submit[s].pc = "recover"
  BY DEF RecoverQueryFails, Continue, At
<1>2. /\ r \in Requests /\ r.order = target(s)
      /\ RequestAgrees(r, orders[target(s)], gw[target(s)])
  <2>1. "fail" \in SubmitPCs
    BY DEF SubmitPCs
  <2> QED
    BY <1>1, <2>1, OnlyGoesOn
<1> HIDE DEF r
<1> QED
  BY <1>1, <1>2, Target, ReadStep

LEMMA RecoverQueriesKeeps ==
  ASSUME CheckoutIInv, NEW s \in Submitters, RecoverQueries(s)
  PROVE  StepGoal
<1> DEFINE state == gw[target(s)].state
           r == [submit[s] EXCEPT !.pc = "reupdate", !.state = state]
<1>1. SetRequest(s, r) /\ UNCHANGED worldVars /\ submit[s].pc = "recover"
  BY DEF RecoverQueries, At
<1>2. /\ r \in Requests /\ r.order = target(s) /\ r.pc = "reupdate" /\ r.copy = copy(s)
      /\ r.state = state
  <2>1. submit[s] \in Requests /\ "reupdate" \in SubmitPCs /\ state \in GatewayStates
    BY Target DEF SubmitPCs, GatewayOrders
  <2> HIDE DEF state
  <2> QED
    BY <2>1 DEF Requests, target, copy
<1> HIDE DEF r
<1>3. RequestAgrees(r, orders[target(s)], gw[target(s)])
  BY <1>1, <1>2, Target DEF RequestAgrees, OrderAgrees, copy
<1> QED
  BY <1>1, <1>2, <1>3, Target, ReadStep

LEMMA RecoverUpdatesKeeps ==
  ASSUME CheckoutIInv, NEW s \in Submitters, RecoverUpdates(s)
  PROVE  StepGoal
<1> DEFINE q == UpdateJeepay(orders[target(s)], TRUE, copy(s).payData)
<1>1. submit[s].pc = "reupdate" /\ Write(s, q)
  BY DEF RecoverUpdates, At
<1>2. /\ q \in Rows /\ OrderAgrees(q, gw[target(s)])
      /\ Kept(orders[target(s)], gw[target(s)], q, gw[target(s)])
      /\ q.status = orders[target(s)].status /\ q.amount = orders[target(s)].amount
      /\ q.expireAt = orders[target(s)].expireAt
  <2>1. copy(s).payData \in BOOLEAN
    BY Target DEF Rows
  <2> QED
    BY <2>1, UpdatedRow
<1> HIDE DEF q
<1>3. ASSUME NEW pc \in {"repaid", "fail"}, Continue(s, pc),
             pc = "repaid" => submit[s].state = StateSuccess
      PROVE  StepGoal
  <2> DEFINE r == [submit[s] EXCEPT !.pc = pc]
  <2>1. r \in Requests /\ r.pc = pc /\ r.order = target(s) /\ r.copy = copy(s)
    <3>1. pc \in SubmitPCs
      BY DEF SubmitPCs
    <3> QED
      BY <3>1, GoOn
  <2>2. SetRequest(s, r)
    BY <1>3 DEF Continue
  <2> HIDE DEF r
  <2>3. RequestAgrees(r, q, gw[target(s)])
    BY <1>1, <1>2, <1>3, <2>1, Target DEF RequestAgrees, copy
  <2> QED
    BY <1>1, <1>2, <2>1, <2>2, <2>3, WriteStep
<1>4. ASSUME Return(s) PROVE StepGoal
  BY <1>1, <1>2, <1>4, NoRequestFacts, WriteStep DEF Return
<1>5. \/ submit[s].state = StateSuccess /\ Continue(s, "repaid")
      \/ Return(s)
      \/ Continue(s, "fail")
  BY DEF RecoverUpdates
<1> QED
  BY <1>3, <1>4, <1>5

\* MarkFailed writes whatever the row has become, but not what Kept names.
LEMMA SubmitFailsKeeps ==
  ASSUME CheckoutIInv, NEW s \in Submitters, SubmitFails(s)
  PROVE  StepGoal
<1> DEFINE row == orders[target(s)]
           q == MarkFailed(row)
<1>1. /\ submit[s].pc = "fail" /\ Write(s, q) /\ SetRequest(s, NoRequest)
  BY DEF SubmitFails, At, Return
<1>2. /\ row \in Rows /\ OrderAgrees(row, gw[target(s)])
      /\ RequestAgrees(submit[s], row, gw[target(s)])
  BY Target
<1>3. q \in Rows /\ q.status = "failed" /\ q.amount = row.amount /\ q.expireAt = row.expireAt
  BY <1>2 DEF MarkFailed, Rows, PayStatuses
<1> HIDE DEF q
<1>4. OrderAgrees(q, gw[target(s)]) /\ Kept(row, gw[target(s)], q, gw[target(s)])
  BY <1>2, <1>3 DEF OrderAgrees, Kept
<1> QED
  BY <1>1, <1>3, <1>4, NoRequestFacts, WriteStep

LEMMA SubmitGivesUpKeeps ==
  ASSUME CheckoutIInv, NEW s \in Submitters, SubmitGivesUp(s)
  PROVE  StepGoal
<1>1. UNCHANGED worldVars
  BY DEF SubmitGivesUp
<1>2. CASE At(s, "reupdate")
  <2> DEFINE r == [submit[s] EXCEPT !.pc = "fail"]
  <2>1. SetRequest(s, r) /\ submit[s].pc = "reupdate"
    BY <1>2 DEF SubmitGivesUp, Continue, At
  <2>2. /\ r \in Requests /\ r.order = target(s)
        /\ RequestAgrees(r, orders[target(s)], gw[target(s)])
    <3>1. "fail" \in SubmitPCs
      BY DEF SubmitPCs
    <3> QED
      BY <2>1, <3>1, OnlyGoesOn
  <2> HIDE DEF r
  <2> QED
    BY <1>1, <2>1, <2>2, Target, ReadStep
<1>3. CASE ~ At(s, "reupdate")
  BY <1>1, <1>3, ReturnKeeps DEF SubmitGivesUp
<1> QED
  BY <1>2, <1>3

-----------------------------------------------------------------------------
(* The others *)

\* The gateway moves an order it has.
LEMMA GatewayKeeps ==
  ASSUME CheckoutIInv, UNCHANGED submit, NEW o \in Orders, NEW h \in GatewayOrders,
         GatewayStep(o, h), gw[o].state # NoOrder, h.state # NoOrder,
         h.amount = gw[o].amount, gw[o].captured => h.captured,
         h.state = StateSuccess => h.captured
  PROVE  StepGoal
<1>1. gw \in [Orders -> GatewayOrders] /\ UNCHANGED <<now, orders, wallet, restarts>>
  BY DEF CheckoutIInv, WorldTypeOK, GatewayStep
<1>2. \A x \in Orders : gw'[x] = IF x = o THEN h ELSE gw[x]
  BY <1>1 DEF GatewayStep
<1>3. WorldTypeOK'
  <2>1. gw' \in [Orders -> GatewayOrders]
    BY <1>1 DEF GatewayStep
  <2> QED
    BY <1>1, <2>1 DEF CheckoutIInv, WorldTypeOK
<1>4. \A x \in Orders : OrderAgrees(orders[x], gw[x])
  BY DEF CheckoutIInv
<1>5. OrderAgrees(orders[o], h)
  BY <1>4 DEF OrderAgrees
<1>6. \A x \in Orders : OrderAgrees(orders'[x], gw'[x])
  BY <1>1, <1>2, <1>4, <1>5
<1>7. \A x \in Orders : Kept(orders[x], gw[x], orders'[x], gw'[x])
  BY <1>1, <1>2 DEF Kept
<1>8. submit' \in [Submitters -> Requests]
  BY DEF CheckoutIInv
<1> QED
  BY <1>3, <1>6, <1>7, <1>8, StepKeeps

\* A step that leaves the rows and the gateway orders as they are.
LEMMA QuietKeeps ==
  ASSUME CheckoutIInv, WorldTypeOK', UNCHANGED <<orders, gw, submit>>
  PROVE  StepGoal
<1>1. \A x \in Orders : /\ OrderAgrees(orders'[x], gw'[x])
                        /\ Kept(orders[x], gw[x], orders'[x], gw'[x])
  BY DEF CheckoutIInv, Kept
<1>2. submit' \in [Submitters -> Requests]
  BY DEF CheckoutIInv
<1> QED
  BY <1>1, <1>2, StepKeeps

LEMMA HandleJeepayNotifyKeeps ==
  ASSUME CheckoutIInv, UNCHANGED submit, NEW o \in Orders, HandleJeepayNotify(o)
  PROVE  StepGoal
<1> DEFINE q == MarkPaid(orders[o], TRUE, now)
<1>1. /\ orders \in [Orders -> Rows] /\ orders[o] \in Rows /\ now \in Nat
      /\ \A x \in Orders : OrderAgrees(orders[x], gw[x])
  BY DEF CheckoutIInv, WorldTypeOK
<1>2. q \in Rows /\ q.status = "paid" /\ q.amount = orders[o].amount
      /\ q.expireAt = orders[o].expireAt
  BY <1>1, MarkPaidFacts
<1>3. /\ orders' = [orders EXCEPT ![o] = q] /\ UNCHANGED <<now, gw, wallet, restarts>>
      /\ gw[o].state = StateSuccess
  BY DEF HandleJeepayNotify
<1> HIDE DEF q
<1>4. \A x \in Orders : orders'[x] = IF x = o THEN q ELSE orders[x]
  BY <1>1, <1>3
<1>5. OrderAgrees(q, gw[o])
  BY <1>1, <1>2, <1>3 DEF OrderAgrees
<1>6. Kept(orders[o], gw[o], q, gw[o])
  BY <1>2 DEF Kept
<1>7. \A x \in Orders : OrderAgrees(orders'[x], gw'[x])
  BY <1>1, <1>3, <1>4, <1>5
<1>8. \A x \in Orders : Kept(orders[x], gw[x], orders'[x], gw'[x])
  BY <1>3, <1>4, <1>6 DEF Kept
<1>9. WorldTypeOK'
  <2>1. orders' \in [Orders -> Rows]
    BY <1>1, <1>2, <1>3
  <2> QED
    BY <1>3, <2>1 DEF CheckoutIInv, WorldTypeOK
<1>10. submit' \in [Submitters -> Requests]
  BY DEF CheckoutIInv
<1> QED
  BY <1>7, <1>8, <1>9, <1>10, StepKeeps

LEMMA WorldKeeps ==
  ASSUME CheckoutIInv, WorldStep, UNCHANGED submit
  PROVE  StepGoal
<1>1. PICK o \in Orders : \/ GatewaySends(o)
                          \/ CustomerPays(o)
                          \/ LatePayment(o)
                          \/ GatewayConfirms(o)
                          \/ GatewayFails(o)
                          \/ GatewayExpires(o)
                          \/ AdministratorGrants(o)
                          \/ HandleJeepayNotify(o)
  BY DEF WorldStep
<1>2. /\ gw[o] \in GatewayOrders /\ now \in Nat /\ wallet \in [Orders -> WalletStates]
      /\ OrderAgrees(orders[o], gw[o])
  BY DEF CheckoutIInv, WorldTypeOK
<1>3. CASE GatewaySends(o)
  <2> DEFINE h == [gw[o] EXCEPT !.state = StateIng]
  <2>1. /\ h \in GatewayOrders /\ h.amount = gw[o].amount
        /\ h.captured = gw[o].captured /\ h.state = StateIng
    BY <1>2 DEF GatewayOrders
  <2>2. GatewayStep(o, h) /\ gw[o].state # NoOrder
    BY <1>3 DEF GatewaySends
  <2> HIDE DEF h
  <2> QED
    BY <2>1, <2>2, GatewayKeeps
<1>4. CASE CustomerPays(o)
  <2> DEFINE h == [gw[o] EXCEPT !.captured = TRUE, !.since = now]
  <2>1. h \in GatewayOrders /\ h.amount = gw[o].amount /\ h.captured /\ h.state = gw[o].state
    BY <1>2 DEF GatewayOrders
  <2>2. GatewayStep(o, h) /\ gw[o].state # NoOrder
    BY <1>4 DEF CustomerPays
  <2> HIDE DEF h
  <2> QED
    BY <2>1, <2>2, GatewayKeeps
<1>5. CASE LatePayment(o)
  <2> DEFINE h == [gw[o] EXCEPT !.captured = TRUE]
  <2>1. h \in GatewayOrders /\ h.amount = gw[o].amount /\ h.captured /\ h.state = gw[o].state
    BY <1>2 DEF GatewayOrders
  <2>2. GatewayStep(o, h) /\ gw[o].state # NoOrder
    BY <1>5 DEF LatePayment
  <2> HIDE DEF h
  <2> QED
    BY <2>1, <2>2, GatewayKeeps
<1>6. CASE GatewayConfirms(o)
  <2> DEFINE h == [gw[o] EXCEPT !.state = StateSuccess]
  <2>1. /\ h \in GatewayOrders /\ h.amount = gw[o].amount /\ h.captured
        /\ h.state = StateSuccess
    BY <1>2, <1>6 DEF GatewayOrders, GatewayConfirms
  <2>2. GatewayStep(o, h) /\ gw[o].state # NoOrder
    BY <1>6 DEF GatewayConfirms
  <2> HIDE DEF h
  <2> QED
    BY <2>1, <2>2, GatewayKeeps
<1>7. CASE GatewayFails(o)
  <2> DEFINE h == [gw[o] EXCEPT !.state = StateFail]
  <2>1. /\ h \in GatewayOrders /\ h.amount = gw[o].amount
        /\ h.captured = gw[o].captured /\ h.state = StateFail
    BY <1>2 DEF GatewayOrders
  <2>2. GatewayStep(o, h) /\ gw[o].state # NoOrder
    BY <1>7 DEF GatewayFails
  <2> HIDE DEF h
  <2> QED
    BY <2>1, <2>2, GatewayKeeps
<1>8. CASE GatewayExpires(o)
  <2> DEFINE h == Closed(gw[o], now)
  <2>1. /\ h \in GatewayOrders /\ h.amount = gw[o].amount
        /\ h.captured = gw[o].captured /\ h.state = StateClosed
    BY <1>2, ClosedFacts
  <2>2. GatewayStep(o, h) /\ gw[o].state # NoOrder
    BY <1>8 DEF GatewayExpires
  <2> HIDE DEF h
  <2> QED
    BY <2>1, <2>2, GatewayKeeps
<1>9. CASE AdministratorGrants(o)
  <2>1. WorldTypeOK'
    BY <1>9 DEF AdministratorGrants, CheckoutIInv, WorldTypeOK, WalletStates
  <2> QED
    BY <1>9, <2>1, QuietKeeps DEF AdministratorGrants
<1>10. CASE HandleJeepayNotify(o)
  BY <1>10, HandleJeepayNotifyKeeps
<1> QED
  BY <1>1, <1>3, <1>4, <1>5, <1>6, <1>7, <1>8, <1>9, <1>10

\* migrate gives a deadline to the created rows that have none.
LEMMA MigrateFacts ==
  ASSUME NEW table \in [Orders -> Rows], NEW o \in Orders
  PROVE  /\ Migrate(table)[o].amount = table[o].amount
         /\ Migrate(table)[o].status = table[o].status
         /\ table[o].expireAt # 0 => Migrate(table)[o].expireAt = table[o].expireAt
         /\ table[o].status # "created" => Migrate(table)[o].expireAt = table[o].expireAt
BY MigrateKeeps

LEMMA CheckoutRestartKeeps ==
  ASSUME CheckoutIInv, CheckoutRestart
  PROVE  StepGoal
<1>1. /\ orders \in [Orders -> Rows] /\ orders' = Migrate(orders)
      /\ UNCHANGED <<now, gw, wallet>> /\ restarts \in Nat /\ restarts' = restarts + 1
  BY DEF CheckoutIInv, WorldTypeOK, CheckoutRestart, Reopen
<1>2. WorldTypeOK'
  <2>1. orders' \in [Orders -> Rows]
    BY <1>1, MigrateType
  <2>2. restarts' \in Nat
    BY <1>1
  <2> QED
    BY <1>1, <2>1, <2>2 DEF CheckoutIInv, WorldTypeOK
<1>3. \A o \in Orders : Kept(orders[o], gw[o], orders'[o], gw'[o])
  BY <1>1, MigrateFacts DEF Kept
<1>4. ASSUME NEW o \in Orders
      PROVE  OrderAgrees(orders'[o], gw'[o])
  <2>1. OrderAgrees(orders[o], gw[o])
    BY DEF CheckoutIInv
  <2> QED
    BY <1>1, <2>1, MigrateFacts DEF OrderAgrees
<1>5. /\ submit' \in [Submitters -> Requests]
      /\ \A s \in Submitters : submit'[s] = NoRequest
  BY NoRequestFacts DEF CheckoutRestart
<1>6. \A s \in Submitters : submit'[s] # submit[s] =>
        RequestAgrees(submit'[s], orders'[submit'[s].order], gw'[submit'[s].order])
  BY <1>5, NoRequestFacts
<1> QED
  BY <1>2, <1>3, <1>4, <1>5, <1>6, StepKeeps

LEMMA CheckoutInitInv == CheckoutInit => CheckoutIInv
<1> SUFFICES ASSUME CheckoutInit PROVE CheckoutIInv
  OBVIOUS
<1> DEFINE a == CHOOSE x \in Amounts : TRUE
           row == Absent(NoRequest.copy)
           g == [state |-> NoOrder, amount |-> a, expiry |-> 0, captured |-> FALSE, since |-> 0]
<1>1. row \in Rows /\ row.status = "absent" /\ row.expireAt = 0
  BY NoRequestFacts DEF Absent, Rows, PayStatuses
<1>2. a \in Amounts
  BY CheckoutAssumption
<1>3. orders = [o \in Orders |-> row] /\ gw = [o \in Orders |-> g]
  BY DEF CheckoutInit
<1> HIDE DEF row, a
<1>4. g \in GatewayOrders /\ g.state = NoOrder /\ ~ g.captured
  BY <1>2 DEF GatewayOrders
<1> HIDE DEF g
<1>5. WorldTypeOK
  <2>1. orders \in [Orders -> Rows] /\ gw \in [Orders -> GatewayOrders]
    BY <1>1, <1>3, <1>4
  <2>2. wallet \in [Orders -> WalletStates]
    BY DEF CheckoutInit, WalletStates
  <2>3. now \in Nat /\ restarts \in Nat
    BY TimeAssumption DEF CheckoutInit
  <2> QED
    BY <2>1, <2>2, <2>3 DEF WorldTypeOK
<1>6. \A o \in Orders : OrderAgrees(orders[o], gw[o])
  BY <1>1, <1>3, <1>4 DEF OrderAgrees
<1>7. /\ submit \in [Submitters -> Requests]
      /\ \A s \in Submitters : submit[s] = NoRequest
  BY NoRequestFacts DEF CheckoutInit
<1>8. \A s \in Submitters : RequestAgrees(submit[s], orders[target(s)], gw[target(s)])
  BY <1>7, NoRequestFacts
<1> QED
  BY <1>5, <1>6, <1>7, <1>8 DEF CheckoutIInv

LEMMA CheckoutNextInv == CheckoutIInv /\ [CheckoutNext]_checkoutVars => StepGoal
<1> SUFFICES ASSUME CheckoutIInv, [CheckoutNext]_checkoutVars PROVE StepGoal
  OBVIOUS
<1>1. ASSUME NEW s \in Submitters, SubmitStep(s)
      PROVE  StepGoal
  <2>1. CASE SubmitMarksPaid(s) \/ RecoverMarksPaid(s)
    BY <2>1, MarksPaidKeeps DEF SubmitMarksPaid, RecoverMarksPaid
  <2>2. CASE \/ \E o \in Orders, amount \in Amounts : SubmitReads(s, o, amount)
             \/ SubmitInserts(s)
             \/ SubmitSetsDeadline(s)
    BY <2>2, SubmitReadsKeeps, SubmitInsertsKeeps, SubmitSetsDeadlineKeeps
  <2>3. CASE \/ \E state \in PlacedStates : SubmitPlacesOrder(s, state)
             \/ SubmitOrderFails(s)
             \/ SubmitUpdates(s)
    BY <2>3, SubmitPlacesOrderKeeps, SubmitOrderFailsKeeps, SubmitUpdatesKeeps
  <2>4. CASE \/ RecoverQueryFails(s)
             \/ RecoverQueries(s)
             \/ RecoverUpdates(s)
             \/ SubmitFails(s)
             \/ SubmitGivesUp(s)
    BY <2>4, RecoverQueryFailsKeeps, RecoverQueriesKeeps, RecoverUpdatesKeeps,
       SubmitFailsKeeps, SubmitGivesUpKeeps
  <2> QED
    BY <1>1, <2>1, <2>2, <2>3, <2>4 DEF SubmitStep
<1>2. CASE WorldStep /\ UNCHANGED submit
  BY <1>2, WorldKeeps
<1>3. CASE Tick /\ UNCHANGED submit
  <2>1. WorldTypeOK'
    BY <1>3 DEF Tick, CheckoutIInv, WorldTypeOK
  <2> QED
    BY <1>3, <2>1, QuietKeeps DEF Tick
<1>4. CASE CheckoutRestart
  BY <1>4, CheckoutRestartKeeps
<1>5. CASE UNCHANGED checkoutVars
  <2>1. WorldTypeOK'
    BY <1>5 DEF checkoutVars, CheckoutIInv, WorldTypeOK
  <2> QED
    BY <1>5, <2>1, QuietKeeps DEF checkoutVars
<1> QED
  BY <1>1, <1>2, <1>3, <1>4, <1>5 DEF CheckoutNext

-----------------------------------------------------------------------------
(* The theorems. *)

\* CheckoutIInv holds throughout: whatever requests for one order are served at
\* once, each still knows of the row and the gateway order what its next
\* statement relies on (Submit, recoverExistingJeepay).
THEOREM CheckoutInvariant == CheckoutSpec => []CheckoutIInv
<1>1. CheckoutIInv /\ [CheckoutNext]_checkoutVars => CheckoutIInv'
  BY CheckoutNextInv DEF StepGoal
<1> QED
  BY <1>1, CheckoutInitInv, PTL DEF CheckoutSpec

\* Every variable keeps its type.
THEOREM CheckoutType == CheckoutSpec => []CheckoutTypeOK
<1>1. CheckoutIInv => CheckoutTypeOK
  BY DEF CheckoutIInv, WorldTypeOK, CheckoutTypeOK
<1> QED
  BY <1>1, CheckoutInvariant, PTL

\* The customer is asked for the amount of the row, however many requests name
\* however many amounts for the order (README:48; Submit reads the row first and
\* Insert does not write over one).
THEOREM CheckoutAmountAgreement == CheckoutSpec => []AmountAgreement
<1>1. CheckoutIInv => AmountAgreement
  BY DEF CheckoutIInv, OrderAgrees, AmountAgreement
<1> QED
  BY <1>1, CheckoutInvariant, PTL

LEMMA NotZeroIsPositive == ASSUME NEW n \in Nat, n # 0 PROVE n > 0
OBVIOUS

\* No gateway order exists whose row the closer would not see (Submit sets
\* expire_at before UnifiedOrder).
THEOREM CheckoutDeadlineBeforeOrder == CheckoutSpec => []DeadlineBeforeOrder
<1>1. CheckoutIInv => DeadlineBeforeOrder
  <2> SUFFICES ASSUME CheckoutIInv, NEW o \in Orders, gw[o].state # NoOrder
               PROVE  orders[o].expireAt > 0
    BY DEF DeadlineBeforeOrder
  <2>1. orders[o].expireAt # 0
    BY DEF CheckoutIInv, OrderAgrees
  <2>2. orders[o].expireAt \in Nat
    BY DEF CheckoutIInv, WorldTypeOK, Rows
  <2> QED
    BY <2>1, <2>2, NotZeroIsPositive
<1> QED
  BY <1>1, CheckoutInvariant, PTL

\* Only an order somebody has paid for is recorded as paid, whichever of the
\* three places records it (Submit, recoverExistingJeepay, HandleJeepayNotify).
THEOREM CheckoutPaidIsCaptured == CheckoutSpec => []PaidIsCaptured
<1>1. CheckoutIInv => PaidIsCaptured
  BY DEF CheckoutIInv, OrderAgrees, PaidIsCaptured
<1> QED
  BY <1>1, CheckoutInvariant, PTL

\* A deadline once set never moves, neither by another request for the order nor
\* by migrate (SetExpireAt).
THEOREM CheckoutDeadlineIsFixed == CheckoutSpec => DeadlineIsFixed
<1> DEFINE kept == \A o \in Orders : orders[o].expireAt > 0 =>
                     orders'[o].expireAt = orders[o].expireAt
<1>1. CheckoutIInv /\ [CheckoutNext]_checkoutVars => [kept]_orders
  <2> SUFFICES ASSUME CheckoutIInv, [CheckoutNext]_checkoutVars,
                      NEW o \in Orders, orders[o].expireAt > 0
               PROVE  orders'[o].expireAt = orders[o].expireAt
    OBVIOUS
  <2>1. Kept(orders[o], gw[o], orders'[o], gw'[o])
    BY CheckoutNextInv DEF StepGoal
  <2>2. orders[o].expireAt # 0
    OBVIOUS
  <2> QED
    BY <2>1, <2>2 DEF Kept
<1> QED
  BY <1>1, CheckoutInvariant, PTL DEF CheckoutSpec, DeadlineIsFixed
=============================================================================
