--------------------------- MODULE ClosingProofs ----------------------------
(***************************************************************************)
(* The closer, for every number of orders, every amount, every deadline    *)
(* and every length of the delays: types, what is credited, what is        *)
(* recorded as failed, and that paid is final.                             *)
(***************************************************************************)
EXTENDS Closing, PaymentsProofs

\* What the closer holds of the order it is dealing with.
CloserInv ==
  /\ closer \in Closers
  /\ closer.pc # "idle" => closer.batch # <<>>
  /\ \A i \in DOMAIN closer.batch :
       closer.batch[i].row.amount = orders[closer.batch[i].order].amount
  /\ closer.pc = "paid" =>
       gw[current].captured /\ gw[current].amount = orders[current].amount
  /\ closer.pc = "settle" =>
       /\ closer.result \in {"expired", "failed"} => wallet[current] = "failed"
       /\ closer.result = "success" => wallet[current] \in {"credited", "granted"}

IInv == WorldInv /\ CloserInv /\ FailedOnlyAfterWallet

USE ClosingAssumption
USE DEF GatewayStates, NoOrder, StateInit, StateIng, StateSuccess, StateFail, StateClosed

-----------------------------------------------------------------------------
(* The decisions and the batch. *)

\* An order is marked paid only if the gateway reports success at its amount.
LEMMA DecideQueryFacts ==
  ASSUME NEW state \in GatewayStates, NEW amount, NEW orderAmount,
         NEW requery \in BOOLEAN, NEW at, NEW expireAt
  PROVE  /\ decideQuery(state, amount, orderAmount, requery, at, expireAt) \in Plans
         /\ decideQuery(state, amount, orderAmount, requery, at, expireAt).markPaid =>
              state = StateSuccess /\ amount = orderAmount
<1>1. CASE state = StateSuccess
  BY <1>1 DEF decideQuery, paidPlan, NoPlan, Plans
<1>2. CASE state # StateSuccess /\ requery
  BY <1>2 DEF decideQuery, NoPlan, Plans
<1>3. CASE state # StateSuccess /\ ~ requery
  <2>1. decideQuery(state, amount, orderAmount, requery, at, expireAt)
          = openPlan(state, at, expireAt)
    BY <1>3 DEF decideQuery
  <2>2. missedDue(at, expireAt) \in BOOLEAN
    BY DEF missedDue
  <2>3. openPlan(state, at, expireAt) \in Plans /\ ~ openPlan(state, at, expireAt).markPaid
    <3>1. CASE state = StateIng
      BY <3>1 DEF openPlan, NoPlan, Plans
    <3>2. CASE state = StateInit
      BY <2>2, <3>2 DEF openPlan, NoPlan, Plans
    <3>3. CASE state \in {StateFail, StateClosed}
      BY <2>2, <3>3 DEF openPlan, NoPlan, Plans
    <3>4. CASE state = NoOrder
      BY <3>4 DEF openPlan, NoPlan, Plans
    <3> QED
      BY <1>3, <3>1, <3>2, <3>3, <3>4
  <2> QED
    BY <2>1, <2>3
<1> QED
  BY <1>1, <1>2, <1>3

\* Every order of a batch is an order, read at its amount.
LEMMA BatchFacts ==
  ASSUME CloserInv
  PROVE  \A i \in DOMAIN closer.batch :
           /\ closer.batch[i] \in Fetched /\ closer.batch[i].order \in Orders
           /\ closer.batch[i].row.amount = orders[closer.batch[i].order].amount
<1>1. closer.batch \in Seq(Fetched)
  BY DEF CloserInv, Closers
<1>2. \A i \in DOMAIN closer.batch : closer.batch[i] \in Fetched
  BY <1>1
<1> QED
  BY <1>2 DEF CloserInv, Fetched

\* The first order of a batch is an order, read as a row of its amount.
LEMMA CurrentFacts ==
  ASSUME WorldInv, CloserInv, closer.pc # "idle"
  PROVE  /\ current \in Orders /\ snapshot \in Rows
         /\ snapshot.amount = orders[current].amount
         /\ orders[current] \in Rows /\ gw[current] \in GatewayOrders
         /\ wallet[current] \in WalletStates
<1>1. closer.batch \in Seq(Fetched) /\ closer.batch # <<>>
  BY DEF CloserInv, Closers
<1>2. 1 \in DOMAIN closer.batch /\ Head(closer.batch) = closer.batch[1]
  BY <1>1, HeadFacts
<1>3. Head(closer.batch) \in Fetched
  BY <1>1, HeadFacts
<1>4. current \in Orders /\ snapshot \in Rows
  BY <1>3 DEF current, snapshot, Fetched
<1>5. snapshot.amount = orders[current].amount
  BY <1>2 DEF CloserInv, current, snapshot
<1> QED
  BY <1>4, <1>5 DEF WorldInv, WorldTypeOK

\* Leaving an order leaves a closer between ticks or about to query the next.
LEMMA NextOrderFacts ==
  ASSUME CloserInv, closer.pc # "idle"
  PROVE  /\ NextOrder \in Closers
         /\ NextOrder.pc \in {"idle", "query"}
         /\ NextOrder.pc # "idle" => NextOrder.batch # <<>> /\ NextOrder.at = closer.at
         /\ \A i \in DOMAIN NextOrder.batch :
              \E j \in DOMAIN closer.batch : NextOrder.batch[i] = closer.batch[j]
<1> DEFINE next == [closer EXCEPT !.pc = "query", !.batch = Tail(@),
                                  !.plan = NoPlan, !.result = "none"]
<1>1. closer \in Closers /\ closer.batch \in Seq(Fetched) /\ closer.batch # <<>>
  BY DEF CloserInv, Closers
<1>2. Len(closer.batch) \in Nat /\ Len(closer.batch) >= 1
  BY <1>1
<1>3. CASE Len(closer.batch) = 1
  <2>1. NextOrder = Idle
    BY <1>3 DEF NextOrder
  <2>2. Idle \in Closers
    BY DEF Idle, Closers, ClosePCs, Plans, NoPlan, ExpireResults
  <2>3. Idle.pc = "idle" /\ DOMAIN Idle.batch = {}
    BY DEF Idle
  <2> QED
    BY <2>1, <2>2, <2>3
<1>4. CASE Len(closer.batch) # 1
  <2>1. NextOrder = next
    BY <1>4 DEF NextOrder
  <2>2. /\ Tail(closer.batch) \in Seq(Fetched) /\ Tail(closer.batch) # <<>>
        /\ \A i \in DOMAIN Tail(closer.batch) :
             i + 1 \in DOMAIN closer.batch /\ Tail(closer.batch)[i] = closer.batch[i + 1]
    BY <1>1, <1>4, TailFacts
  <2>3. /\ next \in Closers /\ next.pc = "query" /\ next.batch = Tail(closer.batch)
        /\ next.at = closer.at
    BY <1>1, <2>2 DEF Closers, ClosePCs, Plans, NoPlan, ExpireResults
  <2> HIDE DEF next
  <2> QED
    BY <2>1, <2>2, <2>3
<1> QED
  BY <1>3, <1>4

-----------------------------------------------------------------------------
(* The steps.  StepGoal is what each of them must keep. *)

StepGoal == IInv' /\ \A o \in Orders : Stable(o)

\* A step of the others leaves what the closer holds as it was.
LEMMA OthersKeepCloser ==
  ASSUME IInv, WorldInv', \A o \in Orders : Stable(o), UNCHANGED closer
  PROVE  IInv'
<1> USE DEF IInv
<1>1. FailedOnlyAfterWallet'
  BY DEF FailedOnlyAfterWallet, Stable
<1>2. \A i \in DOMAIN closer.batch : closer.batch[i].order \in Orders
  BY BatchFacts
<1>3. (\A i \in DOMAIN closer.batch :
         closer.batch[i].row.amount = orders[closer.batch[i].order].amount)'
  BY <1>2 DEF CloserInv, Stable
<1>4. CASE closer.pc = "idle"
  BY <1>1, <1>3, <1>4 DEF CloserInv
<1>5. CASE closer.pc # "idle"
  <2>1. current \in Orders /\ current' = current
    BY <1>5, CurrentFacts DEF current
  <2> QED
    BY <1>1, <1>3, <2>1 DEF CloserInv, Stable
<1> QED
  BY <1>4, <1>5

\* A step that leaves the order does so whatever it has done to the tables.
LEMMA LeaveInv ==
  ASSUME IInv, WorldInv', \A o \in Orders : Stable(o), closer.pc # "idle", Leave
  PROVE  StepGoal
<1>1. FailedOnlyAfterWallet'
  BY DEF FailedOnlyAfterWallet, Stable, IInv
<1>2. \A i \in DOMAIN closer.batch :
        /\ closer.batch[i].order \in Orders
        /\ closer.batch[i].row.amount = orders[closer.batch[i].order].amount
  BY BatchFacts DEF IInv
<1>3. (\A i \in DOMAIN closer.batch :
         closer.batch[i].row.amount = orders[closer.batch[i].order].amount)'
  BY <1>2, NextOrderFacts DEF Leave, Stable, IInv
<1>4. CloserInv'
  BY <1>3, NextOrderFacts DEF CloserInv, Leave, IInv
<1> QED
  BY <1>1, <1>4 DEF StepGoal, IInv

\* A step that goes on with the same order.
LEMMA GoOnInv ==
  ASSUME IInv, WorldInv', \A o \in Orders : Stable(o), closer.pc # "idle",
         closer' \in Closers, closer'.batch = closer.batch,
         closer'.pc = "paid" =>
           gw'[current].captured /\ gw'[current].amount = orders'[current].amount,
         closer'.pc = "settle" =>
           /\ closer'.result \in {"expired", "failed"} => wallet'[current] = "failed"
           /\ closer'.result = "success" => wallet'[current] \in {"credited", "granted"}
  PROVE  StepGoal
<1>1. FailedOnlyAfterWallet'
  BY DEF FailedOnlyAfterWallet, Stable, IInv
<1>2. \A i \in DOMAIN closer.batch :
        /\ closer.batch[i].order \in Orders
        /\ closer.batch[i].row.amount = orders[closer.batch[i].order].amount
  BY BatchFacts DEF IInv
<1>3. (\A i \in DOMAIN closer.batch :
         closer.batch[i].row.amount = orders[closer.batch[i].order].amount)'
  BY <1>2 DEF Stable, IInv
<1>4. current' = current /\ closer.batch # <<>>
  BY DEF current, IInv, CloserInv
<1>5. CloserInv'
  BY <1>3, <1>4 DEF CloserInv
<1> QED
  BY <1>1, <1>5 DEF StepGoal, IInv

\* A step that leaves the shared state alone.
LEMMA WorldUnchanged ==
  ASSUME IInv, UNCHANGED worldVars
  PROVE  WorldInv' /\ \A o \in Orders : Stable(o)
BY DEF worldVars, IInv, WorldInv, WorldTypeOK, CreditBacked, PaidBacked, PendingIsPaid,
       SuccessIsCaptured, Stable, FailedOnlyAfterWallet

-----------------------------------------------------------------------------
(* Every step of the closer, and the invariant. *)

\* A write to the row of the order at hand that keeps its amount and does not
\* take back a payment.
LEMMA WriteRowInv ==
  ASSUME IInv, closer.pc # "idle", NEW r \in Rows, WriteRow(r),
         r.amount = orders[current].amount,
         r.notify = "pending" => r.status = "paid",
         orders[current].status = "paid" => r.status = "paid",
         r.status = "paid" => \/ orders[current].status = "paid"
                              \/ /\ gw[current].captured
                                 /\ gw[current].amount = orders[current].amount
                              \/ wallet[current] = "granted",
         r.status = "failed" => \/ orders[current].status = "failed"
                                \/ wallet[current] = "failed"
  PROVE  WorldInv' /\ \A o \in Orders : Stable(o)
<1>1. current \in Orders
  BY CurrentFacts DEF IInv
<1>2. /\ \A x \in Orders : orders'[x] = IF x = current THEN r ELSE orders[x]
      /\ orders' \in [Orders -> Rows]
  BY <1>1 DEF WriteRow, IInv, WorldInv, WorldTypeOK
<1>3. UNCHANGED <<now, gw, wallet, restarts>>
  BY DEF WriteRow
<1>4. WorldTypeOK'
  BY <1>2, <1>3 DEF IInv, WorldInv, WorldTypeOK
<1>5. CreditBacked'
  BY <1>2, <1>3 DEF IInv, WorldInv, CreditBacked
<1>6. PaidBacked'
  BY <1>2, <1>3 DEF IInv, WorldInv, PaidBacked
<1>7. PendingIsPaid'
  BY <1>2, <1>3 DEF IInv, WorldInv, PendingIsPaid
<1>8. SuccessIsCaptured'
  BY <1>3 DEF IInv, WorldInv, SuccessIsCaptured
<1>9. \A o \in Orders : Stable(o)
  BY <1>2, <1>3 DEF Stable
<1> QED
  BY <1>4, <1>5, <1>6, <1>7, <1>8, <1>9 DEF WorldInv

LEMMA TickStep ==
  ASSUME IInv, CloserTick
  PROVE  StepGoal
<1>1. WorldInv' /\ \A o \in Orders : Stable(o)
  BY WorldUnchanged DEF CloserTick
<1>2. PICK batch \in DueCloses(orders, now + CloseLead, CloseBatch) :
        /\ batch # <<>>
        /\ closer' = [Idle EXCEPT !.pc = "query", !.at = now, !.batch = batch]
  BY DEF CloserTick
<1>3. orders \in [Orders -> Rows] /\ now \in Nat
  BY DEF IInv, WorldInv, WorldTypeOK
<1>4. /\ batch \in Seq(Fetched)
      /\ \A i \in DOMAIN batch : batch[i].row = orders[batch[i].order]
  BY <1>3, DueClosesType
<1>5. /\ closer' \in Closers /\ closer'.batch = batch /\ closer'.pc = "query"
  BY <1>2, <1>3, <1>4 DEF Idle, Closers, ClosePCs, Plans, NoPlan, ExpireResults
<1>6. orders' = orders
  BY DEF CloserTick, worldVars
<1>7. CloserInv'
  BY <1>2, <1>4, <1>5, <1>6 DEF CloserInv
<1>8. FailedOnlyAfterWallet'
  BY <1>1 DEF IInv, FailedOnlyAfterWallet, Stable
<1> QED
  BY <1>1, <1>7, <1>8 DEF StepGoal, IInv

LEMMA QueryStep ==
  ASSUME IInv, QueryAnswered
  PROVE  StepGoal
<1> DEFINE plan == decideQuery(gw[current].state, gw[current].amount, snapshot.amount,
                               step = "requery", closer.at, snapshot.expireAt)
           planned == [closer EXCEPT !.plan = plan]
<1>1. WorldInv' /\ (\A o \in Orders : Stable(o)) /\ gw' = gw /\ orders' = orders
  BY WorldUnchanged DEF QueryAnswered, worldVars
<1>2. closer.pc = "query"
  BY DEF QueryAnswered
<1>3. /\ current \in Orders /\ snapshot \in Rows
      /\ snapshot.amount = orders[current].amount
      /\ gw[current] \in GatewayOrders
  BY <1>2, CurrentFacts DEF IInv
<1>4. closer \in Closers
  BY DEF IInv, CloserInv
<1>5. gw[current].state \in GatewayStates
  BY <1>3 DEF GatewayOrders
<1>6. /\ plan \in Plans
      /\ plan.markPaid => /\ gw[current].state = StateSuccess
                          /\ gw[current].amount = snapshot.amount
  <2>1. \A requery \in BOOLEAN :
          LET p == decideQuery(gw[current].state, gw[current].amount, snapshot.amount,
                               requery, closer.at, snapshot.expireAt)
          IN p \in Plans /\ (p.markPaid => /\ gw[current].state = StateSuccess
                                          /\ gw[current].amount = snapshot.amount)
    BY <1>5, DecideQueryFacts
  <2>2. (step = "requery") \in BOOLEAN
    OBVIOUS
  <2> QED
    BY <2>1, <2>2
<1>7. \/ plan.markPaid /\ closer' = [planned EXCEPT !.pc = "paid"]
      \/ closer' = [planned EXCEPT !.pc = "block"]
      \/ closer' = [planned EXCEPT !.pc = "close"]
      \/ closer' = [planned EXCEPT !.pc = "fresh"]
      \/ Leave
  <2>1. closer' = CASE plan.markPaid  -> [planned EXCEPT !.pc = "paid"]
                    [] plan.block     -> [planned EXCEPT !.pc = "block"]
                    [] plan.callClose -> [planned EXCEPT !.pc = "close"]
                    [] plan.expire /\ ~ plan.callClose -> [planned EXCEPT !.pc = "fresh"]
                    [] OTHER -> NextOrder
    BY DEF QueryAnswered
  <2>2. /\ plan.markPaid \in BOOLEAN /\ plan.block \in BOOLEAN
        /\ plan.callClose \in BOOLEAN /\ plan.expire \in BOOLEAN
    BY <1>6 DEF Plans
  <2> HIDE DEF plan, planned
  <2> QED
    BY <2>1, <2>2 DEF Leave
<1> HIDE DEF plan
<1>8. CASE Leave
  BY <1>1, <1>2, <1>8, LeaveInv
<1>9. CASE ~ Leave
  <2>1. /\ closer' \in Closers /\ closer'.batch = closer.batch
        /\ closer'.pc \in {"paid", "block", "close", "fresh"}
        /\ closer'.pc = "paid" => plan.markPaid
    BY <1>4, <1>6, <1>7, <1>9 DEF Closers, ClosePCs
  <2>2. closer'.pc = "paid" =>
          gw[current].captured /\ gw[current].amount = orders[current].amount
    BY <1>3, <1>6, <2>1 DEF IInv, WorldInv, SuccessIsCaptured
  <2> QED
    BY <1>1, <1>2, <2>1, <2>2, GoOnInv
<1> QED
  BY <1>8, <1>9

LEMMA WriteSteps ==
  ASSUME IInv, CloserMarksPaid \/ CloserBlocks \/ RecordChannelClosed
  PROVE  StepGoal
<1>1. closer.pc # "idle" /\ Leave
  BY DEF CloserMarksPaid, CloserBlocks, RecordChannelClosed
<1>2. /\ current \in Orders /\ orders[current] \in Rows
      /\ now \in Nat /\ closer.at \in Nat
      /\ orders[current].notify = "pending" => orders[current].status = "paid"
  BY <1>1, CurrentFacts DEF IInv, WorldInv, WorldTypeOK, CloserInv, Closers, PendingIsPaid
<1>3. CASE CloserMarksPaid
  <2> DEFINE r == MarkPaid(orders[current], TRUE, now)
  <2>1. r \in Rows /\ r.amount = orders[current].amount /\ r.status = "paid"
    BY <1>2, RowOpsType, RowOpsKeep, RowOpsStatus
  <2>2. gw[current].captured /\ gw[current].amount = orders[current].amount
    BY <1>3 DEF CloserMarksPaid, IInv, CloserInv
  <2>3. WriteRow(r)
    BY <1>3 DEF CloserMarksPaid
  <2> HIDE DEF r
  <2> QED
    BY <1>1, <2>1, <2>2, <2>3, WriteRowInv, LeaveInv
<1>4. CASE CloserBlocks
  <2> DEFINE r == BlockExpire(orders[current])
  <2>1. /\ r \in Rows /\ r.amount = orders[current].amount
        /\ r.status = orders[current].status /\ r.notify = orders[current].notify
    BY <1>2, RowOpsType, RowOpsKeep, RowOpsStatus
  <2>2. WriteRow(r)
    BY <1>4 DEF CloserBlocks
  <2> HIDE DEF r
  <2> QED
    BY <1>1, <1>2, <2>1, <2>2, WriteRowInv, LeaveInv
<1>5. CASE RecordChannelClosed
  <2> DEFINE r == SetChannelClosed(orders[current], closer.at)
  <2>1. /\ r \in Rows /\ r.amount = orders[current].amount
        /\ r.status = orders[current].status /\ r.notify = orders[current].notify
    BY <1>2, RowOpsType, RowOpsKeep, RowOpsStatus
  <2>2. WriteRow(r)
    BY <1>5 DEF RecordChannelClosed
  <2> HIDE DEF r
  <2> QED
    BY <1>1, <1>2, <2>1, <2>2, WriteRowInv, LeaveInv
<1> QED
  BY <1>3, <1>4, <1>5

LEMMA CloseSteps ==
  ASSUME IInv, CloseAnswered \/ CloseUnanswered
  PROVE  StepGoal
<1>1. closer.pc = "close" /\ UNCHANGED <<now, orders, wallet, restarts>>
  BY DEF CloseAnswered, CloseUnanswered
<1>2. /\ current \in Orders /\ gw[current] \in GatewayOrders
      /\ now \in Nat /\ closer \in Closers
  BY <1>1, CurrentFacts DEF IInv, WorldInv, WorldTypeOK, CloserInv
<1>3. PICK answer \in CloseAnswers(gw[current], now) :
        /\ gw' = [gw EXCEPT ![current] = answer.order]
        /\ \/ Leave
           \/ \E pc \in {"block", "record", "fresh"} : GoTo(pc)
  <2>1. CASE CloseAnswered
    <3>1. PICK answer \in CloseAnswers(gw[current], now) :
            LET d == decideClose(answer.kind, closer.plan.ing, closer.at, snapshot.expireAt)
            IN /\ gw' = [gw EXCEPT ![current] = answer.order]
               /\ closer' = CASE d.block  -> [closer EXCEPT !.pc = "block"]
                              [] d.record -> [closer EXCEPT !.pc = "record"]
                              [] d.expire -> [closer EXCEPT !.pc = "fresh"]
                              [] OTHER -> NextOrder
      BY <2>1 DEF CloseAnswered
    <3> DEFINE d == decideClose(answer.kind, closer.plan.ing, closer.at, snapshot.expireAt)
    <3>2. closer' = CASE d.block  -> [closer EXCEPT !.pc = "block"]
                      [] d.record -> [closer EXCEPT !.pc = "record"]
                      [] d.expire -> [closer EXCEPT !.pc = "fresh"]
                      [] OTHER -> NextOrder
      BY <3>1
    <3> HIDE DEF d
    <3>3. \/ closer' = [closer EXCEPT !.pc = "block"]
          \/ closer' = [closer EXCEPT !.pc = "record"]
          \/ closer' = [closer EXCEPT !.pc = "fresh"]
          \/ closer' = NextOrder
      BY <3>2
    <3> QED
      BY <3>1, <3>3 DEF Leave, GoTo
  <2>2. CASE CloseUnanswered
    BY <2>2 DEF CloseUnanswered
  <2> QED
    BY <1>1, <2>1, <2>2
<1> DEFINE g == answer.order
<1>4. /\ g \in GatewayOrders /\ g.amount = gw[current].amount
      /\ g.captured = gw[current].captured
      /\ g.state = StateSuccess => gw[current].state = StateSuccess
  BY <1>2, CloseAnswersFacts
<1>5. GatewayStep(current, g)
  BY <1>1, <1>3 DEF GatewayStep
<1>6. gw[current].state = StateSuccess => gw[current].captured
  BY <1>2 DEF IInv, WorldInv, SuccessIsCaptured
<1> HIDE DEF g
<1>7. WorldInv' /\ \A o \in Orders : Stable(o)
  BY <1>2, <1>4, <1>5, <1>6, GatewayStepInv DEF IInv
<1>8. CASE Leave
  BY <1>1, <1>7, <1>8, LeaveInv
<1>9. CASE \E pc \in {"block", "record", "fresh"} : GoTo(pc)
  <2>1. /\ closer' \in Closers /\ closer'.batch = closer.batch
        /\ closer'.pc \in {"block", "record", "fresh"}
    BY <1>2, <1>9 DEF GoTo, Closers, ClosePCs
  <2> QED
    BY <1>1, <1>7, <2>1, GoOnInv
<1> QED
  BY <1>3, <1>8, <1>9

LEMMA QuietSteps ==
  ASSUME IInv, SkipOrder \/ QueryFails \/ ReadAgain \/ StoreFails
  PROVE  StepGoal
<1>1. closer.pc # "idle" /\ (Leave \/ GoTo("expire"))
  BY DEF SkipOrder, QueryFails, ReadAgain, StoreFails
<1>2. WorldInv' /\ \A o \in Orders : Stable(o)
  BY WorldUnchanged DEF SkipOrder, QueryFails, ReadAgain, StoreFails
<1>3. CASE Leave
  BY <1>1, <1>2, <1>3, LeaveInv
<1>4. CASE GoTo("expire")
  <2>1. /\ closer' \in Closers /\ closer'.batch = closer.batch /\ closer'.pc = "expire"
    BY <1>4 DEF IInv, CloserInv, GoTo, Closers, ClosePCs
  <2> QED
    BY <1>1, <1>2, <2>1, GoOnInv
<1> QED
  BY <1>1, <1>3, <1>4

\* What a call to the wallet does to the shared state.
LEMMA WalletStep ==
  ASSUME IInv, NEW o \in Orders, NEW w \in {wallet[o], ExpireEffect(wallet[o])},
         wallet' = [wallet EXCEPT ![o] = w], UNCHANGED <<now, orders, gw, restarts>>
  PROVE  WorldInv' /\ \A x \in Orders : Stable(x)
<1>1. /\ \A x \in Orders : wallet'[x] = IF x = o THEN w ELSE wallet[x]
      /\ w \in WalletStates
      /\ w = wallet[o] \/ (wallet[o] = "pending" /\ w = "failed")
  BY DEF IInv, WorldInv, WorldTypeOK, ExpireEffect, WalletStates
<1>2. WorldTypeOK'
  BY <1>1 DEF IInv, WorldInv, WorldTypeOK
<1>3. CreditBacked'
  BY <1>1 DEF IInv, WorldInv, CreditBacked
<1>4. PaidBacked'
  BY <1>1 DEF IInv, WorldInv, PaidBacked
<1>5. (PendingIsPaid /\ SuccessIsCaptured)'
  BY DEF IInv, WorldInv, PendingIsPaid, SuccessIsCaptured
<1>6. \A x \in Orders : Stable(x)
  BY <1>1 DEF Stable
<1> QED
  BY <1>2, <1>3, <1>4, <1>5, <1>6 DEF WorldInv

LEMMA ExpireSteps ==
  ASSUME IInv, ExpireAnswered \/ ExpireFails
  PROVE  StepGoal
<1>1. closer.pc = "expire" /\ UNCHANGED <<now, orders, gw, restarts>>
  BY DEF ExpireAnswered, ExpireFails
<1>2. /\ current \in Orders /\ wallet[current] \in WalletStates /\ closer \in Closers
  BY <1>1, CurrentFacts DEF IInv, CloserInv
<1>3. CASE ExpireAnswered
  <2>1. WorldInv' /\ \A o \in Orders : Stable(o)
    BY <1>1, <1>2, <1>3, WalletStep DEF ExpireAnswered
  <2>2. /\ closer' = [closer EXCEPT !.pc = "settle", !.result = ExpireAnswer(wallet[current])]
        /\ wallet'[current] = ExpireEffect(wallet[current])
    BY <1>2, <1>3 DEF ExpireAnswered, IInv, WorldInv, WorldTypeOK
  <2>3. /\ ExpireAnswer(wallet[current]) \in ExpireResults
        /\ ExpireAnswer(wallet[current]) \in {"expired", "failed"} =>
             ExpireEffect(wallet[current]) = "failed"
        /\ ExpireAnswer(wallet[current]) = "success" =>
             ExpireEffect(wallet[current]) \in {"credited", "granted"}
    <3>1. CASE wallet[current] = "pending"
      BY <3>1 DEF ExpireAnswer, ExpireEffect, ExpireResults
    <3>2. CASE wallet[current] \in {"credited", "granted"}
      BY <3>2 DEF ExpireAnswer, ExpireEffect, ExpireResults
    <3>3. CASE wallet[current] \in {"failed", "missing", "not_epay"}
      BY <3>3 DEF ExpireAnswer, ExpireEffect, ExpireResults
    <3> QED
      BY <1>2, <3>1, <3>2, <3>3 DEF WalletStates
  <2>4. /\ closer' \in Closers /\ closer'.batch = closer.batch /\ closer'.pc = "settle"
        /\ closer'.result = ExpireAnswer(wallet[current])
    BY <1>2, <2>2, <2>3 DEF Closers, ClosePCs
  <2> QED
    BY <1>1, <2>1, <2>2, <2>3, <2>4, GoOnInv
<1>4. CASE ExpireFails
  <2>1. WorldInv' /\ \A o \in Orders : Stable(o)
    BY <1>1, <1>2, <1>4, WalletStep DEF ExpireFails
  <2> QED
    BY <1>1, <1>4, <2>1, LeaveInv DEF ExpireFails
<1> QED
  BY <1>3, <1>4

\* What the wallet answered, the row as it is now, and the payment agree.
LEMMA SettleStep ==
  ASSUME IInv, Settle
  PROVE  StepGoal
<1> DEFINE r == Settled(orders[current])
<1>1. closer.pc = "settle" /\ WriteRow(r) /\ Leave
  BY DEF Settle
<1>2. /\ current \in Orders /\ orders[current] \in Rows /\ now \in Nat
      /\ closer.result \in ExpireResults
      /\ orders[current].notify = "pending" => orders[current].status = "paid"
  BY <1>1, CurrentFacts DEF IInv, WorldInv, WorldTypeOK, CloserInv, Closers, PendingIsPaid
<1>3. CASE closer.result \in {"expired", "failed"}
  <2>1. r = MarkFailedIfCreated(orders[current])
    BY <1>3 DEF Settled
  <2>2. /\ r \in Rows /\ r.amount = orders[current].amount
        /\ r.status = IF orders[current].status = "created" THEN "failed"
                      ELSE orders[current].status
        /\ r.notify = orders[current].notify
    BY <1>2, <2>1, RowOpsType, RowOpsKeep, RowOpsStatus
  <2>3. orders[current].status = "created" => orders[current].notify # "pending"
    BY <1>2
  <2>4. wallet[current] = "failed"
    BY <1>1, <1>3 DEF IInv, CloserInv
  <2> HIDE DEF r
  <2> QED
    BY <1>1, <1>2, <2>2, <2>3, <2>4, WriteRowInv, LeaveInv
<1>4. CASE closer.result = "success"
  <2>1. r = MarkPaid(orders[current], FALSE, now)
    BY <1>4 DEF Settled
  <2>2. r \in Rows /\ r.amount = orders[current].amount /\ r.status = "paid"
    <3> HIDE DEF r
    <3> QED
      BY <1>2, <2>1, RowOpsType, RowOpsKeep, RowOpsStatus
  <2>3. wallet[current] \in {"credited", "granted"}
    BY <1>1, <1>4 DEF IInv, CloserInv
  <2>4. wallet[current] = "credited" =>
          gw[current].captured /\ gw[current].amount = orders[current].amount
    BY <1>2 DEF IInv, WorldInv, CreditBacked
  <2> HIDE DEF r
  <2> QED
    BY <1>1, <2>2, <2>3, <2>4, WriteRowInv, LeaveInv
<1>5. CASE closer.result = "not_epay"
  <2>1. r = BlockExpire(orders[current])
    BY <1>5 DEF Settled
  <2>2. /\ r \in Rows /\ r.amount = orders[current].amount
        /\ r.status = orders[current].status /\ r.notify = orders[current].notify
    BY <1>2, <2>1, RowOpsType, RowOpsKeep, RowOpsStatus
  <2> HIDE DEF r
  <2> QED
    BY <1>1, <1>2, <2>2, WriteRowInv, LeaveInv
<1>6. CASE closer.result \in {"none", "missing"}
  <2>1. r = orders[current]
    BY <1>6 DEF Settled
  <2> HIDE DEF r
  <2> QED
    BY <1>1, <1>2, <2>1, WriteRowInv, LeaveInv
<1> QED
  BY <1>2, <1>3, <1>4, <1>5, <1>6 DEF ExpireResults

\* The notification is delivered only for a paid order.
LEMMA DeliveredStep ==
  ASSUME IInv, NEW o \in Orders, Delivered(o), UNCHANGED closer
  PROVE  StepGoal
<1> DEFINE r == NotifySucceeded(orders[o])
           w == Credit(wallet[o])
<1>1. orders[o] \in Rows /\ wallet[o] \in WalletStates
  BY DEF IInv, WorldInv, WorldTypeOK
<1>2. /\ r \in Rows /\ r.amount = orders[o].amount
      /\ r.status = orders[o].status /\ r.notify = "succeeded"
  BY <1>1, RowOpsType, RowOpsKeep, RowOpsStatus
<1>3. /\ w \in WalletStates
      /\ w = wallet[o] \/ (wallet[o] = "pending" /\ w = "credited")
  BY <1>1 DEF Credit, WalletStates
<1>4. orders[o].status = "paid"
  BY DEF Delivered, IInv, WorldInv, PendingIsPaid
<1>5. wallet[o] = "pending" => gw[o].captured /\ gw[o].amount = orders[o].amount
  BY <1>4 DEF IInv, WorldInv, PaidBacked
<1>6. /\ orders' = [orders EXCEPT ![o] = r] /\ wallet' = [wallet EXCEPT ![o] = w]
      /\ UNCHANGED <<now, gw, restarts>>
  BY DEF Delivered
<1> HIDE DEF r, w
<1>7. \A x \in Orders : /\ orders'[x] = IF x = o THEN r ELSE orders[x]
                        /\ wallet'[x] = IF x = o THEN w ELSE wallet[x]
  BY <1>6 DEF IInv, WorldInv, WorldTypeOK
<1>8. WorldTypeOK'
  BY <1>2, <1>3, <1>6 DEF IInv, WorldInv, WorldTypeOK
<1>9. CreditBacked'
  BY <1>2, <1>3, <1>5, <1>6, <1>7 DEF IInv, WorldInv, CreditBacked
<1>10. (PaidBacked /\ PendingIsPaid /\ SuccessIsCaptured)'
  BY <1>2, <1>3, <1>5, <1>6, <1>7
     DEF IInv, WorldInv, PaidBacked, PendingIsPaid, SuccessIsCaptured
<1>11. \A x \in Orders : Stable(x)
  BY <1>2, <1>3, <1>6, <1>7 DEF Stable
<1>12. WorldInv'
  BY <1>8, <1>9, <1>10 DEF WorldInv
<1> QED
  BY <1>11, <1>12, OthersKeepCloser DEF StepGoal

LEMMA OtherSteps ==
  ASSUME IInv, \/ WorldStep /\ UNCHANGED closer
               \/ TimePasses /\ UNCHANGED closer
               \/ Restart
               \/ UNCHANGED closingVars
  PROVE  StepGoal
<1>1. CASE WorldStep /\ UNCHANGED closer
  BY <1>1, WorldStepInv, OthersKeepCloser DEF IInv, StepGoal
<1>2. CASE TimePasses /\ UNCHANGED closer
  BY <1>2, TickInv, OthersKeepCloser DEF IInv, StepGoal, TimePasses
<1>3. CASE Restart
  <2>1. WorldInv' /\ (\A o \in Orders : Stable(o)) /\ closer' = Idle
    BY <1>3, ReopenInv DEF Restart, IInv
  <2>2. FailedOnlyAfterWallet'
    BY <2>1 DEF FailedOnlyAfterWallet, Stable, IInv
  <2>3. CloserInv'
    BY <2>1 DEF CloserInv, Idle, Closers, ClosePCs, Plans, NoPlan, ExpireResults
  <2> QED
    BY <2>1, <2>2, <2>3 DEF StepGoal, IInv
<1>4. CASE UNCHANGED closingVars
  <2>1. UNCHANGED worldVars /\ UNCHANGED closer
    BY <1>4 DEF closingVars, worldVars
  <2> QED
    BY <2>1, WorldUnchanged, OthersKeepCloser DEF StepGoal
<1> QED
  BY <1>1, <1>2, <1>3, <1>4

LEMMA InitInv ==
  ASSUME ClosingInit
  PROVE  IInv
<1>1. WorldInv /\ FailedOnlyAfterWallet
  BY WorldInitInv DEF ClosingInit, FailedOnlyAfterWallet
<1>2. CloserInv
  BY DEF ClosingInit, CloserInv, Idle, Closers, ClosePCs, Plans, NoPlan, ExpireResults
<1> QED
  BY <1>1, <1>2 DEF IInv

LEMMA NextInv ==
  ASSUME IInv, [ClosingNext]_closingVars
  PROVE  StepGoal
<1>1. CASE CloserStep
  BY <1>1, TickStep, QueryStep, WriteSteps, CloseSteps, QuietSteps, ExpireSteps, SettleStep
     DEF CloserStep
<1>2. CASE (\E o \in Orders : Delivered(o)) /\ UNCHANGED closer
  BY <1>2, DeliveredStep
<1>3. CASE \/ WorldStep /\ UNCHANGED closer
           \/ TimePasses /\ UNCHANGED closer
           \/ Restart
           \/ UNCHANGED closingVars
  BY <1>3, OtherSteps
<1> QED
  BY <1>1, <1>2, <1>3 DEF ClosingNext

-----------------------------------------------------------------------------
(* The theorems. *)

\* The inductive invariant.
THEOREM ClosingInvariant == ClosingSpec => []IInv
<1>1. ClosingInit => IInv
  BY InitInv
<1>2. IInv /\ [ClosingNext]_closingVars => IInv'
  BY NextInv DEF StepGoal
<1> QED
  BY <1>1, <1>2, PTL DEF ClosingSpec

\* The tables, the clock and the closer keep their types.
THEOREM ClosingType == ClosingSpec => []ClosingTypeOK
<1>1. IInv => ClosingTypeOK
  BY DEF IInv, WorldInv, CloserInv, ClosingTypeOK
<1> QED
  BY <1>1, ClosingInvariant, PTL

\* The adapter has the wallet credited only with money the gateway took, at the
\* amount ordered, whichever of the closer and the notification found out.
THEOREM ClosingCreditBacked == ClosingSpec => []CreditBacked
<1>1. IInv => CreditBacked
  BY DEF IInv, WorldInv
<1> QED
  BY <1>1, ClosingInvariant, PTL

\* The closer records an order as failed only when its top-up has failed.
THEOREM ClosingFailedOnlyAfterWallet == ClosingSpec => []FailedOnlyAfterWallet
<1>1. IInv => FailedOnlyAfterWallet
  BY DEF IInv
<1> QED
  BY <1>1, ClosingInvariant, PTL

\* Neither the closer nor a restart takes back an order recorded as paid.
THEOREM ClosingPaidIsFinal == ClosingSpec => PaidIsFinal
<1> DEFINE kept == \A o \in Orders : orders[o].status = "paid" => orders'[o].status = "paid"
<1>1. IInv /\ [ClosingNext]_closingVars => [kept]_orders
  BY NextInv DEF StepGoal, Stable
<1> QED
  BY <1>1, ClosingInvariant, PTL DEF ClosingSpec, PaidIsFinal
=============================================================================
