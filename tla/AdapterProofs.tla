--------------------------- MODULE AdapterProofs ----------------------------
(***************************************************************************)
(* What the parts keep together, for any number of orders, submissions and *)
(* cashier pages.  Closing, Delivery and Checkout say of each other what   *)
(* Adapter takes from their steps alone, so their invariants are not       *)
(* assumed here: MarkFailed and UpdateJeepay of a submission write over    *)
(* what the others have recorded.                                          *)
(***************************************************************************)
EXTENDS Retries, PaymentsProofs

\* Where the closer has had an answer of the gateway for the order at hand.
CloserKnows == {"paid", "block", "close", "record", "fresh", "expire"}

CloserOK == /\ closer \in Close!Closers
            /\ closer.pc # "idle" => closer.batch # <<>>
            /\ closer.pc \in CloserKnows => gw[Close!current].state # NoOrder

JobsOK == /\ job \in [Notify!Deliverers -> Notify!Jobs]
          /\ \A d \in Notify!Deliverers : job[d].pc # "idle" => job[d].batch # <<>>

\* A row about to be inserted owes no notification.
SubmitOK == /\ submit \in [Submitters -> Submit!Requests]
            /\ \A s \in Submitters : submit[s].pc = "insert" =>
                 submit[s].copy.status = "created" /\ submit[s].copy.notify = "none"

\* Only a top-up whose order the gateway knows has been expired.
ExpiredIsKnown == \A o \in Orders : wallet[o] = "failed" => gw[o].state # NoOrder

AdapterIInv == /\ WorldTypeOK /\ silent \subseteq Orders
               /\ CloserOK /\ JobsOK /\ SubmitOK
               /\ ExpiredIsKnown

\* What every step does to a row, but the record of an attempt's outcome: the
\* notification stays as it is, or it is queued by MarkPaid.
Quiet(r, q) ==
  /\ r.status # "absent" => q.status # "absent"
  /\ \/ q.notify = r.notify /\ q.nextAt = r.nextAt /\ q.attempts = r.attempts
     \/ \E b \in BOOLEAN : q = MarkPaid(r, b, now)
     \/ r.status = "absent" /\ q.notify = "none"

\* The gateway forgets no order, and only of one it knows is the top-up expired.
Remembers(o) == /\ gw[o].state # NoOrder => gw'[o].state # NoOrder
                /\ wallet'[o] = "failed" => wallet[o] = "failed" \/ gw[o].state # NoOrder

WorldGoal == WorldTypeOK' /\ \A o \in Orders : Quiet(orders[o], orders'[o]) /\ Remembers(o)

USE AdapterAssumption
USE DEF GatewayStates, NoOrder, StateInit, StateIng, StateSuccess, StateFail, StateClosed

-----------------------------------------------------------------------------
(* Steps on the shared state. *)

LEMMA SameIsQuiet ==
  ASSUME NEW r \in Rows
  PROVE  Quiet(r, r)
BY DEF Quiet

LEMMA RowsSame ==
  ASSUME WorldTypeOK, orders' = orders
  PROVE  \A o \in Orders : Quiet(orders[o], orders'[o])
BY SameIsQuiet DEF WorldTypeOK

LEMMA WorldSame ==
  ASSUME WorldTypeOK, UNCHANGED worldVars
  PROVE  WorldGoal
BY RowsSame DEF WorldGoal, WorldTypeOK, Remembers, worldVars

LEMMA RowWritten ==
  ASSUME WorldTypeOK, NEW o \in Orders, NEW q \in Rows, orders' = [orders EXCEPT ![o] = q],
         UNCHANGED <<now, gw, wallet, restarts>>
  PROVE  /\ WorldTypeOK' /\ \A x \in Orders : Remembers(x)
         /\ \A x \in Orders : x # o => orders'[x] = orders[x] /\ Quiet(orders[x], orders'[x])
         /\ orders'[o] = q
<1>1. \A x \in Orders : orders[x] \in Rows /\ orders'[x] = IF x = o THEN q ELSE orders[x]
  BY DEF WorldTypeOK
<1> QED
  BY <1>1, SameIsQuiet DEF WorldTypeOK, Remembers

LEMMA QuietlyWritten ==
  ASSUME WorldTypeOK, NEW o \in Orders, NEW q \in Rows, orders' = [orders EXCEPT ![o] = q],
         UNCHANGED <<now, gw, wallet, restarts>>, Quiet(orders[o], q)
  PROVE  WorldGoal
BY RowWritten DEF WorldGoal

LEMMA GatewayMoved ==
  ASSUME WorldTypeOK, NEW o \in Orders, NEW h \in GatewayOrders, gw' = [gw EXCEPT ![o] = h],
         UNCHANGED <<now, orders, wallet, restarts>>,
         gw[o].state # NoOrder => h.state # NoOrder
  PROVE  WorldGoal
<1>1. \A x \in Orders : gw'[x] = IF x = o THEN h ELSE gw[x]
  BY DEF WorldTypeOK
<1> QED
  BY <1>1, RowsSame DEF WorldGoal, WorldTypeOK, Remembers

LEMMA WalletMoved ==
  ASSUME WorldTypeOK, NEW o \in Orders, NEW w \in WalletStates, wallet' = [wallet EXCEPT ![o] = w],
         UNCHANGED <<now, orders, gw, restarts>>,
         w = "failed" => wallet[o] = "failed" \/ gw[o].state # NoOrder
  PROVE  WorldGoal
<1>1. \A x \in Orders : wallet'[x] = IF x = o THEN w ELSE wallet[x]
  BY DEF WorldTypeOK
<1> QED
  BY <1>1, RowsSame DEF WorldGoal, WorldTypeOK, Remembers

\* The statements that queue no further attempt.
LEMMA RowOpsQuiet ==
  ASSUME NEW r \in Rows, now \in Nat, NEW b \in BOOLEAN, NEW c \in BOOLEAN, NEW t \in Nat
  PROVE  /\ MarkPaid(r, b, now) \in Rows /\ Quiet(r, MarkPaid(r, b, now))
         /\ MarkFailed(r) \in Rows /\ Quiet(r, MarkFailed(r))
         /\ MarkFailedIfCreated(r) \in Rows /\ Quiet(r, MarkFailedIfCreated(r))
         /\ SetChannelClosed(r, t) \in Rows /\ Quiet(r, SetChannelClosed(r, t))
         /\ BlockExpire(r) \in Rows /\ Quiet(r, BlockExpire(r))
         /\ SetExpireAt(r, t) \in Rows /\ Quiet(r, SetExpireAt(r, t))
         /\ UpdateJeepay(r, b, c) \in Rows /\ Quiet(r, UpdateJeepay(r, b, c))
<1>1. MarkPaid(r, b, now) \in Rows /\ Quiet(r, MarkPaid(r, b, now))
  <2>1. MarkPaid(r, b, now) \in Rows
    BY RowOpsType
  <2>2. MarkPaid(r, b, now).status = "paid"
    BY DEF MarkPaid, Rows
  <2> QED
    BY <2>1, <2>2 DEF Quiet
<1>2. MarkFailed(r) \in Rows /\ Quiet(r, MarkFailed(r))
  BY DEF MarkFailed, Rows, Quiet, PayStatuses
<1>3. MarkFailedIfCreated(r) \in Rows /\ Quiet(r, MarkFailedIfCreated(r))
  BY DEF MarkFailedIfCreated, Rows, Quiet, PayStatuses
<1>4. SetChannelClosed(r, t) \in Rows /\ Quiet(r, SetChannelClosed(r, t))
  BY DEF SetChannelClosed, Rows, Quiet
<1>5. BlockExpire(r) \in Rows /\ Quiet(r, BlockExpire(r))
  BY DEF BlockExpire, Rows, Quiet
<1>6. SetExpireAt(r, t) \in Rows /\ Quiet(r, SetExpireAt(r, t))
  BY DEF SetExpireAt, Rows, Quiet
<1>7. UpdateJeepay(r, b, c) \in Rows /\ Quiet(r, UpdateJeepay(r, b, c))
  BY DEF UpdateJeepay, Rows, Quiet
<1> QED
  BY <1>1, <1>2, <1>3, <1>4, <1>5, <1>6, <1>7

LEMMA GatewayStepMoves ==
  ASSUME WorldTypeOK, NEW o \in Orders, NEW h \in GatewayOrders, GatewayStep(o, h),
         h.state # NoOrder
  PROVE  WorldGoal
BY GatewayMoved DEF GatewayStep

LEMMA WorldMoves ==
  ASSUME WorldTypeOK, WorldStep
  PROVE  WorldGoal
<1>1. PICK o \in Orders : \/ GatewaySends(o) \/ CustomerPays(o) \/ LatePayment(o)
                          \/ GatewayConfirms(o) \/ GatewayFails(o) \/ GatewayExpires(o)
                          \/ AdministratorGrants(o) \/ HandleJeepayNotify(o)
  BY DEF WorldStep
<1>2. gw[o] \in GatewayOrders /\ now \in Nat /\ orders[o] \in Rows
  BY DEF WorldTypeOK
<1>3. CASE GatewaySends(o)
  BY <1>2, <1>3, GatewayStepMoves DEF GatewaySends, GatewayOrders
<1>4. CASE CustomerPays(o)
  BY <1>2, <1>4, GatewayStepMoves DEF CustomerPays, GatewayOrders
<1>5. CASE LatePayment(o)
  BY <1>2, <1>5, GatewayStepMoves DEF LatePayment, GatewayOrders
<1>6. CASE GatewayConfirms(o)
  BY <1>2, <1>6, GatewayStepMoves DEF GatewayConfirms, GatewayOrders
<1>7. CASE GatewayFails(o)
  BY <1>2, <1>7, GatewayStepMoves DEF GatewayFails, GatewayOrders
<1>8. CASE GatewayExpires(o)
  BY <1>2, <1>8, GatewayStepMoves, ClosedFacts DEF GatewayExpires
<1>9. CASE AdministratorGrants(o)
  BY <1>9, WalletMoved DEF AdministratorGrants, WalletStates
<1>10. CASE HandleJeepayNotify(o)
  <2>1. orders' = [orders EXCEPT ![o] = MarkPaid(orders[o], TRUE, now)]
    BY <1>10 DEF HandleJeepayNotify
  <2>2. MarkPaid(orders[o], TRUE, now) \in Rows /\ Quiet(orders[o], MarkPaid(orders[o], TRUE, now))
    BY <1>2, RowOpsQuiet
  <2> QED
    BY <1>10, <2>1, <2>2, QuietlyWritten DEF HandleJeepayNotify
<1> QED
  BY <1>1, <1>3, <1>4, <1>5, <1>6, <1>7, <1>8, <1>9, <1>10

-----------------------------------------------------------------------------
(* The closer. *)

\* Closing knows the decisions and the statements under names of its own.
LEMMA ClosingNames ==
  /\ Close!Fetched = Fetched /\ Close!Plans = Plans /\ Close!NoPlan = NoPlan
  /\ \A t, a, l : Close!DueCloses(t, a, l) = DueCloses(t, a, l)
  /\ \A g, t : Close!CloseAnswers(g, t) = CloseAnswers(g, t)
  /\ \A w : Close!ExpireEffect(w) = ExpireEffect(w) /\ Close!ExpireAnswer(w) = ExpireAnswer(w)
  /\ \A r, b, t : Close!MarkPaid(r, b, t) = MarkPaid(r, b, t)
  /\ \A r, t : Close!SetChannelClosed(r, t) = SetChannelClosed(r, t)
  /\ \A r : /\ Close!BlockExpire(r) = BlockExpire(r)
            /\ Close!MarkFailedIfCreated(r) = MarkFailedIfCreated(r)
<1>1. /\ Close!Fetched = Fetched /\ Close!Plans = Plans /\ Close!NoPlan = NoPlan
  BY DEF Close!Fetched, Fetched, Close!Rows, Rows, Close!PayStatuses, PayStatuses,
         Close!NotifyStatuses, NotifyStatuses, Close!Plans, Plans, Close!NoPlan, NoPlan
<1>2. \A t, a, l : Close!DueCloses(t, a, l) = DueCloses(t, a, l)
  BY DEF Close!DueCloses, DueCloses, Close!Fetch, Fetch, Close!Selections, Selections
<1>3. \A g, t : Close!CloseAnswers(g, t) = CloseAnswers(g, t)
  BY DEF Close!CloseAnswers, CloseAnswers, Close!Closed, Closed, Close!StateInit,
         Close!StateIng, Close!StateClosed
<1>4. \A w : Close!ExpireEffect(w) = ExpireEffect(w) /\ Close!ExpireAnswer(w) = ExpireAnswer(w)
  BY DEF Close!ExpireEffect, ExpireEffect, Close!ExpireAnswer, ExpireAnswer
<1>5. /\ \A r, b, t : Close!MarkPaid(r, b, t) = MarkPaid(r, b, t)
      /\ \A r, t : Close!SetChannelClosed(r, t) = SetChannelClosed(r, t)
      /\ \A r : /\ Close!BlockExpire(r) = BlockExpire(r)
                /\ Close!MarkFailedIfCreated(r) = MarkFailedIfCreated(r)
  BY DEF Close!MarkPaid, MarkPaid, Close!SetChannelClosed, SetChannelClosed,
         Close!BlockExpire, BlockExpire, Close!MarkFailedIfCreated, MarkFailedIfCreated
<1> QED
  BY <1>1, <1>2, <1>3, <1>4, <1>5

\* Whatever the gateway reports, the closer has a plan.
LEMMA PlanType ==
  \A state, amount, orderAmount, requery, at, expireAt :
    Close!decideQuery(state, amount, orderAmount, requery, at, expireAt) \in Plans
<1> SUFFICES ASSUME NEW state, NEW amount, NEW orderAmount, NEW requery, NEW at, NEW expireAt
             PROVE  Close!decideQuery(state, amount, orderAmount, requery, at, expireAt) \in Plans
  OBVIOUS
<1>1. Close!paidPlan(amount, orderAmount) \in Plans
  BY DEF Close!paidPlan, Close!NoPlan, Plans
<1>2. Close!missedDue(at, expireAt) \in BOOLEAN
  BY DEF Close!missedDue
<1>3. /\ [Close!NoPlan EXCEPT !.callClose = TRUE, !.ing = TRUE] \in Plans
      /\ \A b \in BOOLEAN : /\ [Close!NoPlan EXCEPT !.callClose = TRUE, !.expire = b] \in Plans
                            /\ [Close!NoPlan EXCEPT !.expire = b] \in Plans
      /\ [Close!NoPlan EXCEPT !.expire = TRUE] \in Plans
      /\ Close!NoPlan \in Plans
  BY DEF Close!NoPlan, Plans
<1>4. Close!openPlan(state, at, expireAt) \in Plans
  BY <1>2, <1>3 DEF Close!openPlan
<1> QED
  BY <1>1, <1>3, <1>4 DEF Close!decideQuery

CloserGoal == WorldGoal /\ CloserOK'

LEMMA CloserAtHand ==
  ASSUME AdapterIInv, closer.pc # "idle"
  PROVE  /\ closer \in Close!Closers /\ closer.batch \in Seq(Fetched) /\ closer.batch # <<>>
         /\ closer.plan \in Plans /\ closer.at \in Nat
         /\ Close!current \in Orders
         /\ orders[Close!current] \in Rows /\ gw[Close!current] \in GatewayOrders
         /\ wallet[Close!current] \in WalletStates
         /\ WorldTypeOK /\ now \in Nat
<1>1. /\ closer \in Close!Closers /\ closer.batch \in Seq(Fetched) /\ closer.batch # <<>>
      /\ closer.plan \in Plans /\ closer.at \in Nat
  BY ClosingNames DEF AdapterIInv, CloserOK, Close!Closers
<1>2. Head(closer.batch) \in Fetched
  BY <1>1, HeadFacts
<1>3. Close!current \in Orders
  BY <1>2 DEF Close!current, Fetched
<1> QED
  BY <1>1, <1>3 DEF AdapterIInv, WorldTypeOK

LEMMA IdleCloser == Close!Idle \in Close!Closers /\ Close!Idle.pc = "idle"
BY ClosingNames DEF Close!Idle, Close!Closers, Close!ClosePCs, NoPlan, Plans, Close!ExpireResults

LEMMA CloserLeaves ==
  ASSUME AdapterIInv, closer.pc # "idle", Close!Leave, WorldGoal
  PROVE  CloserGoal
<1> DEFINE next == [closer EXCEPT !.pc = "query", !.batch = Tail(@),
                                  !.plan = Close!NoPlan, !.result = "none"]
<1>1. closer \in Close!Closers /\ closer.batch \in Seq(Fetched) /\ closer.batch # <<>>
  BY CloserAtHand
<1>2. CASE Len(closer.batch) = 1
  <2>1. closer' = Close!Idle
    BY <1>2 DEF Close!Leave, Close!NextOrder
  <2>2. closer' \in Close!Closers /\ closer'.pc = "idle"
    BY <2>1, IdleCloser
  <2> QED
    BY <2>2 DEF CloserGoal, CloserOK, CloserKnows
<1>3. CASE Len(closer.batch) # 1
  <2>1. closer' = next
    BY <1>3 DEF Close!Leave, Close!NextOrder
  <2>2. Tail(closer.batch) \in Seq(Fetched) /\ Tail(closer.batch) # <<>>
    BY <1>1, <1>3, TailFacts
  <2>3. next \in Close!Closers /\ next.pc = "query" /\ next.batch = Tail(closer.batch)
    BY <1>1, <2>2, ClosingNames
    DEF Close!Closers, Close!ClosePCs, Plans, NoPlan, Close!ExpireResults
  <2> HIDE DEF next
  <2>4. closer' \in Close!Closers /\ closer'.pc = "query" /\ closer'.batch # <<>>
    BY <2>1, <2>2, <2>3
  <2> QED
    BY <2>4 DEF CloserGoal, CloserOK, CloserKnows
<1> QED
  BY <1>2, <1>3

\* The closer goes on with the same order: to what it needs an answer for only
\* if the gateway knows the order.
LEMMA CloserGoesOn ==
  ASSUME AdapterIInv, closer.pc # "idle", WorldGoal,
         closer' \in Close!Closers, closer'.batch = closer.batch,
         gw[Close!current].state # NoOrder
  PROVE  CloserGoal
<1>1. Close!current \in Orders /\ closer.batch # <<>>
  BY CloserAtHand
<1>2. Close!current' = Close!current
  BY DEF Close!current
<1>3. gw'[Close!current].state # NoOrder
  BY <1>1 DEF WorldGoal, Remembers
<1> QED
  BY <1>1, <1>2, <1>3 DEF CloserGoal, CloserOK

LEMMA CloserGoTo ==
  ASSUME AdapterIInv, closer.pc # "idle", NEW pc \in Close!ClosePCs, Close!GoTo(pc)
  PROVE  closer' \in Close!Closers /\ closer'.batch = closer.batch
BY CloserAtHand DEF Close!GoTo, Close!Closers

LEMMA CloserLooks ==
  ASSUME AdapterIInv, UNCHANGED Close!worldVars
  PROVE  WorldGoal
BY WorldSame DEF AdapterIInv, worldVars, Close!worldVars

LEMMA CloserTickMoves ==
  ASSUME AdapterIInv, Close!CloserTick
  PROVE  CloserGoal
<1>1. PICK batch \in DueCloses(orders, now + CloseLead, CloseBatch) :
        /\ batch # <<>>
        /\ closer' = [Close!Idle EXCEPT !.pc = "query", !.at = now, !.batch = batch]
  BY ClosingNames DEF Close!CloserTick
<1>2. orders \in [Orders -> Rows] /\ now \in Nat
  BY DEF AdapterIInv, WorldTypeOK
<1>3. batch \in Seq(Fetched)
  BY <1>2, DueClosesType
<1>4. closer' \in Close!Closers /\ closer'.batch = batch /\ closer'.pc = "query"
  <2>1. batch \in Seq(Close!Fetched)
    BY <1>3, ClosingNames
  <2> QED
    BY <1>1, <1>2, <2>1, IdleCloser DEF Close!Closers, Close!ClosePCs
<1>5. WorldGoal
  BY CloserLooks DEF Close!CloserTick
<1> QED
  BY <1>1, <1>4, <1>5 DEF CloserGoal, CloserOK, CloserKnows

LEMMA CloserReads ==
  ASSUME AdapterIInv, \/ Close!SkipOrder \/ Close!QueryFails \/ Close!StoreFails
                      \/ Close!QueryAnswered \/ Close!ReadAgain
  PROVE  CloserGoal
<1>1. closer.pc # "idle" /\ WorldGoal
  BY CloserLooks
  DEF Close!SkipOrder, Close!QueryFails, Close!StoreFails,
      Close!QueryAnswered, Close!ReadAgain
<1>2. CASE Close!Leave
  BY <1>1, <1>2, CloserLeaves
<1>3. CASE ~ Close!Leave
  <2>1. CASE Close!QueryAnswered
    <3> DEFINE plan == Close!decideQuery(gw[Close!current].state, gw[Close!current].amount,
                         Close!snapshot.amount, Close!step = "requery", closer.at,
                         Close!snapshot.expireAt)
               planned == [closer EXCEPT !.plan = plan]
    <3>1. gw[Close!current].state # NoOrder
      BY <2>1 DEF Close!QueryAnswered, Close!NoOrder
    <3>2. plan \in Plans
      BY PlanType
    <3>4. \/ closer' = [planned EXCEPT !.pc = "paid"]
          \/ closer' = [planned EXCEPT !.pc = "block"]
          \/ closer' = [planned EXCEPT !.pc = "close"]
          \/ closer' = [planned EXCEPT !.pc = "fresh"]
          \/ Close!Leave
      <4>1. closer' = CASE plan.markPaid  -> [planned EXCEPT !.pc = "paid"]
                        [] plan.block     -> [planned EXCEPT !.pc = "block"]
                        [] plan.callClose -> [planned EXCEPT !.pc = "close"]
                        [] plan.expire /\ ~ plan.callClose -> [planned EXCEPT !.pc = "fresh"]
                        [] OTHER -> Close!NextOrder
        BY <2>1 DEF Close!QueryAnswered
      <4>2. /\ plan.markPaid \in BOOLEAN /\ plan.block \in BOOLEAN
            /\ plan.callClose \in BOOLEAN /\ plan.expire \in BOOLEAN
        BY <3>2 DEF Plans
      <4> HIDE DEF plan, planned
      <4> QED
        BY <4>1, <4>2 DEF Close!Leave
    <3> HIDE DEF plan
    <3>5. plan \in Close!Plans
      BY <3>2, ClosingNames
    <3>6. closer' \in Close!Closers /\ closer'.batch = closer.batch
      BY <1>1, <1>3, <3>4, <3>5, CloserAtHand DEF Close!Leave, Close!Closers, Close!ClosePCs
    <3> QED
      BY <1>1, <3>1, <3>6, CloserGoesOn
  <2>2. CASE Close!ReadAgain
    <3>1. Close!GoTo("expire") /\ closer.pc = "fresh"
      BY <1>3, <2>2 DEF Close!ReadAgain
    <3>2. closer' \in Close!Closers /\ closer'.batch = closer.batch
      BY <1>1, <3>1, CloserGoTo DEF Close!ClosePCs
    <3> QED
      BY <1>1, <3>1, <3>2, CloserGoesOn DEF AdapterIInv, CloserOK, CloserKnows
  <2> QED
    BY <1>3, <2>1, <2>2 DEF Close!SkipOrder, Close!QueryFails, Close!StoreFails
<1> QED
  BY <1>2, <1>3

LEMMA CloserWrites ==
  ASSUME AdapterIInv, \/ Close!CloserMarksPaid \/ Close!CloserBlocks
                      \/ Close!RecordChannelClosed \/ Close!Settle
  PROVE  CloserGoal
<1> DEFINE r == orders[Close!current]
           statements == {MarkPaid(r, TRUE, now), MarkPaid(r, FALSE, now), MarkFailedIfCreated(r),
                          SetChannelClosed(r, closer.at), BlockExpire(r), r}
<1>1. closer.pc # "idle" /\ Close!Leave
  BY DEF Close!CloserMarksPaid, Close!CloserBlocks, Close!RecordChannelClosed, Close!Settle
<1>2. \E q \in statements : Close!WriteRow(q)
  <2>1. CASE Close!CloserMarksPaid
    BY <2>1, ClosingNames DEF Close!CloserMarksPaid
  <2>2. CASE Close!CloserBlocks
    BY <2>2, ClosingNames DEF Close!CloserBlocks
  <2>3. CASE Close!RecordChannelClosed
    BY <2>3, ClosingNames DEF Close!RecordChannelClosed
  <2>4. CASE Close!Settle
    <3>1. Close!Settled(r) \in statements
      BY ClosingNames DEF Close!Settled
    <3> QED
      BY <2>4, <3>1 DEF Close!Settle
  <2> QED
    BY <2>1, <2>2, <2>3, <2>4
<1>3. r \in Rows /\ now \in Nat /\ closer.at \in Nat /\ Close!current \in Orders /\ WorldTypeOK
  BY <1>1, CloserAtHand
<1>4. PICK q \in statements : Close!WriteRow(q)
  BY <1>2
<1>5. q \in Rows /\ Quiet(r, q)
  <2>1. TRUE \in BOOLEAN /\ FALSE \in BOOLEAN
    OBVIOUS
  <2>2. \A p \in statements : p \in Rows /\ Quiet(r, p)
    BY <1>3, <2>1, RowOpsQuiet, SameIsQuiet
  <2> QED
    BY <1>4, <2>2
<1> HIDE DEF statements
<1>6. WorldGoal
  BY <1>3, <1>4, <1>5, QuietlyWritten DEF Close!WriteRow
<1> QED
  BY <1>1, <1>6, CloserLeaves

LEMMA CloserCloses ==
  ASSUME AdapterIInv, Close!CloseAnswered \/ Close!CloseUnanswered
  PROVE  CloserGoal
<1>1. closer.pc = "close"
  BY DEF Close!CloseAnswered, Close!CloseUnanswered
<1>2. /\ WorldTypeOK /\ Close!current \in Orders /\ gw[Close!current] \in GatewayOrders
      /\ now \in Nat /\ closer \in Close!Closers
  BY <1>1, CloserAtHand
<1>3. gw[Close!current].state # NoOrder
  BY <1>1 DEF AdapterIInv, CloserOK, CloserKnows
<1>4. PICK answer \in CloseAnswers(gw[Close!current], now) :
        /\ gw' = [gw EXCEPT ![Close!current] = answer.order]
        /\ UNCHANGED <<now, orders, wallet, restarts>>
        /\ \/ Close!Leave
           \/ \E pc \in {"block", "record", "fresh"} : Close!GoTo(pc)
  <2>1. CASE Close!CloseAnswered
    <3>1. PICK answer \in CloseAnswers(gw[Close!current], now) :
            LET d == Close!decideClose(answer.kind, closer.plan.ing, closer.at,
                                       Close!snapshot.expireAt)
            IN /\ gw' = [gw EXCEPT ![Close!current] = answer.order]
               /\ closer' = CASE d.block  -> [closer EXCEPT !.pc = "block"]
                              [] d.record -> [closer EXCEPT !.pc = "record"]
                              [] d.expire -> [closer EXCEPT !.pc = "fresh"]
                              [] OTHER -> Close!NextOrder
      BY <2>1, ClosingNames DEF Close!CloseAnswered
    <3> DEFINE d == Close!decideClose(answer.kind, closer.plan.ing, closer.at,
                                      Close!snapshot.expireAt)
               go(pc) == [closer EXCEPT !.pc = pc]
    <3>2. \/ closer' = go("block")
          \/ closer' = go("record")
          \/ closer' = go("fresh")
          \/ Close!Leave
      <4>1. closer' = CASE d.block  -> go("block")
                        [] d.record -> go("record")
                        [] d.expire -> go("fresh")
                        [] OTHER -> Close!NextOrder
        BY <3>1
      <4>2. d.block \in BOOLEAN /\ d.record \in BOOLEAN /\ d.expire \in BOOLEAN
        <5>1. (Close!missedDue(closer.at, Close!snapshot.expireAt)) \in BOOLEAN
          BY DEF Close!missedDue
        <5> QED
          BY <5>1 DEF Close!decideClose
      <4> HIDE DEF d, go
      <4> QED
        BY <4>1, <4>2 DEF Close!Leave
    <3>3. UNCHANGED <<now, orders, wallet, restarts>>
      BY <2>1 DEF Close!CloseAnswered
    <3> QED
      BY <3>1, <3>2, <3>3 DEF Close!GoTo
  <2>2. CASE Close!CloseUnanswered
    BY <2>2, ClosingNames DEF Close!CloseUnanswered
  <2> QED
    BY <2>1, <2>2
<1>5. answer.order \in GatewayOrders /\ answer.order.state # NoOrder
  <2> DEFINE g == gw[Close!current]
  <2>1. answer.order \in GatewayOrders /\ (answer.order = g \/ answer.order = Closed(g, now))
    BY <1>2, CloseAnswersFacts
  <2>2. Closed(g, now).state = StateClosed
    BY <1>2, ClosedFacts
  <2> QED
    BY <1>3, <2>1, <2>2
<1>6. WorldGoal
  BY <1>2, <1>4, <1>5, GatewayMoved
<1>7. CASE Close!Leave
  BY <1>1, <1>6, <1>7, CloserLeaves
<1>8. CASE \E pc \in {"block", "record", "fresh"} : Close!GoTo(pc)
  <2>1. closer' \in Close!Closers /\ closer'.batch = closer.batch
    BY <1>1, <1>8, CloserGoTo DEF Close!ClosePCs
  <2> QED
    BY <1>1, <1>3, <1>6, <2>1, CloserGoesOn
<1> QED
  BY <1>4, <1>7, <1>8

LEMMA CloserExpires ==
  ASSUME AdapterIInv, Close!ExpireAnswered \/ Close!ExpireFails
  PROVE  CloserGoal
<1>1. closer.pc = "expire"
  BY DEF Close!ExpireAnswered, Close!ExpireFails
<1>2. /\ WorldTypeOK /\ Close!current \in Orders /\ wallet[Close!current] \in WalletStates
      /\ closer \in Close!Closers
  BY <1>1, CloserAtHand
<1>3. gw[Close!current].state # NoOrder
  BY <1>1 DEF AdapterIInv, CloserOK, CloserKnows
<1>4. ExpireEffect(wallet[Close!current]) \in WalletStates
  BY <1>2 DEF ExpireEffect, WalletStates
<1>5. WorldGoal
  <2>1. \E w \in {wallet[Close!current], ExpireEffect(wallet[Close!current])} :
          wallet' = [wallet EXCEPT ![Close!current] = w]
    BY ClosingNames DEF Close!ExpireAnswered, Close!ExpireFails
  <2>2. UNCHANGED <<now, orders, gw, restarts>>
    BY DEF Close!ExpireAnswered, Close!ExpireFails
  <2> QED
    BY <1>2, <1>3, <1>4, <2>1, <2>2, WalletMoved
<1>6. CASE Close!ExpireAnswered
  <2> DEFINE answer == ExpireAnswer(wallet[Close!current])
  <2>1. closer' = [closer EXCEPT !.pc = "settle", !.result = answer]
    BY <1>6, ClosingNames DEF Close!ExpireAnswered
  <2>2. answer \in Close!ExpireResults
    BY <1>2 DEF ExpireAnswer, WalletStates, Close!ExpireResults
  <2> HIDE DEF answer
  <2>3. closer' \in Close!Closers /\ closer'.batch = closer.batch
    BY <1>2, <2>1, <2>2 DEF Close!Closers, Close!ClosePCs
  <2> QED
    BY <1>1, <1>3, <1>5, <2>3, CloserGoesOn
<1>7. CASE Close!ExpireFails
  BY <1>1, <1>5, <1>7, CloserLeaves DEF Close!ExpireFails
<1> QED
  BY <1>6, <1>7

LEMMA CloserMoves ==
  ASSUME AdapterIInv, Close!CloserStep
  PROVE  CloserGoal
BY CloserTickMoves, CloserReads, CloserWrites, CloserCloses, CloserExpires DEF Close!CloserStep

-----------------------------------------------------------------------------
(* The worker and the cashier pages. *)

LEMMA DeliveryNames ==
  /\ Notify!Fetched = Fetched
  /\ \A t, l, a : Notify!DueNotifies(t, l, a) = DueNotifies(t, l, a)
  /\ \A w : Notify!Credit(w) = Credit(w)
  /\ \A r, b, t : Notify!MarkPaid(r, b, t) = MarkPaid(r, b, t)
  /\ \A r : Notify!NotifySucceeded(r) = NotifySucceeded(r)
  /\ \A r, n, t, g : Notify!NotifyRetry(r, n, t, g) = NotifyRetry(r, n, t, g)
<1>1. Notify!Fetched = Fetched
  BY DEF Notify!Fetched, Fetched, Notify!Rows, Rows, Notify!PayStatuses, PayStatuses,
         Notify!NotifyStatuses, NotifyStatuses
<1>2. \A t, l, a : Notify!DueNotifies(t, l, a) = DueNotifies(t, l, a)
  BY DEF Notify!DueNotifies, DueNotifies, Notify!Fetch, Fetch, Notify!Selections, Selections
<1>3. /\ \A w : Notify!Credit(w) = Credit(w)
      /\ \A r, b, t : Notify!MarkPaid(r, b, t) = MarkPaid(r, b, t)
      /\ \A r : Notify!NotifySucceeded(r) = NotifySucceeded(r)
      /\ \A r, n, t, g : Notify!NotifyRetry(r, n, t, g) = NotifyRetry(r, n, t, g)
  BY DEF Notify!Credit, Credit, Notify!MarkPaid, MarkPaid, Notify!NotifySucceeded,
         NotifySucceeded, Notify!NotifyRetry, NotifyRetry
<1> QED
  BY <1>1, <1>2, <1>3

\* A deliverer goes on to job j.
LEMMA JobSet ==
  ASSUME AdapterIInv, NEW d \in Notify!Deliverers, NEW j \in Notify!Jobs, Notify!SetJob(d, j),
         j.pc # "idle" => j.batch # <<>>
  PROVE  JobsOK' /\ silent' = silent /\ job' = [job EXCEPT ![d] = j]
BY DEF Notify!SetJob, AdapterIInv, JobsOK

LEMMA JobFacts ==
  /\ Notify!NoJob \in Notify!Jobs /\ Notify!NoJob.pc = "idle"
  /\ \A pc \in Notify!JobPCs, b \in Seq(Fetched), a \in BOOLEAN :
       LET j == [pc |-> pc, batch |-> b, answered |-> a]
       IN j \in Notify!Jobs /\ j.pc = pc /\ j.batch = b
BY DeliveryNames DEF Notify!NoJob, Notify!Jobs, Notify!JobPCs

\* What a deliverer at work holds.
LEMMA JobAtHand ==
  ASSUME AdapterIInv, NEW d \in Notify!Deliverers, job[d].pc # "idle"
  PROVE  /\ job[d] \in Notify!Jobs /\ job[d].batch \in Seq(Fetched) /\ job[d].batch # <<>>
         /\ Notify!subject(d) \in Orders /\ Notify!copy(d) \in Rows
         /\ orders[Notify!subject(d)] \in Rows /\ wallet[Notify!subject(d)] \in WalletStates
         /\ WorldTypeOK /\ now \in Nat
<1>1. job[d] \in Notify!Jobs /\ job[d].batch \in Seq(Fetched) /\ job[d].batch # <<>>
  BY DeliveryNames DEF AdapterIInv, JobsOK, Notify!Jobs
<1>2. Head(job[d].batch) \in Fetched
  BY <1>1, HeadFacts
<1>3. Notify!subject(d) \in Orders /\ Notify!copy(d) \in Rows
  BY <1>2 DEF Notify!subject, Notify!copy, Fetched
<1> QED
  BY <1>1, <1>3 DEF AdapterIInv, WorldTypeOK

LEMMA NextJobFacts ==
  ASSUME AdapterIInv, NEW d \in Notify!Deliverers, job[d].pc # "idle"
  PROVE  /\ Notify!NextJob(d) \in Notify!Jobs
         /\ Notify!NextJob(d).pc # "idle" =>
              /\ Len(job[d].batch) # 1 /\ Notify!NextJob(d).batch = Tail(job[d].batch)
              /\ Notify!NextJob(d).batch # <<>>
<1>1. job[d].batch \in Seq(Fetched) /\ job[d].batch # <<>>
  BY JobAtHand
<1>2. CASE Len(job[d].batch) = 1
  BY <1>2, JobFacts DEF Notify!NextJob
<1>3. CASE Len(job[d].batch) # 1
  <2> DEFINE b == Tail(job[d].batch)
             j == [pc |-> "post", batch |-> b, answered |-> FALSE]
  <2>1. Notify!NextJob(d) = j
    BY <1>3 DEF Notify!NextJob
  <2>2. b \in Seq(Fetched) /\ b # <<>>
    BY <1>1, <1>3, TailFacts
  <2>3. "post" \in Notify!JobPCs /\ FALSE \in BOOLEAN
    BY DEF Notify!JobPCs
  <2> HIDE DEF b
  <2>4. j \in Notify!Jobs /\ j.batch = b
    BY <2>2, <2>3, JobFacts
  <2> QED
    BY <1>3, <2>1, <2>2, <2>4 DEF b
<1> QED
  BY <1>2, <1>3

\* The order of a one-row job.
LEMMA SingleBatch ==
  ASSUME NEW o \in Orders, NEW r \in Rows
  PROVE  <<[order |-> o, row |-> r]>> \in Seq(Fetched) /\ <<[order |-> o, row |-> r]>> # <<>>
BY DEF Fetched

LEMMA ReturnedFacts ==
  ASSUME NEW o \in Orders, NEW r \in Rows
  PROVE  /\ Notify!Returned(o, r) \in Notify!Jobs
         /\ Notify!Returned(o, r).pc # "idle" => Notify!Returned(o, r).batch # <<>>
<1> DEFINE b == <<[order |-> o, row |-> r]>>
<1>1. b \in Seq(Fetched) /\ b # <<>>
  BY SingleBatch
<1>2. Notify!Returned(o, r) \in {[pc |-> "post", batch |-> b, answered |-> FALSE], Notify!NoJob}
  BY DEF Notify!Returned
<1> HIDE DEF b
<1> DEFINE j == [pc |-> "post", batch |-> b, answered |-> FALSE]
<1>3. j \in Notify!Jobs /\ j.batch = b
  <2>1. "post" \in Notify!JobPCs /\ FALSE \in BOOLEAN
    BY DEF Notify!JobPCs
  <2> QED
    BY <1>1, <2>1, JobFacts
<1> HIDE DEF j
<1> QED
  BY <1>1, <1>2, <1>3, JobFacts DEF j

\* The job of d with another position or another answer.
LEMMA JobGoesOn ==
  ASSUME AdapterIInv, NEW d \in Notify!Deliverers, job[d].pc # "idle",
         NEW pc \in Notify!JobPCs, NEW a \in BOOLEAN
  PROVE  /\ [job[d] EXCEPT !.pc = pc] \in Notify!Jobs
         /\ [job[d] EXCEPT !.pc = pc].batch = job[d].batch
         /\ [job[d] EXCEPT !.pc = pc, !.answered = a] \in Notify!Jobs
         /\ [job[d] EXCEPT !.pc = pc, !.answered = a].batch = job[d].batch
<1>1. job[d] \in Notify!Jobs
  BY JobAtHand
<1> QED
  BY <1>1 DEF Notify!Jobs

LEMMA NoLessIsNat == ASSUME NEW a \in Nat, NEW b \in Nat PROVE Notify!Least(a, b) \in Nat
BY DEF Notify!Least

\* The row with the outcome of an attempt is a row.
LEMMA RecordedType ==
  ASSUME NEW d \in Notify!Deliverers, Notify!copy(d) \in Rows, NEW r \in Rows, now \in Nat
  PROVE  Notify!Recorded(d, r) \in Rows
<1> DEFINE attempts == Notify!Least(Notify!copy(d).attempts + 1, AttemptCap)
           giveUp == attempts >= Notify!Limit(d)
           next == IF giveUp THEN 0 ELSE Notify!Horizon(now + Notify!backoff(attempts))
<1>1. Notify!copy(d).attempts \in Nat
  BY DEF Rows
<1>2. BackoffStep \in Nat /\ BackoffCap \in Nat /\ AttemptCap \in Nat /\ MaxTime \in Nat
  BY TimeAssumption
<1>3. attempts \in Nat
  <2>1. Notify!copy(d).attempts + 1 \in Nat
    BY <1>1
  <2> QED
    BY <1>2, <2>1, NoLessIsNat
<1> HIDE DEF attempts
<1>4. giveUp \in BOOLEAN
  OBVIOUS
<1>5. next \in Nat
  <2>1. attempts * BackoffStep \in Nat
    BY <1>2, <1>3, ProductIsNat
  <2>2. Notify!backoff(attempts) \in Nat
    BY <1>2, <2>1, NoLessIsNat DEF Notify!backoff
  <2>3. now + Notify!backoff(attempts) \in Nat
    BY <2>2
  <2>4. Notify!Horizon(now + Notify!backoff(attempts)) \in Nat
    BY <1>2, <2>3, NoLessIsNat DEF Notify!Horizon
  <2> QED
    BY <2>4
<1>6. Notify!Recorded(d, r) \in {NotifySucceeded(r), NotifyRetry(r, attempts, next, giveUp)}
  BY DeliveryNames DEF Notify!Recorded, attempts
<1> HIDE DEF giveUp, next
<1>7. NotifyRetry(r, attempts, next, giveUp) \in Rows
  BY <1>3, <1>4, <1>5, NotifyRetryFacts
<1>8. NotifySucceeded(r) \in Rows
  <2>1. 0 \in Nat /\ TRUE \in BOOLEAN
    OBVIOUS
  <2> QED
    BY <2>1, RowOpsType
<1> QED
  BY <1>6, <1>7, <1>8

\* A step of a deliverer, but for a row it may write: types, and nothing of
\* what the gateway knows is forgotten.
DeliveryGoal == /\ WorldTypeOK' /\ \A o \in Orders : Remembers(o)
                /\ JobsOK' /\ silent' = silent

LEMMA QuietStep == ASSUME WorldGoal PROVE WorldTypeOK' /\ \A o \in Orders : Remembers(o)
BY DEF WorldGoal

LEMMA PagesLook ==
  ASSUME AdapterIInv, UNCHANGED Notify!worldVars
  PROVE  WorldGoal
BY WorldSame DEF AdapterIInv, worldVars, Notify!worldVars

LEMMA WorkerTickMoves ==
  ASSUME AdapterIInv, Notify!WorkerTick
  PROVE  WorldGoal /\ DeliveryGoal
<1>1. PICK batch \in DueNotifies(orders, NotifyBatch, now) :
        /\ batch # <<>>
        /\ Notify!SetJob(Worker, [Notify!NoJob EXCEPT !.pc = "post", !.batch = batch])
  BY DeliveryNames DEF Notify!WorkerTick
<1> DEFINE j == [Notify!NoJob EXCEPT !.pc = "post", !.batch = batch]
<1>2. Notify!SetJob(Worker, j)
  BY <1>1
<1>3. batch \in Seq(Fetched)
  <2>1. orders \in [Orders -> Rows] /\ NotifyBatch \in Nat
    BY DEF AdapterIInv, WorldTypeOK
  <2> QED
    BY <2>1, DueNotifiesType
<1>4. j \in Notify!Jobs /\ j.batch = batch
  <2>1. "post" \in Notify!JobPCs /\ batch \in Seq(Notify!Fetched)
    BY <1>3, DeliveryNames DEF Notify!JobPCs
  <2> QED
    BY <2>1, JobFacts DEF Notify!Jobs
<1> HIDE DEF j
<1>5. Worker \in Notify!Deliverers
  BY DEF Notify!Deliverers
<1>6. JobsOK' /\ silent' = silent
  BY <1>1, <1>2, <1>4, <1>5, JobSet
<1>7. WorldGoal
  BY PagesLook DEF Notify!WorkerTick
<1> QED
  BY <1>6, <1>7, QuietStep DEF DeliveryGoal

\* The steps that only read.
LEMMA PageReads ==
  ASSUME AdapterIInv, NEW d \in Notify!Deliverers,
         \/ \E o \in Orders : Notify!PollRead(d, o)
         \/ Notify!PollQueryFails(d) \/ Notify!PollQuery(d) \/ Notify!PollReread(d)
         \/ Notify!PostLost(d) \/ Notify!DeliveryStoreFails(d)
  PROVE  WorldGoal /\ DeliveryGoal
<1>1. WorldGoal
  BY PagesLook
  DEF Notify!PollRead, Notify!PollQueryFails, Notify!PollQuery, Notify!PollReread,
      Notify!PostLost, Notify!DeliveryStoreFails
<1>2. \E j \in Notify!Jobs : Notify!SetJob(d, j) /\ (j.pc # "idle" => j.batch # <<>>)
  <2>1. ASSUME NEW o \in Orders, Notify!PollRead(d, o)
        PROVE  \E j \in Notify!Jobs : Notify!SetJob(d, j) /\ (j.pc # "idle" => j.batch # <<>>)
    <3> DEFINE b == <<[order |-> o, row |-> orders[o]]>>
               j == [pc |-> "query", batch |-> b, answered |-> FALSE]
    <3>1. orders[o] \in Rows
      BY DEF AdapterIInv, WorldTypeOK
    <3>2. b \in Seq(Fetched) /\ b # <<>>
      BY <3>1, SingleBatch
    <3>3. Notify!SetJob(d, j) \/ Notify!SetJob(d, Notify!Returned(o, orders[o]))
      BY <2>1 DEF Notify!PollRead
    <3> HIDE DEF b
    <3>4. j \in Notify!Jobs /\ j.batch = b
      <4>1. "query" \in Notify!JobPCs /\ FALSE \in BOOLEAN
        BY DEF Notify!JobPCs
      <4> QED
        BY <3>2, <4>1, JobFacts
    <3> HIDE DEF j
    <3> QED
      BY <3>1, <3>2, <3>3, <3>4, ReturnedFacts
  <2>2. CASE Notify!PollQueryFails(d)
    BY <2>2, JobFacts DEF Notify!PollQueryFails
  <2>3. CASE Notify!PollQuery(d)
    <3>1. \/ Notify!SetJob(d, [job[d] EXCEPT !.pc = "mark"])
          \/ Notify!SetJob(d, Notify!NoJob)
      BY <2>3 DEF Notify!PollQuery
    <3>2. job[d].pc # "idle" /\ "mark" \in Notify!JobPCs
      BY <2>3 DEF Notify!PollQuery, Notify!JobPCs
    <3>3. /\ [job[d] EXCEPT !.pc = "mark"] \in Notify!Jobs
          /\ [job[d] EXCEPT !.pc = "mark"].batch # <<>>
      BY <3>2, JobAtHand, JobGoesOn
    <3> QED
      BY <3>1, <3>3, JobFacts
  <2>4. CASE Notify!PollReread(d)
    BY <2>4, JobAtHand, ReturnedFacts DEF Notify!PollReread
  <2>5. CASE Notify!PostLost(d)
    <3> DEFINE j == [job[d] EXCEPT !.pc = "record", !.answered = FALSE]
    <3>1. Notify!SetJob(d, j) /\ job[d].pc # "idle" /\ "record" \in Notify!JobPCs
      BY <2>5 DEF Notify!PostLost, Notify!Outcome, Notify!JobPCs
    <3>2. j \in Notify!Jobs /\ j.batch # <<>>
      BY <3>1, JobAtHand, JobGoesOn
    <3> QED
      BY <3>1, <3>2
  <2>6. CASE Notify!DeliveryStoreFails(d)
    <3>1. Notify!SetJob(d, Notify!NextJob(d)) \/ Notify!SetJob(d, Notify!NoJob)
      BY <2>6 DEF Notify!DeliveryStoreFails
    <3>2. job[d].pc # "idle"
      BY <2>6 DEF Notify!DeliveryStoreFails
    <3> QED
      BY <3>1, <3>2, NextJobFacts, JobFacts
  <2> QED
    BY <2>1, <2>2, <2>3, <2>4, <2>5, <2>6
<1>3. JobsOK' /\ silent' = silent
  BY <1>2, JobSet
<1> QED
  BY <1>1, <1>3, QuietStep DEF DeliveryGoal

\* Recording a payment.
LEMMA PageWrites ==
  ASSUME AdapterIInv, NEW d \in Notify!Deliverers, Notify!PollMark(d)
  PROVE  WorldGoal /\ DeliveryGoal
<1> DEFINE o == Notify!subject(d)
<1>1. job[d].pc # "idle"
  BY DEF Notify!PollMark
<1>2. o \in Orders /\ orders[o] \in Rows /\ now \in Nat /\ WorldTypeOK
  BY <1>1, JobAtHand
<1>3. MarkPaid(orders[o], TRUE, now) \in Rows /\ Quiet(orders[o], MarkPaid(orders[o], TRUE, now))
  BY <1>2, RowOpsQuiet
<1>4. /\ UNCHANGED <<now, gw, wallet, restarts>>
      /\ orders' = [orders EXCEPT ![o] = MarkPaid(orders[o], TRUE, now)]
  BY DeliveryNames DEF Notify!PollMark
<1>5. WorldGoal
  <2> HIDE DEF o
  <2> QED
    BY <1>2, <1>3, <1>4, QuietlyWritten
<1>6. JobsOK' /\ silent' = silent
  <2>1. Notify!SetJob(d, [job[d] EXCEPT !.pc = "reread"])
    BY DEF Notify!PollMark
  <2>2. "reread" \in Notify!JobPCs
    BY DEF Notify!JobPCs
  <2>3. /\ [job[d] EXCEPT !.pc = "reread"] \in Notify!Jobs
        /\ [job[d] EXCEPT !.pc = "reread"].batch # <<>>
    BY <1>1, <2>2, JobAtHand, JobGoesOn
  <2> QED
    BY <2>1, <2>3, JobSet
<1> QED
  BY <1>5, <1>6, QuietStep DEF DeliveryGoal

LEMMA PostMoves ==
  ASSUME AdapterIInv, NEW d \in Notify!Deliverers, Notify!PostHandled(d)
  PROVE  WorldGoal /\ DeliveryGoal
<1>1. PICK a \in BOOLEAN :
        /\ job[d].pc = "post"
        /\ wallet' = [wallet EXCEPT ![Notify!subject(d)] = Credit(wallet[Notify!subject(d)])]
        /\ Notify!SetJob(d, [job[d] EXCEPT !.pc = "record", !.answered = a])
        /\ UNCHANGED <<now, orders, gw, restarts>>
  BY DeliveryNames DEF Notify!PostHandled, Notify!Outcome
<1>2. /\ Notify!subject(d) \in Orders /\ WorldTypeOK
      /\ wallet[Notify!subject(d)] \in WalletStates
  BY <1>1, JobAtHand
<1>3. /\ Credit(wallet[Notify!subject(d)]) \in WalletStates
      /\ Credit(wallet[Notify!subject(d)]) = "failed" => wallet[Notify!subject(d)] = "failed"
  BY <1>2 DEF Credit, WalletStates
<1>4. WorldGoal
  BY <1>1, <1>2, <1>3, WalletMoved
<1>5. JobsOK' /\ silent' = silent
  <2> DEFINE j == [job[d] EXCEPT !.pc = "record", !.answered = a]
  <2>1. "record" \in Notify!JobPCs /\ job[d].pc # "idle"
    BY <1>1 DEF Notify!JobPCs
  <2>2. j \in Notify!Jobs /\ j.batch # <<>>
    BY <2>1, JobAtHand, JobGoesOn
  <2> HIDE DEF j
  <2> QED
    BY <1>1, <2>2, JobSet DEF j
<1> QED
  BY <1>4, <1>5, QuietStep DEF DeliveryGoal

\* The steps that write the outcome of an attempt, or that none was needed, to
\* the row of the order at hand.
LEMMA OutcomeMoves ==
  ASSUME AdapterIInv, NEW d \in Notify!Deliverers, Notify!Record(d) \/ Notify!DeliverSilent(d)
  PROVE  /\ DeliveryGoal /\ job[d].pc # "idle"
         /\ \A x \in Orders : x # Notify!subject(d) =>
              orders'[x] = orders[x] /\ Quiet(orders[x], orders'[x])
         /\ orders'[Notify!subject(d)] =
              IF Notify!Record(d) THEN Notify!Recorded(d, orders[Notify!subject(d)])
                                  ELSE NotifySucceeded(orders[Notify!subject(d)])
         /\ job' = [job EXCEPT ![d] = Notify!NextJob(d)]
<1> DEFINE o == Notify!subject(d)
           q == IF Notify!Record(d) THEN Notify!Recorded(d, orders[o])
                                    ELSE NotifySucceeded(orders[o])
<1>1. /\ job[d].pc # "idle" /\ orders' = [orders EXCEPT ![o] = q]
      /\ Notify!SetJob(d, Notify!NextJob(d)) /\ UNCHANGED <<now, gw, wallet, restarts>>
  <2>1. CASE Notify!Record(d)
    BY <2>1 DEF Notify!Record
  <2>2. CASE ~ Notify!Record(d)
    BY <2>2, DeliveryNames DEF Notify!DeliverSilent
  <2> QED
    BY <2>1, <2>2
<1>2. o \in Orders /\ orders[o] \in Rows /\ now \in Nat /\ WorldTypeOK /\ Notify!copy(d) \in Rows
  BY <1>1, JobAtHand
<1>3. q \in Rows
  <2>1. Notify!Recorded(d, orders[o]) \in Rows
    BY <1>2, RecordedType
  <2>2. NotifySucceeded(orders[o]) \in Rows
    BY <1>2 DEF NotifySucceeded, Rows, NotifyStatuses
  <2> QED
    BY <2>1, <2>2
<1>4. JobsOK' /\ silent' = silent /\ job' = [job EXCEPT ![d] = Notify!NextJob(d)]
  BY <1>1, NextJobFacts, JobSet
<1>5. /\ DeliveryGoal /\ orders'[o] = q
      /\ \A x \in Orders : x # o => orders'[x] = orders[x] /\ Quiet(orders[x], orders'[x])
  <2> HIDE DEF q, o
  <2> QED
    BY <1>1, <1>2, <1>3, <1>4, RowWritten DEF DeliveryGoal
<1> QED
  BY <1>1, <1>4, <1>5

LEMMA DeliveryMoves ==
  ASSUME AdapterIInv, Notify!DeliveryStep
  PROVE  /\ DeliveryGoal
         /\ \/ WorldGoal
            \/ \E d \in Notify!Deliverers : Notify!Record(d) \/ Notify!DeliverSilent(d)
<1>1. \A d \in Pollers : d \in Notify!Deliverers
  BY DEF Notify!Deliverers
<1>2. \/ Notify!WorkerTick
      \/ \E d \in Notify!Deliverers :
           \/ \E o \in Orders : Notify!PollRead(d, o)
           \/ Notify!PollQueryFails(d) \/ Notify!PollQuery(d) \/ Notify!PollReread(d)
           \/ Notify!PostLost(d) \/ Notify!DeliveryStoreFails(d)
           \/ Notify!PollMark(d) \/ Notify!DeliverSilent(d)
           \/ Notify!PostHandled(d) \/ Notify!Record(d)
  BY <1>1 DEF Notify!DeliveryStep, Notify!PollStep, Notify!Deliver
<1> QED
  BY <1>2, WorkerTickMoves, PageReads, PageWrites, PostMoves, OutcomeMoves

-----------------------------------------------------------------------------
(* Submissions. *)

LEMMA CheckoutNames ==
  /\ Submit!Rows = Rows
  /\ \A a, t : Submit!Insert(a, t) = Insert(a, t)
  /\ \A r, b, t : Submit!MarkPaid(r, b, t) = MarkPaid(r, b, t)
  /\ \A r, b, c : Submit!UpdateJeepay(r, b, c) = UpdateJeepay(r, b, c)
  /\ \A r, t : Submit!SetExpireAt(r, t) = SetExpireAt(r, t)
  /\ \A r : Submit!MarkFailed(r) = MarkFailed(r)
<1>1. Submit!Rows = Rows
  BY DEF Submit!Rows, Rows, Submit!PayStatuses, PayStatuses, Submit!NotifyStatuses, NotifyStatuses
<1>2. /\ \A a, t : Submit!Insert(a, t) = Insert(a, t)
      /\ \A r, b, t : Submit!MarkPaid(r, b, t) = MarkPaid(r, b, t)
      /\ \A r, b, c : Submit!UpdateJeepay(r, b, c) = UpdateJeepay(r, b, c)
      /\ \A r, t : Submit!SetExpireAt(r, t) = SetExpireAt(r, t)
      /\ \A r : Submit!MarkFailed(r) = MarkFailed(r)
  BY DEF Submit!Insert, Insert, Submit!MarkPaid, MarkPaid, Submit!UpdateJeepay, UpdateJeepay,
         Submit!SetExpireAt, SetExpireAt, Submit!MarkFailed, MarkFailed
<1> QED
  BY <1>1, <1>2

LEMMA InsertFacts ==
  ASSUME NEW a \in Amounts, NEW t \in Nat
  PROVE  Insert(a, t) \in Rows /\ Insert(a, t).status = "created" /\ Insert(a, t).notify = "none"
BY DEF Insert, Rows, PayStatuses, NotifyStatuses

LEMMA NoRequestType == Submit!NoRequest \in Submit!Requests /\ Submit!NoRequest.pc = "idle"
<1> DEFINE o == CHOOSE x \in Orders : TRUE
           a == CHOOSE x \in Amounts : TRUE
<1>1. o \in Orders /\ a \in Amounts
  OBVIOUS
<1>2. Submit!Insert(a, 0) \in Submit!Rows
  BY <1>1, InsertFacts, CheckoutNames
<1>3. Submit!NoRequest = [pc |-> "idle", order |-> o, copy |-> Submit!Insert(a, 0),
                          state |-> Submit!NoOrder]
  BY DEF Submit!NoRequest
<1> HIDE DEF o, a
<1> QED
  BY <1>1, <1>2, <1>3 DEF Submit!Requests, Submit!SubmitPCs, Submit!GatewayStates, Submit!NoOrder

\* A request that may be served next.
Servable(r) == /\ r \in Submit!Requests
               /\ r.pc = "insert" => r.copy.status = "created" /\ r.copy.notify = "none"

LEMMA RequestSet ==
  ASSUME AdapterIInv, NEW s \in Submitters, NEW r, Servable(r), Submit!SetRequest(s, r)
  PROVE  SubmitOK'
BY DEF Submit!SetRequest, AdapterIInv, SubmitOK, Servable

LEMMA RequestAtHand ==
  ASSUME AdapterIInv, NEW s \in Submitters
  PROVE  /\ submit[s] \in Submit!Requests /\ Submit!target(s) \in Orders
         /\ Submit!copy(s) \in Rows /\ Servable(submit[s])
         /\ orders[Submit!target(s)] \in Rows /\ gw[Submit!target(s)] \in GatewayOrders
         /\ WorldTypeOK /\ now \in Nat
<1>1. submit[s] \in Submit!Requests /\ Servable(submit[s])
  BY DEF AdapterIInv, SubmitOK, Servable
<1>2. Submit!target(s) \in Orders /\ Submit!copy(s) \in Rows
  BY <1>1, CheckoutNames DEF Submit!Requests, Submit!target, Submit!copy
<1> QED
  BY <1>1, <1>2 DEF AdapterIInv, WorldTypeOK

\* A request that returns, or goes on to anything but an insertion.
LEMMA ReturnOK == ASSUME AdapterIInv, NEW s \in Submitters, Submit!Return(s) PROVE SubmitOK'
BY NoRequestType, RequestSet DEF Submit!Return, Servable

LEMMA GoesOn ==
  ASSUME AdapterIInv, NEW s \in Submitters, NEW pc \in Submit!SubmitPCs, pc # "insert",
         NEW state \in GatewayStates
  PROVE  /\ Servable([submit[s] EXCEPT !.pc = pc])
         /\ Servable([submit[s] EXCEPT !.pc = pc, !.state = state])
<1>1. submit[s] \in Submit!Requests /\ state \in Submit!GatewayStates
  BY RequestAtHand
  DEF Submit!GatewayStates, Submit!NoOrder, Submit!StateInit, Submit!StateIng,
      Submit!StateSuccess, Submit!StateFail, Submit!StateClosed
<1> QED
  BY <1>1 DEF Servable, Submit!Requests

LEMMA ContinueOK ==
  ASSUME AdapterIInv, NEW s \in Submitters, NEW pc \in Submit!SubmitPCs, pc # "insert",
         Submit!Continue(s, pc)
  PROVE  SubmitOK'
<1>1. StateInit \in GatewayStates
  OBVIOUS
<1>2. Servable([submit[s] EXCEPT !.pc = pc])
  BY <1>1, GoesOn
<1> QED
  BY <1>2, RequestSet DEF Submit!Continue

SubmitGoal == WorldGoal /\ SubmitOK'

LEMMA RequestLooks == ASSUME AdapterIInv, UNCHANGED Submit!worldVars PROVE WorldGoal
BY WorldSame DEF AdapterIInv, worldVars, Submit!worldVars

LEMMA SubmitReadsMoves ==
  ASSUME AdapterIInv, NEW s \in Submitters, NEW o \in Orders, NEW amount \in Amounts,
         Submit!SubmitReads(s, o, amount)
  PROVE  SubmitGoal
<1>1. WorldGoal
  BY RequestLooks DEF Submit!SubmitReads
<1>2. CASE Submit!Return(s)
  BY <1>1, <1>2, ReturnOK DEF SubmitGoal
<1>3. CASE ~ Submit!Return(s)
  <2> DEFINE new == orders[o].status = "absent"
             c == IF new THEN Insert(amount, 0) ELSE orders[o]
             pc == IF new THEN "insert" ELSE "deadline"
             r == [Submit!NoRequest EXCEPT !.pc = pc, !.order = o, !.copy = c]
  <2>1. Submit!SetRequest(s, r)
    BY <1>3, CheckoutNames DEF Submit!SubmitReads
  <2>2. now \in Nat /\ orders[o] \in Rows
    BY DEF AdapterIInv, WorldTypeOK
  <2>3. /\ c \in Rows /\ pc \in Submit!SubmitPCs
        /\ pc = "insert" => c.status = "created" /\ c.notify = "none"
    BY <2>2, InsertFacts DEF Submit!SubmitPCs
  <2> HIDE DEF c, pc
  <2>4. c \in Submit!Rows
    BY <2>3, CheckoutNames
  <2>5. r \in Submit!Requests /\ r.pc = pc /\ r.copy = c
    BY <2>3, <2>4, NoRequestType DEF Submit!Requests
  <2> HIDE DEF r
  <2>6. Servable(r)
    BY <2>3, <2>5 DEF Servable
  <2> QED
    BY <1>1, <2>1, <2>6, RequestSet DEF SubmitGoal
<1> QED
  BY <1>2, <1>3

\* The steps of a request that write its row.
LEMMA RequestWrites ==
  ASSUME AdapterIInv, NEW s \in Submitters, NEW q \in Rows, Submit!Write(s, q),
         Quiet(orders[Submit!target(s)], q)
  PROVE  WorldGoal
<1>1. Submit!target(s) \in Orders /\ WorldTypeOK
  BY RequestAtHand
<1> QED
  BY <1>1, QuietlyWritten DEF Submit!Write

LEMMA SubmitInsertsMoves ==
  ASSUME AdapterIInv, NEW s \in Submitters, Submit!SubmitInserts(s)
  PROVE  SubmitGoal
<1>1. CASE orders[Submit!target(s)].status = "absent"
  <2> DEFINE c == [Submit!copy(s) EXCEPT !.createdAt = now]
             r == [submit[s] EXCEPT !.pc = "deadline", !.copy = c]
  <2>1. Submit!Write(s, c) /\ Submit!SetRequest(s, r) /\ submit[s].pc = "insert"
    BY <1>1 DEF Submit!SubmitInserts, Submit!At, Submit!copy
  <2>2. c \in Rows /\ Quiet(orders[Submit!target(s)], c)
    <3>1. Submit!copy(s).status = "created" /\ Submit!copy(s).notify = "none"
      BY <2>1, RequestAtHand DEF Servable, Submit!copy
    <3>2. Submit!copy(s) \in Rows /\ now \in Nat
      BY RequestAtHand
    <3>3. c \in Rows /\ c.status = "created" /\ c.notify = "none"
      BY <3>1, <3>2 DEF Rows
    <3> HIDE DEF c
    <3> QED
      BY <1>1, <3>3 DEF Quiet
  <2> HIDE DEF c
  <2>3. Servable(r)
    <3>1. submit[s] \in Submit!Requests /\ c \in Submit!Rows
      BY <2>2, RequestAtHand, CheckoutNames
    <3> QED
      BY <3>1 DEF Servable, Submit!Requests, Submit!SubmitPCs
  <2> QED
    BY <2>1, <2>2, <2>3, RequestWrites, RequestSet DEF SubmitGoal
<1>2. CASE orders[Submit!target(s)].status # "absent"
  BY <1>2, ReturnOK, RequestLooks DEF Submit!SubmitInserts, SubmitGoal
<1> QED
  BY <1>1, <1>2

LEMMA SubmitSetsDeadlineMoves ==
  ASSUME AdapterIInv, NEW s \in Submitters, Submit!SubmitSetsDeadline(s)
  PROVE  SubmitGoal
<1> DEFINE row == orders[Submit!target(s)]
           t == now + OrderTTL
           q == IF Submit!copy(s).expireAt = 0 THEN SetExpireAt(row, t) ELSE row
           c == [Submit!copy(s) EXCEPT !.expireAt = IF @ = 0 THEN t ELSE @]
           r == [submit[s] EXCEPT !.pc = "order", !.copy = c]
<1>1. row \in Rows /\ now \in Nat /\ Submit!copy(s) \in Rows /\ submit[s] \in Submit!Requests
  BY RequestAtHand
<1>2. t \in Nat
  BY <1>1
<1>3. Submit!Write(s, q) /\ Submit!SetRequest(s, r)
  BY CheckoutNames DEF Submit!SubmitSetsDeadline, Submit!copy
<1> HIDE DEF t
<1>4. q \in Rows /\ Quiet(row, q)
  <2>1. TRUE \in BOOLEAN
    OBVIOUS
  <2>2. SetExpireAt(row, t) \in Rows /\ Quiet(row, SetExpireAt(row, t))
    BY <1>1, <1>2, <2>1, RowOpsQuiet
  <2> QED
    BY <1>1, <2>2, SameIsQuiet
<1>5. c \in Submit!Rows
  <2>1. c \in Rows
    BY <1>1, <1>2 DEF Rows
  <2> QED
    BY <2>1, CheckoutNames
<1> HIDE DEF q, c
<1>6. Servable(r)
  BY <1>1, <1>5 DEF Servable, Submit!Requests, Submit!SubmitPCs
<1> QED
  BY <1>3, <1>4, <1>6, RequestWrites, RequestSet DEF SubmitGoal

\* The order is placed at the gateway.
LEMMA PlacedIsKnown ==
  ASSUME AdapterIInv, NEW s \in Submitters, NEW state \in Submit!PlacedStates,
         gw' = [gw EXCEPT ![Submit!target(s)] = Submit!Placed(Submit!copy(s).amount, state)],
         UNCHANGED <<now, orders, wallet, restarts>>
  PROVE  WorldGoal
<1> DEFINE h == Submit!Placed(Submit!copy(s).amount, state)
<1>1. /\ Submit!target(s) \in Orders /\ Submit!copy(s) \in Rows /\ WorldTypeOK /\ now \in Nat
      /\ gw[Submit!target(s)] \in GatewayOrders
  BY RequestAtHand
<1>2. /\ Submit!copy(s).amount \in Amounts /\ now + OrderTTL \in Nat
      /\ state \in GatewayStates /\ state # NoOrder
  <2>1. Submit!copy(s).amount \in Amounts
    BY <1>1 DEF Rows
  <2>2. now + OrderTTL \in Nat
    <3>1. OrderTTL \in Nat
      OBVIOUS
    <3> QED
      BY <1>1, <3>1
  <2>3. state \in GatewayStates /\ state # NoOrder
    BY DEF Submit!PlacedStates, Submit!StateInit, Submit!StateIng, Submit!StateSuccess,
           Submit!StateFail
  <2> QED
    BY <2>1, <2>2, <2>3
<1>3. /\ (IF state = Submit!StateSuccess THEN now ELSE 0) \in Nat
      /\ (state = Submit!StateSuccess) \in BOOLEAN
  BY <1>1
<1>4. h \in GatewayOrders /\ h.state = state
  BY <1>2, <1>3 DEF Submit!Placed, GatewayOrders
<1> HIDE DEF h
<1> QED
  BY <1>1, <1>2, <1>4, GatewayMoved DEF h

LEMMA SubmitPlacesMoves ==
  ASSUME AdapterIInv, NEW s \in Submitters,
         \/ Submit!SubmitOrderFails(s)
         \/ \E state \in Submit!PlacedStates : Submit!SubmitPlacesOrder(s, state)
  PROVE  SubmitGoal
<1>1. CASE Submit!SubmitOrderFails(s)
  <2>1. SubmitOK'
    <3>1. "recover" \in Submit!SubmitPCs
      BY DEF Submit!SubmitPCs
    <3> QED
      BY <1>1, <3>1, ContinueOK DEF Submit!SubmitOrderFails
  <2>2. UNCHANGED <<now, orders, wallet, restarts>>
    BY <1>1 DEF Submit!SubmitOrderFails
  <2>3. CASE gw' = gw
    BY <2>1, <2>2, <2>3, WorldSame DEF SubmitGoal, worldVars, AdapterIInv
  <2>4. CASE \E state \in Submit!PlacedStates :
               gw' = [gw EXCEPT ![Submit!target(s)] = Submit!Placed(Submit!copy(s).amount, state)]
    BY <2>1, <2>2, <2>4, PlacedIsKnown DEF SubmitGoal
  <2> QED
    BY <1>1, <2>3, <2>4 DEF Submit!SubmitOrderFails
<1>2. ASSUME NEW state \in Submit!PlacedStates, Submit!SubmitPlacesOrder(s, state)
      PROVE  SubmitGoal
  <2>1. WorldGoal
    BY <1>2, PlacedIsKnown DEF Submit!SubmitPlacesOrder
  <2>2. state \in GatewayStates /\ "update" \in Submit!SubmitPCs
    BY DEF Submit!PlacedStates, Submit!StateInit, Submit!StateIng, Submit!StateSuccess,
           Submit!StateFail, Submit!SubmitPCs
  <2>3. Servable([submit[s] EXCEPT !.pc = "update", !.state = state])
    BY <2>2, GoesOn
  <2> QED
    BY <1>2, <2>1, <2>3, RequestSet DEF Submit!SubmitPlacesOrder, SubmitGoal
<1> QED
  BY <1>1, <1>2

LEMMA SubmitRecordsMoves ==
  ASSUME AdapterIInv, NEW s \in Submitters,
         \/ Submit!SubmitUpdates(s) \/ Submit!SubmitMarksPaid(s) \/ Submit!RecoverUpdates(s)
         \/ Submit!RecoverMarksPaid(s) \/ Submit!SubmitFails(s)
  PROVE  SubmitGoal
<1> DEFINE row == orders[Submit!target(s)]
<1>1. row \in Rows /\ now \in Nat /\ Submit!copy(s) \in Rows
  BY RequestAtHand
<1>2. /\ TRUE \in BOOLEAN /\ (submit[s].state = Submit!StateIng) \in BOOLEAN
      /\ Submit!copy(s).payData \in BOOLEAN
  BY <1>1 DEF Rows
<1>3. \E q \in Rows : Submit!Write(s, q) /\ Quiet(row, q)
  <2>1. CASE Submit!SubmitUpdates(s)
    <3> DEFINE q == UpdateJeepay(row, TRUE, submit[s].state = Submit!StateIng)
    <3>1. q \in Rows /\ Quiet(row, q)
      BY <1>1, <1>2, RowOpsQuiet
    <3>2. Submit!Write(s, q)
      BY <2>1, CheckoutNames DEF Submit!SubmitUpdates
    <3> QED
      BY <3>1, <3>2
  <2>2. CASE Submit!RecoverUpdates(s)
    <3> DEFINE q == UpdateJeepay(row, TRUE, Submit!copy(s).payData)
    <3>1. q \in Rows /\ Quiet(row, q)
      BY <1>1, <1>2, RowOpsQuiet
    <3>2. Submit!Write(s, q)
      BY <2>2, CheckoutNames DEF Submit!RecoverUpdates
    <3> QED
      BY <3>1, <3>2
  <2>3. CASE Submit!SubmitMarksPaid(s) \/ Submit!RecoverMarksPaid(s)
    <3> DEFINE q == MarkPaid(row, TRUE, now)
    <3>1. q \in Rows /\ Quiet(row, q)
      BY <1>1, <1>2, RowOpsQuiet
    <3>2. Submit!Write(s, q)
      BY <2>3, CheckoutNames DEF Submit!SubmitMarksPaid, Submit!RecoverMarksPaid
    <3> QED
      BY <3>1, <3>2
  <2>4. CASE Submit!SubmitFails(s)
    <3> DEFINE q == MarkFailed(row)
    <3>1. q \in Rows /\ Quiet(row, q)
      BY <1>1, <1>2, RowOpsQuiet
    <3>2. Submit!Write(s, q)
      BY <2>4, CheckoutNames DEF Submit!SubmitFails
    <3> QED
      BY <3>1, <3>2
  <2> QED
    BY <2>1, <2>2, <2>3, <2>4
<1>4. SubmitOK'
  <2>1. Submit!Return(s) \/ \E pc \in {"paid", "repaid", "fail"} : Submit!Continue(s, pc)
    BY DEF Submit!SubmitUpdates, Submit!SubmitMarksPaid, Submit!RecoverUpdates,
           Submit!RecoverMarksPaid, Submit!SubmitFails
  <2>2. {"paid", "repaid", "fail"} \subseteq Submit!SubmitPCs
    BY DEF Submit!SubmitPCs
  <2> QED
    BY <2>1, <2>2, ReturnOK, ContinueOK
<1> QED
  BY <1>3, <1>4, RequestWrites DEF SubmitGoal

LEMMA SubmitLooksMoves ==
  ASSUME AdapterIInv, NEW s \in Submitters,
         \/ Submit!RecoverQueryFails(s) \/ Submit!RecoverQueries(s) \/ Submit!SubmitGivesUp(s)
  PROVE  SubmitGoal
<1>1. WorldGoal
  BY RequestLooks DEF Submit!RecoverQueryFails, Submit!RecoverQueries, Submit!SubmitGivesUp
<1>2. SubmitOK'
  <2>1. "fail" \in Submit!SubmitPCs /\ "reupdate" \in Submit!SubmitPCs
    BY DEF Submit!SubmitPCs
  <2>2. CASE Submit!RecoverQueryFails(s) \/ Submit!SubmitGivesUp(s)
    BY <2>1, <2>2, ReturnOK, ContinueOK DEF Submit!RecoverQueryFails, Submit!SubmitGivesUp
  <2>3. CASE Submit!RecoverQueries(s)
    <3>1. gw[Submit!target(s)].state \in GatewayStates
      BY RequestAtHand DEF GatewayOrders
    <3>2. Servable([submit[s] EXCEPT !.pc = "reupdate", !.state = gw[Submit!target(s)].state])
      BY <2>1, <3>1, GoesOn
    <3> QED
      BY <2>3, <3>2, RequestSet DEF Submit!RecoverQueries
  <2> QED
    BY <2>2, <2>3
<1> QED
  BY <1>1, <1>2 DEF SubmitGoal

LEMMA SubmitMoves ==
  ASSUME AdapterIInv, NEW s \in Submitters, Submit!SubmitStep(s)
  PROVE  SubmitGoal
BY SubmitReadsMoves, SubmitInsertsMoves, SubmitSetsDeadlineMoves, SubmitPlacesMoves,
   SubmitRecordsMoves, SubmitLooksMoves DEF Submit!SubmitStep

-----------------------------------------------------------------------------
(* Every step. *)

AdapterGoal == AdapterIInv' /\ \A o \in Orders : Remembers(o)

LEMMA AdapterInitInv == ASSUME AdapterInit PROVE AdapterIInv
<1>1. AnAmount \in Amounts /\ StartTime \in Nat /\ StartTime + OrderTTL \in Nat
  <2>1. AnAmount \in Amounts
    BY DEF AnAmount
  <2>2. StartTime \in Nat /\ OrderTTL \in Nat
    BY TimeAssumption
  <2> QED
    BY <2>1, <2>2
<1>2. NewRow \in Rows
  BY <1>1, InsertFacts DEF NewRow
<1>3. QueuedRow \in Rows
  <2>1. MarkPaid(NewRow, TRUE, StartTime) \in Rows
    BY <1>1, <1>2, RowOpsType
  <2> QED
    BY <1>1, <2>1 DEF QueuedRow, Rows
<1>4. Submit!Absent(NewRow) \in Rows
  BY <1>2 DEF Submit!Absent, Rows, PayStatuses
<1>5. WorldTypeOK
  <2>1. orders \in [Orders -> Rows]
    BY <1>3, <1>4 DEF AdapterInit
  <2>2. \A o \in Orders :
          [state    |-> IF o \in Queued THEN StateSuccess ELSE NoOrder,
           amount   |-> AnAmount,
           expiry   |-> IF o \in Queued THEN StartTime + OrderTTL ELSE 0,
           captured |-> o \in Queued,
           since    |-> IF o \in Queued THEN StartTime ELSE 0] \in GatewayOrders
    BY <1>1 DEF GatewayOrders
  <2>3. gw \in [Orders -> GatewayOrders]
    BY <2>2 DEF AdapterInit
  <2>4. wallet \in [Orders -> WalletStates]
    BY DEF AdapterInit, WalletStates
  <2> QED
    BY <1>1, <2>1, <2>3, <2>4 DEF AdapterInit, WorldTypeOK
<1>6. CloserOK
  BY IdleCloser DEF AdapterInit, CloserOK, CloserKnows
<1>7. JobsOK
  BY JobFacts DEF AdapterInit, JobsOK, NoJobs
<1>8. SubmitOK
  BY NoRequestType DEF AdapterInit, SubmitOK, NoRequests
<1>9. ExpiredIsKnown /\ silent \subseteq Orders
  BY DEF AdapterInit, ExpiredIsKnown
<1> QED
  BY <1>5, <1>6, <1>7, <1>8, <1>9 DEF AdapterIInv

\* What the others do leaves the closer with what it knows.
LEMMA CloserUnmoved ==
  ASSUME AdapterIInv, closer' = closer, \A o \in Orders : Remembers(o)
  PROVE  CloserOK'
<1>1. CASE closer.pc = "idle"
  BY <1>1 DEF AdapterIInv, CloserOK, CloserKnows
<1>2. CASE closer.pc # "idle"
  <2>1. Close!current \in Orders
    BY <1>2, CloserAtHand
  <2>2. Close!current' = Close!current
    BY DEF Close!current
  <2>3. gw[Close!current].state # NoOrder => gw'[Close!current].state # NoOrder
    BY <2>1 DEF Remembers
  <2> QED
    BY <2>2, <2>3 DEF AdapterIInv, CloserOK
<1> QED
  BY <1>1, <1>2

LEMMA KnownStays ==
  ASSUME AdapterIInv, \A o \in Orders : Remembers(o)
  PROVE  ExpiredIsKnown'
BY DEF AdapterIInv, ExpiredIsKnown, Remembers

\* The parts that keep their state.
LEMMA Unmoved ==
  ASSUME AdapterIInv
  PROVE  /\ job' = job => JobsOK'
         /\ submit' = submit => SubmitOK'
         /\ silent' = silent => silent' \subseteq Orders
BY DEF AdapterIInv, JobsOK, SubmitOK

LEMMA CloserStepsInv ==
  ASSUME AdapterIInv, CloserSteps
  PROVE  AdapterGoal /\ WorldGoal
<1>1. WorldGoal /\ CloserOK'
  BY CloserMoves DEF CloserSteps, CloserGoal
<1>2. WorldTypeOK' /\ \A o \in Orders : Remembers(o)
  BY <1>1 DEF WorldGoal
<1> QED
  BY <1>1, <1>2, KnownStays, Unmoved DEF CloserSteps, AdapterGoal, AdapterIInv

LEMMA DeliveryStepsInv ==
  ASSUME AdapterIInv, DeliverySteps
  PROVE  AdapterGoal
<1>1. WorldTypeOK' /\ (\A o \in Orders : Remembers(o)) /\ JobsOK' /\ silent' = silent
  BY DeliveryMoves DEF DeliverySteps, DeliveryGoal
<1> QED
  BY <1>1, CloserUnmoved, KnownStays, Unmoved DEF DeliverySteps, AdapterGoal, AdapterIInv

LEMMA SubmissionsInv ==
  ASSUME AdapterIInv, Submissions
  PROVE  AdapterGoal /\ WorldGoal
<1>1. WorldGoal /\ SubmitOK'
  BY SubmitMoves DEF Submissions, SubmitGoal
<1>2. WorldTypeOK' /\ \A o \in Orders : Remembers(o)
  BY <1>1 DEF WorldGoal
<1> QED
  BY <1>1, <1>2, CloserUnmoved, KnownStays, Unmoved DEF Submissions, AdapterGoal, AdapterIInv

\* The gateway, the customer and the administrator; the passing of time.
LEMMA WorldGoes ==
  ASSUME AdapterIInv, WorldGoal, UNCHANGED <<closer, job, silent, submit>>
  PROVE  AdapterGoal
<1>1. WorldTypeOK' /\ \A o \in Orders : Remembers(o)
  BY DEF WorldGoal
<1> QED
  BY <1>1, CloserUnmoved, KnownStays, Unmoved DEF AdapterGoal, AdapterIInv

LEMMA TickMoves ==
  ASSUME WorldTypeOK, Tick
  PROVE  WorldGoal
<1>1. orders' = orders /\ gw' = gw /\ wallet' = wallet /\ restarts' = restarts /\ now' = now + 1
  BY DEF Tick
<1>2. now' \in Nat
  BY <1>1 DEF WorldTypeOK
<1>3. WorldTypeOK'
  BY <1>1, <1>2 DEF WorldTypeOK
<1>4. \A o \in Orders : Remembers(o)
  BY <1>1 DEF Remembers
<1> QED
  BY <1>1, <1>3, <1>4, RowsSame DEF WorldGoal

LEMMA ReopenMoves ==
  ASSUME WorldTypeOK, Reopen
  PROVE  WorldGoal
<1>1. /\ orders' = Migrate(orders) /\ gw' = gw /\ wallet' = wallet /\ now' = now
      /\ restarts' = restarts + 1 /\ restarts \in Nat
  BY DEF Reopen, WorldTypeOK
<1>2. orders' \in [Orders -> Rows] /\ restarts' \in Nat
  BY <1>1, MigrateType DEF WorldTypeOK
<1>3. WorldTypeOK'
  BY <1>1, <1>2 DEF WorldTypeOK
<1>4. \A o \in Orders : Remembers(o)
  BY <1>1 DEF Remembers
<1>5. ASSUME NEW o \in Orders
      PROVE  Quiet(orders[o], orders'[o])
  <2>1. orders[o] \in Rows
    BY DEF WorldTypeOK
  <2>2. /\ orders'[o].attempts = orders[o].attempts /\ orders'[o].nextAt = orders[o].nextAt
        /\ orders'[o].notify = orders[o].notify /\ orders'[o].status = orders[o].status
    BY <1>1, <2>1 DEF Migrate, Rows
  <2> QED
    BY <2>1, <2>2, SameIsQuiet DEF Quiet
<1> QED
  BY <1>3, <1>4, <1>5 DEF WorldGoal

LEMMA AdapterRestartInv ==
  ASSUME AdapterIInv, AdapterRestart
  PROVE  AdapterGoal /\ WorldGoal
<1>1. WorldGoal
  BY ReopenMoves DEF AdapterRestart, AdapterIInv
<1>2. WorldTypeOK' /\ \A o \in Orders : Remembers(o)
  BY <1>1 DEF WorldGoal
<1>3. CloserOK'
  <2>1. closer' = Close!Idle
    BY DEF AdapterRestart
  <2> QED
    BY <2>1, IdleCloser DEF CloserOK, CloserKnows
<1>4. JobsOK'
  <2>1. job' = NoJobs
    BY DEF AdapterRestart
  <2> QED
    BY <2>1, JobFacts DEF JobsOK, NoJobs
<1>5. SubmitOK'
  <2>1. submit' = NoRequests
    BY DEF AdapterRestart
  <2> QED
    BY <2>1, NoRequestType DEF SubmitOK, NoRequests
<1> QED
  BY <1>1, <1>2, <1>3, <1>4, <1>5, KnownStays, Unmoved DEF AdapterRestart, AdapterGoal, AdapterIInv

LEMMA AdapterNextInv ==
  ASSUME AdapterIInv, [AdapterNext]_adapterVars
  PROVE  AdapterGoal /\ (WorldGoal \/ DeliverySteps)
<1>1. WorldTypeOK
  BY DEF AdapterIInv
<1>2. CASE WorldStep /\ UNCHANGED <<closer, job, silent, submit>>
  BY <1>1, <1>2, WorldMoves, WorldGoes
<1>3. CASE AdapterTick
  BY <1>1, <1>3, TickMoves, WorldGoes DEF AdapterTick
<1>4. CASE UNCHANGED adapterVars
  <2>1. UNCHANGED worldVars /\ UNCHANGED <<closer, job, silent, submit>>
    BY <1>4 DEF adapterVars, worldVars
  <2> QED
    BY <1>1, <2>1, WorldSame, WorldGoes
<1> QED
  BY <1>2, <1>3, <1>4, CloserStepsInv, DeliveryStepsInv, SubmissionsInv, AdapterRestartInv
  DEF AdapterNext

-----------------------------------------------------------------------------
(* The theorems. *)

\* AdapterIInv holds throughout: no part disturbs what another has read or asked
\* the gateway (runNotifyWorker, runCloser and the HTTP handlers of main.go).
THEOREM AdapterInvariant == AdapterSpec => []AdapterIInv
<1>1. AdapterInit => AdapterIInv
  BY AdapterInitInv
<1>2. AdapterIInv /\ [AdapterNext]_adapterVars => AdapterIInv'
  BY AdapterNextInv DEF AdapterGoal
<1> QED
  BY <1>1, <1>2, PTL DEF AdapterSpec

\* Every variable keeps its type while all parts run on the one table.
THEOREM AdapterType == AdapterSpec => []AdapterTypeOK
<1>1. AdapterIInv => AdapterTypeOK
  BY DEF AdapterIInv, CloserOK, JobsOK, SubmitOK, AdapterTypeOK
<1> QED
  BY <1>1, AdapterInvariant, PTL

\* No order is placed at the gateway once its top-up is expired: the closer has
\* asked the gateway first, and leaves alone what it does not know (one,
\* closer.go; Submit, service.go).
THEOREM AdapterNoOrderForExpired == AdapterSpec => NoOrderForExpired
<1>1. AdapterIInv =>
        [\A o \in Orders :
           gw[o].state = NoOrder /\ gw'[o].state # NoOrder => wallet[o] # "failed"]_gw
  BY DEF AdapterIInv, ExpiredIsKnown
<1> QED
  BY <1>1, AdapterInvariant, PTL DEF NoOrderForExpired

-----------------------------------------------------------------------------
(* The pauses between the attempts of the worker. *)

\* A row whose notification is to be posted now.
Ready(r, at) == r.status # "absent" /\ r.notify = "pending" /\ r.nextAt <= at

\* The orders of a batch are as many as its rows, and all are due.
Due(batch, table, at) ==
  /\ \A i \in DOMAIN batch : Ready(table[batch[i].order], at)
  /\ \A i, j \in DOMAIN batch : i # j => batch[i].order # batch[j].order

\* What the worker has read as due stays due until it has dealt with it: without
\* cashier pages nobody else answers the notification or puts it off.
Turn == job[Worker].pc # "idle" => Due(job[Worker].batch, orders, now)

Tries == [at : Nat, reported : BOOLEAN]

\* What the last failed attempt has left in the row, unless it was queued since.
Waits(o) ==
  /\ orders[o].status = "absent" => orders[o].notify = "none"
  /\ tried[o].at > 0 /\ ~ tried[o].reported =>
       /\ orders[o].status # "absent"
       /\ orders[o].notify = "pending" =>
            orders[o].nextAt = Notify!Horizon(tried[o].at + Notify!backoff(orders[o].attempts))

RetriesIInv == /\ AdapterIInv /\ Turn
               /\ tried \in [Orders -> Tries]
               /\ \A o \in Orders : Waits(o)

StaysAnswered(o) == orders[o].notify = "succeeded" => orders'[o].notify = "succeeded"

RetriesGoal == /\ Turn' /\ tried' \in [Orders -> Tries]
               /\ \A o \in Orders : Waits(o)' /\ StaysAnswered(o)

LEMMA DueNotifiesAreDue ==
  ASSUME NEW table \in [Orders -> Rows], NEW limit \in Nat, NEW at \in Nat,
         NEW batch \in DueNotifies(table, limit, at)
  PROVE  Due(batch, table, at)
<1> DEFINE due == {o \in Orders : /\ table[o].status # "absent"
                                  /\ table[o].notify = "pending"
                                  /\ table[o].nextAt <= at}
           key == [o \in Orders |-> table[o].nextAt]
<1>1. PICK s \in Selections(due, key, limit) : batch = Fetch(table, s)
  BY DEF DueNotifies
<1>2. s \in Seq(due)
  BY <1>1, SelectionType
<1>3. \A i, j \in DOMAIN s : i < j => s[i] # s[j]
  BY <1>1 DEF Selections
<1>4. DOMAIN s = 1..Len(s) /\ Len(s) \in Nat
  BY <1>2
<1>5. \A i, j \in DOMAIN s : i # j => s[i] # s[j]
  BY <1>3, <1>4
<1>6. \A i \in DOMAIN s : Ready(table[s[i]], at)
  BY <1>2 DEF Ready
<1>7. DOMAIN batch = DOMAIN s /\ \A i \in DOMAIN s : batch[i].order = s[i]
  BY <1>1 DEF Fetch
<1> QED
  BY <1>5, <1>6, <1>7 DEF Due

LEMMA DueTail ==
  ASSUME NEW b \in Seq(Fetched), b # <<>>, NEW table, NEW at, Due(b, table, at)
  PROVE  /\ Ready(table[Head(b).order], at)
         /\ Len(b) # 1 => /\ Due(Tail(b), table, at)
                          /\ \A i \in DOMAIN Tail(b) : Tail(b)[i].order # Head(b).order
<1>1. 1 \in DOMAIN b /\ Head(b) = b[1]
  BY HeadFacts
<1>2. DOMAIN b = 1..Len(b) /\ Len(b) \in Nat
  OBVIOUS
<1>3. ASSUME Len(b) # 1
      PROVE  /\ Due(Tail(b), table, at)
             /\ \A i \in DOMAIN Tail(b) : Tail(b)[i].order # Head(b).order
  <2>1. /\ \A i \in DOMAIN Tail(b) : i + 1 \in DOMAIN b /\ Tail(b)[i] = b[i + 1]
        /\ Tail(b) \in Seq(Fetched)
    BY <1>3, TailFacts
  <2>2. \A i \in DOMAIN Tail(b) : i \in Nat /\ i + 1 # 1
    <3>1. DOMAIN Tail(b) = 1..Len(Tail(b)) /\ Len(Tail(b)) \in Nat
      BY <2>1
    <3> QED
      BY <3>1
  <2>3. \A i, j \in DOMAIN Tail(b) : i # j => i + 1 # j + 1
    BY <2>2
  <2> QED
    BY <1>1, <2>1, <2>2, <2>3 DEF Due
<1> QED
  BY <1>1, <1>3 DEF Due

LEMMA BatchOrders ==
  ASSUME NEW b \in Seq(Fetched), NEW i \in DOMAIN b
  PROVE  b[i].order \in Orders
<1>1. b[i] \in Fetched
  OBVIOUS
<1> QED
  BY <1>1 DEF Fetched

\* Quiet steps put no attempt off.
LEMMA QuietKeepsDue ==
  ASSUME WorldTypeOK, WorldGoal, now <= now', NEW b \in Seq(Fetched), Due(b, orders, now)
  PROVE  Due(b, orders', now')
<1>1. ASSUME NEW i \in DOMAIN b
      PROVE  Ready(orders'[b[i].order], now')
  <2> DEFINE o == b[i].order
  <2>1. o \in Orders
    BY BatchOrders
  <2>2. /\ orders[o] \in Rows /\ now \in Nat /\ now' \in Nat
        /\ Quiet(orders[o], orders'[o])
    BY <2>1 DEF WorldTypeOK, WorldGoal
  <2>3. Ready(orders[o], now) /\ orders[o].nextAt \in Nat
    BY <2>2 DEF Due, Rows
  <2> HIDE DEF o
  <2>4. ASSUME NEW c \in BOOLEAN, orders'[o] = MarkPaid(orders[o], c, now)
        PROVE  Ready(orders'[o], now')
    <3>1. /\ orders'[o].status = "paid" /\ orders'[o].notify = "pending"
          /\ orders'[o].nextAt = now
      BY <2>2, <2>3, <2>4 DEF MarkPaid, Rows, Ready
    <3> QED
      BY <3>1 DEF Ready
  <2>5. Ready(orders'[o], now')
    BY <2>2, <2>3, <2>4 DEF Quiet, Ready
  <2> QED
    BY <2>5 DEF o
<1> QED
  BY <1>1 DEF Due

\* Quiet steps end no wait but by a report, and take no answer back.
LEMMA QuietWaits ==
  ASSUME WorldTypeOK, NEW o \in Orders, Quiet(orders[o], orders'[o]), Waits(o),
         tried[o] \in Tries, tried'[o] = Remembered(o), ~ FailureRecorded(o)
  PROVE  tried'[o] \in Tries /\ Waits(o)' /\ StaysAnswered(o)
<1>1. orders[o] \in Rows
  BY DEF WorldTypeOK
<1>2. /\ ReportRecorded(o) => tried'[o] = [tried[o] EXCEPT !.reported = TRUE]
      /\ ~ ReportRecorded(o) => tried'[o] = tried[o]
  BY DEF Remembered
<1>3. tried'[o] \in Tries /\ tried'[o].at = tried[o].at
      /\ (ReportRecorded(o) => tried'[o].reported)
  BY <1>2 DEF Tries
<1>4. CASE \E b \in BOOLEAN : orders'[o] = MarkPaid(orders[o], b, now)
  <2>1. /\ orders'[o].status = "paid"
        /\ orders[o].notify = "succeeded" => orders'[o].notify = "succeeded"
    BY <1>1, <1>4 DEF MarkPaid, Rows
  <2>2. CASE orders'[o] = orders[o]
    <3>1. ~ ReportRecorded(o)
      BY <2>2 DEF ReportRecorded
    <3> QED
      BY <1>2, <1>3, <2>2, <3>1 DEF Waits, StaysAnswered
  <2>3. CASE orders'[o] # orders[o]
    <3>1. ReportRecorded(o)
      BY <1>4, <2>3 DEF ReportRecorded
    <3> QED
      BY <1>3, <2>1, <3>1 DEF Waits, StaysAnswered
  <2> QED
    BY <2>2, <2>3
<1>5. CASE /\ orders'[o].notify = orders[o].notify /\ orders'[o].nextAt = orders[o].nextAt
           /\ orders'[o].attempts = orders[o].attempts
           /\ orders[o].status # "absent" => orders'[o].status # "absent"
  <2>1. CASE ReportRecorded(o)
    BY <1>3, <1>5, <2>1 DEF Waits, StaysAnswered
  <2>2. CASE ~ ReportRecorded(o)
    BY <1>2, <1>3, <1>5, <2>2 DEF Waits, StaysAnswered
  <2> QED
    BY <2>1, <2>2
<1>6. CASE orders[o].status = "absent" /\ orders'[o].notify = "none"
  <2>1. ~ (tried[o].at > 0 /\ ~ tried[o].reported) /\ orders[o].notify = "none"
    BY <1>6 DEF Waits
  <2>2. ~ (tried'[o].at > 0 /\ ~ tried'[o].reported)
    BY <1>2, <1>3, <2>1
  <2> QED
    BY <1>3, <1>6, <2>1, <2>2 DEF Waits, StaysAnswered
<1> QED
  BY <1>4, <1>5, <1>6 DEF Quiet

\* Time does not go back.
LEMMA NowStands ==
  /\ Close!CloserStep => now' = now
  /\ Notify!DeliveryStep => now' = now
  /\ \A s \in Submitters : Submit!SubmitStep(s) => now' = now
  /\ WorldStep => now' = now
<1>1. Close!CloserStep => now' = now
  BY DEF Close!CloserStep, Close!CloserTick, Close!SkipOrder, Close!QueryFails,
         Close!QueryAnswered, Close!CloserMarksPaid, Close!CloserBlocks, Close!CloseAnswered,
         Close!CloseUnanswered, Close!RecordChannelClosed, Close!ReadAgain,
         Close!ExpireAnswered, Close!ExpireFails, Close!Settle, Close!StoreFails,
         Close!WriteRow, Close!worldVars
<1>2. Notify!DeliveryStep => now' = now
  BY DEF Notify!DeliveryStep, Notify!WorkerTick, Notify!PollStep, Notify!Deliver,
         Notify!PollRead, Notify!PollQueryFails, Notify!PollQuery, Notify!PollMark,
         Notify!PollReread, Notify!DeliverSilent, Notify!PostLost, Notify!PostHandled,
         Notify!Record, Notify!DeliveryStoreFails, Notify!worldVars
<1>3. \A s \in Submitters : Submit!SubmitStep(s) => now' = now
  BY DEF Submit!SubmitStep, Submit!SubmitReads, Submit!SubmitInserts,
         Submit!SubmitSetsDeadline, Submit!SubmitOrderFails, Submit!SubmitPlacesOrder,
         Submit!SubmitUpdates, Submit!SubmitMarksPaid, Submit!RecoverUpdates,
         Submit!RecoverMarksPaid, Submit!SubmitFails, Submit!RecoverQueryFails,
         Submit!RecoverQueries, Submit!SubmitGivesUp, Submit!Write, Submit!worldVars
<1>4. WorldStep => now' = now
  BY DEF WorldStep, GatewaySends, CustomerPays, LatePayment, GatewayConfirms, GatewayFails,
         GatewayExpires, AdministratorGrants, HandleJeepayNotify, GatewayStep
<1> QED
  BY <1>1, <1>2, <1>3, <1>4

LEMMA NowGoes ==
  ASSUME AdapterIInv, [AdapterNext]_adapterVars
  PROVE  now <= now'
<1>1. now \in Nat
  BY DEF AdapterIInv, WorldTypeOK
<1>2. now' = now \/ now' = now + 1
  BY NowStands
  DEF AdapterNext, CloserSteps, DeliverySteps, Submissions, AdapterTick, Tick, AdapterRestart,
      Reopen, adapterVars
<1> QED
  BY <1>1, <1>2

\* The worker turns to the next row of its batch.
LEMMA NextTurn ==
  ASSUME AdapterIInv, Turn, job[Worker].pc # "idle",
         job' = [job EXCEPT ![Worker] = Notify!NextJob(Worker)], now' = now,
         \A x \in Orders : x # Notify!subject(Worker) => orders'[x] = orders[x]
  PROVE  Turn'
<1> DEFINE b == job[Worker].batch
<1>1. Worker \in Notify!Deliverers
  BY DEF Notify!Deliverers
<1>2. b \in Seq(Fetched) /\ b # <<>> /\ Due(b, orders, now)
  BY <1>1, JobAtHand DEF Turn
<1>3. job'[Worker] = Notify!NextJob(Worker)
  BY <1>1 DEF AdapterIInv, JobsOK
<1>4. CASE Notify!NextJob(Worker).pc = "idle"
  BY <1>3, <1>4 DEF Turn
<1>5. CASE Notify!NextJob(Worker).pc # "idle"
  <2>1. Len(b) # 1 /\ job'[Worker].batch = Tail(b)
    BY <1>1, <1>3, <1>5, NextJobFacts
  <2>2. /\ Due(Tail(b), orders, now) /\ Tail(b) \in Seq(Fetched)
        /\ \A i \in DOMAIN Tail(b) : Tail(b)[i].order # Head(b).order
    BY <1>2, <2>1, DueTail, TailFacts
  <2>3. \A i \in DOMAIN Tail(b) : Tail(b)[i].order \in Orders
    <3> DEFINE t == Tail(b)
    <3>1. t \in Seq(Fetched)
      BY <2>2
    <3> HIDE DEF t
    <3>2. \A i \in DOMAIN t : t[i].order \in Orders
      BY <3>1, BatchOrders
    <3> QED
      BY <3>2 DEF t
  <2>4. \A i \in DOMAIN Tail(b) : orders'[Tail(b)[i].order] = orders[Tail(b)[i].order]
    BY <2>2, <2>3 DEF Notify!subject
  <2>5. Due(Tail(b), orders', now')
    BY <2>2, <2>4 DEF Due
  <2> QED
    BY <2>1, <2>5 DEF Turn
<1> QED
  BY <1>4, <1>5

\* What the worker has at hand is ready.
LEMMA AtHandIsReady ==
  ASSUME AdapterIInv, Turn, job[Worker].pc # "idle"
  PROVE  /\ Worker \in Notify!Deliverers /\ Notify!subject(Worker) \in Orders
         /\ Ready(orders[Notify!subject(Worker)], now)
         /\ Notify!NextJob(Worker).pc \in {"idle", "post"}
<1>1. Worker \in Notify!Deliverers
  BY DEF Notify!Deliverers
<1>2. /\ job[Worker].batch \in Seq(Fetched) /\ job[Worker].batch # <<>>
      /\ Due(job[Worker].batch, orders, now) /\ Notify!subject(Worker) \in Orders
  BY <1>1, JobAtHand DEF Turn
<1>3. Notify!NextJob(Worker).pc \in {"idle", "post"}
  BY JobFacts DEF Notify!NextJob
<1> QED
  BY <1>1, <1>2, <1>3, DueTail DEF Notify!subject

\* A post is sent only when the delay of the last failed attempt is over.
LEMMA PostsWait ==
  ASSUME RetriesIInv, NEW o \in Orders, Posts(o), tried[o].at > 0, ~ tried[o].reported
  PROVE  DelayOver(o)
<1>1. Ready(orders[o], now)
  BY AtHandIsReady DEF Posts, RetriesIInv
<1>2. orders[o].nextAt = Notify!Horizon(tried[o].at + Notify!backoff(orders[o].attempts))
  BY <1>1 DEF RetriesIInv, Waits, Ready
<1>3. orders[o].nextAt \in Nat /\ now \in Nat
  BY DEF RetriesIInv, AdapterIInv, WorldTypeOK, Rows
<1> QED
  BY <1>1, <1>2, <1>3 DEF Ready, DelayOver

\* The outcome of an attempt in the row of the order at hand.
LEMMA RecordedWaits ==
  ASSUME AdapterIInv, Turn, job[Worker].pc # "idle", ~ job[Worker].answered,
         NEW r \in Rows
  PROVE  LET q == Notify!Recorded(Worker, r)
         IN /\ q.status = r.status
            /\ q.notify = "pending" =>
                 q.nextAt = Notify!Horizon(now + Notify!backoff(q.attempts))
<1> DEFINE attempts == Notify!Least(Notify!copy(Worker).attempts + 1, AttemptCap)
           giveUp == attempts >= Notify!Limit(Worker)
           next == IF giveUp THEN 0 ELSE Notify!Horizon(now + Notify!backoff(attempts))
<1>1. Notify!Recorded(Worker, r) = NotifyRetry(r, attempts, next, giveUp)
  BY DeliveryNames DEF Notify!Recorded
<1> HIDE DEF attempts, giveUp
<1>2. LET q == NotifyRetry(r, attempts, next, giveUp)
      IN /\ q.status = r.status /\ q.attempts = attempts /\ q.nextAt = next
         /\ q.notify = IF giveUp THEN "failed" ELSE "pending"
  BY DEF NotifyRetry, Rows
<1> QED
  BY <1>1, <1>2

LEMMA TriedNow ==
  ASSUME NEW t \in Nat
  PROVE  [at |-> t, reported |-> FALSE] \in Tries
BY DEF Tries

\* The worker records the outcome of an attempt, or that none was needed.
LEMMA OutcomeWaits ==
  ASSUME RetriesIInv, Notify!Record(Worker) \/ Notify!DeliverSilent(Worker),
         tried' = [x \in Orders |-> Remembered(x)]
  PROVE  RetriesGoal
<1>1. /\ Worker \in Notify!Deliverers /\ AdapterIInv /\ Turn /\ WorldTypeOK
      /\ job[Worker].pc # "idle"
  BY DeliveryNames
  DEF RetriesIInv, Notify!Deliverers, AdapterIInv, Notify!Record, Notify!DeliverSilent
<1>2. Notify!subject(Worker) \in Orders
  BY <1>1, AtHandIsReady
<1>3. PICK o \in Orders : o = Notify!subject(Worker)
  BY <1>2
<1>4. /\ \A x \in Orders : x # o => orders'[x] = orders[x] /\ Quiet(orders[x], orders'[x])
      /\ orders'[o] = IF Notify!Record(Worker) THEN Notify!Recorded(Worker, orders[o])
                                               ELSE NotifySucceeded(orders[o])
      /\ job' = [job EXCEPT ![Worker] = Notify!NextJob(Worker)]
  BY <1>1, <1>3, OutcomeMoves
<1>5. now' = now
  BY DEF Notify!Record, Notify!DeliverSilent
<1>6. Turn'
  BY <1>1, <1>4, <1>5, NextTurn, <1>3
<1>7. Ready(orders[o], now) /\ orders[o] \in Rows /\ now \in Nat
  BY <1>1, <1>3, AtHandIsReady DEF WorldTypeOK
<1>8. \A x \in Orders : tried[x] \in Tries /\ tried'[x] = Remembered(x)
  BY DEF RetriesIInv
<1>9. ASSUME NEW x \in Orders, x # o
      PROVE  tried'[x] \in Tries /\ Waits(x)' /\ StaysAnswered(x)
  <2>1. ~ FailureRecorded(x)
    BY <1>3, <1>9 DEF FailureRecorded
  <2> QED
    BY <1>1, <1>4, <1>5, <1>8, <1>9, <2>1, QuietWaits DEF RetriesIInv
<1>10. ASSUME ~ FailureRecorded(o)
       PROVE  tried'[o] \in Tries /\ Waits(o)' /\ StaysAnswered(o)
  <2>1. orders'[o] = NotifySucceeded(orders[o])
    <3>1. Notify!Record(Worker) => job[Worker].answered
      BY <1>3, <1>10 DEF FailureRecorded
    <3> QED
      BY <1>4, <3>1, DeliveryNames DEF Notify!Recorded
  <2>2. orders'[o].notify = "succeeded" /\ orders'[o].status = orders[o].status
    BY <1>7, <2>1 DEF NotifySucceeded, Rows
  <2>3. tried'[o] \in {tried[o], [tried[o] EXCEPT !.reported = TRUE]} /\ tried[o] \in Tries
    BY <1>8, <1>10 DEF Remembered
  <2>4. tried'[o] \in Tries
    BY <2>3 DEF Tries
  <2>5. orders'[o].status # "absent" /\ orders'[o].notify # "pending"
    BY <1>7, <2>2 DEF Ready
  <2> QED
    BY <2>2, <2>4, <2>5 DEF Waits, StaysAnswered
<1>11. ASSUME FailureRecorded(o)
       PROVE  tried'[o] \in Tries /\ Waits(o)' /\ StaysAnswered(o)
  <2>1. tried'[o] = [at |-> now, reported |-> FALSE]
    BY <1>8, <1>11 DEF Remembered
  <2>2. orders'[o] = Notify!Recorded(Worker, orders[o]) /\ ~ job[Worker].answered
    BY <1>4, <1>11 DEF FailureRecorded
  <2>3. /\ orders'[o].status = orders[o].status
        /\ orders'[o].notify = "pending" =>
             orders'[o].nextAt = Notify!Horizon(now + Notify!backoff(orders'[o].attempts))
    BY <1>1, <1>7, <2>2, RecordedWaits
  <2>4. tried'[o] \in Tries /\ tried'[o].at = now
    <3> DEFINE t == [at |-> now, reported |-> FALSE]
    <3>1. t \in Tries
      BY <1>7, TriedNow
    <3>2. t.at = now
      OBVIOUS
    <3>3. tried'[o] = t
      BY <2>1
    <3> HIDE DEF t
    <3> QED
      BY <3>1, <3>2, <3>3
  <2>5. orders[o].status # "absent" /\ orders[o].notify = "pending"
    BY <1>7 DEF Ready
  <2> QED
    BY <2>3, <2>4, <2>5 DEF Waits, StaysAnswered
<1>12. \A x \in Orders : tried'[x] \in Tries /\ Waits(x)' /\ StaysAnswered(x)
  BY <1>9, <1>10, <1>11
<1>13. tried' \in [Orders -> Tries]
  BY <1>12 DEF RetriesIInv
<1> QED
  BY <1>6, <1>12, <1>13 DEF RetriesGoal

\* The worker takes a new batch.
LEMMA WorkerTickTurn ==
  ASSUME AdapterIInv, Notify!WorkerTick
  PROVE  Turn'
<1>1. PICK batch \in DueNotifies(orders, NotifyBatch, now) :
        job' = [job EXCEPT ![Worker] = [Notify!NoJob EXCEPT !.pc = "post", !.batch = batch]]
  BY DeliveryNames DEF Notify!WorkerTick, Notify!SetJob
<1>2. /\ orders \in [Orders -> Rows] /\ NotifyBatch \in Nat /\ now \in Nat
      /\ job \in [Notify!Deliverers -> Notify!Jobs] /\ Worker \in Notify!Deliverers
  BY DEF AdapterIInv, WorldTypeOK, JobsOK, Notify!Deliverers
<1>3. Due(batch, orders, now)
  BY <1>2, DueNotifiesAreDue
<1>4. job'[Worker].batch = batch
  BY <1>1, <1>2, JobFacts DEF Notify!NoJob
<1>5. orders' = orders /\ now' = now
  BY DEF Notify!WorkerTick, Notify!worldVars
<1> QED
  BY <1>3, <1>4, <1>5 DEF Turn

\* The other steps of the worker for the row at hand.
LEMMA PostTurn ==
  ASSUME AdapterIInv, Turn, \/ Notify!PostLost(Worker) \/ Notify!PostHandled(Worker)
                            \/ Notify!DeliveryStoreFails(Worker)
  PROVE  Turn'
<1>1. Worker \in Notify!Deliverers /\ now' = now /\ orders' = orders
  BY DEF Notify!Deliverers, Notify!PostLost, Notify!PostHandled, Notify!DeliveryStoreFails,
         Notify!worldVars
<1>2. job[Worker].pc # "idle"
  BY DEF Notify!PostLost, Notify!PostHandled, Notify!DeliveryStoreFails
<1>3. Due(job[Worker].batch, orders, now) /\ job[Worker] \in Notify!Jobs
  BY <1>1, <1>2, JobAtHand DEF Turn
<1>4. CASE Notify!PostLost(Worker) \/ Notify!PostHandled(Worker)
  <2>1. PICK a \in BOOLEAN : job' = [job EXCEPT ![Worker] =
                                       [job[Worker] EXCEPT !.pc = "record", !.answered = a]]
    BY <1>4 DEF Notify!PostLost, Notify!PostHandled, Notify!Outcome, Notify!SetJob
  <2>2. job'[Worker].batch = job[Worker].batch
    BY <1>1, <1>3, <2>1 DEF AdapterIInv, JobsOK, Notify!Jobs
  <2> QED
    BY <1>1, <1>3, <2>2 DEF Turn
<1>5. CASE Notify!DeliveryStoreFails(Worker)
  <2>1. ASSUME job' = [job EXCEPT ![Worker] = Notify!NextJob(Worker)]
        PROVE  Turn'
    BY <1>1, <1>2, <2>1, NextTurn
  <2>2. ASSUME job' = [job EXCEPT ![Worker] = Notify!NoJob]
        PROVE  Turn'
    <3>1. job'[Worker].pc = "idle"
      BY <1>1, <2>2, JobFacts DEF AdapterIInv, JobsOK
    <3> QED
      BY <3>1 DEF Turn
  <2>3. \/ job' = [job EXCEPT ![Worker] = Notify!NextJob(Worker)]
        \/ job' = [job EXCEPT ![Worker] = Notify!NoJob]
    BY <1>5 DEF Notify!DeliveryStoreFails, Notify!SetJob
  <2> QED
    BY <2>1, <2>2, <2>3
<1> QED
  BY <1>4, <1>5

LEMMA TurnInv ==
  ASSUME Pollers = {}, AdapterIInv, Turn, [AdapterNext]_adapterVars, WorldGoal,
         ~ Notify!Record(Worker), ~ Notify!DeliverSilent(Worker)
  PROVE  Turn'
<1>1. WorldTypeOK /\ now <= now' /\ Worker \in Notify!Deliverers
  BY NowGoes DEF AdapterIInv, Notify!Deliverers
<1>2. CASE DeliverySteps
  <2>1. \/ Notify!WorkerTick \/ Notify!PostLost(Worker) \/ Notify!PostHandled(Worker)
        \/ Notify!DeliveryStoreFails(Worker)
    BY <1>2 DEF DeliverySteps, Notify!DeliveryStep, Notify!Deliverers, Notify!Deliver
  <2> QED
    BY <2>1, WorkerTickTurn, PostTurn
<1>3. CASE AdapterRestart
  <2>1. job'[Worker].pc = "idle"
    BY <1>3, JobFacts DEF AdapterRestart, NoJobs, Notify!Deliverers
  <2> QED
    BY <2>1 DEF Turn
<1>4. CASE ~ DeliverySteps /\ ~ AdapterRestart
  <2>1. job' = job
    BY <1>4 DEF AdapterNext, CloserSteps, Submissions, AdapterTick, adapterVars
  <2>2. ASSUME job[Worker].pc # "idle"
        PROVE  Due(job[Worker].batch, orders', now')
    <3>1. job[Worker].batch \in Seq(Fetched) /\ Due(job[Worker].batch, orders, now)
      BY <1>1, <2>2, JobAtHand DEF Turn
    <3> QED
      BY <1>1, <3>1, QuietKeepsDue
  <2> QED
    BY <2>1, <2>2 DEF Turn
<1> QED
  BY <1>2, <1>3, <1>4

LEMMA RetriesStep ==
  ASSUME Pollers = {}, RetriesIInv, AdapterNext, tried' = [o \in Orders |-> Remembered(o)]
  PROVE  RetriesGoal
<1>1. CASE Notify!Record(Worker) \/ Notify!DeliverSilent(Worker)
  BY <1>1, OutcomeWaits
<1>2. CASE ~ Notify!Record(Worker) /\ ~ Notify!DeliverSilent(Worker)
  <2>1. AdapterIInv /\ Turn /\ WorldTypeOK
    BY DEF RetriesIInv, AdapterIInv
  <2>2. WorldGoal
    <3>1. WorldGoal \/ DeliverySteps
      BY <2>1, AdapterNextInv
    <3>2. ASSUME DeliverySteps
          PROVE  WorldGoal
      BY <1>2, <2>1, <3>2, DeliveryMoves DEF DeliverySteps, Notify!Deliverers
    <3> QED
      BY <3>1, <3>2
  <2>3. Turn'
    BY <1>2, <2>1, <2>2, TurnInv
  <2>4. \A x \in Orders : tried'[x] \in Tries /\ Waits(x)' /\ StaysAnswered(x)
    <3> SUFFICES ASSUME NEW x \in Orders
                 PROVE  tried'[x] \in Tries /\ Waits(x)' /\ StaysAnswered(x)
      OBVIOUS
    <3>1. ~ FailureRecorded(x)
      BY <1>2 DEF FailureRecorded
    <3>2. /\ Quiet(orders[x], orders'[x]) /\ Waits(x) /\ tried[x] \in Tries
          /\ tried'[x] = Remembered(x)
      BY <2>2 DEF RetriesIInv, WorldGoal
    <3> QED
      BY <2>1, <3>1, <3>2, QuietWaits
  <2>5. tried' \in [Orders -> Tries]
    BY <2>4
  <2> QED
    BY <2>3, <2>4, <2>5 DEF RetriesGoal
<1> QED
  BY <1>1, <1>2

LEMMA RetriesStutter ==
  ASSUME RetriesIInv, UNCHANGED retriesVars
  PROVE  RetriesGoal
BY DEF retriesVars, adapterVars, RetriesIInv, RetriesGoal, Turn, Waits, StaysAnswered

LEMMA RetriesInitInv == ASSUME RetriesInit PROVE RetriesIInv
<1>1. AdapterIInv
  BY AdapterInitInv DEF RetriesInit
<1>2. Turn
  <2>1. Worker \in Notify!Deliverers /\ job = NoJobs
    BY DEF Notify!Deliverers, RetriesInit, AdapterInit
  <2> QED
    BY <2>1, JobFacts DEF NoJobs, Turn
<1>3. tried \in [Orders -> Tries] /\ \A o \in Orders : ~ (tried[o].at > 0)
  BY DEF RetriesInit, NeverTried, Tries
<1>4. ASSUME NEW o \in Orders
      PROVE  orders[o].status = "absent" => orders[o].notify = "none"
  <2>1. orders[o] \in {QueuedRow, Submit!Absent(NewRow)}
    BY DEF RetriesInit, AdapterInit
  <2>2. QueuedRow.status = "paid" /\ Submit!Absent(NewRow).notify = "none"
    BY DEF QueuedRow, NewRow, MarkPaid, Insert, Submit!Absent
  <2> QED
    BY <2>1, <2>2
<1> QED
  BY <1>1, <1>2, <1>3, <1>4 DEF RetriesIInv, Waits

\* RetriesIInv holds throughout, without cashier pages.
LEMMA RetriesInvariant ==
  ASSUME Pollers = {}
  PROVE  RetriesSpec => []RetriesIInv
<1>1. RetriesInit => RetriesIInv
  BY RetriesInitInv
<1>2. RetriesIInv /\ [RetriesNext]_retriesVars => RetriesIInv'
  <2> SUFFICES ASSUME RetriesIInv, [RetriesNext]_retriesVars
               PROVE  RetriesIInv'
    OBVIOUS
  <2>1. RetriesGoal
    BY RetriesStep, RetriesStutter DEF RetriesNext
  <2>2. AdapterIInv'
    BY AdapterNextInv DEF RetriesIInv, RetriesNext, retriesVars, AdapterGoal
  <2> QED
    BY <2>1, <2>2 DEF RetriesIInv, RetriesGoal
<1> QED
  BY <1>1, <1>2, PTL DEF RetriesSpec

\* Without cashier pages a failed attempt waits for its delay, unless the payment
\* is reported again meanwhile: none of the other parts makes the row due earlier,
\* and the worker posts for no row on an older copy (runNotifyWorker, main.go;
\* deliver, notify.go; DueNotifies and NotifyRetry, store.go).
THEOREM AdapterRetriesWait ==
  ASSUME Pollers = {}
  PROVE  RetriesSpec => RetriesWait
<1>1. RetriesIInv =>
        [\A o \in Orders :
           Posts(o) /\ tried[o].at > 0 /\ ~ tried[o].reported => DelayOver(o)]_retriesVars
  BY PostsWait
<1> QED
  BY <1>1, RetriesInvariant, PTL DEF RetriesWait

\* Without cashier pages a notification NewAPI has answered is never owed again,
\* whatever reports the payment once more (MarkPaid, store.go:305).
THEOREM AdapterSuccessIsFinal ==
  ASSUME Pollers = {}
  PROVE  RetriesSpec => SuccessIsFinal
<1>1. RetriesIInv /\ [RetriesNext]_retriesVars =>
        [\A o \in Orders :
           orders[o].notify = "succeeded" => orders'[o].notify = "succeeded"]_orders
  BY RetriesStep, RetriesStutter DEF RetriesNext, RetriesGoal, StaysAnswered
<1> QED
  BY <1>1, RetriesInvariant, PTL DEF SuccessIsFinal, RetriesSpec

-----------------------------------------------------------------------------
(* The promise.  What the parts keep together about one order: its row, its *)
(* gateway order, its top-up and, if the delays of the closer are kept,     *)
(* their dates.                                                             *)

\* The delays of the closer: a payment settles within ChannelGrace, and an order
\* that was never closed is left until the gateway order of its last submission
\* is as long past its deadline.
InTime == /\ ~ SlowCalls
          /\ SettleLag < ChannelGrace
          /\ \A ttl \in {OrderTTL, LegacyTTL} :
               SubmitFor + OrderTTL + ChannelGrace <= ttl + MissedGrace

\* Somebody has paid the order, or the top-up needs it no longer.
Known(o) == gw[o].captured \/ wallet[o] \in {"credited", "granted"}

Dated(expireAt, createdAt) ==
  expireAt = 0 \/ \E ttl \in {OrderTTL, LegacyTTL} : expireAt >= createdAt + ttl

Backed(o) ==
  /\ orders[o].notify # "none" => Known(o)
  /\ orders[o].status = "absent" => orders[o].notify = "none" /\ gw[o].state = NoOrder
  /\ orders[o].status = "paid" => orders[o].notify # "none"
  /\ gw[o].state = StateSuccess => gw[o].captured
  /\ DatesAgree(gw[o], now)
  /\ orders[o].createdAt <= now /\ Dated(orders[o].expireAt, orders[o].createdAt)

Timely(o) ==
  /\ \/ gw[o].state \in {NoOrder, StateSuccess}
     \/ gw[o].expiry <= orders[o].createdAt + SubmitFor + OrderTTL
  /\ orders[o].closedAt > 0 => Shut(gw[o]) /\ gw[o].since <= orders[o].closedAt
  /\ wallet[o] = "failed" => OverAt(gw[o], now)

\* What the closer goes by.
FetchedRight(o, row) ==
  /\ orders[o].status # "absent" /\ Dated(row.expireAt, orders[o].createdAt)
  /\ InTime => (row.closedAt > 0 => Shut(gw[o]) /\ gw[o].since <= row.closedAt)

AtHandRight(o) ==
  /\ closer.pc = "paid" => gw[o].captured
  /\ closer.pc = "close" =>
       (closer.plan.expire => Close!missedDue(closer.at, Close!snapshot.expireAt))
  /\ closer.pc = "settle" /\ closer.result = "success" => wallet[o] \in {"credited", "granted"}
  /\ InTime =>
       /\ closer.pc # "idle" => closer.at = now
       /\ closer.pc = "close" /\ Close!missedDue(closer.at, Close!snapshot.expireAt) =>
            OverAt(gw[o], now)
       /\ closer.pc \in {"fresh", "expire"} => OverAt(gw[o], now)
       /\ closer.pc = "record" => Shut(gw[o]) /\ gw[o].since <= closer.at

CloserRight ==
  /\ \A i \in DOMAIN closer.batch : FetchedRight(closer.batch[i].order, closer.batch[i].row)
  /\ AtHandRight(Close!current)

\* What a deliverer goes by: the payment it records was made, the notifications
\* it sends are owed, and the answer it records was given.
JobRight(j) ==
  /\ j.pc = "mark" => gw[Head(j.batch).order].captured
  /\ j.pc \in {"post", "record"} =>
       \A i \in DOMAIN j.batch : orders[j.batch[i].order].notify # "none"
  /\ j.pc = "record" => /\ Head(j.batch).order \notin silent
                        /\ j.answered => wallet[Head(j.batch).order] # "pending"

\* What a submission goes by.
RequestRight(r) ==
  /\ r.pc = "insert" => /\ r.copy.status = "created" /\ r.copy.notify = "none"
                        /\ r.copy.expireAt = 0 /\ r.copy.closedAt = 0
  /\ r.pc \notin {"idle", "insert"} =>
       /\ orders[r.order].status # "absent"
       /\ InTime => now <= orders[r.order].createdAt + SubmitFor
  /\ \/ r.pc \in {"paid", "repaid"}
     \/ r.pc \in {"update", "reupdate"} /\ r.state = StateSuccess
     => gw[r.order].captured

PromiseInv ==
  /\ \A o \in Orders : Backed(o) /\ (InTime => Timely(o))
  /\ CloserRight
  /\ \A d \in Notify!Deliverers : JobRight(job[d])
  /\ \A s \in Submitters : RequestRight(submit[s])

FullInv == AdapterIInv /\ PromiseInv

-----------------------------------------------------------------------------
(* What a step does to one order. *)

RowMove(o, q) ==
  /\ q.status # "absent"
  /\ orders[o].status # "absent" => q.createdAt = orders[o].createdAt
  /\ q.status = "paid" => q.notify # "none"
  /\ \/ q.notify = orders[o].notify
     \/ q.notify = "pending" /\ Known(o)
     \/ orders[o].notify # "none" /\ q.notify \in {"pending", "failed"}
     \/ /\ orders[o].notify # "none" /\ q.notify = "succeeded"
        /\ o \in silent \/ wallet[o] # "pending"
  /\ q.createdAt <= now /\ Dated(q.expireAt, q.createdAt)
  /\ \/ q.closedAt \in {orders[o].closedAt, 0}
     \/ InTime => Shut(gw[o]) /\ gw[o].since <= q.closedAt

\* The gateway order of o is placed.
Placing(o, h) ==
  /\ gw[o].state = NoOrder /\ orders[o].status # "absent"
  /\ InTime => now <= orders[o].createdAt + SubmitFor
  /\ h.state \in {StateInit, StateIng, StateSuccess, StateFail} /\ h.expiry = now + OrderTTL
  /\ h.captured = (h.state = StateSuccess)
  /\ h.since = IF h.captured THEN now ELSE 0

TopUpMove(o, w) ==
  \/ w = wallet[o]
  \/ /\ wallet[o] = "pending"
     /\ \/ w = "granted"
        \/ w = "credited" /\ gw[o].captured /\ orders[o].notify # "none"
        \/ w = "failed" /\ (InTime => OverAt(gw[o], now))

\* What a step does to the shared state.
OneMove ==
  \/ \E o \in Orders, q \in Rows : /\ orders' = [orders EXCEPT ![o] = q] /\ RowMove(o, q)
                                   /\ UNCHANGED <<now, gw, wallet>>
  \/ \E o \in Orders, h \in GatewayOrders : /\ gw' = [gw EXCEPT ![o] = h]
                                            /\ Move(gw[o], h, now) \/ Placing(o, h)
                                            /\ UNCHANGED <<now, orders, wallet>>
  \/ \E o \in Orders, w \in WalletStates : /\ wallet' = [wallet EXCEPT ![o] = w]
                                           /\ TopUpMove(o, w)
                                           /\ UNCHANGED <<now, orders, gw>>
  \/ orders' = Migrate(orders) /\ UNCHANGED <<now, gw, wallet>>
  \/ Tick
  \/ UNCHANGED <<now, orders, gw, wallet>>

-----------------------------------------------------------------------------
(* After the move. *)

LEMMA TimesAreNat ==
  /\ SettleLag \in Nat /\ ChannelGrace \in Nat /\ MissedGrace \in Nat
  /\ LegacyTTL \in Nat /\ OrderTTL \in Nat /\ SubmitFor \in Nat /\ StartTime \in Nat
BY TimeAssumption, CloseAssumption, LegacyTTLAssumption

\* What no step takes back, and what becomes of a gateway order.
Lasting(o) ==
  /\ gw[o].captured => gw'[o].captured
  /\ wallet[o] # "pending" => wallet'[o] = wallet[o]
  /\ orders[o].notify # "none" => orders'[o].notify # "none"
  /\ orders[o].status # "absent" =>
       orders'[o].status # "absent" /\ orders'[o].createdAt = orders[o].createdAt
  /\ gw[o].state # NoOrder => Move(gw[o], gw'[o], now)

LEMMA MoveLasts ==
  ASSUME NEW g \in GatewayOrders, NEW h, NEW t, DatesAgree(g, t), Move(g, h, t)
  PROVE  g.captured => h.captured
BY DEF Move, DatesAgree, Shut, GatewayOrders

LEMMA SameLasts ==
  ASSUME NEW o, orders'[o] = orders[o] \/ orders'[o] = Migrate(orders)[o], gw'[o] = gw[o],
         wallet'[o] = wallet[o], o \in Orders, WorldTypeOK
  PROVE  Lasting(o)
<1>1. /\ orders'[o].notify = orders[o].notify
      /\ orders'[o].status = orders[o].status
      /\ orders'[o].createdAt = orders[o].createdAt
  BY MigrateKeeps DEF WorldTypeOK
<1> QED
  BY <1>1 DEF Lasting, Move

\* A step changes one order at most, and in one place.
LEMMA OneLasts ==
  ASSUME WorldTypeOK, \A o \in Orders : Backed(o), OneMove, NEW o \in Orders
  PROVE  Lasting(o)
<1>1. /\ orders \in [Orders -> Rows] /\ gw \in [Orders -> GatewayOrders]
      /\ wallet \in [Orders -> WalletStates] /\ gw[o] \in GatewayOrders
  BY DEF WorldTypeOK
<1>2. ASSUME NEW x \in Orders, NEW q \in Rows, orders' = [orders EXCEPT ![x] = q], RowMove(x, q),
             UNCHANGED <<now, gw, wallet>>
      PROVE  Lasting(o)
  <2>1. orders'[o] = IF o = x THEN q ELSE orders[o]
    BY <1>1, <1>2
  <2>2. CASE o = x
    <3>1. /\ q.status # "absent"
          /\ orders[o].status # "absent" => q.createdAt = orders[o].createdAt
          /\ orders[o].notify # "none" => q.notify # "none"
      BY <1>2, <2>2 DEF RowMove
    <3> QED
      BY <1>2, <2>1, <2>2, <3>1 DEF Lasting, Move
  <2>3. CASE o # x
    BY <1>2, <2>1, <2>3, SameLasts
  <2> QED
    BY <2>2, <2>3
<1>3. ASSUME NEW x \in Orders, NEW h \in GatewayOrders, gw' = [gw EXCEPT ![x] = h],
             Move(gw[x], h, now) \/ Placing(x, h), UNCHANGED <<now, orders, wallet>>
      PROVE  Lasting(o)
  <2>1. gw'[o] = IF o = x THEN h ELSE gw[o]
    BY <1>1, <1>3
  <2>2. CASE o = x
    <3>1. Backed(o)
      OBVIOUS
    <3>2. CASE Move(gw[o], h, now)
      <4>1. gw[o].captured => h.captured
        BY <1>1, <3>1, <3>2, MoveLasts DEF Backed
      <4> QED
        BY <1>3, <2>1, <2>2, <3>2, <4>1 DEF Lasting
    <3>3. CASE Placing(o, h)
      <4>1. gw[o].state = NoOrder /\ ~ gw[o].captured
        BY <3>1, <3>3 DEF Placing, Backed, DatesAgree, Shut
      <4> QED
        BY <1>3, <2>1, <2>2, <4>1 DEF Lasting
    <3> QED
      BY <1>3, <2>2, <3>2, <3>3
  <2>3. CASE o # x
    BY <1>3, <2>1, <2>3, SameLasts
  <2> QED
    BY <2>2, <2>3
<1>4. ASSUME NEW x \in Orders, NEW w \in WalletStates, wallet' = [wallet EXCEPT ![x] = w],
             TopUpMove(x, w), UNCHANGED <<now, orders, gw>>
      PROVE  Lasting(o)
  <2>1. wallet'[o] = IF o = x THEN w ELSE wallet[o]
    BY <1>1, <1>4
  <2>2. wallet[o] # "pending" => wallet'[o] = wallet[o]
    BY <1>4, <2>1 DEF TopUpMove
  <2> QED
    BY <1>4, <2>2 DEF Lasting, Move
<1>5. CASE orders' = Migrate(orders) /\ UNCHANGED <<now, gw, wallet>>
  BY <1>5, SameLasts
<1>6. CASE Tick \/ UNCHANGED <<now, orders, gw, wallet>>
  BY <1>6, SameLasts DEF Tick
<1> QED
  BY <1>2, <1>3, <1>4, <1>5, <1>6 DEF OneMove

LEMMA KnownLasts ==
  ASSUME NEW o, Lasting(o), Known(o)
  PROVE  Known(o)'
BY DEF Lasting, Known

\* Time passes by one second at most, and no faster than payments settle.
LEMMA TickFacts ==
  ASSUME WorldTypeOK, Tick, NEW o \in Orders
  PROVE  /\ now' = now + 1 /\ gw' = gw /\ orders' = orders /\ wallet' = wallet
         /\ gw[o].captured /\ gw[o].state # StateSuccess => now' <= gw[o].since + SettleLag
<1>1. gw[o].since \in Nat /\ now \in Nat /\ SettleLag \in Nat
  BY TimesAreNat DEF WorldTypeOK, GatewayOrders
<1>2. /\ now' = now + 1 /\ gw' = gw /\ orders' = orders /\ wallet' = wallet
      /\ gw[o].captured /\ gw[o].state # StateSuccess => now < gw[o].since + SettleLag
  BY DEF Tick
<1> QED
  BY <1>1, <1>2

LEMMA RowBacked ==
  ASSUME NEW o \in Orders, Backed(o), Lasting(o), now' = now, gw' = gw, wallet' = wallet,
         RowMove(o, orders'[o])
  PROVE  Backed(o)'
<1> DEFINE q == orders'[o]
<1>1. Known(o)' = Known(o)
  BY DEF Known
<1>2. q.notify # "none" => Known(o)
  BY DEF RowMove, Backed
<1>3. /\ q.status # "absent" /\ (q.status = "paid" => q.notify # "none")
      /\ q.createdAt <= now /\ Dated(q.expireAt, q.createdAt)
  BY DEF RowMove
<1>4. /\ gw[o].state = StateSuccess => gw[o].captured
      /\ DatesAgree(gw[o], now)
  BY DEF Backed
<1> QED
  BY <1>1, <1>2, <1>3, <1>4 DEF Backed

LEMMA GatewayBacked ==
  ASSUME WorldTypeOK, WorldTypeOK', NEW o \in Orders, Backed(o), Lasting(o), now' = now,
         orders' = orders, wallet' = wallet,
         Move(gw[o], gw'[o], now) \/ Placing(o, gw'[o])
  PROVE  Backed(o)'
<1> DEFINE h == gw'[o]
<1>1. /\ gw[o] \in GatewayOrders /\ h \in GatewayOrders /\ now \in Nat
  BY DEF WorldTypeOK
<1>2. DatesAgree(h, now)
  <2>1. CASE Move(gw[o], h, now)
    BY <1>1, <2>1, DatesKept DEF Backed
  <2>2. CASE Placing(o, h)
    <3>1. OrderTTL \in Nat /\ now + OrderTTL >= now /\ now + OrderTTL >= 0
      BY <1>1, TimesAreNat
    <3>2. h.since <= h.expiry
      BY <1>1, <2>2, <3>1 DEF Placing
    <3>3. h.captured => h.state = StateSuccess
      BY <2>2 DEF Placing
    <3> QED
      BY <3>2, <3>3 DEF DatesAgree, Shut
  <2> QED
    BY <2>1, <2>2
<1>3. h.state = StateSuccess => h.captured
  BY DEF Backed, Move, Placing
<1>4. orders[o].status = "absent" => h.state = NoOrder
  BY DEF Backed, Move, Placing
<1>5. orders[o].notify # "none" => Known(o)'
  BY KnownLasts DEF Backed
<1> HIDE DEF h
<1>6. /\ orders[o].status = "absent" => orders[o].notify = "none"
      /\ orders[o].status = "paid" => orders[o].notify # "none"
      /\ orders[o].createdAt <= now /\ Dated(orders[o].expireAt, orders[o].createdAt)
  BY DEF Backed
<1> QED
  BY <1>2, <1>3, <1>4, <1>5, <1>6 DEF Backed, h

\* The row as it was, or as migrate leaves it; the gateway order as it was.
LEMMA SameBacked ==
  ASSUME WorldTypeOK, NEW o \in Orders, Backed(o), Lasting(o), gw'[o] = gw[o],
         orders'[o] \in {orders[o], Migrate(orders)[o]}, now' \in Nat, now <= now',
         gw[o].captured /\ gw[o].state # StateSuccess => now' <= gw[o].since + SettleLag
  PROVE  Backed(o)'
<1> DEFINE r == orders[o]
           q == orders'[o]
<1>1. gw[o] \in GatewayOrders /\ r \in Rows /\ orders \in [Orders -> Rows] /\ now \in Nat
  BY DEF WorldTypeOK
<1>2. /\ q.notify = r.notify /\ q.status = r.status /\ q.createdAt = r.createdAt
      /\ q.expireAt \in {r.expireAt, r.createdAt + LegacyTTL}
  BY <1>1, MigrateKeeps
<1>3. DatesAgree(gw[o], now')
  BY DEF Backed, DatesAgree
<1>4. r.createdAt <= now' /\ r.createdAt \in Nat
  <2>1. r.createdAt \in Nat
    BY <1>1 DEF Rows
  <2>2. r.createdAt <= now
    BY DEF Backed
  <2> HIDE DEF r
  <2> QED
    BY <1>1, <2>1, <2>2
<1>5. Dated(q.expireAt, q.createdAt)
  <2>1. r.createdAt + LegacyTTL >= r.createdAt + LegacyTTL
    BY <1>4, TimesAreNat
  <2> HIDE DEF r, q
  <2>2. Dated(r.createdAt + LegacyTTL, r.createdAt)
    BY <2>1 DEF Dated
  <2>3. Dated(r.expireAt, r.createdAt)
    BY DEF r, Backed
  <2> QED
    BY <1>2, <2>2, <2>3
<1>6. r.notify # "none" => Known(o)'
  BY KnownLasts DEF Backed
<1>7. /\ r.status = "absent" => r.notify = "none" /\ gw[o].state = NoOrder
      /\ r.status = "paid" => r.notify # "none"
      /\ gw[o].state = StateSuccess => gw[o].captured
  BY DEF Backed
<1> HIDE DEF r
<1> QED
  BY <1>2, <1>3, <1>4, <1>5, <1>6, <1>7 DEF Backed

LEMMA OneBacked ==
  ASSUME WorldTypeOK, WorldTypeOK', \A o \in Orders : Backed(o), OneMove, NEW o \in Orders
  PROVE  Backed(o)'
<1>1. /\ orders \in [Orders -> Rows] /\ gw \in [Orders -> GatewayOrders]
      /\ wallet \in [Orders -> WalletStates] /\ now \in Nat
      /\ Backed(o) /\ Lasting(o)
  BY OneLasts DEF WorldTypeOK
<1>2. gw[o].captured /\ gw[o].state # StateSuccess => now <= gw[o].since + SettleLag
  BY <1>1 DEF Backed, DatesAgree
<1>3. ASSUME orders'[o] = orders[o], gw'[o] = gw[o], now' = now PROVE Backed(o)'
  BY <1>1, <1>2, <1>3, SameBacked
<1>4. ASSUME NEW x \in Orders, NEW q \in Rows, orders' = [orders EXCEPT ![x] = q], RowMove(x, q),
             UNCHANGED <<now, gw, wallet>>
      PROVE  Backed(o)'
  <2>1. orders'[o] = IF o = x THEN q ELSE orders[o]
    BY <1>1, <1>4
  <2> QED
    BY <1>1, <1>3, <1>4, <2>1, RowBacked
<1>5. ASSUME NEW x \in Orders, NEW h \in GatewayOrders, gw' = [gw EXCEPT ![x] = h],
             Move(gw[x], h, now) \/ Placing(x, h), UNCHANGED <<now, orders, wallet>>
      PROVE  Backed(o)'
  <2>1. gw'[o] = IF o = x THEN h ELSE gw[o]
    BY <1>1, <1>5
  <2> QED
    BY <1>1, <1>3, <1>5, <2>1, GatewayBacked
<1>6. CASE \E x \in Orders, w \in WalletStates : /\ wallet' = [wallet EXCEPT ![x] = w]
                                                /\ TopUpMove(x, w)
                                                /\ UNCHANGED <<now, orders, gw>>
  BY <1>3, <1>6
<1>7. CASE orders' = Migrate(orders) /\ UNCHANGED <<now, gw, wallet>>
  BY <1>1, <1>2, <1>7, SameBacked
<1>8. CASE Tick
  <2>1. now' = now + 1 /\ now' \in Nat /\ now <= now'
    BY <1>1, <1>8 DEF Tick
  <2> QED
    BY <1>1, <1>8, <2>1, TickFacts, SameBacked
<1>9. CASE UNCHANGED <<now, orders, gw, wallet>>
  BY <1>3, <1>9
<1> QED
  BY <1>4, <1>5, <1>6, <1>7, <1>8, <1>9 DEF OneMove

\* If the delays are kept, the dates of every order stay in agreement.
LEMMA RowTimely ==
  ASSUME WorldTypeOK, NEW o \in Orders, InTime, Backed(o), Timely(o), now' = now, gw' = gw,
         wallet' = wallet, RowMove(o, orders'[o])
  PROVE  Timely(o)'
<1> DEFINE q == orders'[o]
<1>1. \/ gw[o].state \in {NoOrder, StateSuccess}
      \/ gw[o].expiry <= q.createdAt + SubmitFor + OrderTTL
  <2>1. orders[o].status # "absent" => q.createdAt = orders[o].createdAt
    BY DEF RowMove
  <2>2. orders[o].status = "absent" => gw[o].state = NoOrder
    BY DEF Backed
  <2> QED
    BY <2>1, <2>2 DEF Timely
<1>2. q.closedAt > 0 => Shut(gw[o]) /\ gw[o].since <= q.closedAt
  <2>1. q.closedAt \in {orders[o].closedAt, 0} \/ (Shut(gw[o]) /\ gw[o].since <= q.closedAt)
    BY DEF RowMove
  <2>2. ~ (0 > 0)
    OBVIOUS
  <2> QED
    BY <2>1, <2>2 DEF Timely
<1> QED
  BY <1>1, <1>2 DEF Timely

LEMMA GatewayTimely ==
  ASSUME WorldTypeOK, WorldTypeOK', NEW o \in Orders, InTime, Backed(o), Timely(o), now' = now,
         orders' = orders, wallet' = wallet, ExpiredIsKnown,
         Move(gw[o], gw'[o], now) \/ Placing(o, gw'[o])
  PROVE  Timely(o)'
<1> DEFINE h == gw'[o]
<1>1. gw[o] \in GatewayOrders /\ h \in GatewayOrders /\ now \in Nat
  BY DEF WorldTypeOK
<1>2. CASE Move(gw[o], h, now)
  <2>1. \/ h.state \in {NoOrder, StateSuccess}
        \/ h.expiry <= orders[o].createdAt + SubmitFor + OrderTTL
    BY <1>2 DEF Move, Timely
  <2>2. orders[o].closedAt > 0 => Shut(h) /\ h.since <= orders[o].closedAt
    BY <1>2, ShutKept DEF Timely
  <2>3. wallet[o] = "failed" => OverAt(h, now)
    <3>1. now >= now
      BY <1>1
    <3> QED
      BY <1>1, <1>2, <3>1, OverKept DEF Timely, InTime, Backed
  <2> QED
    BY <2>1, <2>2, <2>3 DEF Timely
<1>3. CASE Placing(o, h)
  <2>1. h.expiry <= orders[o].createdAt + SubmitFor + OrderTTL
    <3>1. h.expiry = now + OrderTTL /\ now <= orders[o].createdAt + SubmitFor
      BY <1>3 DEF Placing
    <3> DEFINE c == orders[o].createdAt
    <3>2. now \in Nat /\ c \in Nat
      BY <1>1 DEF WorldTypeOK, Rows
    <3> HIDE DEF h, c
    <3>3. now <= c + SubmitFor => now + OrderTTL <= c + SubmitFor + OrderTTL
      BY <3>2, TimesAreNat
    <3> QED
      BY <3>1, <3>3 DEF c
  <2>2. gw[o].state = NoOrder
    BY <1>3 DEF Placing
  <2>3. ~ (orders[o].closedAt > 0) /\ wallet[o] # "failed"
    BY <2>2 DEF Timely, Shut, ExpiredIsKnown
  <2> QED
    BY <2>1, <2>3 DEF Timely
<1> QED
  BY <1>2, <1>3

LEMMA TopUpTimely ==
  ASSUME WorldTypeOK, NEW o \in Orders, InTime, Timely(o), UNCHANGED <<now, orders, gw>>,
         TopUpMove(o, wallet'[o])
  PROVE  Timely(o)'
BY DEF Timely, TopUpMove

LEMMA SameTimely ==
  ASSUME WorldTypeOK, NEW o \in Orders, InTime, Backed(o), Timely(o), gw'[o] = gw[o],
         wallet'[o] = wallet[o], orders'[o] \in {orders[o], Migrate(orders)[o]},
         now' \in Nat, now <= now'
  PROVE  Timely(o)'
<1> DEFINE r == orders[o]
           q == orders'[o]
<1>1. gw[o] \in GatewayOrders /\ orders \in [Orders -> Rows] /\ now \in Nat
  BY DEF WorldTypeOK
<1>2. q.createdAt = r.createdAt /\ q.closedAt = r.closedAt
  BY <1>1, MigrateKeeps
<1>3. OverAt(gw[o], now) => OverAt(gw[o], now')
  <2>1. Move(gw[o], gw[o], now) /\ now' >= now
    BY <1>1 DEF Move
  <2> QED
    BY <1>1, <2>1, OverKept DEF InTime, Backed
<1> QED
  BY <1>2, <1>3 DEF Timely

LEMMA OneTimely ==
  ASSUME AdapterIInv, WorldTypeOK', InTime, \A o \in Orders : Backed(o) /\ Timely(o), OneMove,
         NEW o \in Orders
  PROVE  Timely(o)'
<1>1. /\ orders \in [Orders -> Rows] /\ gw \in [Orders -> GatewayOrders]
      /\ wallet \in [Orders -> WalletStates] /\ now \in Nat
      /\ Backed(o) /\ Timely(o) /\ WorldTypeOK /\ ExpiredIsKnown
  BY DEF WorldTypeOK, AdapterIInv
<1>2. now <= now
  BY <1>1
<1>3. ASSUME orders'[o] = orders[o], gw'[o] = gw[o], wallet'[o] = wallet[o], now' = now
      PROVE  Timely(o)'
  BY <1>1, <1>2, <1>3, SameTimely
<1>4. ASSUME NEW x \in Orders, NEW q \in Rows, orders' = [orders EXCEPT ![x] = q], RowMove(x, q),
             UNCHANGED <<now, gw, wallet>>
      PROVE  Timely(o)'
  <2>1. orders'[o] = IF o = x THEN q ELSE orders[o]
    BY <1>1, <1>4
  <2> QED
    BY <1>1, <1>3, <1>4, <2>1, RowTimely
<1>5. ASSUME NEW x \in Orders, NEW h \in GatewayOrders, gw' = [gw EXCEPT ![x] = h],
             Move(gw[x], h, now) \/ Placing(x, h), UNCHANGED <<now, orders, wallet>>
      PROVE  Timely(o)'
  <2>1. gw'[o] = IF o = x THEN h ELSE gw[o]
    BY <1>1, <1>5
  <2> QED
    BY <1>1, <1>3, <1>5, <2>1, GatewayTimely
<1>6. ASSUME NEW x \in Orders, NEW w \in WalletStates, wallet' = [wallet EXCEPT ![x] = w],
             TopUpMove(x, w), UNCHANGED <<now, orders, gw>>
      PROVE  Timely(o)'
  <2>1. wallet'[o] = IF o = x THEN w ELSE wallet[o]
    BY <1>1, <1>6
  <2> QED
    BY <1>1, <1>3, <1>6, <2>1, TopUpTimely
<1>7. CASE orders' = Migrate(orders) /\ UNCHANGED <<now, gw, wallet>>
  BY <1>1, <1>2, <1>7, SameTimely
<1>8. CASE Tick
  <2>1. now' = now + 1 /\ now' \in Nat /\ now <= now'
    BY <1>1, <1>8 DEF Tick
  <2> QED
    BY <1>1, <1>8, <2>1, TickFacts, SameTimely
<1>9. CASE UNCHANGED <<now, orders, gw, wallet>>
  BY <1>3, <1>9
<1> QED
  BY <1>4, <1>5, <1>6, <1>7, <1>8, <1>9 DEF OneMove

-----------------------------------------------------------------------------
(* The move as module TopUp sees it. *)

PromiseStep == [Promise!TopUpNext]_<<MoneyTaken, TopUpState, NoticeState(silent)>>

\* If the delays are kept, no top-up is expired whose order is paid.
ExpiredUnpaid == InTime => \A o \in Orders : wallet[o] = "failed" => ~ gw[o].captured

\* What is known of a top-up with a notification.
LEMMA NoticeFacts ==
  ASSUME NEW o \in Orders
  PROVE  /\ (NoticeState(silent)[o] = "none") <=> (orders[o].notify = "none")
         /\ orders[o].notify = "pending" => NoticeState(silent)[o] = "owed"
         /\ orders[o].notify = "failed" => NoticeState(silent)[o] = "given up"
         /\ orders[o].notify = "succeeded" =>
              NoticeState(silent)[o] = IF o \in silent THEN "given up" ELSE "answered"
BY DEF NoticeState

LEMMA TopUpFacts ==
  ASSUME NEW o \in Orders, wallet[o] \in WalletStates
  PROVE  /\ (TopUpState[o] = "open") <=> (wallet[o] = "pending")
         /\ (TopUpState[o] = "expired") <=> (wallet[o] = "failed")
         /\ (TopUpState[o] = "credited") <=> (wallet[o] = "credited")
         /\ (TopUpState[o] = "granted") <=> (wallet[o] = "granted")
BY DEF TopUpState, WalletStates

LEMMA RowPromise ==
  ASSUME WorldTypeOK, NEW o \in Orders, NEW q \in Rows, orders' = [orders EXCEPT ![o] = q],
         RowMove(o, q), UNCHANGED <<gw, wallet, silent>>
  PROVE  PromiseStep
<1> DEFINE n == NoticeOf(q.notify, o \in silent)
<1>1. orders \in [Orders -> Rows] /\ wallet[o] \in WalletStates /\ orders[o] \in Rows
  BY DEF WorldTypeOK
<1>2. \A x \in Orders : orders'[x] = IF x = o THEN q ELSE orders[x]
  BY <1>1
<1>3. MoneyTaken' = MoneyTaken /\ TopUpState' = TopUpState
  BY DEF MoneyTaken, TopUpState
<1>4. NoticeState(silent)' = [NoticeState(silent) EXCEPT ![o] = n]
  <2>1. \A x \in Orders : x # o => orders'[x].notify = orders[x].notify
    BY <1>2
  <2>2. orders'[o].notify = q.notify
    BY <1>2
  <2>3. NoticeState(silent)' =
          [NoticeState(silent) EXCEPT ![o] = NoticeOf(orders'[o].notify, o \in silent)]
    BY <1>2 DEF NoticeState, NoticeOf
  <2> QED
    BY <2>2, <2>3
<1> HIDE DEF n
<1>5. CASE q.notify = orders[o].notify
  <2>1. NoticeState(silent)' = NoticeState(silent)
    BY <1>2, <1>5 DEF NoticeState
  <2> QED
    BY <1>3, <2>1 DEF PromiseStep
<1>6. CASE q.notify = "pending" /\ Known(o)
  <2>1. n = "owed"
    BY <1>6 DEF n, NoticeOf
  <2>2. MoneyTaken[o] \/ Promise!Dealt(o)
    BY <1>1, <1>6, TopUpFacts DEF Known, Promise!Dealt, MoneyTaken
  <2>3. Promise!Owe(o)
    BY <1>3, <1>4, <2>1, <2>2 DEF Promise!Owe
  <2> QED
    BY <2>3 DEF PromiseStep, Promise!TopUpNext
<1>7. CASE \/ orders[o].notify # "none" /\ q.notify \in {"pending", "failed"}
           \/ orders[o].notify # "none" /\ q.notify = "succeeded" /\ o \in silent
  <2>1. n \in {"owed", "given up"}
    BY <1>7 DEF n, NoticeOf
  <2>2. NoticeState(silent)[o] # "none"
    BY <1>7, NoticeFacts
  <2>3. Promise!Retry(o)
    BY <1>3, <1>4, <2>1, <2>2 DEF Promise!Retry
  <2> QED
    BY <2>3 DEF PromiseStep, Promise!TopUpNext
<1>8. CASE /\ orders[o].notify # "none" /\ q.notify = "succeeded"
           /\ o \notin silent /\ wallet[o] # "pending"
  <2>1. n = "answered"
    BY <1>8 DEF n, NoticeOf
  <2>2. NoticeState(silent)[o] # "none" /\ TopUpState[o] # "open"
    BY <1>1, <1>8, NoticeFacts, TopUpFacts
  <2>3. Promise!Answer(o)
    BY <1>3, <1>4, <2>1, <2>2 DEF Promise!Answer
  <2> QED
    BY <2>3 DEF PromiseStep, Promise!TopUpNext
<1> QED
  BY <1>5, <1>6, <1>7, <1>8 DEF RowMove

LEMMA GatewayPromise ==
  ASSUME WorldTypeOK, NEW o \in Orders, NEW h \in GatewayOrders, gw' = [gw EXCEPT ![o] = h],
         gw[o].captured => h.captured, wallet[o] = "failed" => (InTime => ~ h.captured),
         SlowCalls \/ InTime,
         UNCHANGED <<orders, wallet, silent>>
  PROVE  PromiseStep
<1>1. /\ gw \in [Orders -> GatewayOrders] /\ wallet[o] \in WalletStates
      /\ gw[o].captured \in BOOLEAN /\ h.captured \in BOOLEAN
  BY DEF WorldTypeOK, GatewayOrders
<1>2. \A x \in Orders : gw'[x] = IF x = o THEN h ELSE gw[x]
  BY <1>1
<1>3. TopUpState' = TopUpState /\ NoticeState(silent)' = NoticeState(silent)
  BY DEF TopUpState, NoticeState
<1>4. CASE h.captured = gw[o].captured
  <2>1. \A x \in Orders : gw'[x].captured = gw[x].captured
    BY <1>2, <1>4
  <2>2. MoneyTaken' = MoneyTaken
    BY <2>1 DEF MoneyTaken
  <2> QED
    BY <1>3, <2>2 DEF PromiseStep
<1>5. CASE h.captured /\ ~ gw[o].captured
  <2>1. \A x \in Orders : x # o => gw'[x].captured = gw[x].captured
    BY <1>2
  <2>2. MoneyTaken' = [MoneyTaken EXCEPT ![o] = TRUE]
    <3>1. MoneyTaken' = [MoneyTaken EXCEPT ![o] = gw'[o].captured]
      BY <2>1, MoneyMoves
    <3>2. gw'[o].captured = TRUE
      BY <1>1, <1>2, <1>5
    <3> QED
      BY <3>1, <3>2
  <2>3. ~ MoneyTaken[o]
    BY <1>5 DEF MoneyTaken
  <2>4. ~ SlowCalls => TopUpState[o] # "expired"
    BY <1>1, <1>5, TopUpFacts
  <2>5. Promise!TakeMoney(o)
    BY <1>3, <2>2, <2>3, <2>4 DEF Promise!TakeMoney
  <2> QED
    BY <2>5 DEF PromiseStep, Promise!TopUpNext
<1> QED
  BY <1>1, <1>4, <1>5

LEMMA TopUpPromise ==
  ASSUME WorldTypeOK, NEW o \in Orders, NEW w \in WalletStates, wallet' = [wallet EXCEPT ![o] = w],
         TopUpMove(o, w), SlowCalls \/ InTime, UNCHANGED <<orders, gw, silent>>
  PROVE  PromiseStep
<1>1. wallet \in [Orders -> WalletStates] /\ wallet[o] \in WalletStates
  BY DEF WorldTypeOK
<1>2. \A x \in Orders : wallet'[x] = IF x = o THEN w ELSE wallet[x]
  BY <1>1
<1>3. MoneyTaken' = MoneyTaken /\ NoticeState(silent)' = NoticeState(silent)
  BY DEF MoneyTaken, NoticeState
<1>4. TopUpState' = [TopUpState EXCEPT ![o] = TopUpOf(w)]
  BY <1>2, TopUpMoves
<1>5. CASE w = wallet[o]
  <2>1. TopUpState' = TopUpState
    BY <1>2, <1>5 DEF TopUpState
  <2> QED
    BY <1>3, <2>1 DEF PromiseStep
<1>6. CASE wallet[o] = "pending" /\ w = "granted"
  <2>1. TopUpState[o] = "open" /\ TopUpOf(w) = "granted"
    BY <1>1, <1>6, TopUpFacts DEF TopUpOf
  <2>2. Promise!Grant(o)
    BY <1>3, <1>4, <2>1 DEF Promise!Grant
  <2> QED
    BY <2>2 DEF PromiseStep, Promise!TopUpNext
<1>7. CASE wallet[o] = "pending" /\ w = "credited" /\ gw[o].captured /\ orders[o].notify # "none"
  <2>1. TopUpState[o] = "open" /\ TopUpOf(w) = "credited"
    BY <1>1, <1>7, TopUpFacts DEF TopUpOf
  <2>2. MoneyTaken[o] /\ NoticeState(silent)[o] # "none"
    BY <1>7, NoticeFacts DEF MoneyTaken
  <2>3. Promise!CreditTopUp(o)
    BY <1>3, <1>4, <2>1, <2>2 DEF Promise!CreditTopUp
  <2> QED
    BY <2>3 DEF PromiseStep, Promise!TopUpNext
<1>8. CASE wallet[o] = "pending" /\ w = "failed" /\ (InTime => OverAt(gw[o], now))
  <2>1. TopUpState[o] = "open" /\ TopUpOf(w) = "expired"
    BY <1>1, <1>8, TopUpFacts DEF TopUpOf
  <2>2. ~ SlowCalls => ~ MoneyTaken[o]
    BY <1>8 DEF MoneyTaken, OverAt
  <2>3. Promise!Expire(o)
    BY <1>3, <1>4, <2>1, <2>2 DEF Promise!Expire
  <2> QED
    BY <2>3 DEF PromiseStep, Promise!TopUpNext
<1> QED
  BY <1>5, <1>6, <1>7, <1>8 DEF TopUpMove

LEMMA OnePromise ==
  ASSUME WorldTypeOK, SlowCalls \/ InTime, \A o \in Orders : Backed(o), ExpiredUnpaid',
         OneMove, silent' = silent
  PROVE  PromiseStep
<1>1. /\ orders \in [Orders -> Rows] /\ gw \in [Orders -> GatewayOrders]
  BY DEF WorldTypeOK
<1>2. ASSUME \A x \in Orders : /\ gw'[x].captured = gw[x].captured
                               /\ orders'[x].notify = orders[x].notify
                               /\ wallet'[x] = wallet[x]
      PROVE  PromiseStep
  <2>1. MoneyTaken' = MoneyTaken /\ TopUpState' = TopUpState
    BY <1>2 DEF MoneyTaken, TopUpState
  <2>2. NoticeState(silent)' = NoticeState(silent)
    BY <1>2 DEF NoticeState
  <2> QED
    BY <2>1, <2>2 DEF PromiseStep
<1>3. ASSUME NEW x \in Orders, NEW q \in Rows, orders' = [orders EXCEPT ![x] = q], RowMove(x, q),
             UNCHANGED <<now, gw, wallet>>
      PROVE  PromiseStep
  BY <1>3, RowPromise
<1>4. ASSUME NEW x \in Orders, NEW h \in GatewayOrders, gw' = [gw EXCEPT ![x] = h],
             Move(gw[x], h, now) \/ Placing(x, h), UNCHANGED <<now, orders, wallet>>
      PROVE  PromiseStep
  <2>1. gw'[x] = h /\ wallet'[x] = wallet[x]
    BY <1>1, <1>4
  <2>2. gw[x].captured => h.captured
    <3>1. Lasting(x)
      BY <1>4, OneLasts
    <3> QED
      BY <2>1, <3>1 DEF Lasting
  <2>3. wallet[x] = "failed" => (InTime => ~ h.captured)
    BY <2>1 DEF ExpiredUnpaid
  <2> QED
    BY <1>4, <2>2, <2>3, GatewayPromise
<1>5. ASSUME NEW x \in Orders, NEW w \in WalletStates, wallet' = [wallet EXCEPT ![x] = w],
             TopUpMove(x, w), UNCHANGED <<now, orders, gw>>
      PROVE  PromiseStep
  BY <1>5, TopUpPromise
<1>6. CASE orders' = Migrate(orders) /\ UNCHANGED <<now, gw, wallet>>
  BY <1>1, <1>2, <1>6, MigrateKeeps
<1>7. CASE Tick \/ UNCHANGED <<now, orders, gw, wallet>>
  BY <1>2, <1>7 DEF Tick
<1> QED
  BY <1>3, <1>4, <1>5, <1>6, <1>7 DEF OneMove

-----------------------------------------------------------------------------
(* What a part goes by stays right while others move. *)

\* Steps of the clock and of the orders that leave what was read standing.
Calm == /\ WorldTypeOK' /\ \A o \in Orders : Lasting(o)
        /\ now <= now' /\ (InTime /\ now' # now => AtRest)

LEMMA LastingShut ==
  ASSUME NEW o, Lasting(o), Shut(gw[o])
  PROVE  Shut(gw'[o]) /\ gw'[o].since = gw[o].since
<1>1. Move(gw[o], gw'[o], now)
  BY DEF Lasting, Shut
<1> QED
  BY <1>1, ShutKept

LEMMA LastingOver ==
  ASSUME FullInv, InTime, Calm, NEW o \in Orders, OverAt(gw[o], now)
  PROVE  OverAt(gw'[o], now')
<1>1. /\ gw[o] \in GatewayOrders /\ gw'[o] \in GatewayOrders /\ now \in Nat /\ now' \in Nat
      /\ Backed(o) /\ Lasting(o)
  BY DEF FullInv, AdapterIInv, PromiseInv, WorldTypeOK, Calm
<1>2. Move(gw[o], gw'[o], now)
  BY <1>1 DEF Lasting, OverAt
<1>3. now' >= now
  BY <1>1 DEF Calm
<1> QED
  BY <1>1, <1>2, <1>3, OverKept DEF InTime, Backed

\* A row the closer has fetched.
LEMMA FetchedStays ==
  ASSUME NEW o, NEW row, Lasting(o), FetchedRight(o, row)
  PROVE  /\ orders'[o].status # "absent" /\ Dated(row.expireAt, orders'[o].createdAt)
         /\ InTime => (row.closedAt > 0 => Shut(gw'[o]) /\ gw'[o].since <= row.closedAt)
<1>1. orders'[o].status # "absent" /\ Dated(row.expireAt, orders'[o].createdAt)
  BY DEF FetchedRight, Lasting
<1>2. ASSUME InTime, row.closedAt > 0
      PROVE  Shut(gw'[o]) /\ gw'[o].since <= row.closedAt
  <2>1. Shut(gw[o]) /\ gw[o].since <= row.closedAt
    BY <1>2 DEF FetchedRight
  <2> QED
    BY <2>1, LastingShut
<1> QED
  BY <1>1, <1>2

LEMMA BatchStays ==
  ASSUME FullInv, Calm, closer'.batch = closer.batch
  PROVE  (\A i \in DOMAIN closer.batch :
            FetchedRight(closer.batch[i].order, closer.batch[i].row))'
<1>1. closer.batch \in Seq(Fetched)
  BY ClosingNames DEF FullInv, AdapterIInv, CloserOK, Close!Closers
<1>2. ASSUME NEW i \in DOMAIN closer.batch
      PROVE  LET o == closer.batch[i].order
                 row == closer.batch[i].row
             IN /\ orders'[o].status # "absent" /\ Dated(row.expireAt, orders'[o].createdAt)
                /\ InTime => (row.closedAt > 0 => Shut(gw'[o]) /\ gw'[o].since <= row.closedAt)
  <2>1. closer.batch[i].order \in Orders
    BY <1>1, BatchOrders
  <2>2. Lasting(closer.batch[i].order)
    BY <2>1 DEF Calm
  <2>3. FetchedRight(closer.batch[i].order, closer.batch[i].row)
    BY DEF FullInv, PromiseInv, CloserRight
  <2> QED
    BY <2>2, <2>3, FetchedStays
<1> QED
  BY <1>2 DEF FetchedRight

LEMMA CloserStays ==
  ASSUME FullInv, Calm, closer' = closer
  PROVE  CloserRight'
<1>1. (\A i \in DOMAIN closer.batch :
         FetchedRight(closer.batch[i].order, closer.batch[i].row))'
  BY BatchStays
<1> DEFINE o == Close!current
<1>2. CASE closer.pc = "idle"
  BY <1>1, <1>2 DEF CloserRight, AtHandRight
<1>3. CASE closer.pc # "idle"
  <2>1. o \in Orders /\ wallet[o] \in WalletStates
    BY <1>3, CloserAtHand DEF FullInv
  <2>2. Lasting(o) /\ AtHandRight(o)
    BY <2>1 DEF Calm, FullInv, PromiseInv, CloserRight
  <2>3. InTime => now' = now
    BY <1>3 DEF Calm, AtRest
  <2>4. InTime /\ OverAt(gw[o], now) => OverAt(gw'[o], now')
    BY <2>1, LastingOver
  <2>5. Shut(gw[o]) => Shut(gw'[o]) /\ gw'[o].since = gw[o].since
    BY <2>2, LastingShut
  <2>6. o' = o /\ Close!snapshot' = Close!snapshot
    BY DEF Close!current, Close!snapshot
  <2>7. /\ gw[o].captured => gw'[o].captured
        /\ wallet[o] \in {"credited", "granted"} => wallet'[o] = wallet[o]
    BY <2>2 DEF Lasting
  <2> HIDE DEF o
  <2>8. AtHandRight(o)'
    BY <2>2, <2>3, <2>4, <2>5, <2>6, <2>7 DEF AtHandRight
  <2> QED
    BY <1>1, <2>8 DEF CloserRight, o
<1> QED
  BY <1>2, <1>3

LEMMA JobStays ==
  ASSUME FullInv, Calm, silent' = silent, NEW d \in Notify!Deliverers, job'[d] = job[d]
  PROVE  JobRight(job[d])'
<1>1. JobRight(job[d])
  BY DEF FullInv, PromiseInv
<1>2. CASE job[d].pc = "idle"
  BY <1>2 DEF JobRight
<1>3. CASE job[d].pc # "idle"
  <2>1. job[d].batch \in Seq(Fetched) /\ Notify!subject(d) \in Orders
    BY <1>3, JobAtHand DEF FullInv
  <2>2. Head(job[d].batch).order \in Orders
    BY <2>1 DEF Notify!subject
  <2>3. \A i \in DOMAIN job[d].batch : job[d].batch[i].order \in Orders
    BY <2>1, BatchOrders
  <2>4. \A o \in Orders : /\ gw[o].captured => gw'[o].captured
                          /\ orders[o].notify # "none" => orders'[o].notify # "none"
                          /\ wallet[o] # "pending" => wallet'[o] # "pending"
    BY DEF Calm, Lasting
  <2> QED
    BY <1>1, <2>2, <2>3, <2>4 DEF JobRight
<1> QED
  BY <1>2, <1>3

LEMMA RequestStays ==
  ASSUME FullInv, Calm, NEW s \in Submitters, submit'[s] = submit[s]
  PROVE  RequestRight(submit[s])'
<1> DEFINE r == submit[s]
<1>1. r.order \in Orders /\ r.copy \in Rows /\ RequestRight(r)
  BY RequestAtHand DEF FullInv, PromiseInv, Submit!target, Submit!copy
<1>2. /\ gw[r.order].captured => gw'[r.order].captured
      /\ orders[r.order].status # "absent" =>
           /\ orders'[r.order].status # "absent"
           /\ orders'[r.order].createdAt = orders[r.order].createdAt
  BY <1>1 DEF Calm, Lasting
<1>3. InTime /\ r.pc # "idle" => now' = now
  BY DEF Calm, AtRest
<1>4. r' = r
  OBVIOUS
<1> HIDE DEF r
<1>5. RequestRight(r)'
  BY <1>1, <1>2, <1>3, <1>4 DEF RequestRight
<1> QED
  BY <1>5 DEF r

-----------------------------------------------------------------------------
(* The steps of the closer. *)

\* A statement that leaves the notification and the dates of a row.
LEMMA PlainRow ==
  ASSUME NEW o, NEW q, Backed(o), orders[o].status # "absent",
         q.notify = orders[o].notify, q.status \in {orders[o].status, "failed"},
         q.createdAt = orders[o].createdAt, q.expireAt = orders[o].expireAt,
         q.closedAt = orders[o].closedAt
  PROVE  RowMove(o, q)
BY DEF RowMove, Backed

LEMMA PaidRow ==
  ASSUME NEW o \in Orders, orders[o] \in Rows, Backed(o), Known(o), now \in Nat, NEW b \in BOOLEAN
  PROVE  RowMove(o, MarkPaid(orders[o], b, now))
<1> DEFINE q == MarkPaid(orders[o], b, now)
<1>1. q.createdAt = orders[o].createdAt /\ q.expireAt = orders[o].expireAt
  BY RowOpsKeep
<1>2. q.status = "paid" /\ q.closedAt = orders[o].closedAt
  BY RowOpsStatus
<1>3. q.notify = IF orders[o].notify = "succeeded" THEN "succeeded" ELSE "pending"
  BY MarkPaidNotify
<1> HIDE DEF q
<1> QED
  BY <1>1, <1>2, <1>3 DEF RowMove, Backed, q

\* What the closer knows of the order at hand.
LEMMA CloserKnowledge ==
  ASSUME FullInv, closer.pc # "idle"
  PROVE  /\ Close!current \in Orders /\ orders[Close!current] \in Rows
         /\ gw[Close!current] \in GatewayOrders /\ wallet[Close!current] \in WalletStates
         /\ WorldTypeOK /\ now \in Nat /\ closer.at \in Nat
         /\ Backed(Close!current) /\ (InTime => Timely(Close!current))
         /\ AtHandRight(Close!current) /\ FetchedRight(Close!current, Close!snapshot)
<1>1. AdapterIInv /\ PromiseInv
  BY DEF FullInv
<1>2. /\ closer.batch \in Seq(Fetched) /\ closer.batch # <<>>
      /\ Close!current \in Orders /\ orders[Close!current] \in Rows
      /\ gw[Close!current] \in GatewayOrders /\ wallet[Close!current] \in WalletStates
      /\ WorldTypeOK /\ now \in Nat /\ closer.at \in Nat
  BY <1>1, CloserAtHand
<1>3. 1 \in DOMAIN closer.batch /\ Head(closer.batch) = closer.batch[1]
  BY <1>2, HeadFacts
<1>4. FetchedRight(Close!current, Close!snapshot)
  BY <1>1, <1>3 DEF PromiseInv, CloserRight, Close!current, Close!snapshot
<1> QED
  BY <1>1, <1>2, <1>4 DEF PromiseInv, CloserRight

LEMMA CloserWritesOne ==
  ASSUME FullInv, \/ Close!CloserMarksPaid \/ Close!CloserBlocks
                  \/ Close!RecordChannelClosed \/ Close!Settle
  PROVE  OneMove
<1> DEFINE o == Close!current
           r == orders[o]
<1>1. closer.pc # "idle"
  BY DEF Close!CloserMarksPaid, Close!CloserBlocks, Close!RecordChannelClosed, Close!Settle
<1>2. /\ o \in Orders /\ r \in Rows /\ now \in Nat /\ closer.at \in Nat
      /\ Backed(o) /\ AtHandRight(o) /\ r.status # "absent"
  BY <1>1, CloserKnowledge DEF FetchedRight
<1>3. TRUE \in BOOLEAN /\ FALSE \in BOOLEAN
  OBVIOUS
<1>4. ASSUME Known(o), NEW b \in BOOLEAN
      PROVE  MarkPaid(r, b, now) \in Rows /\ RowMove(o, MarkPaid(r, b, now))
  BY <1>2, <1>4, PaidRow, RowOpsType
<1>5. BlockExpire(r) \in Rows /\ RowMove(o, BlockExpire(r))
  <2>1. /\ BlockExpire(r) \in Rows
        /\ BlockExpire(r).createdAt = r.createdAt /\ BlockExpire(r).expireAt = r.expireAt
        /\ BlockExpire(r).status = r.status /\ BlockExpire(r).notify = r.notify
        /\ BlockExpire(r).closedAt = r.closedAt
    BY <1>2, <1>3, RowOpsType, RowOpsKeep, RowOpsStatus
  <2> QED
    BY <1>2, <2>1, PlainRow
<1>6. MarkFailedIfCreated(r) \in Rows /\ RowMove(o, MarkFailedIfCreated(r))
  <2> DEFINE q == MarkFailedIfCreated(r)
  <2>1. /\ q \in Rows /\ q.createdAt = r.createdAt /\ q.expireAt = r.expireAt
        /\ q.status = (IF r.status = "created" THEN "failed" ELSE r.status)
        /\ q.notify = r.notify /\ q.closedAt = r.closedAt
    BY <1>2, <1>3, RowOpsType, RowOpsKeep, RowOpsStatus
  <2> HIDE DEF q
  <2> QED
    BY <1>2, <2>1, PlainRow DEF q
<1>7. RowMove(o, r)
  BY <1>2, PlainRow
<1>8. \E q \in Rows : RowMove(o, q) /\ Close!WriteRow(q)
  <2>1. CASE Close!CloserMarksPaid
    <3>1. Close!WriteRow(MarkPaid(r, TRUE, now)) /\ closer.pc = "paid"
      BY <2>1, ClosingNames DEF Close!CloserMarksPaid
    <3>2. Known(o)
      BY <1>2, <3>1 DEF AtHandRight, Known
    <3> QED
      BY <1>3, <1>4, <3>1, <3>2
  <2>2. CASE Close!CloserBlocks
    <3>1. Close!WriteRow(BlockExpire(r))
      BY <2>2, ClosingNames DEF Close!CloserBlocks
    <3> QED
      BY <1>5, <3>1
  <2>3. CASE Close!RecordChannelClosed
    <3> DEFINE q == SetChannelClosed(r, closer.at)
    <3>1. Close!WriteRow(q) /\ closer.pc = "record"
      BY <2>3, ClosingNames DEF Close!RecordChannelClosed
    <3>2. /\ q \in Rows /\ q.createdAt = r.createdAt /\ q.expireAt = r.expireAt
          /\ q.status = r.status /\ q.notify = r.notify /\ q.closedAt \in {r.closedAt, closer.at}
      <4>1. q \in Rows /\ q.createdAt = r.createdAt /\ q.expireAt = r.expireAt
        BY <1>2, <1>3, RowOpsType, RowOpsKeep
      <4>2. q.status = r.status /\ q.notify = r.notify /\ q.closedAt \in {r.closedAt, closer.at}
        BY <1>2, <1>3, RowOpsStatus
      <4> QED
        BY <4>1, <4>2
    <3>3. InTime => Shut(gw[o]) /\ gw[o].since <= closer.at
      BY <1>2, <3>1 DEF AtHandRight
    <3> HIDE DEF q
    <3>4. RowMove(o, q)
      BY <1>2, <3>2, <3>3 DEF RowMove, Backed
    <3> QED
      BY <3>1, <3>2, <3>4
  <2>4. CASE Close!Settle
    <3>1. Close!WriteRow(Close!Settled(r)) /\ closer.pc = "settle"
      BY <2>4 DEF Close!Settle
    <3>2. \/ Close!Settled(r) \in {MarkFailedIfCreated(r), BlockExpire(r), r}
          \/ Close!Settled(r) = MarkPaid(r, FALSE, now) /\ closer.result = "success"
      BY ClosingNames DEF Close!Settled
    <3>3. closer.result = "success" => Known(o)
      BY <1>2, <3>1 DEF AtHandRight, Known
    <3> QED
      BY <1>2, <1>3, <1>4, <1>5, <1>6, <1>7, <3>1, <3>2, <3>3
  <2> QED
    BY <2>1, <2>2, <2>3, <2>4
<1> HIDE DEF o, r
<1> QED
  BY <1>2, <1>8 DEF OneMove, Close!WriteRow, o

\* What a close request did, whether its answer came or not.
LEMMA CloserClosesOne ==
  ASSUME FullInv, Close!CloseAnswered \/ Close!CloseUnanswered
  PROVE  OneMove
<1> DEFINE o == Close!current
<1>1. closer.pc # "idle"
  BY DEF Close!CloseAnswered, Close!CloseUnanswered
<1>2. o \in Orders /\ gw[o] \in GatewayOrders /\ now \in Nat
  BY <1>1, CloserKnowledge
<1>3. PICK answer \in CloseAnswers(gw[o], now) :
        /\ gw' = [gw EXCEPT ![o] = answer.order]
        /\ UNCHANGED <<now, orders, wallet>>
  BY ClosingNames DEF Close!CloseAnswered, Close!CloseUnanswered
<1>4. answer.order \in GatewayOrders /\ Move(gw[o], answer.order, now)
  BY <1>2, CloseMoves, CloseAnswersFacts
<1> HIDE DEF o
<1> QED
  BY <1>2, <1>3, <1>4 DEF OneMove

LEMMA CloserExpiresOne ==
  ASSUME FullInv, Close!ExpireAnswered \/ Close!ExpireFails
  PROVE  OneMove
<1> DEFINE o == Close!current
<1>1. closer.pc = "expire"
  BY DEF Close!ExpireAnswered, Close!ExpireFails
<1>2. o \in Orders /\ gw[o] \in GatewayOrders /\ wallet[o] \in WalletStates /\ AtHandRight(o)
  BY <1>1, CloserKnowledge
<1>3. PICK w \in {wallet[o], ExpireEffect(wallet[o])} : wallet' = [wallet EXCEPT ![o] = w]
  BY ClosingNames DEF Close!ExpireAnswered, Close!ExpireFails
<1>4. UNCHANGED <<now, orders, gw>>
  BY DEF Close!ExpireAnswered, Close!ExpireFails
<1>5. w \in WalletStates /\ (w = wallet[o] \/ (wallet[o] = "pending" /\ w = "failed"))
  BY <1>2, <1>3 DEF ExpireEffect, WalletStates
<1>6. InTime => OverAt(gw[o], now)
  BY <1>1, <1>2 DEF AtHandRight
<1>7. TopUpMove(o, w)
  BY <1>5, <1>6 DEF TopUpMove
<1> HIDE DEF o
<1> QED
  BY <1>2, <1>3, <1>4, <1>5, <1>7 DEF OneMove

LEMMA CloserOne ==
  ASSUME FullInv, Close!CloserStep
  PROVE  OneMove
<1>1. CASE UNCHANGED Close!worldVars
  BY <1>1 DEF Close!worldVars, OneMove
<1>2. CASE ~ UNCHANGED Close!worldVars
  BY <1>2, CloserWritesOne, CloserClosesOne, CloserExpiresOne
  DEF Close!CloserStep, Close!CloserTick, Close!SkipOrder, Close!QueryFails,
      Close!QueryAnswered, Close!ReadAgain, Close!StoreFails
<1> QED
  BY <1>1, <1>2

-----------------------------------------------------------------------------
(* The steps of the worker and the cashier pages. *)

\* What a deliverer knows of the order at hand.
LEMMA JobKnowledge ==
  ASSUME FullInv, NEW d \in Notify!Deliverers, job[d].pc # "idle"
  PROVE  /\ Notify!subject(d) \in Orders /\ orders[Notify!subject(d)] \in Rows
         /\ wallet[Notify!subject(d)] \in WalletStates /\ WorldTypeOK /\ now \in Nat
         /\ Notify!copy(d) \in Rows /\ Backed(Notify!subject(d)) /\ JobRight(job[d])
         /\ job[d].pc \in {"post", "record"} => orders[Notify!subject(d)].notify # "none"
<1>1. AdapterIInv /\ PromiseInv
  BY DEF FullInv
<1>2. /\ job[d].batch \in Seq(Fetched) /\ job[d].batch # <<>>
      /\ Notify!subject(d) \in Orders /\ Notify!copy(d) \in Rows
      /\ orders[Notify!subject(d)] \in Rows
      /\ wallet[Notify!subject(d)] \in WalletStates /\ WorldTypeOK /\ now \in Nat
  BY <1>1, JobAtHand
<1>3. 1 \in DOMAIN job[d].batch /\ Head(job[d].batch) = job[d].batch[1]
  BY <1>2, HeadFacts
<1>4. Backed(Notify!subject(d)) /\ JobRight(job[d])
  BY <1>1, <1>2 DEF PromiseInv
<1>5. job[d].pc \in {"post", "record"} => orders[Notify!subject(d)].notify # "none"
  BY <1>3, <1>4 DEF JobRight, Notify!subject
<1> QED
  BY <1>2, <1>4, <1>5

\* What the outcome of an attempt makes of a row.
LEMMA RecordedFacts ==
  ASSUME NEW d \in Notify!Deliverers, Notify!copy(d) \in Rows, NEW r \in Rows, now \in Nat
  PROVE  LET q == Notify!Recorded(d, r)
         IN /\ q \in Rows /\ q.status = r.status /\ q.createdAt = r.createdAt
            /\ q.expireAt = r.expireAt /\ q.closedAt = r.closedAt
            /\ q.notify \in IF job[d].answered THEN {"succeeded"} ELSE {"pending", "failed"}
<1> DEFINE q == Notify!Recorded(d, r)
<1>1. q \in Rows
  BY RecordedType
<1>2. CASE job[d].answered
  <2>1. q = NotifySucceeded(r)
    BY <1>2, DeliveryNames DEF Notify!Recorded
  <2>2. /\ NotifySucceeded(r).status = r.status /\ NotifySucceeded(r).createdAt = r.createdAt
        /\ NotifySucceeded(r).expireAt = r.expireAt /\ NotifySucceeded(r).closedAt = r.closedAt
        /\ NotifySucceeded(r).notify = "succeeded"
    BY DEF NotifySucceeded, Rows
  <2> HIDE DEF q
  <2> QED
    BY <1>1, <1>2, <2>1, <2>2 DEF q
<1>3. CASE ~ job[d].answered
  <2>1. \E a, n, g : q = NotifyRetry(r, a, n, g)
    BY <1>3, DeliveryNames DEF Notify!Recorded
  <2>2. PICK a, n, g : q = NotifyRetry(r, a, n, g)
    BY <2>1
  <2>3. /\ NotifyRetry(r, a, n, g).status = r.status
        /\ NotifyRetry(r, a, n, g).createdAt = r.createdAt
        /\ NotifyRetry(r, a, n, g).expireAt = r.expireAt
        /\ NotifyRetry(r, a, n, g).closedAt = r.closedAt
        /\ NotifyRetry(r, a, n, g).notify \in {"pending", "failed"}
    BY DEF NotifyRetry, Rows
  <2> HIDE DEF q
  <2> QED
    BY <1>1, <1>3, <2>2, <2>3 DEF q
<1> QED
  BY <1>2, <1>3

LEMMA DeliveryWritesOne ==
  ASSUME FullInv, NEW d \in Notify!Deliverers,
         Notify!PollMark(d) \/ Notify!DeliverSilent(d) \/ Notify!Record(d)
  PROVE  OneMove
<1> DEFINE o == Notify!subject(d)
           r == orders[o]
<1>1. job[d].pc # "idle"
  BY DEF Notify!PollMark, Notify!DeliverSilent, Notify!Record
<1>2. /\ o \in Orders /\ r \in Rows /\ wallet[o] \in WalletStates /\ now \in Nat
      /\ Notify!copy(d) \in Rows /\ Backed(o) /\ JobRight(job[d])
      /\ job[d].pc \in {"post", "record"} => r.notify # "none"
  BY <1>1, JobKnowledge
<1>3. r.notify # "none" => r.status # "absent"
  BY <1>2 DEF Backed
<1>4. \E q \in Rows : RowMove(o, q) /\ orders' = [orders EXCEPT ![o] = q]
  <2>1. CASE Notify!PollMark(d)
    <3>1. orders' = [orders EXCEPT ![o] = MarkPaid(r, TRUE, now)] /\ job[d].pc = "mark"
      BY <2>1, DeliveryNames DEF Notify!PollMark
    <3>2. Known(o)
      BY <1>2, <3>1 DEF JobRight, Known, Notify!subject
    <3>3. TRUE \in BOOLEAN
      OBVIOUS
    <3>4. MarkPaid(r, TRUE, now) \in Rows /\ RowMove(o, MarkPaid(r, TRUE, now))
      BY <1>2, <3>2, <3>3, PaidRow, RowOpsType
    <3> QED
      BY <3>1, <3>4
  <2>2. CASE Notify!DeliverSilent(d)
    <3> DEFINE q == NotifySucceeded(r)
    <3>1. /\ orders' = [orders EXCEPT ![o] = q]
          /\ job[d].pc = "post" /\ o \in silent
      BY <2>2, DeliveryNames DEF Notify!DeliverSilent
    <3>2. /\ q \in Rows /\ q.status = r.status /\ q.createdAt = r.createdAt
          /\ q.expireAt = r.expireAt /\ q.closedAt = r.closedAt /\ q.notify = "succeeded"
      BY <1>2 DEF NotifySucceeded, Rows, NotifyStatuses
    <3> HIDE DEF q
    <3>3. RowMove(o, q)
      BY <1>2, <1>3, <3>1, <3>2 DEF RowMove, Backed
    <3> QED
      BY <3>1, <3>2, <3>3
  <2>3. CASE Notify!Record(d)
    <3> DEFINE q == Notify!Recorded(d, r)
    <3>1. orders' = [orders EXCEPT ![o] = q] /\ job[d].pc = "record"
      BY <2>3 DEF Notify!Record
    <3>2. /\ q \in Rows /\ q.status = r.status /\ q.createdAt = r.createdAt
          /\ q.expireAt = r.expireAt /\ q.closedAt = r.closedAt
          /\ q.notify \in IF job[d].answered THEN {"succeeded"} ELSE {"pending", "failed"}
      BY <1>2, RecordedFacts
    <3>3. job[d].answered => wallet[o] # "pending"
      BY <1>2, <3>1 DEF JobRight, Notify!subject
    <3> HIDE DEF q
    <3>4. RowMove(o, q)
      BY <1>2, <1>3, <3>1, <3>2, <3>3 DEF RowMove, Backed
    <3> QED
      BY <3>1, <3>2, <3>4
  <2> QED
    BY <2>1, <2>2, <2>3
<1>5. UNCHANGED <<now, gw, wallet>>
  BY DEF Notify!PollMark, Notify!DeliverSilent, Notify!Record
<1> HIDE DEF o, r
<1> QED
  BY <1>2, <1>4, <1>5 DEF OneMove

LEMMA PostOne ==
  ASSUME FullInv, NEW d \in Notify!Deliverers, Notify!PostHandled(d)
  PROVE  OneMove
<1> DEFINE o == Notify!subject(d)
<1>1. /\ job[d].pc = "post" /\ wallet' = [wallet EXCEPT ![o] = Credit(wallet[o])]
      /\ UNCHANGED <<now, orders, gw>>
  BY DeliveryNames DEF Notify!PostHandled
<1>2. o \in Orders /\ wallet[o] \in WalletStates /\ Backed(o) /\ orders[o].notify # "none"
  BY <1>1, JobKnowledge
<1>3. \/ Credit(wallet[o]) = wallet[o]
      \/ wallet[o] = "pending" /\ Credit(wallet[o]) = "credited"
  BY DEF Credit
<1>4. Credit(wallet[o]) \in WalletStates
  BY <1>2, <1>3 DEF WalletStates
<1>5. TopUpMove(o, Credit(wallet[o]))
  BY <1>2, <1>3 DEF TopUpMove, Backed, Known
<1> HIDE DEF o
<1> QED
  BY <1>1, <1>2, <1>4, <1>5 DEF OneMove

LEMMA DeliveryOne ==
  ASSUME FullInv, Notify!DeliveryStep
  PROVE  OneMove
<1>1. CASE UNCHANGED Notify!worldVars
  BY <1>1 DEF Notify!worldVars, OneMove
<1>2. CASE ~ UNCHANGED Notify!worldVars
  <2>1. \A d \in Pollers : d \in Notify!Deliverers
    BY DEF Notify!Deliverers
  <2>2. PICK d \in Notify!Deliverers : \/ Notify!PollMark(d) \/ Notify!DeliverSilent(d)
                                       \/ Notify!PostHandled(d) \/ Notify!Record(d)
    BY <1>2, <2>1
    DEF Notify!DeliveryStep, Notify!PollStep, Notify!Deliver, Notify!WorkerTick,
        Notify!PollRead, Notify!PollQueryFails, Notify!PollQuery, Notify!PollReread,
        Notify!PostLost, Notify!DeliveryStoreFails
  <2> QED
    BY <2>2, DeliveryWritesOne, PostOne
<1> QED
  BY <1>1, <1>2

-----------------------------------------------------------------------------
(* The steps of a submission. *)

\* What a submission knows of its order.
LEMMA RequestKnowledge ==
  ASSUME FullInv, NEW s \in Submitters
  PROVE  /\ Submit!target(s) \in Orders /\ orders[Submit!target(s)] \in Rows
         /\ gw[Submit!target(s)] \in GatewayOrders /\ Submit!copy(s) \in Rows
         /\ WorldTypeOK /\ now \in Nat
         /\ Backed(Submit!target(s)) /\ RequestRight(submit[s])
BY RequestAtHand DEF FullInv, PromiseInv

LEMMA DeadlineRow ==
  ASSUME NEW o, orders[o] \in Rows, Backed(o), orders[o].status # "absent", now \in Nat
  PROVE  RowMove(o, SetExpireAt(orders[o], now + OrderTTL))
<1> DEFINE r == orders[o]
           q == SetExpireAt(r, now + OrderTTL)
<1>1. /\ q.createdAt = r.createdAt /\ q.closedAt = r.closedAt
      /\ q.status = r.status /\ q.notify = r.notify
      /\ q.expireAt = IF r.expireAt = 0 THEN now + OrderTTL ELSE r.expireAt
  BY DEF SetExpireAt, Rows
<1>2. Dated(now + OrderTTL, r.createdAt)
  <2>1. r.createdAt <= now /\ r.createdAt \in Nat
    BY DEF Backed, Rows
  <2> DEFINE c == r.createdAt
  <2> HIDE DEF c, r
  <2>2. c <= now /\ c \in Nat => now + OrderTTL >= c + OrderTTL
    BY TimesAreNat
  <2> QED
    BY <2>1, <2>2 DEF Dated, c, r
<1> HIDE DEF q
<1> QED
  BY <1>1, <1>2 DEF RowMove, Backed, q

LEMMA SubmitWritesOne ==
  ASSUME FullInv, NEW s \in Submitters,
         \/ Submit!SubmitInserts(s) \/ Submit!SubmitSetsDeadline(s)
         \/ Submit!SubmitUpdates(s) \/ Submit!SubmitMarksPaid(s)
         \/ Submit!RecoverUpdates(s) \/ Submit!RecoverMarksPaid(s) \/ Submit!SubmitFails(s)
  PROVE  OneMove
<1> DEFINE o == Submit!target(s)
           r == orders[o]
<1>1. /\ o \in Orders /\ r \in Rows /\ now \in Nat /\ Submit!copy(s) \in Rows
      /\ Backed(o) /\ RequestRight(submit[s])
  BY RequestKnowledge
<1>2. submit[s].pc \notin {"idle", "insert"} => r.status # "absent"
  BY <1>1 DEF RequestRight, Submit!target
<1>3. (RowMove(o, r) /\ r \in Rows) \/ r.status = "absent"
  BY <1>1, PlainRow
<1>4. UNCHANGED Submit!worldVars \/ \E q \in Rows : RowMove(o, q) /\ Submit!Write(s, q)
  <2>1. CASE Submit!SubmitInserts(s)
    <3> DEFINE c == [Submit!copy(s) EXCEPT !.createdAt = now]
    <3>1. CASE r.status = "absent"
      <4>1. Submit!Write(s, c) /\ submit[s].pc = "insert"
        BY <2>1, <3>1 DEF Submit!SubmitInserts, Submit!At
      <4>2. /\ c \in Rows /\ c.createdAt = now
            /\ c.status = Submit!copy(s).status /\ c.notify = Submit!copy(s).notify
            /\ c.expireAt = Submit!copy(s).expireAt /\ c.closedAt = Submit!copy(s).closedAt
        BY <1>1 DEF Rows
      <4>3. /\ c.status = "created" /\ c.notify = "none" /\ c.expireAt = 0
            /\ c.closedAt = 0 /\ c.createdAt <= now
        BY <1>1, <4>1, <4>2 DEF RequestRight, Submit!copy
      <4>4. r.notify = "none"
        BY <1>1, <3>1 DEF Backed
      <4> HIDE DEF c
      <4>5. RowMove(o, c)
        BY <3>1, <4>3, <4>4 DEF RowMove, Dated
      <4> QED
        BY <4>1, <4>2, <4>5
    <3>2. CASE r.status # "absent"
      BY <2>1, <3>2 DEF Submit!SubmitInserts
    <3> QED
      BY <3>1, <3>2
  <2>2. CASE Submit!SubmitSetsDeadline(s)
    <3> DEFINE q == SetExpireAt(r, now + OrderTTL)
    <3>1. /\ Submit!Write(s, q) \/ Submit!Write(s, r)
          /\ r.status # "absent"
      BY <1>2, <2>2, CheckoutNames DEF Submit!SubmitSetsDeadline, Submit!At
    <3>2. q \in Rows
      <4>1. now + OrderTTL \in Nat /\ TRUE \in BOOLEAN
        BY <1>1, TimesAreNat
      <4> QED
        BY <1>1, <4>1, RowOpsQuiet
    <3>3. RowMove(o, q)
      BY <1>1, <3>1, DeadlineRow
    <3> HIDE DEF q
    <3> QED
      BY <1>3, <3>1, <3>2, <3>3
  <2>3. CASE Submit!SubmitUpdates(s) \/ Submit!RecoverUpdates(s)
    <3>1. /\ \E b \in BOOLEAN : Submit!Write(s, UpdateJeepay(r, TRUE, b))
          /\ r.status # "absent"
      <4>1. Submit!copy(s).payData \in BOOLEAN
        BY <1>1 DEF Rows
      <4> QED
        BY <1>2, <2>3, <4>1, CheckoutNames
        DEF Submit!SubmitUpdates, Submit!RecoverUpdates, Submit!At
    <3>2. PICK b \in BOOLEAN : Submit!Write(s, UpdateJeepay(r, TRUE, b))
      BY <3>1
    <3> DEFINE q == UpdateJeepay(r, TRUE, b)
    <3>3. /\ q \in Rows /\ q.createdAt = r.createdAt /\ q.closedAt = r.closedAt
          /\ q.status = r.status /\ q.notify = r.notify /\ q.expireAt = r.expireAt
      BY <1>1 DEF UpdateJeepay, Rows
    <3> HIDE DEF q
    <3>4. RowMove(o, q)
      BY <1>1, <3>1, <3>3, PlainRow
    <3> QED
      BY <3>2, <3>3, <3>4 DEF q
  <2>4. CASE Submit!SubmitMarksPaid(s) \/ Submit!RecoverMarksPaid(s)
    <3>1. Submit!Write(s, MarkPaid(r, TRUE, now)) /\ submit[s].pc \in {"paid", "repaid"}
      BY <2>4, CheckoutNames DEF Submit!SubmitMarksPaid, Submit!RecoverMarksPaid, Submit!At
    <3>2. Known(o)
      BY <1>1, <3>1 DEF RequestRight, Known, Submit!target
    <3>3. TRUE \in BOOLEAN
      OBVIOUS
    <3>4. MarkPaid(r, TRUE, now) \in Rows /\ RowMove(o, MarkPaid(r, TRUE, now))
      BY <1>1, <3>2, <3>3, PaidRow, RowOpsType
    <3> QED
      BY <3>1, <3>4
  <2>5. CASE Submit!SubmitFails(s)
    <3> DEFINE q == MarkFailed(r)
    <3>1. Submit!Write(s, q) /\ r.status # "absent"
      BY <1>2, <2>5, CheckoutNames DEF Submit!SubmitFails, Submit!At
    <3>2. /\ q \in Rows /\ q.createdAt = r.createdAt /\ q.closedAt = r.closedAt
          /\ q.status = "failed" /\ q.notify = r.notify /\ q.expireAt = r.expireAt
      BY <1>1 DEF MarkFailed, Rows, PayStatuses
    <3> HIDE DEF q
    <3>3. RowMove(o, q)
      BY <1>1, <3>1, <3>2, PlainRow
    <3> QED
      BY <3>1, <3>2, <3>3
  <2> QED
    BY <2>1, <2>2, <2>3, <2>4, <2>5
<1> HIDE DEF o, r
<1> QED
  BY <1>1, <1>4 DEF OneMove, Submit!Write, Submit!worldVars, o

LEMMA SubmitPlacesOne ==
  ASSUME FullInv, NEW s \in Submitters,
         \/ Submit!SubmitOrderFails(s)
         \/ \E state \in Submit!PlacedStates : Submit!SubmitPlacesOrder(s, state)
  PROVE  OneMove
<1> DEFINE o == Submit!target(s)
           placed(state) == Submit!Placed(Submit!copy(s).amount, state)
<1>1. /\ o \in Orders /\ Submit!copy(s) \in Rows /\ now \in Nat
      /\ RequestRight(submit[s]) /\ submit[s].pc = "order"
  BY RequestKnowledge DEF Submit!SubmitOrderFails, Submit!SubmitPlacesOrder, Submit!At
<1>2. UNCHANGED <<now, orders, wallet>>
  BY DEF Submit!SubmitOrderFails, Submit!SubmitPlacesOrder
<1>3. CASE gw' = gw
  BY <1>2, <1>3 DEF OneMove
<1>4. ASSUME NEW state \in Submit!PlacedStates, gw' = [gw EXCEPT ![o] = placed(state)],
             gw[o].state = NoOrder
      PROVE  OneMove
  <2> DEFINE h == placed(state)
  <2>1. /\ state \in {StateInit, StateIng, StateSuccess, StateFail}
        /\ Submit!copy(s).amount \in Amounts
    BY <1>1
    DEF Submit!PlacedStates, Submit!StateInit, Submit!StateIng, Submit!StateSuccess,
        Submit!StateFail, Rows
  <2>2. /\ h.state = state /\ h.expiry = now + OrderTTL /\ h.amount = Submit!copy(s).amount
        /\ h.captured = (h.state = StateSuccess)
        /\ h.since = IF h.captured THEN now ELSE 0
    BY DEF Submit!Placed, Submit!StateSuccess
  <2>3. now + OrderTTL \in Nat
    BY <1>1, TimesAreNat
  <2>4. h \in GatewayOrders
    <3>1. /\ state \in GatewayStates /\ (state = StateSuccess) \in BOOLEAN
          /\ (IF state = StateSuccess THEN now ELSE 0) \in Nat
      BY <1>1, <2>1
    <3> QED
      BY <2>1, <2>3, <3>1 DEF Submit!Placed, GatewayOrders, Submit!StateSuccess
  <2>5. orders[o].status # "absent" /\ (InTime => now <= orders[o].createdAt + SubmitFor)
    BY <1>1 DEF RequestRight, Submit!target
  <2> HIDE DEF h, o
  <2>6. Placing(o, h)
    BY <1>4, <2>1, <2>2, <2>5 DEF Placing
  <2> QED
    BY <1>1, <1>2, <1>4, <2>4, <2>6 DEF OneMove, h
<1> QED
  BY <1>3, <1>4 DEF Submit!SubmitOrderFails, Submit!SubmitPlacesOrder, Submit!NoOrder

LEMMA SubmitOne ==
  ASSUME FullInv, NEW s \in Submitters, Submit!SubmitStep(s)
  PROVE  OneMove
<1>1. CASE UNCHANGED Submit!worldVars
  BY <1>1 DEF Submit!worldVars, OneMove
<1>2. CASE ~ UNCHANGED Submit!worldVars
  BY <1>2, SubmitWritesOne, SubmitPlacesOne
  DEF Submit!SubmitStep, Submit!SubmitReads, Submit!RecoverQueryFails, Submit!RecoverQueries,
      Submit!SubmitGivesUp
<1> QED
  BY <1>1, <1>2

-----------------------------------------------------------------------------
(* What the closer goes by, after a step of its own. *)

LEMMA PlanNames ==
  /\ \A state, amount, orderAmount, requery, at, expireAt :
       Close!decideQuery(state, amount, orderAmount, requery, at, expireAt) =
         decideQuery(state, amount, orderAmount, requery, at, expireAt)
  /\ \A at, expireAt : Close!missedDue(at, expireAt) = missedDue(at, expireAt)
  /\ \A row, at : Close!closeStepOf(row, at) = closeStepOf(row, at)
<1>1. Close!NoPlan = NoPlan
  BY ClosingNames
<1>2. \A at, expireAt : Close!missedDue(at, expireAt) = missedDue(at, expireAt)
  BY DEF Close!missedDue, missedDue
<1>3. \A amount, orderAmount : Close!paidPlan(amount, orderAmount) = paidPlan(amount, orderAmount)
  BY <1>1 DEF Close!paidPlan, paidPlan
<1>4. \A state, at, expireAt : Close!openPlan(state, at, expireAt) = openPlan(state, at, expireAt)
  BY <1>1, <1>2 DEF Close!openPlan, openPlan, Close!StateIng, Close!StateInit, Close!StateFail,
                    Close!StateClosed
<1>5. \A state, amount, orderAmount, requery, at, expireAt :
        Close!decideQuery(state, amount, orderAmount, requery, at, expireAt) =
          decideQuery(state, amount, orderAmount, requery, at, expireAt)
  BY <1>1, <1>3, <1>4 DEF Close!decideQuery, decideQuery, Close!StateSuccess
<1>6. \A row, at : Close!closeStepOf(row, at) = closeStepOf(row, at)
  BY DEF Close!closeStepOf, closeStepOf
<1> QED
  BY <1>2, <1>5, <1>6

\* The closer goes on with the same order.
LEMMA CloserGoesRight ==
  ASSUME FullInv, Calm, now' = now, closer.pc # "idle", NEW pc, closer'.pc = pc, pc # "idle",
         closer'.batch = closer.batch, closer'.at = closer.at,
         pc = "paid" => gw'[Close!current].captured,
         pc = "close" => (closer'.plan.expire => missedDue(closer.at, Close!snapshot.expireAt)),
         pc = "settle" /\ closer'.result = "success" =>
           wallet'[Close!current] \in {"credited", "granted"},
         InTime => /\ pc = "close" /\ missedDue(closer.at, Close!snapshot.expireAt) =>
                        OverAt(gw'[Close!current], now)
                   /\ pc \in {"fresh", "expire"} => OverAt(gw'[Close!current], now)
                   /\ pc = "record" => /\ Shut(gw'[Close!current])
                                       /\ gw'[Close!current].since <= closer.at
  PROVE  CloserRight'
<1>1. Close!current' = Close!current /\ Close!snapshot' = Close!snapshot
  BY DEF Close!current, Close!snapshot
<1>2. InTime => closer.at = now
  BY CloserKnowledge DEF AtHandRight
<1>3. AtHandRight(Close!current)'
  BY <1>1, <1>2, PlanNames DEF AtHandRight
<1> QED
  BY <1>3, BatchStays DEF CloserRight

\* The closer goes on to the next order, or rests.
LEMMA CloserLeavesRight ==
  ASSUME FullInv, Calm, now' = now, closer.pc # "idle", Close!Leave
  PROVE  CloserRight'
<1>1. closer \in Close!Closers /\ closer.batch \in Seq(Fetched) /\ closer.batch # <<>>
  BY CloserAtHand DEF FullInv
<1>2. CASE Len(closer.batch) = 1
  <2>1. closer'.pc = "idle" /\ closer'.batch = <<>>
    BY <1>2 DEF Close!Leave, Close!NextOrder, Close!Idle
  <2>2. AtHandRight(Close!current)'
    BY <2>1 DEF AtHandRight
  <2> QED
    BY <2>1, <2>2 DEF CloserRight
<1>3. CASE Len(closer.batch) # 1
  <2>1. closer'.pc = "query" /\ closer'.batch = Tail(closer.batch) /\ closer'.at = closer.at
    BY <1>1, <1>3 DEF Close!Leave, Close!NextOrder, Close!Closers
  <2>2. \A i \in DOMAIN closer'.batch :
          i + 1 \in DOMAIN closer.batch /\ closer'.batch[i] = closer.batch[i + 1]
    BY <1>1, <1>3, <2>1, TailFacts
  <2>3. ASSUME NEW j \in DOMAIN closer.batch
        PROVE  LET o == closer.batch[j].order
                   row == closer.batch[j].row
               IN /\ orders'[o].status # "absent" /\ Dated(row.expireAt, orders'[o].createdAt)
                  /\ InTime =>
                       (row.closedAt > 0 => Shut(gw'[o]) /\ gw'[o].since <= row.closedAt)
    <3>1. closer.batch[j].order \in Orders
      BY <1>1, BatchOrders
    <3>2. FetchedRight(closer.batch[j].order, closer.batch[j].row)
      BY DEF FullInv, PromiseInv, CloserRight
    <3> QED
      BY <3>1, <3>2, FetchedStays DEF Calm
  <2>4. (\A i \in DOMAIN closer.batch :
           FetchedRight(closer.batch[i].order, closer.batch[i].row))'
    BY <2>2, <2>3 DEF FetchedRight
  <2>5. InTime => closer.at = now
    BY CloserKnowledge DEF AtHandRight
  <2>6. AtHandRight(Close!current)'
    BY <2>1, <2>5 DEF AtHandRight
  <2> QED
    BY <2>4, <2>6 DEF CloserRight
<1> QED
  BY <1>2, <1>3

LEMMA CloserTickRight ==
  ASSUME FullInv, Close!CloserTick
  PROVE  CloserRight'
<1>1. PICK batch \in DueCloses(orders, now + CloseLead, CloseBatch) :
        closer' = [Close!Idle EXCEPT !.pc = "query", !.at = now, !.batch = batch]
  BY ClosingNames DEF Close!CloserTick
<1>2. /\ closer'.pc = "query" /\ closer'.at = now /\ closer'.batch = batch
      /\ now' = now /\ orders' = orders /\ gw' = gw
  BY <1>1 DEF Close!CloserTick, Close!worldVars, Close!Idle
<1>3. orders \in [Orders -> Rows] /\ now \in Nat
  BY DEF FullInv, AdapterIInv, WorldTypeOK
<1>4. /\ batch \in Seq(Fetched)
      /\ \A i \in DOMAIN batch : /\ batch[i].row = orders[batch[i].order]
                                 /\ orders[batch[i].order].status = "created"
  BY <1>3, DueClosesType
<1>5. ASSUME NEW i \in DOMAIN batch
      PROVE  FetchedRight(batch[i].order, batch[i].row)
  <2>1. batch[i].order \in Orders
    BY <1>4, BatchOrders
  <2>2. Backed(batch[i].order) /\ (InTime => Timely(batch[i].order))
    BY <2>1 DEF FullInv, PromiseInv
  <2> QED
    BY <1>4, <2>2 DEF FetchedRight, Backed, Timely
<1>6. (\A i \in DOMAIN closer.batch :
         FetchedRight(closer.batch[i].order, closer.batch[i].row))'
  BY <1>2, <1>5 DEF FetchedRight
<1>7. AtHandRight(Close!current)'
  BY <1>2 DEF AtHandRight
<1> QED
  BY <1>6, <1>7 DEF CloserRight

LEMMA DatedFrom ==
  ASSUME NEW x \in Nat, x > 0, NEW c \in Nat, Dated(x, c)
  PROVE  \E ttl \in {OrderTTL, LegacyTTL} : x >= c + ttl
BY DEF Dated

LEMMA MissedArithmetic ==
  ASSUME NEW c \in Nat, NEW e \in Nat, NEW x \in Nat, NEW ttl \in Nat, NEW t \in Nat,
         x >= c + ttl, t >= x + MissedGrace, e <= c + SubmitFor + OrderTTL,
         SubmitFor + OrderTTL + ChannelGrace <= ttl + MissedGrace
  PROVE  t >= e + ChannelGrace
BY TimesAreNat

\* An order missed by MissedGrace was placed so long ago that nobody can pay it.
LEMMA MissedIsOver ==
  ASSUME WorldTypeOK, InTime, NEW o \in Orders, Backed(o), Timely(o),
         NEW expireAt \in Nat, Dated(expireAt, orders[o].createdAt), missedDue(now, expireAt),
         gw[o].state \notin {NoOrder, StateSuccess}
  PROVE  OverAt(gw[o], now)
<1>1. /\ now \in Nat /\ orders[o].createdAt \in Nat /\ gw[o].expiry \in Nat
      /\ gw[o] \in GatewayOrders
  BY DEF WorldTypeOK, Rows, GatewayOrders
<1>2. expireAt > 0 /\ now >= expireAt + MissedGrace
  BY Zenon DEF missedDue
<1>3. PICK ttl \in {OrderTTL, LegacyTTL} : expireAt >= orders[o].createdAt + ttl
  BY <1>1, <1>2, DatedFrom
<1>4. /\ SettleLag < ChannelGrace
      /\ SubmitFor + OrderTTL + ChannelGrace <= ttl + MissedGrace
  BY <1>3 DEF InTime
<1>5. gw[o].expiry <= orders[o].createdAt + SubmitFor + OrderTTL
  BY DEF Timely
<1>6. ttl \in Nat
  BY TimesAreNat
<1>7. now >= gw[o].expiry + ChannelGrace
  BY <1>1, <1>2, <1>3, <1>4, <1>5, <1>6, MissedArithmetic
<1> QED
  BY <1>1, <1>4, <1>7, NoneUnderWay DEF Backed

\* Nobody can pay an order either whose channel was closed ChannelGrace ago.
LEMMA ClosedIsOver ==
  ASSUME WorldTypeOK, InTime, NEW o \in Orders, Backed(o),
         NEW at \in Nat, Shut(gw[o]), gw[o].since <= at, now >= at + ChannelGrace,
         gw[o].state # StateSuccess
  PROVE  OverAt(gw[o], now)
<1>1. gw[o] \in GatewayOrders /\ now \in Nat
  BY DEF WorldTypeOK
<1>2. now >= gw[o].since + ChannelGrace
  BY <1>1, ClosedIsLate
<1>3. SettleLag < ChannelGrace /\ DatesAgree(gw[o], now)
  BY DEF InTime, Backed
<1>4. gw[o].state # NoOrder
  BY DEF Shut
<1> QED
  BY <1>1, <1>2, <1>3, <1>4, NoneUnderWay

LEMMA QueryAnsweredRight ==
  ASSUME FullInv, Calm, Close!QueryAnswered
  PROVE  CloserRight'
<1> DEFINE o == Close!current
           row == Close!snapshot
           plan == decideQuery(gw[o].state, gw[o].amount, row.amount,
                               Close!step = "requery", closer.at, row.expireAt)
           planned == [closer EXCEPT !.plan = plan]
<1>1. closer.pc # "idle" /\ UNCHANGED <<now, orders, gw, wallet>> /\ gw[o].state # NoOrder
  BY DEF Close!QueryAnswered, Close!worldVars, Close!NoOrder
<1>2. /\ o \in Orders /\ gw[o] \in GatewayOrders /\ gw[o].state \in GatewayStates
      /\ Backed(o) /\ (InTime => Timely(o) /\ closer.at = now)
      /\ FetchedRight(o, row) /\ closer.at \in Nat /\ WorldTypeOK
  BY <1>1, CloserKnowledge DEF AtHandRight, GatewayOrders
<1>3. row \in Rows /\ closer \in Close!Closers
  <2>1. closer \in Close!Closers /\ closer.batch \in Seq(Fetched) /\ closer.batch # <<>>
    BY <1>1, CloserAtHand DEF FullInv
  <2>2. Head(closer.batch) \in Fetched
    BY <2>1, HeadFacts
  <2> QED
    BY <2>1, <2>2 DEF Fetched, Close!snapshot
<1>4. /\ plan.expire => Close!step = "requery" \/ missedDue(closer.at, row.expireAt)
      /\ plan.callClose => Close!step # "requery"
      /\ plan.expire \/ plan.callClose => gw[o].state # StateSuccess
      /\ plan.markPaid => gw[o].state = StateSuccess
  <2>1. (Close!step = "requery") \in BOOLEAN
    OBVIOUS
  <2> QED
    BY <1>2, <2>1, DecideQueryDue
<1>5. closer' = CASE plan.markPaid  -> [planned EXCEPT !.pc = "paid"]
                  [] plan.block     -> [planned EXCEPT !.pc = "block"]
                  [] plan.callClose -> [planned EXCEPT !.pc = "close"]
                  [] plan.expire /\ ~ plan.callClose -> [planned EXCEPT !.pc = "fresh"]
                  [] OTHER -> Close!NextOrder
  BY PlanNames DEF Close!QueryAnswered
<1>6. InTime /\ missedDue(closer.at, row.expireAt) /\ gw[o].state # StateSuccess =>
        OverAt(gw[o], now)
  <2>1. row.expireAt \in Nat
    BY <1>3 DEF Rows
  <2>2. Dated(row.expireAt, orders[o].createdAt)
    BY <1>2 DEF FetchedRight
  <2> HIDE DEF o, row
  <2> QED
    BY <1>1, <1>2, <2>1, <2>2, MissedIsOver
<1>7. InTime /\ Close!step = "requery" /\ gw[o].state # StateSuccess => OverAt(gw[o], now)
  <2> SUFFICES ASSUME InTime, Close!step = "requery", gw[o].state # StateSuccess
               PROVE  OverAt(gw[o], now)
    OBVIOUS
  <2>1. row.closedAt > 0 /\ ~ (closer.at < row.closedAt + ChannelGrace)
    BY PlanNames DEF Close!step, closeStepOf
  <2>2. row.closedAt \in Nat
    BY <1>3 DEF Rows
  <2>3. Shut(gw[o]) /\ gw[o].since <= row.closedAt
    BY <1>2, <2>1 DEF FetchedRight
  <2>4. now >= row.closedAt + ChannelGrace
    <3> DEFINE c == row.closedAt
    <3>1. now \in Nat /\ c \in Nat /\ ~ (now < c + ChannelGrace)
      BY <1>2, <2>1, <2>2 DEF WorldTypeOK
    <3> HIDE DEF c
    <3>2. now >= c + ChannelGrace
      BY <3>1, TimesAreNat
    <3> QED
      BY <3>2 DEF c
  <2> HIDE DEF o, row
  <2> QED
    BY <1>2, <2>2, <2>3, <2>4, ClosedIsOver
<1> HIDE DEF plan
<1>8. \/ Close!Leave
      \/ /\ closer'.batch = closer.batch /\ closer'.at = closer.at /\ closer'.plan = plan
         /\ \/ closer'.pc = "paid" /\ plan.markPaid
            \/ closer'.pc = "block"
            \/ closer'.pc = "close" /\ plan.callClose
            \/ closer'.pc = "fresh" /\ plan.expire
  <2>1. /\ planned.batch = closer.batch /\ planned.at = closer.at /\ planned.plan = plan
        /\ planned = [pc |-> planned.pc, at |-> planned.at, batch |-> planned.batch,
                      plan |-> planned.plan, result |-> planned.result]
    BY <1>3 DEF Close!Closers
  <2> HIDE DEF planned
  <2>2. \/ closer' = [planned EXCEPT !.pc = "paid"] /\ plan.markPaid
        \/ closer' = [planned EXCEPT !.pc = "block"]
        \/ closer' = [planned EXCEPT !.pc = "close"] /\ plan.callClose
        \/ closer' = [planned EXCEPT !.pc = "fresh"] /\ plan.expire
        \/ Close!Leave
    BY <1>5 DEF Close!Leave
  <2> QED
    BY <2>1, <2>2
<1>9. CASE Close!Leave
  BY <1>1, <1>9, CloserLeavesRight
<1>10. CASE ~ Close!Leave
  <2>1. plan.markPaid => gw[o].captured
    BY <1>2, <1>4 DEF Backed
  <2>2. plan.callClose => (plan.expire => missedDue(closer.at, row.expireAt))
    BY <1>4
  <2>3. InTime /\ plan.expire => OverAt(gw[o], now)
    BY <1>4, <1>6, <1>7
  <2>4. InTime /\ plan.callClose /\ missedDue(closer.at, row.expireAt) => OverAt(gw[o], now)
    BY <1>4, <1>6
  <2> HIDE DEF o, row
  <2>5. gw' = gw /\ now' = now
    BY <1>1
  <2> QED
    BY <1>1, <1>8, <1>10, <2>1, <2>2, <2>3, <2>4, <2>5, CloserGoesRight DEF o, row
<1> QED
  BY <1>9, <1>10

LEMMA CloseAnsweredRight ==
  ASSUME FullInv, Calm, Close!CloseAnswered \/ Close!CloseUnanswered
  PROVE  CloserRight'
<1> DEFINE o == Close!current
<1>1. closer.pc = "close" /\ closer.pc # "idle" /\ now' = now
  BY DEF Close!CloseAnswered, Close!CloseUnanswered
<1>2. /\ gw[o] \in GatewayOrders /\ closer \in Close!Closers /\ o \in Orders
      /\ AtHandRight(o) /\ gw \in [Orders -> GatewayOrders]
  BY <1>1, CloserKnowledge, CloserAtHand DEF FullInv, WorldTypeOK
<1>3. PICK answer \in CloseAnswers(gw[o], now) :
        /\ gw' = [gw EXCEPT ![o] = answer.order]
        /\ \/ Close!Leave
           \/ Close!GoTo("block")
           \/ Close!GoTo("record") /\ answer.kind = "success"
           \/ Close!GoTo("fresh") /\ missedDue(closer.at, Close!snapshot.expireAt)
  <2>1. CASE Close!CloseAnswered
    <3>1. PICK answer \in CloseAnswers(gw[o], now) :
            LET d == Close!decideClose(answer.kind, closer.plan.ing, closer.at,
                                       Close!snapshot.expireAt)
            IN /\ gw' = [gw EXCEPT ![o] = answer.order]
               /\ closer' = CASE d.block  -> [closer EXCEPT !.pc = "block"]
                              [] d.record -> [closer EXCEPT !.pc = "record"]
                              [] d.expire -> [closer EXCEPT !.pc = "fresh"]
                              [] OTHER -> Close!NextOrder
      BY <2>1, ClosingNames DEF Close!CloseAnswered
    <3> DEFINE d == Close!decideClose(answer.kind, closer.plan.ing, closer.at,
                                      Close!snapshot.expireAt)
    <3>2. /\ d.record => answer.kind = "success"
          /\ d.expire => missedDue(closer.at, Close!snapshot.expireAt)
      BY PlanNames DEF Close!decideClose
    <3>3. closer' = CASE d.block  -> [closer EXCEPT !.pc = "block"]
                      [] d.record -> [closer EXCEPT !.pc = "record"]
                      [] d.expire -> [closer EXCEPT !.pc = "fresh"]
                      [] OTHER -> Close!NextOrder
      BY <3>1
    <3> HIDE DEF d
    <3>4. \/ Close!Leave
          \/ Close!GoTo("block")
          \/ Close!GoTo("record") /\ d.record
          \/ Close!GoTo("fresh") /\ d.expire
      BY <3>3 DEF Close!Leave, Close!GoTo
    <3>5. gw' = [gw EXCEPT ![o] = answer.order]
      BY <3>1
    <3> QED
      BY <3>2, <3>4, <3>5
  <2>2. CASE Close!CloseUnanswered
    <3>1. PICK answer \in CloseAnswers(gw[o], now) : gw' = [gw EXCEPT ![o] = answer.order]
      BY <2>2, ClosingNames DEF Close!CloseUnanswered
    <3>2. Close!expireAfterCloseError(closer.plan) => closer.plan.expire
      BY DEF Close!expireAfterCloseError
    <3>3. closer.plan.expire => missedDue(closer.at, Close!snapshot.expireAt)
      BY <1>1, <1>2, PlanNames DEF AtHandRight
    <3>4. Close!Leave \/ (Close!GoTo("fresh") /\ closer.plan.expire)
      BY <2>2, <3>2 DEF Close!CloseUnanswered
    <3> QED
      BY <3>1, <3>3, <3>4
  <2> QED
    BY <2>1, <2>2
<1>4. gw'[o] = answer.order
  BY <1>2, <1>3
<1>5. InTime /\ missedDue(closer.at, Close!snapshot.expireAt) => OverAt(gw'[o], now)
  <2> SUFFICES ASSUME InTime, missedDue(closer.at, Close!snapshot.expireAt)
               PROVE  OverAt(gw'[o], now)
    OBVIOUS
  <2>1. OverAt(gw[o], now)
    BY <1>1, <1>2, PlanNames DEF AtHandRight
  <2> QED
    BY <1>1, <1>2, <2>1, LastingOver
<1>6. InTime /\ answer.kind = "success" => Shut(gw'[o]) /\ gw'[o].since <= closer.at
  <2> SUFFICES ASSUME InTime, answer.kind = "success"
               PROVE  Shut(gw'[o]) /\ gw'[o].since <= closer.at
    OBVIOUS
  <2>1. closer.at = now
    BY <1>1, <1>2 DEF AtHandRight
  <2>2. now \in Nat
    BY <1>1, CloserAtHand DEF FullInv
  <2>3. answer.order.state = StateClosed /\ answer.order.since <= now
    BY <1>2, <1>3, <2>2, CloseMoves
  <2> QED
    BY <1>4, <2>1, <2>3 DEF Shut
<1>7. CASE Close!Leave
  BY <1>1, <1>7, CloserLeavesRight
<1>8. CASE ~ Close!Leave
  <2>1. PICK pc \in {"block", "record", "fresh"} :
          /\ Close!GoTo(pc)
          /\ pc = "record" => answer.kind = "success"
          /\ pc = "fresh" => missedDue(closer.at, Close!snapshot.expireAt)
    BY <1>3, <1>8
  <2>2. closer'.pc = pc /\ closer'.batch = closer.batch /\ closer'.at = closer.at
    BY <1>2, <2>1 DEF Close!GoTo, Close!Closers
  <2>3. InTime /\ pc = "fresh" => OverAt(gw'[o], now)
    BY <1>5, <2>1
  <2>4. InTime /\ pc = "record" => Shut(gw'[o]) /\ gw'[o].since <= closer.at
    BY <1>6, <2>1
  <2> QED
    BY <1>1, <2>1, <2>2, <2>3, <2>4, CloserGoesRight
<1> QED
  BY <1>7, <1>8

\* Reading the row again, and the call of pay.expire_epay_topup.
LEMMA CloserExpiresRight ==
  ASSUME FullInv, Calm, Close!ReadAgain \/ Close!ExpireAnswered
  PROVE  CloserRight'
<1> DEFINE o == Close!current
<1>1. /\ closer.pc \in {"fresh", "expire"} /\ closer.pc # "idle"
      /\ now' = now /\ gw' = gw
  BY DEF Close!ReadAgain, Close!ExpireAnswered, Close!worldVars
<1>2. /\ closer \in Close!Closers /\ AtHandRight(o) /\ o \in Orders
      /\ wallet[o] \in WalletStates /\ wallet \in [Orders -> WalletStates]
  BY <1>1, CloserKnowledge, CloserAtHand DEF FullInv, WorldTypeOK
<1>3. InTime => OverAt(gw[o], now)
  BY <1>1, <1>2 DEF AtHandRight
<1>4. CASE Close!ReadAgain
  <2>1. CASE Close!Leave
    BY <1>1, <2>1, CloserLeavesRight
  <2>2. CASE Close!GoTo("expire")
    <3>1. closer'.pc = "expire" /\ closer'.batch = closer.batch /\ closer'.at = closer.at
      BY <1>2, <2>2 DEF Close!GoTo, Close!Closers
    <3> QED
      BY <1>1, <1>3, <3>1, CloserGoesRight
  <2> QED
    BY <1>4, <2>1, <2>2 DEF Close!ReadAgain
<1>5. CASE Close!ExpireAnswered
  <2>1. /\ wallet' = [wallet EXCEPT ![o] = ExpireEffect(@)]
        /\ closer' = [closer EXCEPT !.pc = "settle", !.result = ExpireAnswer(wallet[o])]
    BY <1>5, ClosingNames DEF Close!ExpireAnswered
  <2>2. /\ closer'.pc = "settle" /\ closer'.batch = closer.batch /\ closer'.at = closer.at
        /\ closer'.result = ExpireAnswer(wallet[o])
    BY <1>2, <2>1 DEF Close!Closers
  <2>3. wallet'[o] = ExpireEffect(wallet[o])
    BY <1>2, <2>1
  <2>4. ExpireAnswer(wallet[o]) = "success" => ExpireEffect(wallet[o]) \in {"credited", "granted"}
    BY <1>2 DEF ExpireAnswer, ExpireEffect, WalletStates
  <2> QED
    BY <1>1, <2>2, <2>3, <2>4, CloserGoesRight
<1> QED
  BY <1>4, <1>5

LEMMA CloserStepRight ==
  ASSUME FullInv, Calm, Close!CloserStep
  PROVE  CloserRight'
<1>1. CASE \/ Close!SkipOrder \/ Close!QueryFails \/ Close!CloserMarksPaid \/ Close!CloserBlocks
           \/ Close!RecordChannelClosed \/ Close!ExpireFails \/ Close!Settle \/ Close!StoreFails
  <2>1. now' = now /\ Close!Leave /\ closer.pc # "idle"
    BY <1>1 DEF Close!SkipOrder, Close!QueryFails, Close!CloserMarksPaid, Close!CloserBlocks,
                Close!RecordChannelClosed, Close!ExpireFails, Close!Settle, Close!StoreFails,
                Close!WriteRow, Close!worldVars
  <2> QED
    BY <2>1, CloserLeavesRight
<1>2. CASE Close!CloserTick
  BY <1>2, CloserTickRight
<1>3. CASE Close!QueryAnswered
  BY <1>3, QueryAnsweredRight
<1>4. CASE Close!CloseAnswered \/ Close!CloseUnanswered
  BY <1>4, CloseAnsweredRight
<1>5. CASE Close!ReadAgain \/ Close!ExpireAnswered
  BY <1>5, CloserExpiresRight
<1> QED
  BY <1>1, <1>2, <1>3, <1>4, <1>5 DEF Close!CloserStep

-----------------------------------------------------------------------------
(* What a deliverer goes by, after a step. *)

\* The deliverer d has the job j next, and the others what they had.
LEMMA JobChanges ==
  ASSUME FullInv, Calm, NEW d \in Notify!Deliverers, NEW j, Notify!SetJob(d, j),
         j.pc = "mark" => gw'[Head(j.batch).order].captured,
         j.pc \in {"post", "record"} =>
           \A i \in DOMAIN j.batch : orders'[j.batch[i].order].notify # "none",
         j.pc = "record" => /\ Head(j.batch).order \notin silent
                            /\ j.answered => wallet'[Head(j.batch).order] # "pending"
  PROVE  \A e \in Notify!Deliverers : JobRight(job[e])'
<1>1. silent' = silent /\ \A e \in Notify!Deliverers : job'[e] = IF e = d THEN j ELSE job[e]
  BY DEF Notify!SetJob, FullInv, AdapterIInv, JobsOK
<1>2. ASSUME NEW e \in Notify!Deliverers, e # d
      PROVE  JobRight(job[e])'
  BY <1>1, <1>2, JobStays
<1>3. JobRight(job[d])'
  BY <1>1 DEF JobRight
<1> QED
  BY <1>2, <1>3

\* What is owed for the rows at hand, or for the rest of them, stays owed.
LEMMA BatchOwed ==
  ASSUME FullInv, Calm, NEW d \in Notify!Deliverers, job[d].pc \in {"post", "record"}
  PROVE  /\ \A i \in DOMAIN job[d].batch : orders'[job[d].batch[i].order].notify # "none"
         /\ LET j == Notify!NextJob(d)
            IN /\ j.pc \in {"idle", "post"}
               /\ j.pc = "post" =>
                    \A i \in DOMAIN j.batch : orders'[j.batch[i].order].notify # "none"
<1>1. job[d].batch \in Seq(Fetched) /\ job[d].batch # <<>> /\ JobRight(job[d])
  BY JobAtHand, JobKnowledge DEF FullInv
<1>2. ASSUME NEW i \in DOMAIN job[d].batch
      PROVE  orders'[job[d].batch[i].order].notify # "none"
  <2>1. job[d].batch[i].order \in Orders
    BY <1>1, BatchOrders
  <2>2. orders[job[d].batch[i].order].notify # "none"
    BY <1>1 DEF JobRight
  <2> QED
    BY <2>1, <2>2 DEF Calm, Lasting
<1> DEFINE j == Notify!NextJob(d)
<1>3. CASE Len(job[d].batch) = 1
  BY <1>2, <1>3 DEF Notify!NextJob, Notify!NoJob
<1>4. CASE Len(job[d].batch) # 1
  <2>1. j.pc = "post" /\ j.batch = Tail(job[d].batch)
    BY <1>4 DEF Notify!NextJob
  <2>2. \A i \in DOMAIN j.batch : i + 1 \in DOMAIN job[d].batch /\ j.batch[i] = job[d].batch[i + 1]
    BY <1>1, <1>4, <2>1, TailFacts
  <2> HIDE DEF j
  <2>3. \A i \in DOMAIN j.batch : orders'[j.batch[i].order].notify # "none"
    BY <1>2, <2>2
  <2> QED
    BY <1>2, <2>1, <2>3 DEF j
<1> QED
  BY <1>3, <1>4

LEMMA NextJobRight ==
  ASSUME FullInv, Calm, NEW d \in Notify!Deliverers, job[d].pc \in {"post", "record"},
         Notify!SetJob(d, Notify!NextJob(d))
  PROVE  \A e \in Notify!Deliverers : JobRight(job[e])'
<1> DEFINE j == Notify!NextJob(d)
<1>1. /\ j.pc \in {"idle", "post"} /\ Notify!SetJob(d, j)
      /\ j.pc = "post" => \A i \in DOMAIN j.batch : orders'[j.batch[i].order].notify # "none"
  BY BatchOwed
<1> HIDE DEF j
<1> QED
  BY <1>1, JobChanges

LEMMA NoJobRight ==
  ASSUME FullInv, Calm, NEW d \in Notify!Deliverers, Notify!SetJob(d, Notify!NoJob)
  PROVE  \A e \in Notify!Deliverers : JobRight(job[e])'
BY JobChanges DEF Notify!NoJob

\* A cashier page notifies of a row only once it is recorded as paid.
LEMMA ReturnedRight ==
  ASSUME FullInv, Calm, NEW d \in Notify!Deliverers, NEW o \in Orders, orders' = orders,
         Notify!SetJob(d, Notify!Returned(o, orders[o]))
  PROVE  \A e \in Notify!Deliverers : JobRight(job[e])'
<1>1. CASE orders[o].status = "paid" /\ orders[o].notify # "succeeded"
  <2> DEFINE j == [pc |-> "post", batch |-> <<[order |-> o, row |-> orders[o]]>>,
                   answered |-> FALSE]
  <2>1. Notify!SetJob(d, j)
    BY <1>1 DEF Notify!Returned
  <2>2. orders'[o].notify # "none"
    BY <1>1 DEF FullInv, PromiseInv, Backed
  <2>3. j.pc = "post" /\ \A i \in DOMAIN j.batch : j.batch[i].order = o
    OBVIOUS
  <2> HIDE DEF j
  <2> QED
    BY <2>1, <2>2, <2>3, JobChanges
<1>2. CASE ~ (orders[o].status = "paid" /\ orders[o].notify # "succeeded")
  BY <1>2, NoJobRight DEF Notify!Returned
<1> QED
  BY <1>1, <1>2

LEMMA WorkerTickRight ==
  ASSUME FullInv, Calm, Notify!WorkerTick
  PROVE  \A e \in Notify!Deliverers : JobRight(job[e])'
<1>1. PICK batch \in DueNotifies(orders, NotifyBatch, now) :
        Notify!SetJob(Worker, [Notify!NoJob EXCEPT !.pc = "post", !.batch = batch])
  BY DeliveryNames DEF Notify!WorkerTick
<1>2. orders \in [Orders -> Rows] /\ now \in Nat /\ orders' = orders /\ NotifyBatch \in Nat
  BY DEF FullInv, AdapterIInv, WorldTypeOK, Notify!WorkerTick, Notify!worldVars
<1> DEFINE j == [Notify!NoJob EXCEPT !.pc = "post", !.batch = batch]
<1>3. j.pc = "post" /\ j.batch = batch
  BY DEF Notify!NoJob
<1>4. \A i \in DOMAIN batch : orders[batch[i].order].notify = "pending"
  BY <1>2, DueNotifiesType
<1>5. Worker \in Notify!Deliverers /\ Notify!SetJob(Worker, j)
  BY <1>1 DEF Notify!Deliverers
<1> HIDE DEF j
<1> QED
  BY <1>2, <1>3, <1>4, <1>5, JobChanges

LEMMA PageStepRight ==
  ASSUME FullInv, Calm, NEW d \in Notify!Deliverers, Notify!PollStep(d)
  PROVE  \A e \in Notify!Deliverers : JobRight(job[e])'
<1>1. ASSUME NEW o \in Orders, Notify!PollRead(d, o)
      PROVE  \A e \in Notify!Deliverers : JobRight(job[e])'
  <2>1. orders' = orders
    BY <1>1 DEF Notify!PollRead, Notify!worldVars
  <2>2. CASE orders[o].status = "created"
    BY <1>1, <2>2, JobChanges DEF Notify!PollRead
  <2>3. CASE orders[o].status # "created"
    BY <1>1, <2>1, <2>3, ReturnedRight DEF Notify!PollRead
  <2> QED
    BY <2>2, <2>3
<1>2. CASE Notify!PollQueryFails(d)
  BY <1>2, NoJobRight DEF Notify!PollQueryFails
<1>3. CASE Notify!PollQuery(d)
  <2>1. CASE Notify!SetJob(d, Notify!NoJob)
    BY <2>1, NoJobRight
  <2>2. CASE /\ Notify!SetJob(d, [job[d] EXCEPT !.pc = "mark"])
             /\ gw[Notify!subject(d)].state = StateSuccess
    <3>1. job[d].pc # "idle" /\ gw' = gw
      BY <1>3 DEF Notify!PollQuery, Notify!worldVars
    <3>2. gw'[Notify!subject(d)].captured /\ job[d] \in Notify!Jobs
      BY <2>2, <3>1, JobKnowledge, JobAtHand DEF Backed, FullInv
    <3> DEFINE j == [job[d] EXCEPT !.pc = "mark"]
    <3>3. j.pc = "mark" /\ Head(j.batch).order = Notify!subject(d)
      BY <3>2 DEF Notify!Jobs, Notify!subject
    <3>4. Notify!SetJob(d, j)
      BY <2>2
    <3> HIDE DEF j
    <3> QED
      BY <3>2, <3>3, <3>4, JobChanges
  <2> QED
    BY <1>3, <2>1, <2>2 DEF Notify!PollQuery, Notify!StateSuccess
<1>4. CASE Notify!PollMark(d)
  <2>1. job[d].pc # "idle" /\ Notify!SetJob(d, [job[d] EXCEPT !.pc = "reread"])
    BY <1>4 DEF Notify!PollMark
  <2>2. [job[d] EXCEPT !.pc = "reread"].pc = "reread"
    BY <2>1, JobAtHand DEF FullInv, Notify!Jobs
  <2> QED
    BY <2>1, <2>2, JobChanges
<1>5. CASE Notify!PollReread(d)
  <2>1. job[d].pc # "idle" /\ orders' = orders
    BY <1>5 DEF Notify!PollReread, Notify!worldVars
  <2> QED
    BY <1>5, <2>1, JobKnowledge, ReturnedRight DEF Notify!PollReread
<1> QED
  BY <1>1, <1>2, <1>3, <1>4, <1>5 DEF Notify!PollStep

\* The request of a notification: its outcome is what NewAPI has done.
LEMMA PostRight ==
  ASSUME FullInv, Calm, NEW d \in Notify!Deliverers, Notify!PostLost(d) \/ Notify!PostHandled(d)
  PROVE  \A e \in Notify!Deliverers : JobRight(job[e])'
<1> DEFINE o == Notify!subject(d)
<1>1. job[d].pc = "post" /\ o \notin silent
  BY DEF Notify!PostLost, Notify!PostHandled
<1>2. job[d] \in Notify!Jobs /\ o \in Orders /\ wallet \in [Orders -> WalletStates]
  BY <1>1, JobAtHand DEF FullInv, WorldTypeOK
<1>3. PICK answered \in BOOLEAN :
        /\ Notify!Outcome(d, answered)
        /\ answered => wallet' = [wallet EXCEPT ![o] = Credit(@)]
  BY DeliveryNames DEF Notify!PostLost, Notify!PostHandled
<1>4. answered => wallet'[o] # "pending"
  BY <1>2, <1>3 DEF Credit
<1> DEFINE j == [job[d] EXCEPT !.pc = "record", !.answered = answered]
<1>5. /\ j.pc = "record" /\ j.batch = job[d].batch /\ Head(j.batch).order = o
      /\ j.answered = answered
  BY <1>2 DEF Notify!Jobs, Notify!subject
<1>6. \A i \in DOMAIN job[d].batch : orders'[job[d].batch[i].order].notify # "none"
  BY <1>1, BatchOwed
<1>7. Notify!SetJob(d, j)
  BY <1>3 DEF Notify!Outcome
<1> HIDE DEF j, o
<1> QED
  BY <1>1, <1>4, <1>5, <1>6, <1>7, JobChanges

LEMMA DeliveryStepRight ==
  ASSUME FullInv, Calm, Notify!DeliveryStep
  PROVE  \A e \in Notify!Deliverers : JobRight(job[e])'
<1>1. CASE Notify!WorkerTick
  BY <1>1, WorkerTickRight
<1>2. ASSUME NEW d \in Pollers, Notify!PollStep(d)
      PROVE  \A e \in Notify!Deliverers : JobRight(job[e])'
  BY <1>2, PageStepRight DEF Notify!Deliverers
<1>3. ASSUME NEW d \in Notify!Deliverers, Notify!Deliver(d) \/ Notify!DeliveryStoreFails(d)
      PROVE  \A e \in Notify!Deliverers : JobRight(job[e])'
  <2>1. CASE Notify!DeliverSilent(d) \/ Notify!Record(d)
    BY <2>1, NextJobRight DEF Notify!DeliverSilent, Notify!Record
  <2>2. CASE Notify!PostLost(d) \/ Notify!PostHandled(d)
    BY <2>2, PostRight
  <2>3. CASE Notify!DeliveryStoreFails(d)
    BY <2>3, NextJobRight, NoJobRight DEF Notify!DeliveryStoreFails
  <2> QED
    BY <1>3, <2>1, <2>2, <2>3 DEF Notify!Deliver
<1> QED
  BY <1>1, <1>2, <1>3 DEF Notify!DeliveryStep

-----------------------------------------------------------------------------
(* What a submission goes by, after a step. *)

LEMMA RequestChanges ==
  ASSUME FullInv, Calm, NEW s \in Submitters, NEW r, Submit!SetRequest(s, r), RequestRight(r)'
  PROVE  \A x \in Submitters : RequestRight(submit[x])'
<1>1. \A x \in Submitters : submit'[x] = IF x = s THEN r ELSE submit[x]
  BY DEF Submit!SetRequest, FullInv, AdapterIInv, SubmitOK
<1>2. ASSUME NEW x \in Submitters, x # s
      PROVE  RequestRight(submit[x])'
  BY <1>1, <1>2, RequestStays
<1>3. RequestRight(submit[s])'
  BY <1>1 DEF RequestRight
<1> QED
  BY <1>2, <1>3

LEMMA ReturnRight ==
  ASSUME FullInv, Calm, NEW s \in Submitters, Submit!Return(s)
  PROVE  \A x \in Submitters : RequestRight(submit[x])'
BY RequestChanges DEF Submit!Return, Submit!NoRequest, RequestRight

\* A submission that has the row goes on with it.
LEMMA RequestGoes ==
  ASSUME FullInv, Calm, NEW s \in Submitters, now' = now, submit[s].pc \notin {"idle", "insert"},
         NEW r, Submit!SetRequest(s, r), r.order = Submit!target(s), r.pc # "insert",
         \/ r.pc \in {"paid", "repaid"}
         \/ r.pc \in {"update", "reupdate"} /\ r.state = StateSuccess
         => gw'[Submit!target(s)].captured
  PROVE  \A x \in Submitters : RequestRight(submit[x])'
<1> DEFINE o == Submit!target(s)
<1>1. o \in Orders /\ RequestRight(submit[s])
  BY RequestKnowledge
<1>2. orders[o].status # "absent" /\ (InTime => now <= orders[o].createdAt + SubmitFor)
  BY <1>1 DEF RequestRight, Submit!target
<1>3. orders'[o].status # "absent" /\ orders'[o].createdAt = orders[o].createdAt
  BY <1>1, <1>2 DEF Calm, Lasting
<1> HIDE DEF o
<1>4. orders'[o].status # "absent" /\ (InTime => now' <= orders'[o].createdAt + SubmitFor)
  BY <1>2, <1>3
<1>5. RequestRight(r)'
  BY <1>4 DEF RequestRight, o
<1> QED
  BY <1>5, RequestChanges

LEMMA ContinueRight ==
  ASSUME FullInv, Calm, NEW s \in Submitters, now' = now, submit[s].pc \notin {"idle", "insert"},
         NEW pc, Submit!Continue(s, pc), pc \notin {"insert", "update", "reupdate"},
         pc \in {"paid", "repaid"} =>
           submit[s].pc \in {"update", "reupdate"} /\ submit[s].state = StateSuccess
  PROVE  \A x \in Submitters : RequestRight(submit[x])'
<1> DEFINE r == [submit[s] EXCEPT !.pc = pc]
<1>1. /\ submit[s] \in Submit!Requests /\ RequestRight(submit[s])
      /\ Submit!target(s) \in Orders
  BY RequestAtHand, RequestKnowledge DEF FullInv
<1>2. r.pc = pc /\ r.order = Submit!target(s)
  BY <1>1 DEF Submit!Requests, Submit!target
<1>3. pc \in {"paid", "repaid"} => gw'[Submit!target(s)].captured
  BY <1>1 DEF RequestRight, Submit!target, Calm, Lasting
<1>4. Submit!SetRequest(s, r)
  BY DEF Submit!Continue
<1> HIDE DEF r
<1> QED
  BY <1>2, <1>3, <1>4, RequestGoes

LEMMA SubmitReadsRight ==
  ASSUME FullInv, Calm, NEW s \in Submitters, NEW o \in Orders, NEW amount \in Amounts,
         Submit!SubmitReads(s, o, amount), InItsTime(s)
  PROVE  \A x \in Submitters : RequestRight(submit[x])'
<1>1. submit[s].pc = "idle" /\ now' = now /\ orders' = orders
  BY DEF Submit!SubmitReads, Submit!At, Submit!worldVars
<1>2. now \in Nat /\ submit \in [Submitters -> Submit!Requests]
  BY DEF FullInv, AdapterIInv, WorldTypeOK, SubmitOK
<1>3. CASE Submit!Return(s)
  BY <1>3, ReturnRight
<1>4. CASE orders[o].status = "absent" /\ ~ Submit!Return(s)
  <2>0. PICK r : r = [Submit!NoRequest EXCEPT !.pc = "insert", !.order = o,
                                              !.copy = Insert(amount, 0)]
    OBVIOUS
  <2>1. Submit!SetRequest(s, r)
    BY <1>4, <2>0, CheckoutNames DEF Submit!SubmitReads
  <2>2. r.pc = "insert" /\ r.copy = Insert(amount, 0)
    BY <2>0 DEF Submit!NoRequest
  <2>3. /\ r.copy.status = "created" /\ r.copy.notify = "none" /\ r.copy.expireAt = 0
        /\ r.copy.closedAt = 0
    BY <2>2 DEF Insert
  <2>4. RequestRight(r)'
    BY <2>2, <2>3 DEF RequestRight
  <2> QED
    BY <2>1, <2>4, RequestChanges
<1>5. CASE orders[o].status # "absent" /\ ~ Submit!Return(s)
  <2>0. PICK r : r = [Submit!NoRequest EXCEPT !.pc = "deadline", !.order = o, !.copy = orders[o]]
    OBVIOUS
  <2>1. Submit!SetRequest(s, r)
    BY <1>5, <2>0 DEF Submit!SubmitReads
  <2>2. r.pc = "deadline" /\ r.order = o
    BY <2>0 DEF Submit!NoRequest
  <2>3. submit'[s] = r
    BY <1>2, <2>1 DEF Submit!SetRequest
  <2>4. now <= orders[o].createdAt + SubmitFor
    BY <1>1, <2>2, <2>3 DEF InItsTime
  <2>5. RequestRight(r)'
    BY <1>1, <1>5, <2>2, <2>4 DEF RequestRight
  <2> QED
    BY <2>1, <2>5, RequestChanges
<1> QED
  BY <1>3, <1>4, <1>5

LEMMA SubmitInsertsRight ==
  ASSUME FullInv, Calm, NEW s \in Submitters, Submit!SubmitInserts(s)
  PROVE  \A x \in Submitters : RequestRight(submit[x])'
<1>1. CASE Submit!Return(s)
  BY <1>1, ReturnRight
<1>2. CASE ~ Submit!Return(s)
  <2> DEFINE o == Submit!target(s)
  <2>0. PICK r : r = [submit[s] EXCEPT !.pc = "deadline", !.copy.createdAt = now]
    OBVIOUS
  <2>1. /\ submit[s].pc = "insert"
        /\ orders' = [orders EXCEPT ![o] = [Submit!copy(s) EXCEPT !.createdAt = now]]
        /\ now' = now /\ Submit!SetRequest(s, r)
    BY <1>2, <2>0 DEF Submit!SubmitInserts, Submit!At, Submit!Write
  <2>2. /\ o \in Orders /\ now \in Nat /\ RequestRight(submit[s])
        /\ orders \in [Orders -> Rows] /\ submit[s] \in Submit!Requests
        /\ Submit!copy(s) \in Rows
    BY RequestKnowledge, RequestAtHand DEF WorldTypeOK, FullInv
  <2>3. orders'[o] = [Submit!copy(s) EXCEPT !.createdAt = now]
    BY <2>1, <2>2
  <2>4. orders'[o].status = "created" /\ orders'[o].createdAt = now
    BY <2>1, <2>2, <2>3 DEF RequestRight, Submit!copy, Rows
  <2>5. now <= now + SubmitFor
    BY <2>2, TimesAreNat
  <2>6. r.pc = "deadline" /\ r.order = o
    BY <2>0, <2>2 DEF Submit!Requests, Submit!target
  <2> HIDE DEF o
  <2>7. RequestRight(r)'
    BY <2>1, <2>4, <2>5, <2>6 DEF RequestRight
  <2> QED
    BY <2>1, <2>7, RequestChanges
<1> QED
  BY <1>1, <1>2

\* A request keeps the state the gateway gave the order.
LEMMA SubmitLearnsRight ==
  ASSUME FullInv, Calm, NEW s \in Submitters,
         \/ \E state \in Submit!PlacedStates : Submit!SubmitPlacesOrder(s, state)
         \/ Submit!RecoverQueries(s)
  PROVE  \A x \in Submitters : RequestRight(submit[x])'
<1> DEFINE o == Submit!target(s)
<1>1. /\ submit[s] \in Submit!Requests /\ o \in Orders /\ gw \in [Orders -> GatewayOrders]
      /\ Backed(o)
  BY RequestKnowledge, RequestAtHand DEF WorldTypeOK, FullInv
<1>2. PICK state \in GatewayStates, pc \in {"update", "reupdate"} :
        /\ Submit!SetRequest(s, [submit[s] EXCEPT !.pc = pc, !.state = state])
        /\ state = StateSuccess => gw'[o].captured
  <2>1. ASSUME NEW state \in Submit!PlacedStates, Submit!SubmitPlacesOrder(s, state)
        PROVE  /\ Submit!SetRequest(s, [submit[s] EXCEPT !.pc = "update", !.state = state])
               /\ state \in GatewayStates
               /\ state = StateSuccess => gw'[o].captured
    <3>1. gw'[o] = Submit!Placed(Submit!copy(s).amount, state)
      BY <1>1, <2>1 DEF Submit!SubmitPlacesOrder
    <3>2. state = StateSuccess => Submit!Placed(Submit!copy(s).amount, state).captured
      BY DEF Submit!Placed, Submit!StateSuccess
    <3>3. state \in GatewayStates
      BY DEF Submit!PlacedStates, Submit!StateInit, Submit!StateIng, Submit!StateSuccess,
             Submit!StateFail
    <3> QED
      BY <2>1, <3>1, <3>2, <3>3 DEF Submit!SubmitPlacesOrder
  <2>2. ASSUME Submit!RecoverQueries(s)
        PROVE  /\ Submit!SetRequest(s, [submit[s] EXCEPT !.pc = "reupdate", !.state = gw[o].state])
               /\ gw[o].state = StateSuccess => gw'[o].captured
    BY <1>1, <2>2 DEF Submit!RecoverQueries, Submit!worldVars, Backed
  <2>3. gw[o].state \in GatewayStates
    BY <1>1 DEF GatewayOrders
  <2> QED
    BY <2>1, <2>2, <2>3
<1> DEFINE r == [submit[s] EXCEPT !.pc = pc, !.state = state]
<1>3. r.pc = pc /\ r.state = state /\ r.order = o
  BY <1>1 DEF Submit!Requests, Submit!target
<1>4. submit[s].pc \in {"order", "recover"} /\ now' = now
  BY DEF Submit!SubmitPlacesOrder, Submit!RecoverQueries, Submit!At, Submit!worldVars
<1>5. Submit!SetRequest(s, r)
  BY <1>2
<1> HIDE DEF r, o
<1> QED
  BY <1>2, <1>3, <1>4, <1>5, RequestGoes DEF o

LEMMA SubmitStepRight ==
  ASSUME FullInv, Calm, NEW s \in Submitters, Submit!SubmitStep(s), InItsTime(s)
  PROVE  \A x \in Submitters : RequestRight(submit[x])'
<1>1. now' = now
  BY NowStands
<1>2. CASE \E o \in Orders, amount \in Amounts : Submit!SubmitReads(s, o, amount)
  BY <1>2, SubmitReadsRight
<1>3. CASE Submit!SubmitInserts(s)
  BY <1>3, SubmitInsertsRight
<1>4. CASE Submit!SubmitSetsDeadline(s)
  <2> DEFINE r == [submit[s] EXCEPT !.pc = "order",
                                    !.copy.expireAt = IF @ = 0 THEN now + OrderTTL ELSE @]
  <2>1. submit[s].pc = "deadline" /\ Submit!SetRequest(s, r)
    BY <1>4 DEF Submit!SubmitSetsDeadline, Submit!At, Submit!copy
  <2>2. submit[s] \in Submit!Requests
    BY RequestAtHand DEF FullInv
  <2>3. r.pc = "order" /\ r.order = Submit!target(s)
    BY <2>2 DEF Submit!Requests, Submit!target
  <2> HIDE DEF r
  <2> QED
    BY <1>1, <2>1, <2>3, RequestGoes
<1>5. CASE \/ \E state \in Submit!PlacedStates : Submit!SubmitPlacesOrder(s, state)
           \/ Submit!RecoverQueries(s)
  BY <1>5, SubmitLearnsRight
<1>6. CASE \/ Submit!SubmitMarksPaid(s) \/ Submit!RecoverMarksPaid(s) \/ Submit!SubmitFails(s)
  BY <1>6, ReturnRight
  DEF Submit!SubmitMarksPaid, Submit!RecoverMarksPaid, Submit!SubmitFails
<1>7. CASE \/ Submit!SubmitOrderFails(s) \/ Submit!SubmitUpdates(s) \/ Submit!RecoverQueryFails(s)
           \/ Submit!RecoverUpdates(s) \/ Submit!SubmitGivesUp(s)
  <2>1. CASE Submit!Return(s)
    BY <2>1, ReturnRight
  <2>2. CASE ~ Submit!Return(s)
    <3>1. PICK pc \in {"recover", "paid", "fail", "repaid"} :
            /\ Submit!Continue(s, pc) /\ submit[s].pc \notin {"idle", "insert"}
            /\ pc \in {"paid", "repaid"} =>
                 submit[s].pc \in {"update", "reupdate"} /\ submit[s].state = StateSuccess
      BY <1>7, <2>2
      DEF Submit!SubmitOrderFails, Submit!SubmitUpdates, Submit!RecoverQueryFails,
          Submit!RecoverUpdates, Submit!SubmitGivesUp, Submit!At, Submit!StateSuccess
    <3> QED
      BY <1>1, <3>1, ContinueRight
  <2> QED
    BY <2>1, <2>2
<1> QED
  BY <1>2, <1>3, <1>4, <1>5, <1>6, <1>7 DEF Submit!SubmitStep

-----------------------------------------------------------------------------
(* Every step. *)

LEMMA WorldOne ==
  ASSUME FullInv, WorldStep
  PROVE  OneMove
<1>1. WorldTypeOK /\ now \in Nat /\ \A o \in Orders : orders[o] \in Rows /\ Backed(o)
  BY DEF FullInv, AdapterIInv, PromiseInv, WorldTypeOK
<1>2. ASSUME NEW o \in Orders, NEW h \in GatewayOrders, GatewayStep(o, h), Move(gw[o], h, now)
      PROVE  OneMove
  BY <1>2 DEF OneMove, GatewayStep
<1>3. ASSUME NEW o \in Orders, AdministratorGrants(o)
      PROVE  OneMove
  <2>1. TopUpMove(o, "granted") /\ "granted" \in WalletStates
    BY <1>3 DEF AdministratorGrants, TopUpMove, WalletStates
  <2> QED
    BY <1>3, <2>1 DEF AdministratorGrants, OneMove
<1>4. ASSUME NEW o \in Orders, HandleJeepayNotify(o)
      PROVE  OneMove
  <2> DEFINE q == MarkPaid(orders[o], TRUE, now)
  <2>1. orders' = [orders EXCEPT ![o] = q] /\ UNCHANGED <<now, gw, wallet>> /\ Known(o)
    BY <1>1, <1>4 DEF HandleJeepayNotify, Known, Backed
  <2>2. q \in Rows
    BY <1>1, RowOpsType
  <2>3. RowMove(o, q)
    BY <1>1, <2>1, PaidRow
  <2> HIDE DEF q
  <2> QED
    BY <2>1, <2>2, <2>3 DEF OneMove
<1>5. PICK o \in Orders : \/ \E h \in GatewayOrders : GatewayStep(o, h) /\ Move(gw[o], h, now)
                          \/ AdministratorGrants(o)
                          \/ HandleJeepayNotify(o)
  BY <1>1, WorldTurns
<1> QED
  BY <1>2, <1>3, <1>4, <1>5

LEMMA NextOne ==
  ASSUME FullInv, [AdapterNext]_adapterVars
  PROVE  OneMove /\ (InTime /\ now' # now => AtRest) /\ silent' = silent
<1>1. CASE CloserSteps
  BY <1>1, CloserOne, NowStands DEF CloserSteps
<1>2. CASE DeliverySteps
  <2>1. silent' = silent
    BY <1>2, DeliveryMoves DEF DeliverySteps, DeliveryGoal, FullInv
  <2> QED
    BY <1>2, <2>1, DeliveryOne, NowStands DEF DeliverySteps
<1>3. CASE Submissions
  BY <1>3, SubmitOne, NowStands DEF Submissions
<1>4. CASE WorldStep /\ UNCHANGED <<closer, job, silent, submit>>
  BY <1>4, WorldOne, NowStands
<1>5. CASE AdapterTick
  BY <1>5 DEF AdapterTick, OneMove, InTime
<1>6. CASE AdapterRestart
  BY <1>6 DEF AdapterRestart, Reopen, OneMove
<1>7. CASE UNCHANGED adapterVars
  BY <1>7 DEF adapterVars, OneMove
<1> QED
  BY <1>1, <1>2, <1>3, <1>4, <1>5, <1>6, <1>7 DEF AdapterNext

LEMMA NextCalm ==
  ASSUME FullInv, [AdapterNext]_adapterVars
  PROVE  Calm
<1>1. AdapterIInv /\ WorldTypeOK /\ \A o \in Orders : Backed(o)
  BY DEF FullInv, AdapterIInv, PromiseInv
<1>2. WorldTypeOK' /\ now <= now'
  BY <1>1, AdapterNextInv, NowGoes DEF AdapterGoal, AdapterIInv
<1>3. \A o \in Orders : Lasting(o)
  BY <1>1, NextOne, OneLasts
<1> QED
  BY <1>2, <1>3, NextOne DEF Calm

\* What the parts go by stays right.
LEMMA NextRight ==
  ASSUME FullInv, [AdapterNext]_adapterVars
  PROVE  /\ CloserRight'
         /\ \A d \in Notify!Deliverers : JobRight(job[d])'
         /\ \A s \in Submitters : RequestRight(submit[s])'
<1>1. Calm /\ silent' = silent
  BY NextCalm, NextOne
<1>2. closer' = closer => CloserRight'
  BY <1>1, CloserStays
<1>3. job' = job => \A d \in Notify!Deliverers : JobRight(job[d])'
  BY <1>1, JobStays
<1>4. submit' = submit => \A s \in Submitters : RequestRight(submit[s])'
  BY <1>1, RequestStays
<1>5. CASE CloserSteps
  BY <1>1, <1>3, <1>4, <1>5, CloserStepRight DEF CloserSteps
<1>6. CASE DeliverySteps
  BY <1>1, <1>2, <1>4, <1>6, DeliveryStepRight DEF DeliverySteps
<1>7. CASE Submissions
  BY <1>1, <1>2, <1>3, <1>7, SubmitStepRight DEF Submissions
<1>8. CASE AdapterRestart
  <2>1. closer' = Close!Idle /\ job' = NoJobs /\ submit' = NoRequests
    BY <1>8 DEF AdapterRestart
  <2>2. CloserRight'
    BY <2>1 DEF CloserRight, AtHandRight, Close!Idle
  <2>3. \A d \in Notify!Deliverers : JobRight(job[d])'
    BY <2>1 DEF JobRight, NoJobs, Notify!NoJob
  <2>4. \A s \in Submitters : RequestRight(submit[s])'
    BY <2>1 DEF RequestRight, NoRequests, Submit!NoRequest
  <2> QED
    BY <2>2, <2>3, <2>4
<1>9. CASE UNCHANGED <<closer, job, silent, submit>>
  BY <1>2, <1>3, <1>4, <1>9
<1> QED
  BY <1>5, <1>6, <1>7, <1>8, <1>9 DEF AdapterNext, AdapterTick, adapterVars

LEMMA FullNext ==
  ASSUME FullInv, [AdapterNext]_adapterVars
  PROVE  FullInv' /\ (SlowCalls \/ InTime => PromiseStep)
<1>1. /\ AdapterIInv /\ WorldTypeOK /\ OneMove /\ silent' = silent
      /\ \A o \in Orders : Backed(o) /\ (InTime => Timely(o))
  BY NextOne DEF FullInv, AdapterIInv, PromiseInv
<1>2. AdapterIInv' /\ WorldTypeOK'
  BY <1>1, AdapterNextInv DEF AdapterGoal, AdapterIInv
<1>3. \A o \in Orders : Backed(o)'
  BY <1>1, <1>2, OneBacked
<1>4. InTime => \A o \in Orders : Timely(o)'
  BY <1>1, <1>2, OneTimely
<1>5. PromiseInv'
  BY <1>3, <1>4, NextRight DEF PromiseInv, InTime
<1>6. ExpiredUnpaid'
  BY <1>4 DEF Timely, OverAt, ExpiredUnpaid, InTime
<1>7. SlowCalls \/ InTime => PromiseStep
  BY <1>1, <1>6, OnePromise
<1> QED
  BY <1>2, <1>5, <1>7 DEF FullInv

-----------------------------------------------------------------------------
(* The first state. *)

LEMMA QueuedFacts ==
  /\ QueuedRow.notify = "pending" /\ QueuedRow.status = "paid" /\ QueuedRow.closedAt = 0
  /\ QueuedRow.createdAt = StartTime /\ QueuedRow.expireAt = StartTime + OrderTTL
  /\ LET r == Submit!Absent(NewRow)
     IN /\ r.notify = "none" /\ r.status = "absent" /\ r.closedAt = 0
        /\ r.createdAt = StartTime /\ r.expireAt = 0
BY DEF QueuedRow, NewRow, MarkPaid, Insert, Submit!Absent

LEMMA AdapterInitRight ==
  ASSUME AdapterInit
  PROVE  FullInv /\ Promise!TopUpInit
<1>1. AdapterIInv /\ WorldTypeOK
  BY AdapterInitInv DEF AdapterIInv
<1>2. ASSUME NEW o \in Orders, o \in Queued
      PROVE  Backed(o) /\ Timely(o) /\ orders[o].notify = "pending" /\ wallet[o] = "granted"
  <2>1. /\ orders[o] = QueuedRow /\ wallet[o] = "granted" /\ now = StartTime
        /\ gw[o].state = StateSuccess /\ gw[o].captured
        /\ gw[o].since = StartTime /\ gw[o].expiry = StartTime + OrderTTL
    BY <1>2 DEF AdapterInit
  <2>2. StartTime <= StartTime + OrderTTL /\ StartTime + OrderTTL >= StartTime + OrderTTL
    BY TimesAreNat
  <2>3. StartTime <= StartTime /\ ~ (0 > 0)
    BY TimesAreNat
  <2>4. DatesAgree(gw[o], now)
    BY <2>1, <2>2 DEF DatesAgree, Shut
  <2>5. Backed(o)
    BY <2>1, <2>2, <2>3, <2>4, QueuedFacts DEF Backed, Known, Dated
  <2>6. Timely(o)
    BY <2>1, <2>3, QueuedFacts DEF Timely
  <2> QED
    BY <2>1, <2>5, <2>6, QueuedFacts
<1>3. ASSUME NEW o \in Orders, o \notin Queued
      PROVE  Backed(o) /\ Timely(o) /\ orders[o].notify = "none" /\ wallet[o] = "pending"
  <2>1. /\ orders[o] = Submit!Absent(NewRow) /\ wallet[o] = "pending" /\ now = StartTime
        /\ gw[o].state = NoOrder /\ ~ gw[o].captured
        /\ gw[o].since = 0 /\ gw[o].expiry = 0
    BY <1>3 DEF AdapterInit
  <2>2. StartTime <= StartTime /\ ~ (0 > 0) /\ 0 <= 0
    BY TimesAreNat
  <2>3. DatesAgree(gw[o], now)
    BY <2>1, <2>2 DEF DatesAgree, Shut
  <2>4. Backed(o)
    BY <2>1, <2>2, <2>3, QueuedFacts DEF Backed, Dated
  <2>5. Timely(o)
    BY <2>1, <2>2, QueuedFacts DEF Timely
  <2> QED
    BY <2>1, <2>4, <2>5, QueuedFacts
<1>4. CloserRight
  <2>1. closer = Close!Idle
    BY DEF AdapterInit
  <2> QED
    BY <2>1 DEF CloserRight, AtHandRight, Close!Idle
<1>5. \A d \in Notify!Deliverers : JobRight(job[d])
  BY DEF AdapterInit, JobRight, NoJobs, Notify!NoJob
<1>6. \A s \in Submitters : RequestRight(submit[s])
  BY DEF AdapterInit, RequestRight, NoRequests, Submit!NoRequest
<1>7. FullInv
  BY <1>1, <1>2, <1>3, <1>4, <1>5, <1>6 DEF FullInv, PromiseInv
<1>8. Promise!TopUpType
  BY <1>1, ViewTypes DEF Promise!TopUpType, Promise!TopUpStates, Promise!Notices
<1>9. ASSUME NEW o \in Orders
      PROVE  /\ TopUpState[o] \in {"open", "granted", "foreign"}
             /\ NoticeState(silent)[o] \in {"none", "owed"}
             /\ NoticeState(silent)[o] = "owed" => MoneyTaken[o]
  <2>1. CASE o \in Queued
    <3>1. gw[o].captured
      BY <2>1 DEF AdapterInit
    <3> QED
      BY <1>2, <2>1, <3>1 DEF MoneyTaken, TopUpState, NoticeState
  <2>2. CASE o \notin Queued
    BY <1>3, <2>2 DEF MoneyTaken, TopUpState, NoticeState
  <2> QED
    BY <2>1, <2>2
<1> QED
  BY <1>7, <1>8, <1>9 DEF Promise!TopUpInit

\* PromiseInv holds throughout: what the closer, the deliverers and the requests
\* have read is still true in the way they use it when they act on it.
THEOREM AdapterPromiseInvariant == AdapterSpec => []PromiseInv
<1>1. AdapterInit => FullInv
  BY AdapterInitRight
<1>2. FullInv /\ [AdapterNext]_adapterVars => FullInv'
  BY FullNext
<1>3. FullInv => PromiseInv
  BY DEF FullInv
<1> QED
  BY <1>1, <1>2, <1>3, PTL DEF AdapterSpec

\* The adapter implements TopUp, for any number of orders, requests and pages
\* and whatever restarts: a top-up is credited only for money taken and on a
\* notification that was owed, a notification counts as answered only once NewAPI
\* has dealt with the top-up and, unless calls may be slow, a top-up is expired
\* only when nothing was and nothing will be paid (main.go and all it starts).
THEOREM AdapterPromiseKept ==
  ASSUME SlowCalls \/ InTime
  PROVE  AdapterSpec => PromiseKept
<1>1. AdapterInit => FullInv /\ Promise!TopUpInit
  BY AdapterInitRight
<1>2. FullInv /\ [AdapterNext]_adapterVars => FullInv' /\ PromiseStep
  BY FullNext
<1> QED
  BY <1>1, <1>2, PTL DEF AdapterSpec, PromiseKept, PromiseStep, Promise!TopUpSpec,
     Promise!topUpVars
==========================================================================
