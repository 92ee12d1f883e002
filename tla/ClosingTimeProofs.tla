------------------------- MODULE ClosingTimeProofs --------------------------
(***************************************************************************)
(* The closer and time: when it expires a top-up, why no payment is missed *)
(* if its delays are kept, and that it implements TopUp.                   *)
(***************************************************************************)
EXTENDS ClosingProofs

\* The delays of the closer against those of the gateway: a tick takes no time
\* worth counting, a payment settles before the channel is queried again, and
\* an order without a recorded close is left until the same wait has passed
\* after the gateway's own deadline.
InTime == /\ ~ SlowCalls
          /\ SettleLag < ChannelGrace
          /\ Skew + ChannelGrace <= MissedGrace

\* What the closer knows of the dates of the order at hand, and that it goes on
\* to expire the top-up only where it is due.
DueInv ==
  /\ closer.pc # "idle" => closer.at <= now
  /\ \A i \in DOMAIN closer.batch :
       LET r == closer.batch[i].row
           o == closer.batch[i].order
       IN /\ r.expireAt = orders[o].expireAt
          /\ r.closedAt > 0 => orders[o].closedAt = r.closedAt
  /\ closer.pc = "close" =>
       (closer.plan.expire => missedDue(closer.at, snapshot.expireAt))
  /\ closer.pc \in {"fresh", "expire"} =>
       /\ snapshot.expireAt > 0
       /\ snapshot.closedAt > 0 \/ missedDue(closer.at, snapshot.expireAt)
  /\ closer.pc = "expire" => ~ orders[current].blocked

\* They agree with the row as well, and what the wallet has failed is over.
Timely(o) ==
  /\ DatesAgree(gw[o], now)
  /\ gw[o].state # NoOrder => gw[o].expiry <= Deadline(orders[o]) + Skew
  /\ orders[o].closedAt > 0 => Shut(gw[o]) /\ gw[o].since <= orders[o].closedAt
  /\ wallet[o] = "failed" => OverAt(gw[o], now)

\* The time of the tick, and what the closer knows of the order at hand.
CloserInTime ==
  /\ closer.pc # "idle" => closer.at = now
  /\ closer.pc = "close" /\ missedDue(closer.at, snapshot.expireAt) =>
       OverAt(gw[current], now)
  /\ closer.pc \in {"fresh", "expire"} => OverAt(gw[current], now)
  /\ closer.pc = "record" => Shut(gw[current]) /\ gw[current].since <= closer.at

TimeInv == (\A o \in Orders : Timely(o)) /\ CloserInTime

-----------------------------------------------------------------------------
(* What a step does to the dates of the rows. *)

\* A row as it may become: nothing moves its dates once they are set.
RowKept(r, q) == /\ q.expireAt = r.expireAt /\ q.createdAt = r.createdAt
                 /\ r.closedAt > 0 => q.closedAt = r.closedAt

\* No step of the closer, the notification or the customer moves a date; only
\* RecordChannelClosed sets the time of the close, and only the closer blocks.
LEMMA RowsStep ==
  ASSUME IInv, CloserStep \/ WorldStep \/ (\E o \in Orders : Delivered(o)) \/ Tick, NEW o \in Orders
  PROVE  /\ RowKept(orders[o], orders'[o])
         /\ \/ orders'[o].closedAt = orders[o].closedAt
            \/ RecordChannelClosed /\ o = current /\ orders'[o].closedAt = closer.at
         /\ \/ CloserStep /\ closer.pc \in {"block", "settle"}
            \/ orders'[o].blocked = orders[o].blocked
<1> DEFINE goal(q) == /\ RowKept(orders[o], q)
                      /\ \/ q.closedAt = orders[o].closedAt
                         \/ RecordChannelClosed /\ o = current /\ q.closedAt = closer.at
                      /\ \/ CloserStep /\ closer.pc \in {"block", "settle"}
                         \/ q.blocked = orders[o].blocked
<1>1. orders \in [Orders -> Rows] /\ now \in Nat
  BY DEF IInv, WorldInv, WorldTypeOK
<1>2. goal(orders[o])
  BY DEF RowKept
<1>3. \A t \in Nat, b \in BOOLEAN :
        /\ goal(MarkPaid(orders[o], b, t))
        /\ goal(MarkFailedIfCreated(orders[o]))
        /\ goal(NotifySucceeded(orders[o]))
        /\ CloserStep /\ closer.pc \in {"block", "settle"} => goal(BlockExpire(orders[o]))
  <2> SUFFICES ASSUME NEW t \in Nat, NEW b \in BOOLEAN
               PROVE  /\ goal(MarkPaid(orders[o], b, t))
                      /\ goal(MarkFailedIfCreated(orders[o]))
                      /\ goal(NotifySucceeded(orders[o]))
                      /\ CloserStep /\ closer.pc \in {"block", "settle"}
                           => goal(BlockExpire(orders[o]))
    OBVIOUS
  <2>1. orders[o] \in Rows
    BY <1>1
  <2>2. goal(MarkPaid(orders[o], b, t))
    BY <2>1, RowOpsKeep, RowOpsStatus, RowOpsClosed DEF RowKept
  <2>3. goal(MarkFailedIfCreated(orders[o]))
    BY <2>1, RowOpsKeep, RowOpsStatus, RowOpsClosed DEF RowKept
  <2>4. goal(NotifySucceeded(orders[o]))
    BY <2>1, RowOpsKeep, RowOpsStatus, RowOpsClosed DEF RowKept
  <2>5. CloserStep /\ closer.pc \in {"block", "settle"} => goal(BlockExpire(orders[o]))
    BY <2>1, RowOpsKeep, RowOpsStatus DEF RowKept
  <2> QED
    BY <2>2, <2>3, <2>4, <2>5
<1>4. ASSUME CloserStep
      PROVE  goal(orders'[o])
  <2>1. CASE closer.pc # "idle" /\ \E r \in Rows : WriteRow(r) /\ (o = current => goal(r))
    <3>1. current \in Orders
      BY <2>1, CurrentFacts DEF IInv
    <3>2. PICK r \in Rows : WriteRow(r) /\ (o = current => goal(r))
      BY <2>1
    <3>3. orders'[o] = IF o = current THEN r ELSE orders[o]
      BY <1>1, <3>1, <3>2 DEF WriteRow
    <3> HIDE DEF goal
    <3> QED
      BY <1>2, <3>2, <3>3
  <2>2. CASE UNCHANGED orders
    BY <1>2, <2>2
  <2>3. CASE CloserMarksPaid
    <3>1. closer.pc # "idle" /\ WriteRow(MarkPaid(orders[current], TRUE, now))
      BY <2>3 DEF CloserMarksPaid
    <3>2. MarkPaid(orders[current], TRUE, now) \in Rows
      BY <1>1, <3>1, CurrentFacts, RowOpsType DEF IInv
    <3>3. o = current => goal(MarkPaid(orders[current], TRUE, now))
      BY <1>1, <1>3
    <3> HIDE DEF goal
    <3> QED
      BY <2>1, <3>1, <3>2, <3>3
  <2>4. CASE CloserBlocks
    <3>1. closer.pc = "block" /\ WriteRow(BlockExpire(orders[current]))
      BY <2>4 DEF CloserBlocks
    <3>2. BlockExpire(orders[current]) \in Rows
      BY <1>1, <3>1, CurrentFacts, RowOpsType DEF IInv
    <3>3. o = current => goal(BlockExpire(orders[current]))
      BY <1>1, <1>3, <1>4, <3>1
    <3> HIDE DEF goal
    <3> QED
      BY <2>1, <3>1, <3>2, <3>3
  <2>5. CASE RecordChannelClosed
    <3>1. closer.pc = "record" /\ WriteRow(SetChannelClosed(orders[current], closer.at))
      BY <2>5 DEF RecordChannelClosed
    <3>2. closer.at \in Nat /\ orders[current] \in Rows /\ current \in Orders
      BY <3>1, CurrentFacts DEF IInv, CloserInv, Closers
    <3>3. SetChannelClosed(orders[current], closer.at) \in Rows
      BY <3>2, RowOpsType
    <3>4. o = current => goal(SetChannelClosed(orders[current], closer.at))
      <4> DEFINE q == SetChannelClosed(orders[o], closer.at)
      <4> SUFFICES ASSUME o = current
                   PROVE  goal(q)
        OBVIOUS
      <4>1. /\ q.expireAt = orders[o].expireAt /\ q.createdAt = orders[o].createdAt
            /\ orders[o].closedAt > 0 => q.closedAt = orders[o].closedAt
            /\ q.closedAt = orders[o].closedAt \/ q.closedAt = closer.at
            /\ q.blocked = orders[o].blocked
        BY <3>2, RowOpsKeep, RowOpsStatus, RowOpsClosed
      <4> HIDE DEF q
      <4> QED
        BY <2>5, <4>1 DEF RowKept
    <3> HIDE DEF goal
    <3> QED
      BY <2>1, <3>1, <3>3, <3>4
  <2>6. CASE Settle
    <3>1. closer.pc = "settle" /\ WriteRow(Settled(orders[current]))
      BY <2>6 DEF Settle
    <3>2. orders[current] \in Rows
      BY <3>1, CurrentFacts DEF IInv
    <3>3. Settled(orders[current]) \in {MarkFailedIfCreated(orders[current]),
            MarkPaid(orders[current], FALSE, now), BlockExpire(orders[current]), orders[current]}
      BY DEF Settled
    <3>4. Settled(orders[current]) \in Rows
      BY <1>1, <3>2, <3>3, RowOpsType
    <3>5. o = current => goal(Settled(orders[current]))
      <4>1. /\ goal(MarkFailedIfCreated(orders[o])) /\ goal(MarkPaid(orders[o], FALSE, now))
            /\ goal(BlockExpire(orders[o])) /\ goal(orders[o])
        BY <1>1, <1>2, <1>3, <1>4, <3>1
      <4> HIDE DEF goal
      <4> QED
        BY <3>3, <4>1
    <3> HIDE DEF goal
    <3> QED
      BY <2>1, <3>1, <3>4, <3>5
  <2> QED
    BY <1>4, <2>2, <2>3, <2>4, <2>5, <2>6
       DEF CloserStep, CloserTick, SkipOrder, QueryFails, QueryAnswered, CloseAnswered,
           CloseUnanswered, ReadAgain, ExpireAnswered, ExpireFails, StoreFails, worldVars
<1>5. ASSUME WorldStep \/ Tick
      PROVE  goal(orders'[o])
  <2>1. UNCHANGED orders \/ \E x \in Orders : HandleJeepayNotify(x)
    BY <1>5 DEF WorldStep, Tick, GatewaySends, CustomerPays, LatePayment, GatewayConfirms,
       GatewayFails, GatewayExpires, AdministratorGrants, GatewayStep
  <2>2. ASSUME NEW x \in Orders, HandleJeepayNotify(x)
        PROVE  goal(orders'[o])
    <3>1. orders'[o] = IF o = x THEN MarkPaid(orders[o], TRUE, now) ELSE orders[o]
      BY <1>1, <2>2 DEF HandleJeepayNotify
    <3>2. goal(MarkPaid(orders[o], TRUE, now))
      BY <1>1, <1>3
    <3> HIDE DEF goal
    <3> QED
      BY <1>2, <3>1, <3>2
  <2> HIDE DEF goal
  <2> QED
    BY <1>2, <2>1, <2>2
<1>6. ASSUME NEW x \in Orders, Delivered(x)
      PROVE  goal(orders'[o])
  <2>1. orders'[o] = IF o = x THEN NotifySucceeded(orders[o]) ELSE orders[o]
    BY <1>1, <1>6 DEF Delivered
  <2>2. goal(NotifySucceeded(orders[o]))
    BY <1>1, <1>3
  <2> HIDE DEF goal
  <2> QED
    BY <1>2, <2>1, <2>2
<1> QED
  BY <1>4, <1>5, <1>6

-----------------------------------------------------------------------------
(* When the top-up of an order is expired. *)

RowsKept == \A o \in Orders : RowKept(orders[o], orders'[o])

\* The dates of a batch stay those of the rows.
BatchDates(batch) ==
  \A i \in DOMAIN batch :
    LET r == batch[i].row
        o == batch[i].order
    IN /\ r.expireAt = orders[o].expireAt
       /\ r.closedAt > 0 => orders[o].closedAt = r.closedAt

LEMMA BatchDatesKept ==
  ASSUME IInv, BatchDates(closer.batch), RowsKept,
         \A i \in DOMAIN closer'.batch :
           \E j \in DOMAIN closer.batch : closer'.batch[i] = closer.batch[j]
  PROVE  BatchDates(closer.batch)'
<1> SUFFICES ASSUME NEW i \in DOMAIN closer'.batch
             PROVE  LET r == closer'.batch[i].row
                        o == closer'.batch[i].order
                    IN /\ r.expireAt = orders'[o].expireAt
                       /\ r.closedAt > 0 => orders'[o].closedAt = r.closedAt
  BY DEF BatchDates
<1>1. PICK j \in DOMAIN closer.batch : closer'.batch[i] = closer.batch[j]
  OBVIOUS
<1> DEFINE r == closer.batch[j].row
           o == closer.batch[j].order
<1>2. o \in Orders
  BY BatchFacts DEF IInv
<1>3. r.expireAt = orders[o].expireAt /\ (r.closedAt > 0 => orders[o].closedAt = r.closedAt)
  BY DEF BatchDates
<1>4. /\ orders'[o].expireAt = orders[o].expireAt
      /\ orders[o].closedAt > 0 => orders'[o].closedAt = orders[o].closedAt
  BY <1>2 DEF RowsKept, RowKept
<1> HIDE DEF r, o
<1>5. r.expireAt = orders'[o].expireAt /\ (r.closedAt > 0 => orders'[o].closedAt = r.closedAt)
  BY <1>3, <1>4
<1> QED
  BY <1>1, <1>5 DEF r, o

LEMMA LeaveDue ==
  ASSUME IInv, DueInv, closer.pc # "idle", Leave, now' = now, RowsKept
  PROVE  DueInv'
<1>1. /\ closer' = NextOrder /\ closer'.pc \in {"idle", "query"}
      /\ closer'.pc # "idle" => closer'.at = closer.at
      /\ \A i \in DOMAIN closer'.batch :
           \E j \in DOMAIN closer.batch : closer'.batch[i] = closer.batch[j]
  BY NextOrderFacts DEF Leave, IInv
<1>2. BatchDates(closer.batch)'
  BY <1>1, BatchDatesKept DEF DueInv, BatchDates
<1>3. (closer.pc # "idle" => closer.at <= now)'
  BY <1>1 DEF DueInv
<1> QED
  BY <1>1, <1>2, <1>3 DEF DueInv, BatchDates

LEMMA GoOnDue ==
  ASSUME IInv, DueInv, closer.pc # "idle", now' = now, RowsKept,
         closer'.batch = closer.batch, closer'.at = closer.at,
         closer'.pc = "close" =>
           (closer'.plan.expire => missedDue(closer.at, snapshot.expireAt)),
         closer'.pc \in {"fresh", "expire"} =>
           /\ snapshot.expireAt > 0
           /\ snapshot.closedAt > 0 \/ missedDue(closer.at, snapshot.expireAt),
         closer'.pc = "expire" => ~ orders'[current].blocked
  PROVE  DueInv'
<1>1. BatchDates(closer.batch)'
  BY BatchDatesKept DEF DueInv, BatchDates
<1>2. current' = current /\ snapshot' = snapshot
  BY DEF current, snapshot
<1>3. (closer.pc # "idle" => closer.at <= now)'
  BY DEF DueInv
<1> QED
  BY <1>1, <1>2, <1>3 DEF DueInv, BatchDates

\* What the others do leaves the closer's knowledge of the dates true.
LEMMA OthersDue ==
  ASSUME IInv, DueInv, UNCHANGED closer, RowsKept, now' \in Nat, now' >= now,
         \A o \in Orders : orders'[o].blocked = orders[o].blocked
  PROVE  DueInv'
<1>1. BatchDates(closer.batch)'
  BY BatchDatesKept DEF DueInv, BatchDates
<1>2. current' = current /\ snapshot' = snapshot
  BY DEF current, snapshot
<1>3. closer.at \in Nat /\ now \in Nat
  BY DEF IInv, WorldInv, WorldTypeOK, CloserInv, Closers
<1>4. (closer.pc # "idle" => closer.at <= now)'
  BY <1>3 DEF DueInv
<1>5. closer.pc # "idle" => current \in Orders
  BY CurrentFacts DEF IInv
<1> QED
  BY <1>1, <1>2, <1>4, <1>5 DEF DueInv, BatchDates

USE DEF GatewayStates, NoOrder, StateInit, StateIng, StateSuccess, StateFail, StateClosed

\* What the closer knows of the order it is dealing with, in one place.
LEMMA AtHand ==
  ASSUME IInv, closer.pc # "idle"
  PROVE  /\ current \in Orders /\ snapshot \in Rows
         /\ orders[current] \in Rows /\ gw[current] \in GatewayOrders
         /\ closer \in Closers /\ closer.plan \in Plans /\ closer.at \in Nat /\ now \in Nat
BY CurrentFacts DEF IInv, WorldInv, WorldTypeOK, CloserInv, Closers

LEMMA QueryDue ==
  ASSUME IInv, DueInv, QueryAnswered
  PROVE  /\ DueInv'
         /\ \/ Leave
            \/ /\ closer'.batch = closer.batch /\ closer'.at = closer.at
               /\ closer'.pc \in {"paid", "block", "close", "fresh"}
               /\ closer'.pc \in {"close", "fresh"} => gw[current].state # StateSuccess
               /\ closer'.pc = "fresh" => \/ closer.at >= snapshot.closedAt + ChannelGrace
                                             /\ snapshot.closedAt > 0
                                          \/ missedDue(closer.at, snapshot.expireAt)
<1> DEFINE plan == decideQuery(gw[current].state, gw[current].amount, snapshot.amount,
                               step = "requery", closer.at, snapshot.expireAt)
           planned == [closer EXCEPT !.plan = plan]
<1>1. closer.pc = "query" /\ UNCHANGED worldVars /\ step \in {"query", "requery"}
  BY DEF QueryAnswered
<1>2. /\ gw[current].state \in GatewayStates /\ snapshot \in Rows /\ closer \in Closers
      /\ closer.at \in Nat /\ snapshot.closedAt \in Nat /\ snapshot.expireAt \in Nat
  BY <1>1, AtHand DEF GatewayOrders, Rows
<1>3. /\ snapshot.expireAt > 0
      /\ step = "requery" => /\ closer.at >= snapshot.closedAt + ChannelGrace
                             /\ snapshot.closedAt > 0
  <2>1. snapshot.expireAt # 0
    BY <1>1 DEF step, closeStepOf
  <2>2. step = "requery" => /\ ~ (closer.at < snapshot.closedAt + ChannelGrace)
                            /\ snapshot.closedAt > 0
    <3>1. CASE snapshot.closedAt > 0
      BY <3>1 DEF step, closeStepOf
    <3>2. CASE ~ (snapshot.closedAt > 0)
      BY <3>2 DEF step, closeStepOf
    <3> QED
      BY <3>1, <3>2
  <2>3. /\ closer.at \in Nat /\ snapshot.closedAt \in Nat /\ snapshot.expireAt \in Nat
        /\ ChannelGrace \in Nat
    BY <1>2, CloseAssumption
  <2> QED
    BY <2>1, <2>2, <2>3
<1>4. /\ plan \in Plans
      /\ plan.expire => step = "requery" \/ missedDue(closer.at, snapshot.expireAt)
      /\ plan.callClose => step # "requery"
      /\ plan.expire \/ plan.callClose => gw[current].state # StateSuccess
  <2>1. \A requery \in BOOLEAN :
          LET p == decideQuery(gw[current].state, gw[current].amount, snapshot.amount,
                               requery, closer.at, snapshot.expireAt)
          IN /\ p \in Plans
             /\ p.expire => requery \/ missedDue(closer.at, snapshot.expireAt)
             /\ p.callClose => ~ requery
             /\ p.expire \/ p.callClose => gw[current].state # StateSuccess
    BY <1>2, DecideQueryFacts, DecideQueryDue
  <2>2. (step = "requery") \in BOOLEAN
    OBVIOUS
  <2> QED
    BY <2>1, <2>2
<1>5. closer' = CASE plan.markPaid  -> [planned EXCEPT !.pc = "paid"]
                  [] plan.block     -> [planned EXCEPT !.pc = "block"]
                  [] plan.callClose -> [planned EXCEPT !.pc = "close"]
                  [] plan.expire /\ ~ plan.callClose -> [planned EXCEPT !.pc = "fresh"]
                  [] OTHER -> NextOrder
  BY DEF QueryAnswered
<1> HIDE DEF plan
<1>6. \/ Leave
      \/ /\ closer'.batch = closer.batch /\ closer'.at = closer.at /\ closer'.plan = plan
         /\ \/ closer'.pc \in {"paid", "block"}
            \/ closer'.pc = "close" /\ plan.callClose
            \/ closer'.pc = "fresh" /\ plan.expire
  <2>1. /\ planned.batch = closer.batch /\ planned.at = closer.at /\ planned.plan = plan
        /\ planned \in Closers
    BY <1>2, <1>4 DEF Closers
  <2> HIDE DEF planned
  <2>2. \/ closer' = [planned EXCEPT !.pc = "paid"]
        \/ closer' = [planned EXCEPT !.pc = "block"]
        \/ closer' = [planned EXCEPT !.pc = "close"] /\ plan.callClose
        \/ closer' = [planned EXCEPT !.pc = "fresh"] /\ plan.expire
        \/ Leave
    BY <1>5 DEF Leave
  <2> QED
    BY <2>1, <2>2 DEF Closers
<1>7. RowsKept /\ now' = now
  BY <1>1 DEF worldVars, RowsKept, RowKept
<1>8. CASE Leave
  BY <1>1, <1>7, <1>8, LeaveDue
<1>9. CASE ~ Leave
  <2>1. DueInv'
    BY <1>1, <1>3, <1>4, <1>6, <1>7, <1>9, GoOnDue
  <2> QED
    BY <1>3, <1>4, <1>6, <1>9, <2>1
<1> QED
  BY <1>8, <1>9

\* An answer to a close request, and what the closer makes of it.
LEMMA CloseAnsweredFacts ==
  ASSUME IInv, CloseAnswered \/ CloseUnanswered
  PROVE  \E answer \in CloseAnswers(gw[current], now) :
           /\ gw' = [gw EXCEPT ![current] = answer.order]
           /\ UNCHANGED <<now, orders, wallet>>
           /\ \/ Leave
              \/ GoTo("block")
              \/ GoTo("record") /\ answer.kind = "success"
              \/ /\ GoTo("fresh")
                 /\ closer.plan.expire \/ missedDue(closer.at, snapshot.expireAt)
<1>1. CASE CloseAnswered
  <2>1. PICK answer \in CloseAnswers(gw[current], now) :
          LET d == decideClose(answer.kind, closer.plan.ing, closer.at, snapshot.expireAt)
          IN /\ gw' = [gw EXCEPT ![current] = answer.order]
             /\ closer' = CASE d.block  -> [closer EXCEPT !.pc = "block"]
                            [] d.record -> [closer EXCEPT !.pc = "record"]
                            [] d.expire -> [closer EXCEPT !.pc = "fresh"]
                            [] OTHER -> NextOrder
    BY <1>1 DEF CloseAnswered
  <2> DEFINE d == decideClose(answer.kind, closer.plan.ing, closer.at, snapshot.expireAt)
  <2>2. /\ d.record => answer.kind = "success"
        /\ d.expire => missedDue(closer.at, snapshot.expireAt)
    BY DEF decideClose
  <2>3. closer' = CASE d.block  -> [closer EXCEPT !.pc = "block"]
                    [] d.record -> [closer EXCEPT !.pc = "record"]
                    [] d.expire -> [closer EXCEPT !.pc = "fresh"]
                    [] OTHER -> NextOrder
    BY <2>1
  <2> HIDE DEF d
  <2>4. \/ Leave
        \/ GoTo("block")
        \/ GoTo("record") /\ d.record
        \/ GoTo("fresh") /\ d.expire
    BY <2>3 DEF Leave, GoTo
  <2> QED
    BY <1>1, <2>1, <2>2, <2>4 DEF CloseAnswered
<1>2. CASE CloseUnanswered
  BY <1>2 DEF CloseUnanswered, expireAfterCloseError
<1> QED
  BY <1>1, <1>2

LEMMA CloseDue ==
  ASSUME IInv, DueInv, CloseAnswered \/ CloseUnanswered
  PROVE  DueInv'
<1>1. closer.pc = "close" /\ closer \in Closers
  BY AtHand DEF CloseAnswered, CloseUnanswered
<1>2. /\ UNCHANGED <<now, orders>>
      /\ \/ Leave
         \/ GoTo("block") \/ GoTo("record")
         \/ GoTo("fresh") /\ missedDue(closer.at, snapshot.expireAt)
  BY <1>1, CloseAnsweredFacts DEF DueInv
<1>3. RowsKept
  BY <1>2 DEF RowsKept, RowKept
<1>4. CASE Leave
  BY <1>1, <1>2, <1>3, <1>4, LeaveDue
<1>5. CASE ~ Leave
  <2>1. /\ closer'.batch = closer.batch /\ closer'.at = closer.at
        /\ closer'.pc \in {"block", "record", "fresh"}
        /\ closer'.pc = "fresh" => missedDue(closer.at, snapshot.expireAt)
    BY <1>1, <1>2, <1>5 DEF GoTo, Closers
  <2>2. missedDue(closer.at, snapshot.expireAt) => snapshot.expireAt > 0
    BY DEF missedDue
  <2> QED
    BY <1>1, <1>2, <1>3, <2>1, <2>2, GoOnDue
<1> QED
  BY <1>4, <1>5

\* The dates of the order at hand.
LEMMA AtHandDates ==
  ASSUME IInv, DueInv, closer.pc # "idle"
  PROVE  /\ snapshot.expireAt = orders[current].expireAt
         /\ snapshot.closedAt > 0 => orders[current].closedAt = snapshot.closedAt
         /\ closer.at <= now
<1>1. closer.batch \in Seq(Fetched) /\ closer.batch # <<>>
  BY DEF IInv, CloserInv, Closers
<1>2. 1 \in DOMAIN closer.batch /\ Head(closer.batch) = closer.batch[1]
  BY <1>1
<1> QED
  BY <1>2 DEF DueInv, current, snapshot

LEMMA TickDue ==
  ASSUME IInv, DueInv, CloserTick
  PROVE  DueInv'
<1>1. PICK batch \in DueCloses(orders, now + CloseLead, CloseBatch) :
        closer' = [Idle EXCEPT !.pc = "query", !.at = now, !.batch = batch]
  BY DEF CloserTick
<1>2. /\ closer'.pc = "query" /\ closer'.at = now /\ closer'.batch = batch
      /\ orders' = orders /\ now' = now
  BY <1>1 DEF Idle, CloserTick, worldVars
<1>3. now \in Nat /\ orders \in [Orders -> Rows]
  BY DEF IInv, WorldInv, WorldTypeOK
<1>4. \A i \in DOMAIN batch : batch[i].row = orders[batch[i].order]
  BY <1>1, <1>3, ClosingAssumption, DueClosesType
<1> QED
  BY <1>2, <1>3, <1>4 DEF DueInv

LEMMA ReadAgainDue ==
  ASSUME IInv, DueInv, ReadAgain
  PROVE  DueInv'
<1>1. /\ closer.pc = "fresh" /\ UNCHANGED worldVars
      /\ Leave \/ (GoTo("expire") /\ ~ orders[current].blocked)
  BY DEF ReadAgain
<1>2. RowsKept /\ now' = now /\ orders' = orders
  BY <1>1 DEF worldVars, RowsKept, RowKept
<1>3. CASE Leave
  BY <1>1, <1>2, <1>3, LeaveDue
<1>4. CASE GoTo("expire") /\ ~ orders[current].blocked
  <2>1. closer'.batch = closer.batch /\ closer'.at = closer.at /\ closer'.pc = "expire"
    BY <1>1, <1>4, AtHand DEF GoTo, Closers
  <2>2. /\ snapshot.expireAt > 0
        /\ snapshot.closedAt > 0 \/ missedDue(closer.at, snapshot.expireAt)
    BY <1>1 DEF DueInv
  <2> QED
    BY <1>1, <1>2, <1>4, <2>1, <2>2, GoOnDue
<1> QED
  BY <1>1, <1>3, <1>4

LEMMA CloserDue ==
  ASSUME IInv, DueInv, CloserStep
  PROVE  DueInv'
<1>1. RowsKept
  BY RowsStep DEF RowsKept
<1>2. CASE CloserTick
  BY <1>2, TickDue
<1>3. CASE QueryAnswered
  BY <1>3, QueryDue
<1>4. CASE CloseAnswered \/ CloseUnanswered
  BY <1>4, CloseDue
<1>5. CASE ReadAgain
  BY <1>5, ReadAgainDue
<1>6. CASE \/ SkipOrder \/ QueryFails \/ CloserMarksPaid \/ CloserBlocks
           \/ RecordChannelClosed \/ ExpireFails \/ Settle \/ StoreFails
  <2>1. closer.pc # "idle" /\ Leave /\ now' = now
    BY <1>6 DEF SkipOrder, QueryFails, CloserMarksPaid, CloserBlocks, RecordChannelClosed,
                ExpireFails, Settle, StoreFails, WriteRow, worldVars
  <2> QED
    BY <1>1, <2>1, LeaveDue
<1>7. CASE ExpireAnswered
  <2>1. /\ closer.pc = "expire" /\ now' = now
        /\ closer' = [closer EXCEPT !.pc = "settle", !.result = ExpireAnswer(wallet[current])]
    BY <1>7 DEF ExpireAnswered
  <2>2. closer'.batch = closer.batch /\ closer'.at = closer.at /\ closer'.pc = "settle"
    BY <2>1, AtHand DEF Closers
  <2> QED
    BY <1>1, <2>1, <2>2, GoOnDue
<1> QED
  BY <1>2, <1>3, <1>4, <1>5, <1>6, <1>7 DEF CloserStep

LEMMA NextDue ==
  ASSUME IInv, DueInv, [ClosingNext]_closingVars
  PROVE  DueInv'
<1>1. CASE CloserStep
  BY <1>1, CloserDue
<1>2. CASE (WorldStep \/ (\E o \in Orders : Delivered(o)) \/ TimePasses) /\ UNCHANGED closer
  <2>1. WorldStep \/ (\E o \in Orders : Delivered(o)) \/ Tick
    BY <1>2 DEF TimePasses
  <2>2. now \in Nat /\ (now' = now \/ now' = now + 1)
    BY <2>1 DEF IInv, WorldInv, WorldTypeOK, WorldStep, Delivered, Tick, GatewaySends,
       CustomerPays, LatePayment, GatewayConfirms, GatewayFails, GatewayExpires,
       AdministratorGrants, HandleJeepayNotify, GatewayStep
  <2>3. CASE CloserStep
    BY <2>3, CloserDue
  <2>4. CASE ~ CloserStep
    <3>1. RowsKept /\ \A o \in Orders : orders'[o].blocked = orders[o].blocked
      BY <2>1, <2>4, RowsStep DEF RowsKept
    <3> QED
      BY <1>2, <2>2, <3>1, OthersDue
  <2> QED
    BY <2>3, <2>4
<1>3. CASE Restart
  BY <1>3 DEF Restart, DueInv, Idle
<1>4. CASE UNCHANGED closingVars
  BY <1>4 DEF closingVars, DueInv, current, snapshot
<1> QED
  BY <1>1, <1>2, <1>3, <1>4 DEF ClosingNext

-----------------------------------------------------------------------------
(* What becomes of a top-up. *)

\* Only ExpireAnswered and ExpireFails fail a top-up, and only the one of the
\* order at hand.
WalletExpires(o) == /\ closer.pc = "expire" /\ o = current
                    /\ ExpireAnswered \/ ExpireFails
                    /\ wallet[o] = "pending" /\ wallet'[o] = "failed"

LEMMA ExpireMoves ==
  ASSUME IInv, ExpireAnswered \/ ExpireFails, NEW o \in Orders
  PROVE  wallet'[o] = wallet[o] \/ WalletExpires(o)
<1>1. wallet \in [Orders -> WalletStates]
  BY DEF IInv, WorldInv, WorldTypeOK
<1>2. closer.pc = "expire"
  BY DEF ExpireAnswered, ExpireFails
<1>3. current \in Orders
  BY <1>2, AtHand
<1>4. PICK w \in {wallet[current], ExpireEffect(wallet[current])} :
        wallet' = [wallet EXCEPT ![current] = w]
  BY DEF ExpireAnswered, ExpireFails
<1>5. wallet'[o] = IF o = current THEN w ELSE wallet[o]
  BY <1>1, <1>3, <1>4
<1>6. w = wallet[current] \/ (wallet[current] = "pending" /\ w = "failed")
  BY DEF ExpireEffect
<1> QED
  BY <1>2, <1>5, <1>6 DEF WalletExpires

LEMMA WalletMoves ==
  ASSUME IInv, [ClosingNext]_closingVars, NEW o \in Orders
  PROVE  \/ wallet'[o] = wallet[o]
         \/ WalletExpires(o)
         \/ wallet'[o] = "granted" /\ AdministratorGrants(o)
         \/ wallet[o] = "pending" /\ wallet'[o] = "credited" /\ Delivered(o)
<1>1. wallet \in [Orders -> WalletStates]
  BY DEF IInv, WorldInv, WorldTypeOK
<1>2. CASE ExpireAnswered \/ ExpireFails
  BY <1>2, ExpireMoves
<1>3. ASSUME NEW x \in Orders, AdministratorGrants(x)
      PROVE  wallet'[o] = wallet[o] \/ (wallet'[o] = "granted" /\ AdministratorGrants(o))
  <2>1. wallet'[o] = IF o = x THEN "granted" ELSE wallet[o]
    BY <1>1, <1>3 DEF AdministratorGrants
  <2> QED
    BY <1>3, <2>1
<1>4. ASSUME NEW x \in Orders, Delivered(x)
      PROVE  \/ wallet'[o] = wallet[o]
             \/ wallet[o] = "pending" /\ wallet'[o] = "credited" /\ Delivered(o)
  <2>1. wallet'[o] = IF o = x THEN Credit(wallet[o]) ELSE wallet[o]
    BY <1>1, <1>4 DEF Delivered
  <2> QED
    BY <1>4, <2>1 DEF Credit
<1>5. \/ UNCHANGED wallet
      \/ ExpireAnswered \/ ExpireFails
      \/ \E x \in Orders : AdministratorGrants(x)
      \/ \E x \in Orders : Delivered(x)
  BY DEF ClosingNext, closingVars, CloserStep, CloserTick, SkipOrder, QueryFails, QueryAnswered,
         CloserMarksPaid, CloserBlocks, CloseAnswered, CloseUnanswered, RecordChannelClosed,
         ReadAgain, Settle, StoreFails, WriteRow, worldVars, WorldStep, GatewaySends,
         CustomerPays, LatePayment, GatewayConfirms, GatewayFails, GatewayExpires,
         HandleJeepayNotify, GatewayStep, TimePasses, Tick, Restart, Reopen
<1> QED
  BY <1>2, <1>3, <1>4, <1>5

\* The closer expires a top-up only for an order with a deadline that is not
\* taken out of its hands, and only after closing the channel or MissedGrace
\* after the deadline; whatever the delays, and however slow its calls.
THEOREM ClosingExpireIsDue == ClosingSpec => ExpireIsDue
<1> DEFINE due == \A o \in Orders : wallet[o] = "pending" /\ wallet'[o] = "failed" =>
                    /\ orders[o].expireAt > 0 /\ ~ orders[o].blocked
                    /\ orders[o].closedAt > 0 \/ now >= orders[o].expireAt + MissedGrace
<1>1. ClosingInit => DueInv
  BY DEF ClosingInit, DueInv, Idle
<1>2. IInv /\ DueInv /\ [ClosingNext]_closingVars => DueInv'
  BY NextDue
<1>3. IInv /\ DueInv /\ [ClosingNext]_closingVars => [due]_wallet
  <2> SUFFICES ASSUME IInv, DueInv, [ClosingNext]_closingVars, NEW o \in Orders,
                      wallet[o] = "pending", wallet'[o] = "failed"
               PROVE  /\ orders[o].expireAt > 0 /\ ~ orders[o].blocked
                      /\ orders[o].closedAt > 0 \/ now >= orders[o].expireAt + MissedGrace
    OBVIOUS
  <2>1. closer.pc = "expire" /\ o = current
    BY WalletMoves DEF WalletExpires
  <2>2. /\ snapshot.expireAt > 0 /\ ~ orders[o].blocked
        /\ snapshot.closedAt > 0 \/ missedDue(closer.at, snapshot.expireAt)
    BY <2>1 DEF DueInv
  <2>3. /\ snapshot.expireAt = orders[o].expireAt
        /\ snapshot.closedAt > 0 => orders[o].closedAt = snapshot.closedAt
        /\ closer.at <= now
    BY <2>1, AtHandDates
  <2>4. /\ closer.at \in Nat /\ now \in Nat /\ orders[o].expireAt \in Nat
        /\ MissedGrace \in Nat
    BY <2>1, AtHand, CloseAssumption DEF Rows
  <2>5. missedDue(closer.at, snapshot.expireAt) => now >= orders[o].expireAt + MissedGrace
    BY <2>3, <2>4 DEF missedDue
  <2> QED
    BY <2>2, <2>3, <2>5
<1> QED
  BY <1>1, <1>2, <1>3, ClosingInvariant, PTL DEF ClosingSpec, ExpireIsDue

-----------------------------------------------------------------------------
(* What a step does to the gateway orders. *)

LEMMA WorldMoves ==
  ASSUME IInv, WorldStep, NEW o \in Orders
  PROVE  Move(gw[o], gw'[o], now)
<1>1. WorldTypeOK /\ gw \in [Orders -> GatewayOrders]
  BY DEF IInv, WorldInv, WorldTypeOK
<1>2. Move(gw[o], gw[o], now)
  BY DEF Move
<1>3. PICK x \in Orders :
        \/ \E h \in GatewayOrders : GatewayStep(x, h) /\ Move(gw[x], h, now)
        \/ AdministratorGrants(x)
        \/ HandleJeepayNotify(x)
  BY <1>1, WorldTurns
<1>4. CASE AdministratorGrants(x) \/ HandleJeepayNotify(x)
  BY <1>2, <1>4 DEF AdministratorGrants, HandleJeepayNotify
<1>5. ASSUME NEW h \in GatewayOrders, GatewayStep(x, h), Move(gw[x], h, now)
      PROVE  Move(gw[o], gw'[o], now)
  <2>1. gw'[o] = IF o = x THEN h ELSE gw[o]
    BY <1>1, <1>5 DEF GatewayStep
  <2> QED
    BY <1>2, <1>5, <2>1
<1> QED
  BY <1>3, <1>4, <1>5

\* Every step moves every gateway order, and none while the clock ticks.
LEMMA GatewayMoves ==
  ASSUME IInv, [ClosingNext]_closingVars, NEW o \in Orders
  PROVE  /\ Move(gw[o], gw'[o], now)
         /\ now' = now \/ (TimePasses /\ gw' = gw)
<1>1. CASE CloseAnswered \/ CloseUnanswered
  <2>1. PICK answer \in CloseAnswers(gw[current], now) :
          /\ gw' = [gw EXCEPT ![current] = answer.order]
          /\ now' = now
    BY <1>1, CloseAnsweredFacts
  <2>2. closer.pc # "idle"
    BY <1>1 DEF CloseAnswered, CloseUnanswered
  <2>3. /\ current \in Orders /\ gw[current] \in GatewayOrders /\ now \in Nat
        /\ gw \in [Orders -> GatewayOrders]
    BY <2>2, AtHand DEF IInv, WorldInv, WorldTypeOK
  <2>4. Move(gw[current], answer.order, now)
    BY <2>3, CloseMoves
  <2>5. gw'[o] = IF o = current THEN answer.order ELSE gw[o]
    BY <2>1, <2>3
  <2>6. Move(gw[o], gw[o], now)
    BY DEF Move
  <2> QED
    BY <2>1, <2>4, <2>5, <2>6
<1>2. CASE WorldStep
  <2>1. now' = now
    BY <1>2 DEF WorldStep, GatewaySends, CustomerPays, LatePayment, GatewayConfirms,
           GatewayFails, GatewayExpires, AdministratorGrants, HandleJeepayNotify, GatewayStep
  <2> QED
    BY <1>2, <2>1, WorldMoves
<1>3. CASE gw' = gw /\ (now' = now \/ TimePasses)
  BY <1>3 DEF Move
<1>4. \/ gw' = gw /\ (now' = now \/ TimePasses)
      \/ CloseAnswered \/ CloseUnanswered \/ WorldStep
  BY DEF ClosingNext, closingVars, CloserStep, CloserTick, SkipOrder, QueryFails, QueryAnswered,
         CloserMarksPaid, CloserBlocks, RecordChannelClosed, ExpireAnswered, ExpireFails,
         ReadAgain, Settle, StoreFails, WriteRow, worldVars, TimePasses, Tick, Restart, Reopen,
         Delivered
<1> QED
  BY <1>1, <1>2, <1>3, <1>4

\* MissedGrace after the deadline of the row it is ChannelGrace after that of
\* the gateway order.
LEMMA MissedIsLate ==
  ASSUME InTime, NEW g \in GatewayOrders, NEW r \in Rows, NEW t \in Nat,
         g.expiry <= Deadline(r) + Skew, missedDue(t, r.expireAt)
  PROVE  t >= g.expiry + ChannelGrace
<1>1. /\ g.expiry \in Nat /\ r.expireAt \in Nat
      /\ Skew \in Nat /\ ChannelGrace \in Nat /\ MissedGrace \in Nat
  BY TimeAssumption, CloseAssumption DEF GatewayOrders, Rows
<1>2. Skew + ChannelGrace <= MissedGrace
  BY DEF InTime
<1>3. r.expireAt > 0 /\ t >= r.expireAt + MissedGrace
  BY DEF missedDue
<1>4. r.expireAt # 0
  BY <1>1, <1>3
<1>5. g.expiry <= r.expireAt + Skew
  BY <1>4 DEF Deadline
<1> QED
  BY <1>1, <1>2, <1>3, <1>5

-----------------------------------------------------------------------------
(* The closer in time. *)

FullInv == IInv /\ DueInv /\ TimeInv

\* What every step does to the date of every row.
LEMMA RowsMove ==
  ASSUME IInv, [ClosingNext]_closingVars, NEW o \in Orders
  PROVE  /\ Deadline(orders'[o]) = Deadline(orders[o])
         /\ \/ orders'[o].closedAt = orders[o].closedAt
            \/ RecordChannelClosed /\ o = current /\ orders'[o].closedAt = closer.at
<1>1. orders \in [Orders -> Rows] /\ orders[o] \in Rows
  BY DEF IInv, WorldInv, WorldTypeOK
<1>2. CASE CloserStep \/ WorldStep \/ (\E x \in Orders : Delivered(x)) \/ TimePasses
  <2>1. CloserStep \/ WorldStep \/ (\E x \in Orders : Delivered(x)) \/ Tick
    BY <1>2 DEF TimePasses
  <2>2. /\ RowKept(orders[o], orders'[o])
        /\ \/ orders'[o].closedAt = orders[o].closedAt
           \/ RecordChannelClosed /\ o = current /\ orders'[o].closedAt = closer.at
    BY <2>1, RowsStep
  <2> QED
    BY <2>2 DEF RowKept, Deadline
<1>3. CASE Restart
  <2>1. orders'[o] = Migrate(orders)[o]
    BY <1>3 DEF Restart, Reopen
  <2>2. LegacyTTL \in Nat \ {0} /\ orders[o].createdAt \in Nat
    BY <1>1, LegacyTTLAssumption DEF Rows
  <2>3. Deadline(orders'[o]) = Deadline(orders[o])
    <3> DEFINE r == orders[o]
               q == orders'[o]
    <3>1. /\ q.createdAt = r.createdAt
          /\ q.expireAt = IF r.expireAt = 0 /\ r.status = "created"
                          THEN r.createdAt + LegacyTTL ELSE r.expireAt
      BY <1>1, <2>1, MigrateKeeps
    <3>2. r.createdAt + LegacyTTL # 0
      BY <2>2
    <3> HIDE DEF r, q
    <3>3. Deadline(q) = Deadline(r)
      BY <3>1, <3>2 DEF Deadline
    <3> QED
      BY <3>3 DEF r, q
  <2> QED
    BY <1>1, <2>1, <2>3, MigrateKeeps
<1>4. CASE UNCHANGED closingVars
  BY <1>4 DEF closingVars
<1> QED
  BY <1>2, <1>3, <1>4 DEF ClosingNext

\* What the closer knows of the order at hand makes it over.
LEMMA MissedIsOver ==
  ASSUME InTime, IInv, DueInv, TimeInv, closer.pc # "idle",
         missedDue(closer.at, snapshot.expireAt),
         gw[current].state # StateSuccess, gw[current].state # NoOrder
  PROVE  OverAt(gw[current], now)
<1>1. /\ current \in Orders /\ gw[current] \in GatewayOrders /\ now \in Nat
      /\ orders[current] \in Rows
  BY AtHand
<1>2. closer.at = now /\ Timely(current)
  BY <1>1 DEF TimeInv, CloserInTime
<1>3. snapshot.expireAt = orders[current].expireAt
  BY AtHandDates
<1>4. now >= gw[current].expiry + ChannelGrace
  BY <1>1, <1>2, <1>3, MissedIsLate DEF Timely
<1> QED
  BY <1>1, <1>2, <1>4, NoneUnderWay DEF Timely, InTime

LEMMA ClosedIsOver ==
  ASSUME InTime, IInv, DueInv, TimeInv, closer.pc # "idle",
         snapshot.closedAt > 0, closer.at >= snapshot.closedAt + ChannelGrace,
         gw[current].state # StateSuccess
  PROVE  OverAt(gw[current], now)
<1>1. /\ current \in Orders /\ gw[current] \in GatewayOrders /\ now \in Nat
      /\ snapshot \in Rows
  BY AtHand
<1>2. closer.at = now /\ Timely(current)
  BY <1>1 DEF TimeInv, CloserInTime
<1>3. orders[current].closedAt = snapshot.closedAt
  BY AtHandDates
<1>4. Shut(gw[current]) /\ gw[current].since <= snapshot.closedAt
  BY <1>2, <1>3 DEF Timely
<1>5. now >= gw[current].since + ChannelGrace
  BY <1>1, <1>2, <1>4, ClosedIsLate DEF Rows
<1>6. gw[current].state # NoOrder
  BY <1>4 DEF Shut
<1> QED
  BY <1>1, <1>2, <1>4, <1>5, <1>6, NoneUnderWay DEF Timely, InTime

\* Every step keeps the dates of every order in agreement.
LEMMA TimelyStep ==
  ASSUME InTime, FullInv, IInv', [ClosingNext]_closingVars, NEW o \in Orders
  PROVE  Timely(o)'
<1>1. /\ gw[o] \in GatewayOrders /\ gw'[o] \in GatewayOrders
      /\ now \in Nat /\ now' \in Nat /\ orders[o] \in Rows
  BY DEF FullInv, IInv, WorldInv, WorldTypeOK
<1>2. Timely(o) /\ DatesAgree(gw[o], now)
  BY DEF FullInv, TimeInv, Timely
<1>3. Move(gw[o], gw'[o], now) /\ (now' = now \/ (TimePasses /\ gw' = gw))
  BY GatewayMoves DEF FullInv
<1>4. TimePasses =>
        /\ now' = now + 1
        /\ gw[o].captured /\ gw[o].state # StateSuccess => now < gw[o].since + SettleLag
  BY DEF TimePasses, Tick
<1>5. now < gw[o].since + SettleLag => now + 1 <= gw[o].since + SettleLag
  <2>1. gw[o].since \in Nat /\ SettleLag \in Nat
    BY <1>1, TimeAssumption DEF GatewayOrders
  <2> QED
    BY <1>1, <2>1
<1>6. now' >= now
  BY <1>1, <1>3, <1>4
<1>7. DatesAgree(gw'[o], now')
  <2>1. CASE now' = now
    BY <1>1, <1>2, <1>3, <2>1, DatesKept
  <2>2. CASE TimePasses /\ gw' = gw
    <3>1. gw'[o] = gw[o] /\ (gw[o].captured /\ gw[o].state # StateSuccess =>
                               now' <= gw[o].since + SettleLag)
      BY <1>4, <1>5, <2>2
    <3> QED
      BY <1>1, <1>2, <1>3, <3>1, DatesKept
  <2> QED
    BY <1>3, <2>1, <2>2
<1>8. Deadline(orders'[o]) = Deadline(orders[o])
  BY RowsMove DEF FullInv
<1>9. gw'[o].state # NoOrder => gw'[o].expiry <= Deadline(orders'[o]) + Skew
  <2>1. gw'[o].expiry = gw[o].expiry /\ (gw'[o].state # NoOrder => gw[o].state # NoOrder)
    BY <1>3 DEF Move
  <2> QED
    BY <1>2, <1>8, <2>1 DEF Timely
<1>10. orders'[o].closedAt > 0 => Shut(gw'[o]) /\ gw'[o].since <= orders'[o].closedAt
  <2>1. CASE orders'[o].closedAt = orders[o].closedAt
    BY <1>2, <1>3, <2>1, ShutKept DEF Timely
  <2>2. CASE RecordChannelClosed /\ o = current /\ orders'[o].closedAt = closer.at
    <3>1. closer.pc = "record" /\ gw' = gw
      BY <2>2 DEF RecordChannelClosed, WriteRow
    <3>2. Shut(gw[o]) /\ gw[o].since <= closer.at
      BY <2>2, <3>1 DEF FullInv, TimeInv, CloserInTime
    <3> QED
      BY <2>2, <3>1, <3>2
  <2> QED
    BY <2>1, <2>2, RowsMove DEF FullInv
<1>11. wallet'[o] = "failed" => OverAt(gw'[o], now')
  <2>1. wallet'[o] = "failed" => OverAt(gw[o], now)
    <3>1. wallet'[o] = "failed" => wallet[o] = "failed" \/ WalletExpires(o)
      BY WalletMoves DEF FullInv
    <3>2. WalletExpires(o) => OverAt(gw[o], now)
      BY DEF WalletExpires, FullInv, TimeInv, CloserInTime
    <3> QED
      BY <1>2, <3>1, <3>2 DEF Timely
  <2>2. OverAt(gw[o], now) => OverAt(gw'[o], now')
    BY <1>1, <1>2, <1>3, <1>6, OverKept DEF InTime
  <2> QED
    BY <2>1, <2>2
<1> QED
  BY <1>7, <1>9, <1>10, <1>11 DEF Timely

\* A gateway order that is over, or shut, is so after any step.
LEMMA OrderAtHandKept ==
  ASSUME InTime, FullInv, IInv', [ClosingNext]_closingVars, closer.pc # "idle"
  PROVE  /\ OverAt(gw[current], now) => OverAt(gw'[current], now')
         /\ Shut(gw[current]) => /\ Shut(gw'[current])
                                 /\ gw'[current].since = gw[current].since
<1>1. current \in Orders
  BY AtHand DEF FullInv
<1>2. /\ gw[current] \in GatewayOrders /\ gw'[current] \in GatewayOrders
      /\ now \in Nat /\ now' \in Nat /\ DatesAgree(gw[current], now)
  BY <1>1 DEF FullInv, IInv, WorldInv, WorldTypeOK, TimeInv, Timely
<1>3. Move(gw[current], gw'[current], now) /\ (now' = now \/ TimePasses)
  BY <1>1, GatewayMoves DEF FullInv
<1>4. now' >= now
  BY <1>2, <1>3 DEF TimePasses, Tick
<1> QED
  BY <1>2, <1>3, <1>4, OverKept, ShutKept DEF InTime

LEMMA LeaveInTime ==
  ASSUME FullInv, closer.pc # "idle", Leave, now' = now
  PROVE  CloserInTime'
<1>1. /\ closer'.pc \in {"idle", "query"}
      /\ closer'.pc # "idle" => closer'.at = closer.at
  BY NextOrderFacts DEF Leave, FullInv, IInv
<1> QED
  BY <1>1 DEF CloserInTime, FullInv, TimeInv

\* Going on with the same order.
LEMMA GoOnInTime ==
  ASSUME FullInv, closer.pc # "idle", now' = now,
         closer'.batch = closer.batch, closer'.at = closer.at,
         closer'.pc = "close" /\ missedDue(closer.at, snapshot.expireAt) =>
           OverAt(gw'[current], now'),
         closer'.pc \in {"fresh", "expire"} => OverAt(gw'[current], now'),
         closer'.pc = "record" => Shut(gw'[current]) /\ gw'[current].since <= closer.at
  PROVE  CloserInTime'
<1>1. current' = current /\ snapshot' = snapshot
  BY DEF current, snapshot
<1> QED
  BY <1>1 DEF CloserInTime, FullInv, TimeInv

LEMMA OthersInTime ==
  ASSUME InTime, FullInv, IInv', [ClosingNext]_closingVars, UNCHANGED closer,
         closer.pc # "idle" => now' = now
  PROVE  CloserInTime'
<1>1. CASE closer.pc = "idle"
  BY <1>1 DEF CloserInTime
<1>2. CASE closer.pc # "idle"
  <2>1. /\ OverAt(gw[current], now) => OverAt(gw'[current], now')
        /\ Shut(gw[current]) => /\ Shut(gw'[current])
                                /\ gw'[current].since = gw[current].since
    BY <1>2, OrderAtHandKept
  <2> QED
    BY <1>2, <2>1, GoOnInTime DEF FullInv, TimeInv, CloserInTime
<1> QED
  BY <1>1, <1>2

LEMMA QueryInTime ==
  ASSUME InTime, FullInv, QueryAnswered
  PROVE  CloserInTime'
<1>1. /\ closer.pc = "query" /\ UNCHANGED worldVars /\ gw[current].state # NoOrder
  BY DEF QueryAnswered
<1>2. \/ Leave
      \/ /\ closer'.batch = closer.batch /\ closer'.at = closer.at
         /\ closer'.pc \in {"paid", "block", "close", "fresh"}
         /\ closer'.pc \in {"close", "fresh"} => gw[current].state # StateSuccess
         /\ closer'.pc = "fresh" => \/ closer.at >= snapshot.closedAt + ChannelGrace
                                       /\ snapshot.closedAt > 0
                                    \/ missedDue(closer.at, snapshot.expireAt)
  BY QueryDue DEF FullInv
<1>3. CASE Leave
  BY <1>1, <1>3, LeaveInTime DEF worldVars
<1>4. CASE ~ Leave
  <2>1. gw' = gw /\ now' = now
    BY <1>1 DEF worldVars
  <2>2. closer'.pc \in {"close", "fresh"} /\ missedDue(closer.at, snapshot.expireAt) =>
          OverAt(gw[current], now)
    BY <1>1, <1>2, <1>4, MissedIsOver DEF FullInv
  <2>3. closer'.pc = "fresh" /\ closer.at >= snapshot.closedAt + ChannelGrace
          /\ snapshot.closedAt > 0 => OverAt(gw[current], now)
    BY <1>1, <1>2, <1>4, ClosedIsOver DEF FullInv
  <2> QED
    BY <1>1, <1>2, <1>4, <2>1, <2>2, <2>3, GoOnInTime
<1> QED
  BY <1>3, <1>4

LEMMA CloseInTime ==
  ASSUME InTime, FullInv, IInv', CloseAnswered \/ CloseUnanswered
  PROVE  CloserInTime'
<1>1. /\ closer.pc = "close" /\ [ClosingNext]_closingVars
  BY DEF CloseAnswered, CloseUnanswered, ClosingNext, CloserStep
<1>2. PICK answer \in CloseAnswers(gw[current], now) :
        /\ gw' = [gw EXCEPT ![current] = answer.order]
        /\ UNCHANGED <<now, orders, wallet>>
        /\ \/ Leave
           \/ GoTo("block")
           \/ GoTo("record") /\ answer.kind = "success"
           \/ /\ GoTo("fresh")
              /\ closer.plan.expire \/ missedDue(closer.at, snapshot.expireAt)
  BY CloseAnsweredFacts DEF FullInv
<1>3. /\ current \in Orders /\ gw[current] \in GatewayOrders /\ now \in Nat
      /\ closer \in Closers /\ gw'[current] = answer.order
  BY <1>1, <1>2, AtHand DEF FullInv, IInv, WorldInv, WorldTypeOK
<1>4. CASE Leave
  BY <1>1, <1>2, <1>4, LeaveInTime
<1>5. CASE ~ Leave
  <2>1. /\ closer'.batch = closer.batch /\ closer'.at = closer.at
        /\ \/ closer'.pc = "block"
           \/ closer'.pc = "record" /\ answer.kind = "success"
           \/ /\ closer'.pc = "fresh"
              /\ closer.plan.expire \/ missedDue(closer.at, snapshot.expireAt)
    BY <1>2, <1>3, <1>5 DEF GoTo, Closers
  <2>2. closer'.pc = "record" => Shut(gw'[current]) /\ gw'[current].since <= closer.at
    <3>1. answer.kind = "success" =>
            answer.order.state = StateClosed /\ answer.order.since <= now
      BY <1>3, CloseMoves
    <3>2. closer.at = now
      BY <1>1 DEF FullInv, TimeInv, CloserInTime
    <3> QED
      BY <1>3, <2>1, <3>1, <3>2 DEF Shut
  <2>3. closer'.pc = "fresh" => OverAt(gw'[current], now')
    <3>1. closer'.pc = "fresh" => missedDue(closer.at, snapshot.expireAt)
      BY <1>1, <2>1 DEF FullInv, DueInv
    <3>2. closer'.pc = "fresh" => OverAt(gw[current], now)
      BY <1>1, <3>1 DEF FullInv, TimeInv, CloserInTime
    <3> QED
      BY <1>1, <3>2, OrderAtHandKept
  <2> QED
    BY <1>1, <1>2, <2>1, <2>2, <2>3, GoOnInTime
<1> QED
  BY <1>4, <1>5

LEMMA CloserStepInTime ==
  ASSUME InTime, FullInv, IInv', CloserStep
  PROVE  CloserInTime'
<1>1. CASE CloserTick
  BY <1>1 DEF CloserTick, CloserInTime, Idle, worldVars
<1>2. CASE QueryAnswered
  BY <1>2, QueryInTime
<1>3. CASE CloseAnswered \/ CloseUnanswered
  BY <1>3, CloseInTime
<1>4. CASE \/ SkipOrder \/ QueryFails \/ CloserMarksPaid \/ CloserBlocks
           \/ RecordChannelClosed \/ ExpireFails \/ Settle \/ StoreFails
  <2>1. closer.pc # "idle" /\ Leave /\ now' = now
    BY <1>4 DEF SkipOrder, QueryFails, CloserMarksPaid, CloserBlocks, RecordChannelClosed,
                ExpireFails, Settle, StoreFails, WriteRow, worldVars
  <2> QED
    BY <2>1, LeaveInTime
<1>5. CASE ReadAgain
  <2>1. /\ closer.pc = "fresh" /\ now' = now /\ gw' = gw
        /\ Leave \/ GoTo("expire")
    BY <1>5 DEF ReadAgain, worldVars
  <2>2. CASE Leave
    BY <2>1, <2>2, LeaveInTime
  <2>3. CASE GoTo("expire")
    <3>1. closer'.batch = closer.batch /\ closer'.at = closer.at /\ closer'.pc = "expire"
      BY <2>1, <2>3, AtHand DEF GoTo, Closers, FullInv
    <3>2. OverAt(gw[current], now)
      BY <2>1 DEF FullInv, TimeInv, CloserInTime
    <3> QED
      BY <2>1, <3>1, <3>2, GoOnInTime
  <2> QED
    BY <2>1, <2>2, <2>3
<1>6. CASE ExpireAnswered
  <2>1. /\ closer.pc = "expire" /\ now' = now
        /\ closer' = [closer EXCEPT !.pc = "settle", !.result = ExpireAnswer(wallet[current])]
    BY <1>6 DEF ExpireAnswered
  <2>2. closer'.batch = closer.batch /\ closer'.at = closer.at /\ closer'.pc = "settle"
    BY <2>1, AtHand DEF Closers, FullInv
  <2> QED
    BY <2>1, <2>2, GoOnInTime
<1> QED
  BY <1>1, <1>2, <1>3, <1>4, <1>5, <1>6 DEF CloserStep

LEMMA NextInTime ==
  ASSUME InTime, FullInv, [ClosingNext]_closingVars
  PROVE  FullInv'
<1>1. IInv' /\ DueInv'
  BY NextInv, NextDue DEF FullInv, StepGoal
<1>2. (\A o \in Orders : Timely(o))'
  BY <1>1, TimelyStep
<1>3. CloserInTime'
  <2>1. CASE CloserStep
    BY <1>1, <2>1, CloserStepInTime
  <2>2. CASE Restart
    BY <2>2 DEF Restart, CloserInTime, Idle
  <2>3. CASE ~ CloserStep /\ ~ Restart
    <3>1. UNCHANGED closer
      BY <2>3 DEF ClosingNext, closingVars
    <3>2. closer.pc # "idle" => now' = now
      <4>1. TimePasses => closer.pc = "idle"
        BY DEF TimePasses, InTime
      <4>2. Orders # {} => now' = now \/ TimePasses
        BY GatewayMoves DEF FullInv
      <4>3. closer.pc # "idle" => Orders # {}
        BY AtHand DEF FullInv
      <4> QED
        BY <4>1, <4>2, <4>3
    <3> QED
      BY <1>1, <3>1, <3>2, OthersInTime
  <2> QED
    BY <2>1, <2>2, <2>3
<1> QED
  BY <1>1, <1>2, <1>3 DEF FullInv, TimeInv

LEMMA InitInTime ==
  ASSUME ClosingInit
  PROVE  FullInv
<1>1. IInv
  BY InitInv
<1>2. DueInv /\ CloserInTime
  BY DEF ClosingInit, DueInv, CloserInTime, Idle
<1>3. ASSUME NEW o \in Orders
      PROVE  Timely(o)
  <2>1. /\ orders[o].closedAt = 0 /\ wallet[o] # "failed"
        /\ ~ gw[o].captured /\ gw[o].since = 0
    BY WorldInitInv DEF ClosingInit
  <2>2. orders[o] \in Rows /\ gw[o] \in GatewayOrders
    BY <1>1 DEF IInv, WorldInv, WorldTypeOK
  <2>3. gw[o].state # NoOrder => gw[o].expiry <= Deadline(orders[o]) + Skew
    <3>1. gw[o].state # NoOrder =>
            gw[o].expiry \in Deadline(orders[o])..(Deadline(orders[o]) + Skew)
      BY DEF ClosingInit, WorldInit
    <3>2. Deadline(orders[o]) \in Nat
      BY <2>2, LegacyTTLAssumption DEF Deadline, Rows
    <3>3. Skew \in Nat
      BY TimeAssumption
    <3>4. \A d \in Nat : \A e \in d..(d + Skew) : e <= d + Skew
      BY <3>3
    <3> QED
      BY <3>1, <3>2, <3>4
  <2>4. gw[o].since <= gw[o].expiry
    <3>1. gw[o].expiry \in Nat
      BY <2>2 DEF GatewayOrders
    <3>2. gw[o].since = 0
      BY <2>1
    <3> QED
      BY <3>1, <3>2
  <2>5. ~ (orders[o].closedAt > 0)
    <3>1. orders[o].closedAt = 0
      BY <2>1
    <3> QED
      BY <3>1
  <2> QED
    BY <2>1, <2>3, <2>4, <2>5 DEF Timely, DatesAgree
<1> QED
  BY <1>1, <1>2, <1>3 DEF FullInv, TimeInv

-----------------------------------------------------------------------------
(* The theorems about payments in time. *)

\* The inductive invariant of a closer in time.
THEOREM ClosingTimeInvariant == ASSUME InTime PROVE ClosingSpec => []FullInv
<1>1. ClosingInit => FullInv
  BY InitInTime
<1>2. FullInv /\ [ClosingNext]_closingVars => FullInv'
  BY NextInTime
<1> QED
  BY <1>1, <1>2, PTL DEF ClosingSpec

\* If the delays are kept, a top-up the closer has expired belongs to an order
\* that is not paid: no payment under way when the channel was closed, or made
\* up to the gateway's own deadline, is missed.
THEOREM ClosingNoExpireOfPaid == ASSUME InTime PROVE ClosingSpec => []NoExpireOfPaid
<1>1. FullInv => NoExpireOfPaid
  BY DEF FullInv, TimeInv, Timely, OverAt, NoExpireOfPaid
<1> QED
  BY <1>1, ClosingTimeInvariant, PTL

\* If the delays are kept, a top-up whose channel the closer has closed is
\* expired at the earliest ChannelGrace after the channel ceased to take
\* payments.
THEOREM ClosingGraceAfterClose == ASSUME InTime PROVE ClosingSpec => GraceAfterClose
<1> DEFINE late == \A o \in Orders :
                     /\ wallet[o] = "pending" /\ wallet'[o] = "failed"
                     /\ orders[o].closedAt > 0
                     => now >= gw[o].since + ChannelGrace
<1>1. FullInv /\ [ClosingNext]_closingVars => [late]_wallet
  <2> SUFFICES ASSUME FullInv, [ClosingNext]_closingVars, NEW o \in Orders,
                      wallet[o] = "pending", wallet'[o] = "failed"
               PROVE  now >= gw[o].since + ChannelGrace
    OBVIOUS
  <2>1. closer.pc = "expire" /\ o = current
    BY WalletMoves DEF WalletExpires, FullInv
  <2>2. OverAt(gw[o], now) /\ DatesAgree(gw[o], now)
    BY <2>1 DEF FullInv, TimeInv, CloserInTime, Timely
  <2>3. gw[o] \in GatewayOrders /\ now \in Nat
    BY DEF FullInv, IInv, WorldInv, WorldTypeOK
  <2> QED
    BY <2>2, <2>3, OverIsLate
<1> QED
  BY <1>1, ClosingTimeInvariant, PTL DEF ClosingSpec, GraceAfterClose

-----------------------------------------------------------------------------
(* The closer implements TopUp. *)

\* What is known while the closer runs: with slow calls nothing of the time.
Known == IInv /\ (~ SlowCalls => FullInv)

PromiseStep == [Promise!TopUpNext]_(Promise!topUpVars)

\* A step that changes at most the payment of order o, and so on: the others
\* are as they were.
MoneyAsWas == \A x \in Orders : gw'[x].captured = gw[x].captured
WalletAsWas == \A x \in Orders : wallet'[x] = wallet[x]
NoticeAsWas == \A x \in Orders : orders'[x].notify = orders[x].notify

LEMMA QuietPromise ==
  ASSUME MoneyAsWas, WalletAsWas, NoticeAsWas
  PROVE  PromiseStep
<1>1. UNCHANGED <<MoneyTaken, TopUpState, NoticeState({})>>
  BY Unseen DEF MoneyAsWas, WalletAsWas, NoticeAsWas
<1> QED
  BY <1>1 DEF PromiseStep, Promise!topUpVars

\* A payment is taken; in time, not for a top-up that has expired.
LEMMA PaymentPromise ==
  ASSUME Known, Known', NEW o \in Orders, CustomerPays(o) \/ LatePayment(o)
  PROVE  PromiseStep
<1>1. /\ ~ gw[o].captured
      /\ \E h \in {[gw[o] EXCEPT !.captured = TRUE, !.since = now],
                   [gw[o] EXCEPT !.captured = TRUE]} : GatewayStep(o, h)
  BY DEF CustomerPays, LatePayment
<1>2. gw \in [Orders -> GatewayOrders] /\ gw[o] \in GatewayOrders
  BY DEF Known, IInv, WorldInv, WorldTypeOK
<1>3. /\ \A x \in Orders : x # o => gw'[x].captured = gw[x].captured
      /\ gw'[o].captured = TRUE
      /\ UNCHANGED <<orders, wallet>>
  <2>1. PICK h \in {[gw[o] EXCEPT !.captured = TRUE, !.since = now],
                    [gw[o] EXCEPT !.captured = TRUE]} : GatewayStep(o, h)
    BY <1>1
  <2>2. h.captured = TRUE
    BY <1>2 DEF GatewayOrders
  <2>3. \A x \in Orders : gw'[x] = IF x = o THEN h ELSE gw[x]
    BY <1>2, <2>1 DEF GatewayStep
  <2> QED
    BY <2>1, <2>2, <2>3 DEF GatewayStep
<1>4. MoneyTaken' = [MoneyTaken EXCEPT ![o] = TRUE]
  BY <1>3, MoneyMoves
<1>5. TopUpState' = TopUpState /\ NoticeState({})' = NoticeState({})
  BY <1>3 DEF TopUpState, NoticeState
<1>6. ~ SlowCalls => TopUpState[o] # "expired"
  <2>1. ~ SlowCalls => wallet[o] # "failed"
    BY <1>3 DEF Known, FullInv, TimeInv, Timely, OverAt
  <2>2. wallet[o] \in WalletStates
    BY DEF Known, IInv, WorldInv, WorldTypeOK
  <2> QED
    BY <2>1, <2>2 DEF TopUpState, WalletStates
<1>7. ~ MoneyTaken[o]
  BY <1>1 DEF MoneyTaken
<1>8. Promise!TakeMoney(o)
  BY <1>4, <1>5, <1>6, <1>7 DEF Promise!TakeMoney
<1> QED
  BY <1>8 DEF PromiseStep, Promise!TopUpNext

\* An order is recorded as paid: NewAPI is owed the notification.
LEMMA MarkPaidPromise ==
  ASSUME Known, NEW o \in Orders, NEW b \in BOOLEAN,
         gw[o].captured \/ wallet[o] \in {"credited", "granted"},
         orders' = [orders EXCEPT ![o] = MarkPaid(orders[o], b, now)],
         UNCHANGED <<gw, wallet>>
  PROVE  PromiseStep
<1>1. orders \in [Orders -> Rows] /\ orders[o] \in Rows
  BY DEF Known, IInv, WorldInv, WorldTypeOK
<1>2. \A x \in Orders : orders'[x] = IF x = o THEN MarkPaid(orders[o], b, now) ELSE orders[x]
  BY <1>1
<1>3. MarkPaid(orders[o], b, now).notify =
        IF orders[o].notify = "succeeded" THEN orders[o].notify ELSE "pending"
  BY <1>1 DEF MarkPaid, Rows
<1>4. CASE orders[o].notify = "succeeded"
  <2>1. MoneyAsWas /\ WalletAsWas /\ NoticeAsWas
    BY <1>2, <1>3, <1>4 DEF MoneyAsWas, WalletAsWas, NoticeAsWas
  <2> QED
    BY <2>1, QuietPromise
<1>5. CASE orders[o].notify # "succeeded"
  <2>1. NoticeState({})' = [NoticeState({}) EXCEPT ![o] = "owed"]
    <3>1. orders'[o].notify = "pending"
      BY <1>2, <1>3, <1>5
    <3>2. NoticeState({})' =
            [NoticeState({}) EXCEPT ![o] = NoticeOf(orders'[o].notify, o \in {})]
      BY <1>2, NoticeMoves
    <3>3. NoticeOf("pending", o \in {}) = "owed"
      BY DEF NoticeOf
    <3> QED
      BY <3>1, <3>2, <3>3
  <2>2. MoneyTaken' = MoneyTaken /\ TopUpState' = TopUpState
    BY DEF MoneyTaken, TopUpState
  <2>3. MoneyTaken[o] \/ Promise!Dealt(o)
    <3>1. CASE gw[o].captured
      BY <3>1 DEF MoneyTaken
    <3>2. CASE wallet[o] \in {"credited", "granted"}
      BY <3>2 DEF TopUpState, Promise!Dealt
    <3> QED
      BY <3>1, <3>2
  <2>4. Promise!Owe(o)
    BY <2>1, <2>2, <2>3 DEF Promise!Owe
  <2> QED
    BY <2>4 DEF PromiseStep, Promise!TopUpNext
<1> QED
  BY <1>4, <1>5

\* NewAPI credits the top-up and says so, or says what it did before.
LEMMA DeliveredPromise ==
  ASSUME Known, NEW o \in Orders, Delivered(o)
  PROVE  PromiseStep
<1>1. /\ orders \in [Orders -> Rows] /\ orders[o] \in Rows
      /\ wallet \in [Orders -> WalletStates] /\ wallet[o] \in WalletStates
  BY DEF Known, IInv, WorldInv, WorldTypeOK
<1>2. \A x \in Orders : /\ orders'[x] = IF x = o THEN NotifySucceeded(orders[o]) ELSE orders[x]
                        /\ wallet'[x] = IF x = o THEN Credit(wallet[o]) ELSE wallet[x]
  BY <1>1 DEF Delivered
<1>3. NotifySucceeded(orders[o]).notify = "succeeded"
  BY <1>1, RowOpsStatus
<1>4. NoticeState({})' = [NoticeState({}) EXCEPT ![o] = "answered"]
  <2>1. orders'[o].notify = "succeeded"
    BY <1>2, <1>3
  <2>2. NoticeState({})' =
          [NoticeState({}) EXCEPT ![o] = NoticeOf(orders'[o].notify, o \in {})]
    BY <1>2, NoticeMoves
  <2>3. NoticeOf("succeeded", o \in {}) = "answered"
    BY DEF NoticeOf
  <2> QED
    BY <2>1, <2>2, <2>3
<1>5. NoticeState({})[o] # "none" /\ MoneyTaken' = MoneyTaken
  BY DEF Delivered, NoticeState, MoneyTaken
<1>6. CASE wallet[o] = "pending"
  <2>1. gw[o].captured
    BY <1>6 DEF Delivered, Known, IInv, WorldInv, PendingIsPaid, PaidBacked
  <2>2. wallet'[o] = "credited"
    BY <1>2, <1>6 DEF Credit
  <2>3. TopUpState' = [TopUpState EXCEPT ![o] = TopUpOf(wallet'[o])]
    BY <1>2, TopUpMoves
  <2>4. TopUpOf("credited") = "credited"
    BY DEF TopUpOf
  <2>5. Promise!CreditTopUp(o)
    <3>1. MoneyTaken[o] /\ TopUpState[o] = "open"
      BY <1>6, <2>1 DEF MoneyTaken, TopUpState
    <3> QED
      BY <1>4, <1>5, <2>2, <2>3, <2>4, <3>1 DEF Promise!CreditTopUp
  <2> QED
    BY <2>5 DEF PromiseStep, Promise!TopUpNext
<1>7. CASE wallet[o] # "pending"
  <2>1. \A x \in Orders : wallet'[x] = wallet[x]
    BY <1>2, <1>7 DEF Credit
  <2>2. TopUpState' = TopUpState
    BY <2>1 DEF TopUpState
  <2>3. TopUpState[o] # "open"
    BY <1>1, <1>7 DEF TopUpState, WalletStates
  <2>4. Promise!Answer(o)
    BY <1>4, <1>5, <2>2, <2>3 DEF Promise!Answer
  <2> QED
    BY <2>4 DEF PromiseStep, Promise!TopUpNext
<1> QED
  BY <1>6, <1>7

\* A call to the wallet expires the top-up of the order at hand, or is seen by
\* nobody; in time, only where no money was taken.
LEMMA ExpirePromise ==
  ASSUME Known, ExpireAnswered \/ ExpireFails
  PROVE  PromiseStep
<1>1. closer.pc = "expire" /\ UNCHANGED <<orders, gw>> /\ [ClosingNext]_closingVars
  BY DEF ExpireAnswered, ExpireFails, ClosingNext, CloserStep
<1>2. current \in Orders
  BY <1>1, AtHand DEF Known
<1>3. MoneyAsWas /\ NoticeAsWas
  BY <1>1 DEF MoneyAsWas, NoticeAsWas
<1>4. \A x \in Orders : wallet'[x] = wallet[x] \/ WalletExpires(x)
  BY ExpireMoves DEF Known
<1>5. CASE WalletAsWas
  BY <1>3, <1>5, QuietPromise
<1>6. CASE ~ WalletAsWas
  <2>1. WalletExpires(current) /\ \A x \in Orders : x # current => wallet'[x] = wallet[x]
    BY <1>4, <1>6 DEF WalletAsWas, WalletExpires
  <2>2. TopUpState' = [TopUpState EXCEPT ![current] = "expired"]
    <3>1. TopUpState' = [TopUpState EXCEPT ![current] = TopUpOf(wallet'[current])]
      BY <1>2, <2>1, TopUpMoves
    <3>2. TopUpOf("failed") = "expired"
      BY DEF TopUpOf
    <3> QED
      BY <2>1, <3>1, <3>2 DEF WalletExpires
  <2>3. TopUpState[current] = "open"
    BY <1>2, <2>1 DEF WalletExpires, TopUpState
  <2>4. ~ SlowCalls => ~ MoneyTaken[current]
    BY <1>1, <1>2 DEF Known, FullInv, TimeInv, CloserInTime, OverAt, MoneyTaken
  <2>5. MoneyTaken' = MoneyTaken /\ NoticeState({})' = NoticeState({})
    BY <1>1 DEF MoneyTaken, NoticeState
  <2>6. Promise!Expire(current)
    BY <2>2, <2>3, <2>4, <2>5 DEF Promise!Expire
  <2> QED
    BY <1>2, <2>6 DEF PromiseStep, Promise!TopUpNext
<1> QED
  BY <1>5, <1>6

LEMMA GrantPromise ==
  ASSUME Known, NEW o \in Orders, AdministratorGrants(o)
  PROVE  PromiseStep
<1>1. wallet \in [Orders -> WalletStates]
  BY DEF Known, IInv, WorldInv, WorldTypeOK
<1>2. \A x \in Orders : wallet'[x] = IF x = o THEN "granted" ELSE wallet[x]
  BY <1>1 DEF AdministratorGrants
<1>3. TopUpState' = [TopUpState EXCEPT ![o] = "granted"]
  <2>1. TopUpState' = [TopUpState EXCEPT ![o] = TopUpOf(wallet'[o])]
    BY <1>2, TopUpMoves
  <2>2. TopUpOf("granted") = "granted"
    BY DEF TopUpOf
  <2> QED
    BY <1>2, <2>1, <2>2
<1>4. MoneyTaken' = MoneyTaken /\ NoticeState({})' = NoticeState({})
  BY DEF AdministratorGrants, MoneyTaken, NoticeState
<1>5. TopUpState[o] = "open"
  BY DEF AdministratorGrants, TopUpState
<1>6. Promise!Grant(o)
  BY <1>3, <1>4, <1>5 DEF Promise!Grant
<1> QED
  BY <1>6 DEF PromiseStep, Promise!TopUpNext

\* Every other step is seen by nobody, unless it records an order as paid.
LEMMA WorldPromise ==
  ASSUME Known, Known', WorldStep
  PROVE  PromiseStep
<1>1. PICK o \in Orders : \/ GatewaySends(o)
                          \/ CustomerPays(o)
                          \/ LatePayment(o)
                          \/ GatewayConfirms(o)
                          \/ GatewayFails(o)
                          \/ GatewayExpires(o)
                          \/ AdministratorGrants(o)
                          \/ HandleJeepayNotify(o)
  BY DEF WorldStep
<1>2. gw \in [Orders -> GatewayOrders] /\ gw[o] \in GatewayOrders /\ now \in Nat
  BY DEF Known, IInv, WorldInv, WorldTypeOK
<1>3. ASSUME NEW h, GatewayStep(o, h), h.captured = gw[o].captured
      PROVE  PromiseStep
  <2>1. MoneyAsWas /\ WalletAsWas /\ NoticeAsWas
    BY <1>2, <1>3 DEF GatewayStep, MoneyAsWas, WalletAsWas, NoticeAsWas
  <2> QED
    BY <2>1, QuietPromise
<1>4. CASE GatewaySends(o)
  <2>1. [gw[o] EXCEPT !.state = StateIng].captured = gw[o].captured
    BY <1>2 DEF GatewayOrders
  <2> QED
    BY <1>3, <1>4, <2>1 DEF GatewaySends
<1>5. CASE CustomerPays(o) \/ LatePayment(o)
  BY <1>5, PaymentPromise
<1>6. CASE GatewayConfirms(o)
  <2>1. [gw[o] EXCEPT !.state = StateSuccess].captured = gw[o].captured
    BY <1>2 DEF GatewayOrders
  <2> QED
    BY <1>3, <1>6, <2>1 DEF GatewayConfirms
<1>7. CASE GatewayFails(o)
  <2>1. [gw[o] EXCEPT !.state = StateFail].captured = gw[o].captured
    BY <1>2 DEF GatewayOrders
  <2> QED
    BY <1>3, <1>7, <2>1 DEF GatewayFails
<1>8. CASE GatewayExpires(o)
  <2>1. Closed(gw[o], now).captured = gw[o].captured
    BY <1>2, ClosedFacts
  <2> QED
    BY <1>3, <1>8, <2>1 DEF GatewayExpires
<1>9. CASE AdministratorGrants(o)
  BY <1>9, GrantPromise
<1>10. CASE HandleJeepayNotify(o)
  <2>1. gw[o].captured
    BY <1>10 DEF HandleJeepayNotify, Known, IInv, WorldInv, SuccessIsCaptured
  <2> QED
    BY <1>10, <2>1, MarkPaidPromise DEF HandleJeepayNotify
<1> QED
  BY <1>1, <1>4, <1>5, <1>6, <1>7, <1>8, <1>9, <1>10

\* A step of the closer that records an order as paid, or writes what nobody
\* outside sees.
LEMMA CloserPromise ==
  ASSUME Known, CloserStep
  PROVE  PromiseStep
<1>1. CASE ExpireAnswered \/ ExpireFails
  BY <1>1, ExpirePromise
<1>2. CASE CloseAnswered \/ CloseUnanswered
  <2>1. PICK answer \in CloseAnswers(gw[current], now) :
          /\ gw' = [gw EXCEPT ![current] = answer.order]
          /\ UNCHANGED <<now, orders, wallet>>
    BY <1>2, CloseAnsweredFacts DEF Known
  <2>2. closer.pc # "idle"
    BY <1>2 DEF CloseAnswered, CloseUnanswered
  <2>3. /\ gw[current] \in GatewayOrders /\ now \in Nat /\ gw \in [Orders -> GatewayOrders]
    BY <2>2, AtHand DEF Known, IInv, WorldInv, WorldTypeOK
  <2>4. answer.order.captured = gw[current].captured
    BY <2>3, CloseAnswersFacts
  <2>5. MoneyAsWas /\ WalletAsWas /\ NoticeAsWas
    BY <2>1, <2>3, <2>4 DEF MoneyAsWas, WalletAsWas, NoticeAsWas
  <2> QED
    BY <2>5, QuietPromise
<1>3. ASSUME closer.pc # "idle", NEW r, WriteRow(r), r.notify = orders[current].notify
      PROVE  PromiseStep
  <2>1. orders \in [Orders -> Rows] /\ current \in Orders
    BY <1>3, AtHand DEF Known, IInv, WorldInv, WorldTypeOK
  <2>2. MoneyAsWas /\ WalletAsWas /\ NoticeAsWas
    BY <1>3, <2>1 DEF WriteRow, MoneyAsWas, WalletAsWas, NoticeAsWas
  <2> QED
    BY <2>2, QuietPromise
<1>4. CASE CloserMarksPaid
  <2>1. closer.pc = "paid" /\ WriteRow(MarkPaid(orders[current], TRUE, now))
    BY <1>4 DEF CloserMarksPaid
  <2>2. current \in Orders /\ gw[current].captured
    BY <2>1, AtHand DEF Known, IInv, CloserInv
  <2> QED
    BY <2>1, <2>2, MarkPaidPromise DEF WriteRow
<1>5. CASE CloserBlocks
  <2>1. closer.pc = "block" /\ WriteRow(BlockExpire(orders[current]))
    BY <1>5 DEF CloserBlocks
  <2>2. orders[current] \in Rows
    BY <2>1, AtHand DEF Known
  <2> QED
    BY <1>3, <2>1, <2>2, RowOpsStatus
<1>6. CASE RecordChannelClosed
  <2>1. closer.pc = "record" /\ WriteRow(SetChannelClosed(orders[current], closer.at))
    BY <1>6 DEF RecordChannelClosed
  <2>2. orders[current] \in Rows /\ closer.at \in Nat
    BY <2>1, AtHand DEF Known
  <2> QED
    BY <1>3, <2>1, <2>2, RowOpsStatus
<1>7. CASE Settle
  <2>1. closer.pc = "settle" /\ WriteRow(Settled(orders[current]))
    BY <1>7 DEF Settle
  <2>2. orders[current] \in Rows /\ current \in Orders
    BY <2>1, AtHand DEF Known
  <2>3. CASE closer.result = "success"
    <3>1. Settled(orders[current]) = MarkPaid(orders[current], FALSE, now)
      BY <2>3 DEF Settled
    <3>2. wallet[current] \in {"credited", "granted"}
      BY <2>1, <2>3 DEF Known, IInv, CloserInv
    <3> QED
      BY <2>1, <2>2, <3>1, <3>2, MarkPaidPromise DEF WriteRow
  <2>4. CASE closer.result # "success"
    <3>1. Settled(orders[current]) \in {MarkFailedIfCreated(orders[current]),
                                        BlockExpire(orders[current]), orders[current]}
      BY <2>4 DEF Settled
    <3>2. Settled(orders[current]).notify = orders[current].notify
      BY <2>2, <3>1, RowOpsStatus
    <3> QED
      BY <1>3, <2>1, <3>2
  <2> QED
    BY <2>3, <2>4
<1>8. CASE CloserTick \/ SkipOrder \/ QueryFails \/ QueryAnswered \/ ReadAgain \/ StoreFails
  <2>1. MoneyAsWas /\ WalletAsWas /\ NoticeAsWas
    BY <1>8 DEF CloserTick, SkipOrder, QueryFails, QueryAnswered, ReadAgain, StoreFails,
       worldVars, MoneyAsWas, WalletAsWas, NoticeAsWas
  <2> QED
    BY <2>1, QuietPromise
<1> QED
  BY <1>1, <1>2, <1>4, <1>5, <1>6, <1>7, <1>8 DEF CloserStep

LEMMA NextPromise ==
  ASSUME Known, Known', [ClosingNext]_closingVars
  PROVE  PromiseStep
<1>1. CASE CloserStep
  BY <1>1, CloserPromise
<1>2. CASE WorldStep
  BY <1>2, WorldPromise
<1>3. CASE \E o \in Orders : Delivered(o)
  BY <1>3, DeliveredPromise
<1>4. CASE TimePasses \/ UNCHANGED closingVars
  <2>1. MoneyAsWas /\ WalletAsWas /\ NoticeAsWas
    BY <1>4 DEF TimePasses, Tick, closingVars, MoneyAsWas, WalletAsWas, NoticeAsWas
  <2> QED
    BY <2>1, QuietPromise
<1>5. CASE Restart
  <2>1. orders \in [Orders -> Rows]
    BY DEF Known, IInv, WorldInv, WorldTypeOK
  <2>2. MoneyAsWas /\ WalletAsWas /\ NoticeAsWas
    BY <1>5, <2>1, MigrateKeeps DEF Restart, Reopen, MoneyAsWas, WalletAsWas, NoticeAsWas
  <2> QED
    BY <2>2, QuietPromise
<1> QED
  BY <1>1, <1>2, <1>3, <1>4, <1>5 DEF ClosingNext

LEMMA InitPromise ==
  ASSUME ClosingInit
  PROVE  Promise!TopUpInit
<1>1. WorldTypeOK
  BY InitInv DEF IInv, WorldInv
<1>2. Promise!TopUpType
  BY <1>1, ViewTypes DEF Promise!TopUpType, Promise!TopUpStates, Promise!Notices
<1>3. \A o \in Orders : wallet[o] \in {"pending", "missing", "not_epay"}
  BY WorldInitInv DEF ClosingInit
<1>4. \A o \in Orders : orders[o].notify = "none"
  BY WorldInitInv DEF ClosingInit
<1>5. \A o \in Orders : TopUpState[o] \in {"open", "foreign"} /\ NoticeState({})[o] = "none"
  BY <1>3, <1>4 DEF TopUpState, NoticeState
<1> QED
  BY <1>2, <1>5 DEF Promise!TopUpInit

\* The closer keeps the promise of TopUp: if its delays are kept, no top-up
\* expires that was or will be paid; and without any assumption on time, what is
\* credited was paid and owed, and what was answered was dealt with.
THEOREM ClosingPromiseKept == ASSUME SlowCalls \/ InTime PROVE ClosingSpec => PromiseKept
<1>1. ClosingInit => Promise!TopUpInit
  BY InitPromise
<1>2. Known /\ Known' /\ [ClosingNext]_closingVars => PromiseStep
  BY NextPromise
<1>3. ClosingInit => Known
  BY InitInv, InitInTime DEF Known, InTime
<1>4. Known /\ [ClosingNext]_closingVars => Known'
  BY NextInv, NextInTime DEF Known, StepGoal, InTime
<1> QED
  BY <1>1, <1>2, <1>3, <1>4, PTL DEF ClosingSpec, PromiseKept, PromiseStep, Promise!TopUpSpec

=============================================================================
