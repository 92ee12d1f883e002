------------------------------ MODULE Closing -------------------------------
(***************************************************************************)
(* The closer (internal/app/close.go): one goroutine that takes a batch of *)
(* unpaid orders near or past their deadline and, order by order, queries  *)
(* the gateway, closes the order there, waits, and expires the top-up in   *)
(* the wallet.                                                             *)
(*                                                                         *)
(* Every call to the gateway, the wallet or the store is a step of its     *)
(* own, so payments, notifications and restarts fall between any two.  The *)
(* rows of the batch are copies made by DueCloses, and the time of every   *)
(* decision is the time the tick started: closer.at.                       *)
(***************************************************************************)
EXTENDS Payments

CONSTANTS CloseBatch,  \* closeBatch: rows per tick, 20
          SlowCalls    \* may time pass while a tick is running?

ASSUME ClosingAssumption == /\ CloseBatch \in Nat \ {0}
                            /\ SlowCalls \in BOOLEAN

VARIABLE closer

closingVars == <<now, orders, gw, wallet, restarts, closer>>

\* Where the tick is: between ticks; about to query the gateway for the
\* first order of the batch; about to record it as paid; to block it; to
\* ask the gateway to close it; to record the channel as closed; to read the
\* row again; to expire the top-up; to record what the wallet answered.
ClosePCs == {"idle", "query", "paid", "block", "close", "record", "fresh", "expire", "settle"}

ExpireResults == {"none", "expired", "failed", "success", "missing", "not_epay"}

Idle == [pc |-> "idle", at |-> 0, batch |-> <<>>, plan |-> NoPlan, result |-> "none"]

Closers == [pc : ClosePCs, at : Nat, batch : Seq(Fetched), plan : Plans, result : ExpireResults]

ClosingInit == WorldInit /\ closer = Idle

current == Head(closer.batch).order
snapshot == Head(closer.batch).row

\* The closer after the first order of the batch is dealt with.
NextOrder == IF Len(closer.batch) = 1
             THEN Idle
             ELSE [closer EXCEPT !.pc = "query", !.batch = Tail(@),
                                 !.plan = NoPlan, !.result = "none"]

GoTo(pc) == closer' = [closer EXCEPT !.pc = pc]
Leave == closer' = NextOrder

WriteRow(row) == /\ orders' = [orders EXCEPT ![current] = row]
                 /\ UNCHANGED <<now, gw, wallet, restarts>>

-----------------------------------------------------------------------------
(* Tick and one *)

CloserTick ==
  /\ closer.pc = "idle"
  /\ \E batch \in DueCloses(orders, now + CloseLead, CloseBatch) :
       /\ batch # <<>>
       /\ closer' = [Idle EXCEPT !.pc = "query", !.at = now, !.batch = batch]
  /\ UNCHANGED worldVars

step == closeStepOf(snapshot, closer.at)

SkipOrder ==
  /\ closer.pc = "query" /\ step \in {"none", "wait"}
  /\ Leave
  /\ UNCHANGED worldVars

\* Mutant of QueryFails: nothing can be paid that the gateway does not know.
QueryFailsExpires ==
  /\ closer.pc = "query" /\ step \in {"query", "requery"}
  /\ IF gw[current].state = NoOrder THEN GoTo("fresh") ELSE Leave
  /\ UNCHANGED worldVars

\* A query about an order the gateway does not have is an error as well.
QueryFails ==
  /\ closer.pc = "query" /\ step \in {"query", "requery"}
  /\ Leave
  /\ UNCHANGED worldVars

QueryAnswered ==
  /\ closer.pc = "query" /\ step \in {"query", "requery"}
  /\ gw[current].state # NoOrder
  /\ LET plan == decideQuery(gw[current].state, gw[current].amount, snapshot.amount,
                             step = "requery", closer.at, snapshot.expireAt)
         planned == [closer EXCEPT !.plan = plan]
     IN closer' = CASE plan.markPaid  -> [planned EXCEPT !.pc = "paid"]
                    [] plan.block     -> [planned EXCEPT !.pc = "block"]
                    [] plan.callClose -> [planned EXCEPT !.pc = "close"]
                    [] plan.expire /\ ~ plan.callClose -> [planned EXCEPT !.pc = "fresh"]
                    [] OTHER -> NextOrder
  /\ UNCHANGED worldVars

CloserMarksPaid ==
  /\ closer.pc = "paid"
  /\ WriteRow(MarkPaid(orders[current], TRUE, now))
  /\ Leave

CloserBlocks ==
  /\ closer.pc = "block"
  /\ WriteRow(BlockExpire(orders[current]))
  /\ Leave

-----------------------------------------------------------------------------
(* applyClose *)

CloseAnswered ==
  /\ closer.pc = "close"
  /\ \E answer \in CloseAnswers(gw[current], now) :
       LET d == decideClose(answer.kind, closer.plan.ing, closer.at, snapshot.expireAt)
       IN /\ gw' = [gw EXCEPT ![current] = answer.order]
          /\ closer' = CASE d.block  -> [closer EXCEPT !.pc = "block"]
                         [] d.record -> [closer EXCEPT !.pc = "record"]
                         [] d.expire -> [closer EXCEPT !.pc = "fresh"]
                         [] OTHER -> NextOrder
  /\ UNCHANGED <<now, orders, wallet, restarts>>

\* The request may have been carried out although no answer came.
CloseUnanswered ==
  /\ closer.pc = "close"
  /\ \E answer \in CloseAnswers(gw[current], now) :
       gw' = [gw EXCEPT ![current] = answer.order]
  /\ IF expireAfterCloseError(closer.plan) THEN GoTo("fresh") ELSE Leave
  /\ UNCHANGED <<now, orders, wallet, restarts>>

RecordChannelClosed ==
  /\ closer.pc = "record"
  /\ WriteRow(SetChannelClosed(orders[current], closer.at))
  /\ Leave

-----------------------------------------------------------------------------
(* expireWallet *)

ReadAgain ==
  /\ closer.pc = "fresh"
  /\ IF orders[current].status = "created" /\ ~ orders[current].blocked
     THEN GoTo("expire")
     ELSE Leave
  /\ UNCHANGED worldVars

ExpireAnswered ==
  /\ closer.pc = "expire"
  /\ wallet' = [wallet EXCEPT ![current] = ExpireEffect(@)]
  /\ closer' = [closer EXCEPT !.pc = "settle", !.result = ExpireAnswer(wallet[current])]
  /\ UNCHANGED <<now, orders, gw, restarts>>

\* The two second timeout, or no wallet configured; the call may have been
\* carried out.
ExpireFails ==
  /\ closer.pc = "expire"
  /\ \E w \in {wallet[current], ExpireEffect(wallet[current])} :
       wallet' = [wallet EXCEPT ![current] = w]
  /\ Leave
  /\ UNCHANGED <<now, orders, gw, restarts>>

\* Mutant of Settled: a top-up that is not there counts as one that failed.
SettledMissing(row) ==
  CASE closer.result \in {"expired", "failed", "missing"} -> MarkFailedIfCreated(row)
    [] closer.result = "success"  -> MarkPaid(row, FALSE, now)
    [] closer.result = "not_epay" -> BlockExpire(row)
    [] OTHER -> row

\* MarkPaid is given the id of the row read again; a known id is never
\* forgotten, so the row keeps what it has.
Settled(row) ==
  CASE closer.result \in {"expired", "failed"} -> MarkFailedIfCreated(row)
    [] closer.result = "success"  -> MarkPaid(row, FALSE, now)
    [] closer.result = "not_epay" -> BlockExpire(row)
    [] OTHER -> row

Settle ==
  /\ closer.pc = "settle"
  /\ WriteRow(Settled(orders[current]))
  /\ Leave

\* A statement that fails is logged and the order left to a later tick.
StoreFails ==
  /\ closer.pc \in {"paid", "block", "record", "fresh", "settle"}
  /\ Leave
  /\ UNCHANGED worldVars

CloserStep == \/ CloserTick \/ SkipOrder \/ QueryFails \/ QueryAnswered
              \/ CloserMarksPaid \/ CloserBlocks
              \/ CloseAnswered \/ CloseUnanswered \/ RecordChannelClosed
              \/ ReadAgain \/ ExpireAnswered \/ ExpireFails \/ Settle \/ StoreFails

-----------------------------------------------------------------------------
(* The specification.  Delivered stands for all that module Delivery does  *)
(* for one order: the notification reaches NewAPI and is recorded.         *)

Delivered(o) ==
  /\ orders[o].notify = "pending" /\ "success" \in CreditAnswers(wallet[o])
  /\ wallet' = [wallet EXCEPT ![o] = Credit(@)]
  /\ orders' = [orders EXCEPT ![o] = NotifySucceeded(@)]
  /\ UNCHANGED <<now, gw, restarts>>

TimePasses == /\ SlowCalls \/ closer.pc = "idle"
              /\ Tick

\* A crash loses the tick that was running; nothing of it is persisted.
Restart == Reopen /\ closer' = Idle

ClosingNext == \/ CloserStep
               \/ WorldStep /\ UNCHANGED closer
               \/ (\E o \in Orders : Delivered(o)) /\ UNCHANGED closer
               \/ TimePasses /\ UNCHANGED closer
               \/ Restart

ClosingSpec == ClosingInit /\ [][ClosingNext]_closingVars

\* Fairness.  The closer and the clock never stop.  Calls and statements may
\* fail, but not every time: a query, an expiry, a write or a fresh read that
\* is tried again and again succeeds once.  The gateway confirms payments and
\* closes what has expired by itself; close requests may fail for ever.
Fairness ==
  /\ WF_closingVars(CloserStep)
  /\ WF_closingVars(TimePasses /\ UNCHANGED closer)
  /\ \A o \in Orders :
       /\ WF_closingVars((GatewayConfirms(o) \/ GatewayExpires(o)) /\ UNCHANGED closer)
       /\ SF_closingVars(QueryAnswered /\ current = o)
       /\ SF_closingVars(CloserMarksPaid /\ current = o)
       /\ SF_closingVars(CloserBlocks /\ current = o)
       /\ SF_closingVars(RecordChannelClosed /\ current = o)
       /\ SF_closingVars(ReadAgain /\ current = o)
       /\ SF_closingVars(ExpireAnswered /\ current = o)
       /\ SF_closingVars(Settle /\ current = o)

ClosingFairSpec == ClosingSpec /\ Fairness

-----------------------------------------------------------------------------
(* Properties *)

\* Every variable keeps its type.
ClosingTypeOK == WorldTypeOK /\ closer \in Closers

\* A top-up the closer expired belongs to an order nobody has paid: neither a
\* payment under way when the channel was closed nor one made up to the
\* gateway's own deadline is missed (close_test.go:73, a paid order must not
\* have its top-up closed).
NoExpireOfPaid ==
  \A o \in Orders : wallet[o] = "failed" => ~ gw[o].captured

\* An order is recorded as failed only when the wallet has confirmed that the
\* top-up can no longer be credited (expireWallet; close_test.go:113).
FailedOnlyAfterWallet ==
  \A o \in Orders : orders[o].status = "failed" => wallet[o] = "failed"

\* The closer expires a top-up only for an order with a deadline, not taken
\* out of its hands by BlockExpire, and only after closing the channel or
\* after the deadline and MissedGrace (closeStepOf, decideQuery, decideClose).
ExpireIsDue ==
  [][\A o \in Orders : wallet[o] = "pending" /\ wallet'[o] = "failed" =>
       /\ orders[o].expireAt > 0 /\ ~ orders[o].blocked
       /\ orders[o].closedAt > 0 \/ now >= orders[o].expireAt + MissedGrace]_wallet

\* Once the closer has closed the channel it leaves the top-up alone until
\* ChannelGrace after the channel ceased to take payments (close_test.go:105,
\* not within two minutes).
GraceAfterClose ==
  [][\A o \in Orders :
       /\ wallet[o] = "pending" /\ wallet'[o] = "failed"
       /\ orders[o].closedAt > 0
       => now >= gw[o].since + ChannelGrace]_wallet

\* The closer keeps what the adapter promises about every top-up: module TopUp,
\* read off the gateway order, the wallet and notify_status.  Time may pass in
\* the middle of a tick only where nothing is promised of the delays.
Promise == INSTANCE TopUp WITH money  <- MoneyTaken, topup <- TopUpState,
                               notice <- NoticeState({}), OnTime <- ~ SlowCalls

PromiseKept == Promise!TopUpSpec

\* The channel was closed so late that the bounded clock stops within its
\* ChannelGrace: such an order is left out of DueIsResolved.
OutOfTime(o) == orders[o].closedAt > MaxTime - ChannelGrace

\* Every unpaid order with a deadline, known to the gateway and to the wallet,
\* is in the end paid, failed, or handed to a person by BlockExpire (README:
\* unpaid orders are closed from 90 seconds before the deadline).
DueIsResolved ==
  \A o \in Orders :
    (/\ orders[o].status = "created" /\ orders[o].expireAt > 0
     /\ gw[o].state # NoOrder /\ wallet[o] # "missing")
    ~> (orders[o].status # "created" \/ orders[o].blocked \/ OutOfTime(o))
=============================================================================
