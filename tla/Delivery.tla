------------------------------ MODULE Delivery ------------------------------
(***************************************************************************)
(* Telling NewAPI of a payment.  Two kinds of process do it with the same  *)
(* function, deliver (internal/app/notify.go), and nothing orders them:    *)
(*                                                                         *)
(*   Worker   the notification loop, which takes the rows that are due;    *)
(*   Pollers  requests of the cashier page for the state of an order       *)
(*            (payStatus, internal/app/http.go), which first ask the       *)
(*            gateway about an unpaid order (confirmFromJeepay,            *)
(*            internal/app/service.go) and then notify at once.            *)
(*                                                                         *)
(* deliver works on the row as it was read: the attempt it records is one  *)
(* more than the count in that copy.                                       *)
(***************************************************************************)
EXTENDS Payments

CONSTANTS Worker,       \* the notification loop
          Pollers,      \* requests of cashier pages
          MaxTry,       \* Worker.MaxTry: 10
          PollTry,      \* the limit payStatus passes to deliver: 10
          NotifyBatch,  \* rows per tick of the worker: 20
          BackoffStep,  \* 15 seconds
          BackoffCap,   \* 10 minutes
          AttemptCap    \* bound: the count of attempts stops here

ASSUME DeliveryAssumption == /\ Worker \notin Pollers
                             /\ MaxTry \in Nat \ {0}
                             /\ PollTry \in Nat \ {0}
                             /\ NotifyBatch \in Nat \ {0}
                             /\ BackoffStep \in Nat
                             /\ BackoffCap \in Nat
                             /\ AttemptCap \in Nat \ {0}

VARIABLES job,    \* job[d]: where a deliverer is, and its copies of rows
          silent  \* orders whose submission named no notify_url

deliveryVars == <<now, orders, gw, wallet, restarts, job, silent>>

Deliverers == {Worker} \union Pollers

\* idle; about to query the gateway; to record a confirmed payment; to read
\* the row again; to post the notification for the first row of the batch;
\* to record its outcome.
JobPCs == {"idle", "query", "mark", "reread", "post", "record"}

NoJob == [pc |-> "idle", batch |-> <<>>, answered |-> FALSE]

Jobs == [pc : JobPCs, batch : Seq(Fetched), answered : BOOLEAN]

DeliveryInit == /\ WorldInit
                /\ job = [d \in Deliverers |-> NoJob]
                /\ silent \in SUBSET Orders

subject(d) == Head(job[d].batch).order
copy(d) == Head(job[d].batch).row

SetJob(d, j) == job' = [job EXCEPT ![d] = j] /\ UNCHANGED silent

\* The job once the first row of the batch is dealt with.
NextJob(d) == IF Len(job[d].batch) = 1
              THEN NoJob
              ELSE [pc |-> "post", batch |-> Tail(job[d].batch), answered |-> FALSE]

Least(a, b) == IF a <= b THEN a ELSE b

backoff(attempt) == Least(attempt * BackoffStep, BackoffCap)

\* A retry due after the bounded clock has stopped is due when it stops.
Horizon(t) == Least(t, MaxTime)

-----------------------------------------------------------------------------
(* The worker's tick *)

WorkerTick ==
  /\ job[Worker].pc = "idle"
  /\ \E batch \in DueNotifies(orders, NotifyBatch, now) :
       /\ batch # <<>>
       /\ SetJob(Worker, [NoJob EXCEPT !.pc = "post", !.batch = batch])
  /\ UNCHANGED worldVars

-----------------------------------------------------------------------------
(* payStatus and confirmFromJeepay *)

\* What payStatus does with the row confirmFromJeepay returned.
Returned(o, row) ==
  IF row.status = "paid" /\ row.notify # "succeeded"
  THEN [pc |-> "post", batch |-> <<[order |-> o, row |-> row]>>, answered |-> FALSE]
  ELSE NoJob

PollRead(d, o) ==
  /\ job[d].pc = "idle" /\ orders[o].status # "absent"
  /\ SetJob(d, IF orders[o].status = "created"
               THEN [pc |-> "query", batch |-> <<[order |-> o, row |-> orders[o]]>>,
                     answered |-> FALSE]
               ELSE Returned(o, orders[o]))
  /\ UNCHANGED worldVars

PollQueryFails(d) ==
  /\ job[d].pc = "query"
  /\ SetJob(d, NoJob)
  /\ UNCHANGED worldVars

\* Mutant of PollQuery: the state of the gateway order is not looked at.
PollQueryAnyState(d) ==
  /\ job[d].pc = "query" /\ gw[subject(d)].state # NoOrder
  /\ SetJob(d, IF gw[subject(d)].amount = copy(d).amount
               THEN [job[d] EXCEPT !.pc = "mark"]
               ELSE NoJob)
  /\ UNCHANGED worldVars

\* Mutant of PollQuery: the amount is not compared.
PollQueryAnyAmount(d) ==
  /\ job[d].pc = "query" /\ gw[subject(d)].state # NoOrder
  /\ SetJob(d, IF gw[subject(d)].state = StateSuccess
               THEN [job[d] EXCEPT !.pc = "mark"]
               ELSE NoJob)
  /\ UNCHANGED worldVars

PollQuery(d) ==
  /\ job[d].pc = "query" /\ gw[subject(d)].state # NoOrder
  /\ SetJob(d, IF /\ gw[subject(d)].state = StateSuccess
                  /\ gw[subject(d)].amount = copy(d).amount
               THEN [job[d] EXCEPT !.pc = "mark"]
               ELSE NoJob)
  /\ UNCHANGED worldVars

PollMark(d) ==
  /\ job[d].pc = "mark"
  /\ orders' = [orders EXCEPT ![subject(d)] = MarkPaid(@, TRUE, now)]
  /\ SetJob(d, [job[d] EXCEPT !.pc = "reread"])
  /\ UNCHANGED <<now, gw, wallet, restarts>>

PollReread(d) ==
  /\ job[d].pc = "reread"
  /\ SetJob(d, Returned(subject(d), orders[subject(d)]))
  /\ UNCHANGED worldVars

-----------------------------------------------------------------------------
(* deliver *)

DeliverSilent(d) ==
  /\ job[d].pc = "post" /\ subject(d) \in silent
  /\ orders' = [orders EXCEPT ![subject(d)] = NotifySucceeded(@)]
  /\ SetJob(d, NextJob(d))
  /\ UNCHANGED <<now, gw, wallet, restarts>>

Outcome(d, answered) ==
  SetJob(d, [job[d] EXCEPT !.pc = "record", !.answered = answered])

\* Mutant of PostLost: an error of the request is taken for an answer.
PostLostUnnoticed(d) ==
  /\ job[d].pc = "post" /\ subject(d) \notin silent
  /\ Outcome(d, TRUE)
  /\ UNCHANGED worldVars

\* The notification never reached NewAPI.
PostLost(d) ==
  /\ job[d].pc = "post" /\ subject(d) \notin silent
  /\ Outcome(d, FALSE)
  /\ UNCHANGED worldVars

\* NewAPI handled it; its answer may still be lost.
PostHandled(d) ==
  /\ job[d].pc = "post" /\ subject(d) \notin silent
  /\ wallet' = [wallet EXCEPT ![subject(d)] = Credit(@)]
  /\ \E answer \in CreditAnswers(wallet[subject(d)]) \union {"lost"} :
       Outcome(d, answer = "success")
  /\ UNCHANGED <<now, orders, gw, restarts>>

Limit(d) == IF d = Worker THEN MaxTry ELSE PollTry

Recorded(d, row) ==
  LET attempts == Least(copy(d).attempts + 1, AttemptCap)
      giveUp == attempts >= Limit(d)
  IN IF job[d].answered
     THEN NotifySucceeded(row)
     ELSE NotifyRetry(row, attempts,
                      IF giveUp THEN 0 ELSE Horizon(now + backoff(attempts)), giveUp)

Record(d) ==
  /\ job[d].pc = "record"
  /\ orders' = [orders EXCEPT ![subject(d)] = Recorded(d, @)]
  /\ SetJob(d, NextJob(d))
  /\ UNCHANGED <<now, gw, wallet, restarts>>

\* A statement that fails ends what was being done for the row; that of a
\* notification there is nobody to send to is not even looked at.
DeliveryStoreFails(d) ==
  /\ \/ job[d].pc \in {"mark", "reread", "record"}
     \/ job[d].pc = "post" /\ subject(d) \in silent
  /\ SetJob(d, IF job[d].pc \in {"post", "record"} THEN NextJob(d) ELSE NoJob)
  /\ UNCHANGED worldVars

Deliver(d) == DeliverSilent(d) \/ PostLost(d) \/ PostHandled(d) \/ Record(d)

PollStep(d) == \/ \E o \in Orders : PollRead(d, o)
               \/ PollQueryFails(d) \/ PollQuery(d) \/ PollMark(d) \/ PollReread(d)

DeliveryStep == \/ WorkerTick
                \/ \E d \in Pollers : PollStep(d)
                \/ \E d \in Deliverers : Deliver(d) \/ DeliveryStoreFails(d)

-----------------------------------------------------------------------------
(* The specification.  ExpiredUnpaid stands for what module Closing does to *)
(* an order in the end.                                                    *)

ExpiredUnpaid(o) ==
  /\ wallet[o] = "pending" /\ ~ gw[o].captured
  /\ gw[o].state \in {StateClosed, StateFail}
  /\ wallet' = [wallet EXCEPT ![o] = "failed"]
  /\ orders' = [orders EXCEPT ![o] = MarkFailedIfCreated(@)]
  /\ UNCHANGED <<now, gw, restarts>>

DeliveryRestart == Reopen /\ job' = [d \in Deliverers |-> NoJob] /\ UNCHANGED silent

DeliveryNext == \/ DeliveryStep
                \/ WorldStep /\ UNCHANGED <<job, silent>>
                \/ (\E o \in Orders : ExpiredUnpaid(o)) /\ UNCHANGED <<job, silent>>
                \/ Tick /\ UNCHANGED <<job, silent>>
                \/ DeliveryRestart

DeliverySpec == DeliveryInit /\ [][DeliveryNext]_deliveryVars

\* The worker and the clock never stop, and a payment page that has begun a
\* delivery ends it.  Nothing is assumed of the calls: each may always fail.
DeliveryFairSpec ==
  /\ DeliverySpec
  /\ WF_deliveryVars(WorkerTick)
  /\ WF_deliveryVars(Tick /\ UNCHANGED <<job, silent>>)
  /\ \A o \in Orders : WF_deliveryVars(GatewayConfirms(o) /\ UNCHANGED <<job, silent>>)
  /\ \A d \in Deliverers : WF_deliveryVars(Deliver(d))
  /\ SF_deliveryVars(Record(Worker))

-----------------------------------------------------------------------------
(* Properties *)

\* Every variable keeps its type.
DeliveryTypeOK == WorldTypeOK /\ job \in [Deliverers -> Jobs] /\ silent \subseteq Orders

\* An order whose notification counts as delivered has left "pending" in the
\* wallet: no payment is written off as notified without NewAPI having dealt
\* with it (deliver, notify.go:85).
NoSilentLoss ==
  \A o \in Orders \ silent : orders[o].notify = "succeeded" => wallet[o] # "pending"

\* The worker, the cashier pages and the notification keep, however they
\* interleave, what module TopUp promises of every top-up; of the delays of the
\* closer nothing is promised here (deliver, payStatus, confirmFromJeepay).
Promise == INSTANCE TopUp WITH money  <- MoneyTaken, topup <- TopUpState,
                               notice <- NoticeState(silent), OnTime <- FALSE

PromiseKept == Promise!TopUpSpec

\* A paid order is credited, or known to be impossible to credit, or given up.
PaidIsAnswered ==
  \A o \in Orders :
    o \notin silent /\ orders[o].status = "paid" ~> (wallet[o] # "pending" \/ orders[o].notify = "failed")
=============================================================================
