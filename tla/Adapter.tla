------------------------------ MODULE Adapter -------------------------------
(***************************************************************************)
(* The adapter as cmd/adapter/main.go starts it: the notification worker   *)
(* and the closer as goroutines, submissions and cashier pages as HTTP     *)
(* requests, all over one orders table.  Closing, Delivery and Checkout    *)
(* are instantiated with the state they share; what each of them says of   *)
(* the others by an external action (Delivered, ExpiredUnpaid) or by its   *)
(* initial rows is here done by the others.                                *)
(*                                                                         *)
(* A run starts with an empty table, but for orders that an earlier        *)
(* process has recorded as paid and not yet notified, and whose top-ups    *)
(* were completed by hand meanwhile.                                       *)
(***************************************************************************)
EXTENDS Payments

CONSTANTS CloseBatch, SlowCalls,                         \* see Closing
          Worker, Pollers, MaxTry, PollTry,              \* see Delivery
          NotifyBatch, BackoffStep, BackoffCap, AttemptCap,
          Submitters, OrderTTL,                          \* see Checkout
          Queued,    \* orders recorded as paid by an earlier process
          Silent,    \* orders whose submission names no notify_url
          SubmitFor, \* how long after it was made an order is submitted again
          OrdersBy   \* bound: no order is made after this time

\* The last six lines are the assumptions of the three components, which an
\* instance does not bring along.
ASSUME AdapterAssumption == /\ Queued \subseteq Orders
                            /\ Silent \subseteq Orders
                            /\ SubmitFor \in Nat /\ OrdersBy \in Nat
                            /\ CloseBatch \in Nat \ {0} /\ SlowCalls \in BOOLEAN
                            /\ Worker \notin Pollers
                            /\ {MaxTry, PollTry, NotifyBatch, AttemptCap} \subseteq Nat \ {0}
                            /\ BackoffStep \in Nat /\ BackoffCap \in Nat
                            /\ OrderTTL \in Nat \ {0}
                            /\ Orders # {} /\ Amounts # {}

VARIABLES closer, job, silent, submit

adapterVars == <<now, orders, gw, wallet, restarts, closer, job, silent, submit>>

Close == INSTANCE Closing
Notify == INSTANCE Delivery
Submit == INSTANCE Checkout

NoJobs == [d \in Notify!Deliverers |-> Notify!NoJob]
NoRequests == [s \in Submitters |-> Submit!NoRequest]

AnAmount == CHOOSE a \in Amounts : TRUE
NewRow == Insert(AnAmount, StartTime)

QueuedRow == [MarkPaid(NewRow, TRUE, StartTime) EXCEPT
                !.payData = TRUE, !.expireAt = StartTime + OrderTTL]

AdapterInit ==
  /\ now = StartTime /\ restarts = 0
  /\ orders = [o \in Orders |-> IF o \in Queued THEN QueuedRow ELSE Submit!Absent(NewRow)]
  /\ gw = [o \in Orders |->
             [state    |-> IF o \in Queued THEN StateSuccess ELSE NoOrder,
              amount   |-> AnAmount,
              expiry   |-> IF o \in Queued THEN StartTime + OrderTTL ELSE 0,
              captured |-> o \in Queued,
              since    |-> IF o \in Queued THEN StartTime ELSE 0]]
  /\ wallet = [o \in Orders |-> IF o \in Queued THEN "granted" ELSE "pending"]
  /\ closer = Close!Idle /\ job = NoJobs /\ silent = Silent /\ submit = NoRequests

-----------------------------------------------------------------------------
CloserSteps == Close!CloserStep /\ UNCHANGED <<job, silent, submit>>

DeliverySteps == Notify!DeliveryStep /\ UNCHANGED <<closer, submit>>

\* NewAPI's page submits an order when it is made, and again soon after.
InItsTime(s) ==
  submit[s].pc = "idle" =>
    /\ submit'[s].pc = "insert" => now <= OrdersBy
    /\ submit'[s].pc = "deadline" => now <= orders[submit'[s].order].createdAt + SubmitFor

Submissions ==
  /\ \E s \in Submitters : Submit!SubmitStep(s) /\ InItsTime(s)
  /\ UNCHANGED <<closer, job, silent>>

AtRest == closer.pc = "idle" /\ \A s \in Submitters : submit[s].pc = "idle"

AdapterTick == /\ SlowCalls \/ AtRest
               /\ Tick
               /\ UNCHANGED <<closer, job, silent, submit>>

\* A stop or a crash loses what every goroutine and every request was doing.
AdapterRestart == /\ Reopen
                  /\ closer' = Close!Idle /\ job' = NoJobs /\ submit' = NoRequests
                  /\ UNCHANGED silent

AdapterNext == \/ CloserSteps
               \/ DeliverySteps
               \/ Submissions
               \/ WorldStep /\ UNCHANGED <<closer, job, silent, submit>>
               \/ AdapterTick
               \/ AdapterRestart

AdapterSpec == AdapterInit /\ [][AdapterNext]_adapterVars

-----------------------------------------------------------------------------
(* Properties *)

\* Every variable keeps its type.
AdapterTypeOK == /\ WorldTypeOK
                 /\ closer \in Close!Closers
                 /\ job \in [Notify!Deliverers -> Notify!Jobs]
                 /\ silent \subseteq Orders
                 /\ submit \in [Submitters -> Submit!Requests]

\* Whatever the components do to one another, the adapter keeps what module
\* TopUp promises of every top-up, when its calls are quick against the delays
\* of the closer.
Promise == INSTANCE TopUp WITH money  <- MoneyTaken, topup <- TopUpState,
                               notice <- NoticeState(silent), OnTime <- ~ SlowCalls

PromiseKept == Promise!TopUpSpec

\* No order is placed at the gateway once its top-up has been expired: the
\* customer would pay for what can no longer be credited.  The closer leaves an
\* order the gateway does not know alone, since a submission interrupted before
\* UnifiedOrder may be repeated (Closer.one, Submit).
NoOrderForExpired ==
  [][\A o \in Orders :
       gw[o].state = NoOrder /\ gw'[o].state # NoOrder => wallet[o] # "failed"]_gw
=============================================================================
