------------------------------ MODULE Retries -------------------------------
(***************************************************************************)
(* How often the adapter posts a notification that fails.  The row keeps   *)
(* the time of the next attempt and the count of the attempts made, and    *)
(* other parts write them too: MarkPaid (internal/store/store.go) makes    *)
(* the notification due at once.  What a retry has to wait for is          *)
(* therefore counted here from the failed attempt itself, which a history  *)
(* variable beside module Adapter remembers.                               *)
(***************************************************************************)
EXTENDS Adapter

\* tried[o].at        when the last failed attempt for o was recorded, or 0
\* tried[o].reported  has MarkPaid queued the notification again since
VARIABLE tried

retriesVars == <<adapterVars, tried>>

NeverTried == [at |-> 0, reported |-> FALSE]

RetriesInit == AdapterInit /\ tried = [o \in Orders |-> NeverTried]

FailureRecorded(o) ==
  Notify!Record(Worker) /\ ~ job[Worker].answered /\ Notify!subject(Worker) = o

ReportRecorded(o) ==
  /\ orders'[o] # orders[o]
  /\ \E known \in BOOLEAN : orders'[o] = MarkPaid(orders[o], known, now)

Remembered(o) ==
  CASE FailureRecorded(o) -> [at |-> now, reported |-> FALSE]
    [] ~ FailureRecorded(o) /\ ReportRecorded(o) -> [tried[o] EXCEPT !.reported = TRUE]
    [] OTHER -> tried[o]

RetriesNext == AdapterNext /\ tried' = [o \in Orders |-> Remembered(o)]

RetriesSpec == RetriesInit /\ [][RetriesNext]_retriesVars

-----------------------------------------------------------------------------
(* Properties *)

\* The worker posts the notification of o.
Posts(o) == /\ job[Worker].pc = "post" /\ job'[Worker].pc = "record"
            /\ Notify!subject(Worker) = o

\* The delay of the last failed attempt for o is over, as far as the bounded
\* clock goes.
DelayOver(o) == now >= Notify!Horizon(tried[o].at + Notify!backoff(orders[o].attempts))

\* A failed attempt is followed by the next one only once its delay is over or
\* the payment has been reported again (backoff and deliver, notify.go; MarkPaid,
\* store.go:299): the copies of the worker's batch are not older than the delay,
\* and no restart, closer or submission makes the row due earlier.
RetriesWait ==
  [][\A o \in Orders :
       Posts(o) /\ tried[o].at > 0 /\ ~ tried[o].reported => DelayOver(o)]_retriesVars

\* A failed attempt is always followed by a wait: 15 seconds after the first
\* one, and longer after each (README:48, notify.go:14).
RetriesAreSpaced ==
  [][\A o \in Orders : Posts(o) /\ tried[o].at > 0 => DelayOver(o)]_retriesVars

\* A notification NewAPI has answered is not owed again: no repeated report of
\* the payment, no closer, no submission and no attempt under way takes it back
\* (MarkPaid's CASE on notify_status, store.go:305).
SuccessIsFinal ==
  [][\A o \in Orders :
       orders[o].notify = "succeeded" => orders'[o].notify = "succeeded"]_orders
=============================================================================
