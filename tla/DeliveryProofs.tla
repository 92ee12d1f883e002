--------------------------- MODULE DeliveryProofs ---------------------------
(***************************************************************************)
(* What module Delivery keeps for any set of orders, any number of cashier *)
(* pages beside the worker, any retry limits and any batch size.           *)
(*                                                                         *)
(* A deliverer acts on copies: DeliveryIInv adds to the property wanted    *)
(* what of such a copy still holds when it is used.  The amount of an      *)
(* order never changes and an order recorded as paid stays so, so the copy *)
(* may be as old as it likes; and once NewAPI has answered, the top-up has *)
(* left "pending" for good.                                                *)
(***************************************************************************)
EXTENDS Delivery, PaymentsProofs, TLAPS

\* A paid order has a notification: it is owed, answered or given up.
PaidHasNotice == \A o \in Orders : orders[o].status = "paid" => orders[o].notify # "none"

\* What the copies of a deliverer have in common with the tables.
JobAgrees(j, os, g, w, gone) ==
  /\ j.pc # "idle" => j.batch # <<>>
  /\ \A i \in DOMAIN j.batch :
       /\ j.batch[i].row.amount = os[j.batch[i].order].amount
       /\ j.pc \in {"post", "record"} => os[j.batch[i].order].status = "paid"
  /\ j.pc = "mark" =>
       LET o == Head(j.batch).order
       IN g[o].captured /\ g[o].amount = os[o].amount
  /\ j.pc = "record" => Head(j.batch).order \notin gone
  /\ j.pc = "record" /\ j.answered => w[Head(j.batch).order] # "pending"

JobsAgree == \A d \in Deliverers : JobAgrees(job[d], orders, gw, wallet, silent)

DeliveryIInv == /\ WorldInv
                /\ job \in [Deliverers -> Jobs]
                /\ silent \subseteq Orders
                /\ PaidHasNotice
                /\ NoSilentLoss
                /\ JobsAgree

\* What a step from a state of the invariant does.
StepGoal == DeliveryIInv' /\ \A o \in Orders : Stable(o)

-----------------------------------------------------------------------------
(* What is kept of the rows. *)

\* What a step does to the notification of an order.
NoticeMove(o) ==
  \/ orders'[o].notify = orders[o].notify /\ orders'[o].status \in {orders[o].status, "failed"}
  \/ orders'[o].notify \in {"pending", "failed"}
  \/ /\ orders'[o].notify = "succeeded"
     /\ orders[o].notify = "succeeded" \/ o \in silent \/ wallet'[o] # "pending"

\* A statement on one row that keeps its amount, records no order as paid that
\* was not paid for, and notifies only of paid orders.
LEMMA RowWritten ==
  ASSUME WorldInv, NEW o \in Orders, NEW q \in Rows,
         orders' = [orders EXCEPT ![o] = q], UNCHANGED <<now, gw, wallet, restarts>>,
         q.amount = orders[o].amount,
         q.status = "paid" => \/ orders[o].status = "paid"
                              \/ gw[o].captured /\ gw[o].amount = orders[o].amount,
         q.notify = "pending" => q.status = "paid",
         orders[o].status = "paid" => q.status = "paid",
         q.status = "failed" => orders[o].status = "failed"
  PROVE  WorldInv' /\ \A x \in Orders : Stable(x)
<1>1. \A x \in Orders : orders'[x] = IF x = o THEN q ELSE orders[x]
  BY DEF WorldInv, WorldTypeOK
<1>2. WorldTypeOK'
  BY DEF WorldInv, WorldTypeOK
<1>3. (CreditBacked /\ SuccessIsCaptured)'
  BY <1>1 DEF WorldInv, CreditBacked, SuccessIsCaptured
<1>4. PaidBacked'
  BY <1>1 DEF WorldInv, PaidBacked
<1>5. PendingIsPaid'
  BY <1>1 DEF WorldInv, PendingIsPaid
<1>6. \A x \in Orders : Stable(x)
  BY <1>1 DEF Stable
<1> QED
  BY <1>2, <1>3, <1>4, <1>5, <1>6 DEF WorldInv

\* With such moves every paid order keeps a notification, and none counts as
\* delivered that NewAPI has not dealt with.
LEMMA NoticesKept ==
  ASSUME PaidHasNotice, NoSilentLoss, silent' = silent,
         \A x \in Orders : Stable(x) /\ NoticeMove(x)
  PROVE  PaidHasNotice' /\ NoSilentLoss'
<1>1. PaidHasNotice'
  BY DEF PaidHasNotice, NoticeMove
<1>2. NoSilentLoss'
  BY DEF NoSilentLoss, NoticeMove, Stable
<1> QED
  BY <1>1, <1>2

\* A payment notification is the only step around the adapter that writes rows.
LEMMA WorldNotices ==
  ASSUME DeliveryIInv, WorldStep
  PROVE  \A x \in Orders : NoticeMove(x)
<1>1. CASE orders' = orders
  BY <1>1 DEF NoticeMove
<1>2. CASE orders' # orders
  <2>1. PICK o \in Orders : HandleJeepayNotify(o)
    BY <1>2 DEF WorldStep, GatewaySends, CustomerPays, LatePayment, GatewayConfirms,
                GatewayFails, GatewayExpires, GatewayStep, AdministratorGrants
  <2>2. orders \in [Orders -> Rows] /\ now \in Nat
    BY DEF DeliveryIInv, WorldInv, WorldTypeOK
  <2>3. \A x \in Orders :
          orders'[x] = IF x = o THEN MarkPaid(orders[o], TRUE, now) ELSE orders[x]
    BY <2>1, <2>2 DEF HandleJeepayNotify
  <2>4. MarkPaid(orders[o], TRUE, now).notify =
          (IF orders[o].notify = "succeeded" THEN "succeeded" ELSE "pending")
    BY <2>2, MarkPaidNotify
  <2> QED
    BY <2>3, <2>4 DEF NoticeMove
<1> QED
  BY <1>1, <1>2

-----------------------------------------------------------------------------
(* What is kept of the jobs. *)

\* No step of another actor takes anything away from what a copy says.
LEMMA JobKept ==
  ASSUME NEW j \in Jobs, JobAgrees(j, orders, gw, wallet, silent),
         \A x \in Orders : Stable(x)
  PROVE  JobAgrees(j, orders', gw', wallet', silent)
<1> DEFINE b == j.batch
<1>1. b \in Seq(Fetched)
  BY DEF Jobs
<1>2. \A i \in DOMAIN b : b[i] \in Fetched
  BY <1>1
<1>3. \A i \in DOMAIN j.batch : j.batch[i].order \in Orders
  BY <1>2 DEF Fetched
<1>4. j.pc # "idle" => Head(j.batch).order \in Orders
  <2>1. CASE b # <<>>
    <3>1. Head(b) \in Fetched
      BY <1>1, <2>1, HeadFacts
    <3> QED
      BY <3>1 DEF Fetched
  <2>2. CASE b = <<>>
    BY <2>2 DEF JobAgrees
  <2> QED
    BY <2>1, <2>2
<1>5. ASSUME NEW i \in DOMAIN j.batch
      PROVE  /\ j.batch[i].row.amount = orders'[j.batch[i].order].amount
             /\ j.pc \in {"post", "record"} => orders'[j.batch[i].order].status = "paid"
  BY <1>3 DEF JobAgrees, Stable
<1>6. j.pc = "mark" =>
        LET o == Head(j.batch).order
        IN gw'[o].captured /\ gw'[o].amount = orders'[o].amount
  BY <1>4 DEF JobAgrees, Stable
<1>7. j.pc = "record" /\ j.answered => wallet'[Head(j.batch).order] # "pending"
  BY <1>4 DEF JobAgrees, Stable
<1> QED
  BY <1>5, <1>6, <1>7 DEF JobAgrees

\* An idle deliverer knows nothing.
LEMMA NoJobAgrees ==
  ASSUME NEW os, NEW g, NEW w, NEW gone
  PROVE  NoJob \in Jobs /\ JobAgrees(NoJob, os, g, w, gone)
<1>1. NoJob \in Jobs
  BY DEF NoJob, Jobs, JobPCs
<1>2. NoJob.batch = <<>> /\ NoJob.pc = "idle"
  BY DEF NoJob
<1> QED
  BY <1>1, <1>2 DEF JobAgrees

\* The rest of a batch is still a batch of paid orders.
LEMMA NextJobAgrees ==
  ASSUME NEW d \in Deliverers, job[d] \in Jobs, job[d].pc \in {"post", "record"},
         NEW os, NEW g, NEW w, NEW gone, JobAgrees(job[d], os, g, w, gone)
  PROVE  NextJob(d) \in Jobs /\ JobAgrees(NextJob(d), os, g, w, gone)
<1> DEFINE b == job[d].batch
           n == [pc |-> "post", batch |-> Tail(b), answered |-> FALSE]
<1>1. b \in Seq(Fetched) /\ b # <<>>
  BY DEF Jobs, JobAgrees
<1>2. CASE Len(b) = 1
  BY <1>2, NoJobAgrees DEF NextJob
<1>3. CASE Len(b) # 1
  <2>1. /\ Tail(b) \in Seq(Fetched) /\ Tail(b) # <<>>
        /\ \A i \in DOMAIN Tail(b) : i + 1 \in DOMAIN b /\ Tail(b)[i] = b[i + 1]
    BY <1>1, <1>3, TailFacts
  <2>2. n \in Jobs
    BY <2>1 DEF Jobs, JobPCs
  <2>3. \A i \in DOMAIN b : /\ b[i].row.amount = os[b[i].order].amount
                            /\ os[b[i].order].status = "paid"
    BY DEF JobAgrees
  <2>4. \A i \in DOMAIN Tail(b) : /\ Tail(b)[i].row.amount = os[Tail(b)[i].order].amount
                                  /\ os[Tail(b)[i].order].status = "paid"
    BY <2>1, <2>3
  <2>5. n.pc = "post" /\ n.batch = Tail(b)
    OBVIOUS
  <2>6. NextJob(d) = n
    BY <1>3 DEF NextJob
  <2> HIDE DEF n, b
  <2> QED
    BY <2>1, <2>2, <2>4, <2>5, <2>6 DEF JobAgrees
<1> QED
  BY <1>2, <1>3

\* One deliverer goes on to job j and the others keep theirs.
LEMMA JobSet ==
  ASSUME DeliveryIInv, \A x \in Orders : Stable(x),
         NEW d \in Deliverers, NEW j \in Jobs, SetJob(d, j),
         JobAgrees(j, orders', gw', wallet', silent)
  PROVE  /\ job' \in [Deliverers -> Jobs] /\ (silent \subseteq Orders)'
         /\ JobsAgree'
<1>1. job \in [Deliverers -> Jobs] /\ silent \subseteq Orders
  BY DEF DeliveryIInv
<1>2. /\ job' \in [Deliverers -> Jobs] /\ silent' = silent
      /\ \A e \in Deliverers : job'[e] = IF e = d THEN j ELSE job[e]
  BY <1>1 DEF SetJob
<1>3. ASSUME NEW e \in Deliverers
      PROVE  JobAgrees(job'[e], orders', gw', wallet', silent)
  <2>1. job[e] \in Jobs /\ JobAgrees(job[e], orders, gw, wallet, silent)
    BY <1>1 DEF DeliveryIInv, JobsAgree
  <2>2. JobAgrees(job[e], orders', gw', wallet', silent)
    BY <2>1, JobKept
  <2> QED
    BY <1>2, <2>2
<1>4. JobsAgree'
  BY <1>2, <1>3 DEF JobsAgree
<1> QED
  BY <1>1, <1>2, <1>4

\* All deliverers keep their jobs.
LEMMA JobsKept ==
  ASSUME DeliveryIInv, \A x \in Orders : Stable(x), UNCHANGED <<job, silent>>
  PROVE  /\ job' \in [Deliverers -> Jobs] /\ (silent \subseteq Orders)'
         /\ JobsAgree'
<1>1. ASSUME NEW e \in Deliverers
      PROVE  JobAgrees(job[e], orders', gw', wallet', silent)
  BY JobKept DEF DeliveryIInv, JobsAgree
<1>2. JobsAgree'
  BY <1>1 DEF JobsAgree
<1> QED
  BY <1>2 DEF DeliveryIInv

-----------------------------------------------------------------------------
(* The steps. *)

LEMMA Subject ==
  ASSUME DeliveryIInv, NEW d \in Deliverers, job[d].pc # "idle"
  PROVE  /\ job[d] \in Jobs /\ job[d].batch \in Seq(Fetched) /\ job[d].batch # <<>>
         /\ subject(d) \in Orders /\ copy(d) \in Rows
         /\ copy(d).amount = orders[subject(d)].amount
         /\ orders[subject(d)] \in Rows
         /\ job[d].pc \in {"post", "record"} => orders[subject(d)].status = "paid"
         /\ JobAgrees(job[d], orders, gw, wallet, silent)
<1> DEFINE b == job[d].batch
<1>1. job[d] \in Jobs /\ JobAgrees(job[d], orders, gw, wallet, silent)
  BY DEF DeliveryIInv, JobsAgree
<1>2. b \in Seq(Fetched)
  BY <1>1 DEF Jobs
<1>3. b # <<>>
  BY <1>1 DEF JobAgrees
<1>4. 1 \in DOMAIN b /\ Head(b) = b[1] /\ Head(b) \in Fetched
  BY <1>2, <1>3, HeadFacts
<1>5. subject(d) = b[1].order /\ copy(d) = b[1].row
  BY <1>4 DEF subject, copy
<1>6. subject(d) \in Orders /\ copy(d) \in Rows
  BY <1>4, <1>5 DEF Fetched
<1>7. /\ b[1].row.amount = orders[b[1].order].amount
      /\ job[d].pc \in {"post", "record"} => orders[b[1].order].status = "paid"
  BY <1>1, <1>4 DEF JobAgrees
<1>8. orders[subject(d)] \in Rows
  BY <1>6 DEF DeliveryIInv, WorldInv, WorldTypeOK
<1> QED
  BY <1>1, <1>2, <1>3, <1>5, <1>6, <1>7, <1>8

LEMMA StepKeeps ==
  ASSUME DeliveryIInv, WorldInv', \A x \in Orders : Stable(x) /\ NoticeMove(x),
         silent' = silent, job' \in [Deliverers -> Jobs], JobsAgree'
  PROVE  StepGoal
<1>1. PaidHasNotice' /\ NoSilentLoss'
  BY NoticesKept DEF DeliveryIInv
<1>2. silent' \subseteq Orders
  BY DEF DeliveryIInv
<1> QED
  BY <1>1, <1>2 DEF StepGoal, DeliveryIInv

\* A step that touches neither the tables nor the two partners.
LEMMA ReadingStep ==
  ASSUME DeliveryIInv, UNCHANGED worldVars, NEW d \in Deliverers, NEW j \in Jobs,
         SetJob(d, j), JobAgrees(j, orders, gw, wallet, silent)
  PROVE  StepGoal
<1>1. WorldInv'
  BY DEF DeliveryIInv, worldVars, WorldInv, WorldTypeOK, CreditBacked, PaidBacked,
         PendingIsPaid, SuccessIsCaptured
<1>2. \A x \in Orders : Stable(x) /\ NoticeMove(x)
  BY DEF worldVars, Stable, NoticeMove
<1>3. JobAgrees(j, orders', gw', wallet', silent)
  BY DEF worldVars
<1>4. job' \in [Deliverers -> Jobs] /\ JobsAgree' /\ silent' = silent
  BY <1>2, <1>3, JobSet DEF SetJob
<1> QED
  BY <1>1, <1>2, <1>4, StepKeeps

\* A step that writes the row at hand.
LEMMA WritingStep ==
  ASSUME DeliveryIInv, NEW d \in Deliverers, job[d].pc # "idle", NEW q \in Rows,
         orders' = [orders EXCEPT ![subject(d)] = q],
         UNCHANGED <<now, gw, wallet, restarts>>,
         q.amount = orders[subject(d)].amount,
         q.status = "paid",
         orders[subject(d)].status = "paid" \/ job[d].pc = "mark",
         q.notify \in {"pending", "failed"} \/
           (q.notify = "succeeded" /\ (\/ orders[subject(d)].notify = "succeeded"
                                       \/ subject(d) \in silent
                                       \/ wallet[subject(d)] # "pending")),
         NEW j \in Jobs, SetJob(d, j),
         (\A x \in Orders : Stable(x)) => JobAgrees(j, orders', gw', wallet', silent)
  PROVE  StepGoal
<1>1. subject(d) \in Orders /\ WorldInv /\ orders \in [Orders -> Rows]
  BY Subject DEF DeliveryIInv, WorldInv, WorldTypeOK
<1>2. job[d].pc = "mark" =>
        gw[subject(d)].captured /\ gw[subject(d)].amount = orders[subject(d)].amount
  BY Subject DEF JobAgrees, subject
<1>3. WorldInv' /\ \A x \in Orders : Stable(x)
  <2> DEFINE o == subject(d)
  <2> HIDE DEF o
  <2>1. /\ o \in Orders /\ orders' = [orders EXCEPT ![o] = q]
        /\ q.amount = orders[o].amount
        /\ orders[o].status = "paid" \/ (gw[o].captured /\ gw[o].amount = orders[o].amount)
        /\ q.status # "failed"
    BY <1>1, <1>2 DEF o
  <2> QED
    BY <1>1, <2>1, RowWritten
<1>4. \A x \in Orders : NoticeMove(x)
  BY <1>1 DEF NoticeMove
<1>5. job' \in [Deliverers -> Jobs] /\ JobsAgree' /\ silent' = silent
  BY <1>3, JobSet DEF SetJob
<1> QED
  BY <1>3, <1>4, <1>5, StepKeeps

\* The job that starts from the row confirmFromJeepay returns.
LEMMA ReturnedAgrees ==
  ASSUME DeliveryIInv, NEW o \in Orders
  PROVE  /\ Returned(o, orders[o]) \in Jobs
         /\ JobAgrees(Returned(o, orders[o]), orders, gw, wallet, silent)
<1> DEFINE f == [order |-> o, row |-> orders[o]]
           n == [pc |-> "post", batch |-> <<f>>, answered |-> FALSE]
<1>1. f \in Fetched /\ f.order = o /\ f.row = orders[o]
  BY DEF DeliveryIInv, WorldInv, WorldTypeOK, Fetched
<1> HIDE DEF f
<1>2. /\ <<f>> \in Seq(Fetched) /\ <<f>> # <<>>
      /\ \A i \in DOMAIN <<f>> : <<f>>[i] = f
  BY <1>1
<1>3. n \in Jobs
  BY <1>2 DEF Jobs, JobPCs
<1>4. n.pc = "post" /\ n.batch = <<f>>
  OBVIOUS
<1>5. CASE orders[o].status = "paid" /\ orders[o].notify # "succeeded"
  <2>1. Returned(o, orders[o]) = n
    BY <1>5 DEF Returned, f
  <2> HIDE DEF n
  <2>2. JobAgrees(n, orders, gw, wallet, silent)
    BY <1>1, <1>2, <1>4, <1>5 DEF JobAgrees
  <2> QED
    BY <1>3, <2>1, <2>2
<1>6. CASE ~ (orders[o].status = "paid" /\ orders[o].notify # "succeeded")
  BY <1>6, NoJobAgrees DEF Returned
<1> QED
  BY <1>5, <1>6

LEMMA WorkerTickKeeps ==
  ASSUME DeliveryIInv, WorkerTick
  PROVE  StepGoal
<1>1. PICK batch \in DueNotifies(orders, NotifyBatch, now) :
        /\ batch # <<>>
        /\ SetJob(Worker, [NoJob EXCEPT !.pc = "post", !.batch = batch])
  BY DEF WorkerTick
<1>2. orders \in [Orders -> Rows] /\ NotifyBatch \in Nat
  BY DeliveryAssumption DEF DeliveryIInv, WorldInv, WorldTypeOK
<1>3. /\ batch \in Seq(Fetched)
      /\ \A i \in DOMAIN batch : /\ batch[i].row = orders[batch[i].order]
                                 /\ orders[batch[i].order].notify = "pending"
  BY <1>2, DueNotifiesType
<1>4. \A i \in DOMAIN batch : orders[batch[i].order].status = "paid"
  <2>1. \A i \in DOMAIN batch : batch[i] \in Fetched
    BY <1>3
  <2> QED
    BY <1>3, <2>1 DEF DeliveryIInv, WorldInv, PendingIsPaid, Fetched
<1> DEFINE n == [NoJob EXCEPT !.pc = "post", !.batch = batch]
<1>5. n \in Jobs /\ n.pc = "post" /\ n.batch = batch
  BY <1>3 DEF NoJob, Jobs, JobPCs
<1>6. SetJob(Worker, n)
  BY <1>1
<1> HIDE DEF n
<1>7. JobAgrees(n, orders, gw, wallet, silent)
  BY <1>1, <1>3, <1>4, <1>5 DEF JobAgrees
<1>8. Worker \in Deliverers /\ UNCHANGED worldVars
  BY DEF Deliverers, WorkerTick
<1> QED
  BY <1>5, <1>6, <1>7, <1>8, ReadingStep

\* A deliverer gives up what it was about.
LEMMA GivesUp ==
  ASSUME DeliveryIInv, NEW d \in Deliverers, SetJob(d, NoJob), UNCHANGED worldVars
  PROVE  StepGoal
BY NoJobAgrees, ReadingStep

LEMMA PollReadKeeps ==
  ASSUME DeliveryIInv, NEW d \in Pollers, NEW o \in Orders, PollRead(d, o)
  PROVE  StepGoal
<1> DEFINE f == [order |-> o, row |-> orders[o]]
           n == [pc |-> "query", batch |-> <<f>>, answered |-> FALSE]
<1>1. f \in Fetched /\ f.order = o /\ f.row = orders[o]
  BY DEF DeliveryIInv, WorldInv, WorldTypeOK, Fetched
<1> HIDE DEF f
<1>2. /\ <<f>> \in Seq(Fetched) /\ <<f>> # <<>>
      /\ \A i \in DOMAIN <<f>> : <<f>>[i] = f
  BY <1>1
<1>3. n \in Jobs /\ n.pc = "query" /\ n.batch = <<f>>
  BY <1>2 DEF Jobs, JobPCs
<1>4. d \in Deliverers /\ UNCHANGED worldVars
  BY DEF Deliverers, PollRead
<1>5. CASE orders[o].status = "created"
  <2>1. SetJob(d, n)
    BY <1>5 DEF PollRead, f
  <2> HIDE DEF n
  <2>2. JobAgrees(n, orders, gw, wallet, silent)
    BY <1>1, <1>2, <1>3 DEF JobAgrees
  <2> QED
    BY <1>3, <1>4, <2>1, <2>2, ReadingStep
<1>6. CASE orders[o].status # "created"
  <2>1. SetJob(d, Returned(o, orders[o]))
    BY <1>6 DEF PollRead
  <2> QED
    BY <1>4, <2>1, ReturnedAgrees, ReadingStep
<1> QED
  BY <1>5, <1>6

LEMMA PollQueryKeeps ==
  ASSUME DeliveryIInv, NEW d \in Deliverers, PollQuery(d)
  PROVE  StepGoal
<1>1. job[d].pc = "query" /\ UNCHANGED worldVars
  BY DEF PollQuery
<1>2. /\ job[d] \in Jobs /\ subject(d) \in Orders
      /\ copy(d).amount = orders[subject(d)].amount
      /\ JobAgrees(job[d], orders, gw, wallet, silent)
  BY <1>1, Subject
<1>3. CASE gw[subject(d)].state = StateSuccess /\ gw[subject(d)].amount = copy(d).amount
  <2> DEFINE n == [job[d] EXCEPT !.pc = "mark"]
  <2>1. SetJob(d, n)
    BY <1>3 DEF PollQuery
  <2>2. n \in Jobs /\ n.pc = "mark" /\ n.batch = job[d].batch
    BY <1>2 DEF Jobs, JobPCs
  <2> HIDE DEF n
  <2>3. gw[subject(d)].captured /\ gw[subject(d)].amount = orders[subject(d)].amount
    BY <1>2, <1>3 DEF DeliveryIInv, WorldInv, SuccessIsCaptured
  <2>4. JobAgrees(n, orders, gw, wallet, silent)
    BY <1>1, <1>2, <2>2, <2>3 DEF JobAgrees, subject
  <2> QED
    BY <1>1, <2>1, <2>2, <2>4, ReadingStep
<1>4. CASE ~ (gw[subject(d)].state = StateSuccess /\ gw[subject(d)].amount = copy(d).amount)
  BY <1>1, <1>4, GivesUp DEF PollQuery
<1> QED
  BY <1>3, <1>4

LEMMA PollMarkKeeps ==
  ASSUME DeliveryIInv, NEW d \in Deliverers, PollMark(d)
  PROVE  StepGoal
<1> DEFINE q == MarkPaid(orders[subject(d)], TRUE, now)
           n == [job[d] EXCEPT !.pc = "reread"]
<1>1. /\ job[d].pc = "mark" /\ orders' = [orders EXCEPT ![subject(d)] = q]
      /\ SetJob(d, n) /\ UNCHANGED <<now, gw, wallet, restarts>>
  BY DEF PollMark
<1>2. /\ job[d] \in Jobs /\ orders[subject(d)] \in Rows
      /\ JobAgrees(job[d], orders, gw, wallet, silent)
  BY <1>1, Subject
<1>3. now \in Nat
  BY DEF DeliveryIInv, WorldInv, WorldTypeOK
<1>4. /\ q \in Rows /\ q.amount = orders[subject(d)].amount /\ q.status = "paid"
      /\ q.notify = (IF orders[subject(d)].notify = "succeeded" THEN "succeeded" ELSE "pending")
  BY <1>2, <1>3, RowOpsType, RowOpsKeep, RowOpsStatus, MarkPaidNotify
<1>5. n \in Jobs /\ n.pc = "reread" /\ n.batch = job[d].batch
  BY <1>2 DEF Jobs, JobPCs
<1> HIDE DEF q, n
<1>6. ASSUME \A x \in Orders : Stable(x)
      PROVE  JobAgrees(n, orders', gw', wallet', silent)
  <2>1. JobAgrees(job[d], orders', gw', wallet', silent)
    BY <1>2, <1>6, JobKept
  <2> QED
    BY <1>1, <1>5, <2>1 DEF JobAgrees
<1> QED
  BY <1>1, <1>4, <1>5, <1>6, WritingStep

LEMMA PollRereadKeeps ==
  ASSUME DeliveryIInv, NEW d \in Deliverers, PollReread(d)
  PROVE  StepGoal
<1>1. job[d].pc = "reread" /\ UNCHANGED worldVars
      /\ SetJob(d, Returned(subject(d), orders[subject(d)]))
  BY DEF PollReread
<1>2. subject(d) \in Orders
  BY <1>1, Subject
<1> QED
  BY <1>1, <1>2, ReturnedAgrees, ReadingStep

\* The job that remains when the row at hand has been written.
LEMMA RestAgrees ==
  ASSUME DeliveryIInv, NEW d \in Deliverers, job[d].pc \in {"post", "record"},
         \A x \in Orders : Stable(x)
  PROVE  NextJob(d) \in Jobs /\ JobAgrees(NextJob(d), orders', gw', wallet', silent)
<1>1. job[d] \in Jobs /\ JobAgrees(job[d], orders, gw, wallet, silent)
  BY Subject
<1>2. JobAgrees(job[d], orders', gw', wallet', silent)
  BY <1>1, JobKept
<1> QED
  BY <1>1, <1>2, NextJobAgrees

LEMMA DeliverSilentKeeps ==
  ASSUME DeliveryIInv, NEW d \in Deliverers, DeliverSilent(d)
  PROVE  StepGoal
<1> DEFINE q == NotifySucceeded(orders[subject(d)])
<1>1. /\ job[d].pc = "post" /\ orders' = [orders EXCEPT ![subject(d)] = q]
      /\ subject(d) \in silent
      /\ SetJob(d, NextJob(d)) /\ UNCHANGED <<now, gw, wallet, restarts>>
  BY DEF DeliverSilent
<1>2. orders[subject(d)] \in Rows /\ orders[subject(d)].status = "paid"
  BY <1>1, Subject
<1>3. 0 \in Nat /\ TRUE \in BOOLEAN
  OBVIOUS
<1>4. /\ q \in Rows /\ q.amount = orders[subject(d)].amount /\ q.status = "paid"
      /\ q.notify = "succeeded"
  BY <1>2, <1>3, RowOpsType, RowOpsKeep, RowOpsStatus
<1>5. NextJob(d) \in Jobs
  BY <1>1, Subject, NextJobAgrees
<1> HIDE DEF q
<1> QED
  BY <1>1, <1>2, <1>4, <1>5, RestAgrees, WritingStep

LEMMA LeastIsNat == ASSUME NEW a \in Nat, NEW b \in Nat PROVE Least(a, b) \in Nat
BY DEF Least

\* What a failed attempt writes.
LEMMA RecordedFacts ==
  ASSUME NEW d \in Deliverers, copy(d) \in Rows, NEW r \in Rows, now \in Nat
  PROVE  LET q == Recorded(d, r)
         IN /\ q \in Rows /\ q.amount = r.amount /\ q.status = r.status
            /\ q.notify \in {"pending", "failed", "succeeded"}
            /\ q.notify = "succeeded" => job[d].answered
            /\ job[d].answered => q = NotifySucceeded(r)
<1> DEFINE attempts == Least(copy(d).attempts + 1, AttemptCap)
           giveUp == attempts >= Limit(d)
           next == IF giveUp THEN 0 ELSE Horizon(now + backoff(attempts))
<1>1. copy(d).attempts \in Nat
  BY DEF Rows
<1>2. /\ BackoffStep \in Nat /\ BackoffCap \in Nat /\ AttemptCap \in Nat
      /\ Limit(d) \in Nat /\ MaxTime \in Nat
  BY DeliveryAssumption, TimeAssumption DEF Limit
<1>3. attempts \in Nat
  <2>1. copy(d).attempts + 1 \in Nat
    BY <1>1
  <2> QED
    BY <1>2, <2>1, LeastIsNat
<1> HIDE DEF attempts
<1>4. giveUp \in BOOLEAN
  OBVIOUS
<1>5. next \in Nat
  <2>1. attempts * BackoffStep \in Nat
    BY <1>2, <1>3, ProductIsNat
  <2>2. backoff(attempts) \in Nat
    BY <1>2, <2>1, LeastIsNat DEF backoff
  <2>3. now + backoff(attempts) \in Nat
    BY <2>2
  <2>4. Horizon(now + backoff(attempts)) \in Nat
    BY <1>2, <2>3, LeastIsNat DEF Horizon
  <2> QED
    BY <2>4
<1> HIDE DEF giveUp, next
<1>6. CASE job[d].answered
  <2>1. Recorded(d, r) = NotifySucceeded(r)
    BY <1>6 DEF Recorded
  <2>2. 0 \in Nat /\ TRUE \in BOOLEAN
    OBVIOUS
  <2>3. LET q == NotifySucceeded(r)
        IN q \in Rows /\ q.amount = r.amount /\ q.status = r.status /\ q.notify = "succeeded"
    BY <2>2, RowOpsType, RowOpsKeep, RowOpsStatus
  <2> QED
    BY <1>6, <2>1, <2>3
<1>7. CASE ~ job[d].answered
  <2>1. Recorded(d, r) = NotifyRetry(r, attempts, next, giveUp)
    BY <1>7 DEF Recorded, attempts, giveUp, next
  <2>2. LET q == NotifyRetry(r, attempts, next, giveUp)
        IN /\ q \in Rows
           /\ q.amount = r.amount /\ q.status = r.status
           /\ q.notify = IF giveUp THEN "failed" ELSE "pending"
    BY <1>3, <1>4, <1>5, NotifyRetryFacts
  <2> QED
    BY <1>7, <2>1, <2>2
<1> QED
  BY <1>6, <1>7

LEMMA RecordKeeps ==
  ASSUME DeliveryIInv, NEW d \in Deliverers, Record(d)
  PROVE  StepGoal
<1> DEFINE q == Recorded(d, orders[subject(d)])
<1>1. /\ job[d].pc = "record" /\ orders' = [orders EXCEPT ![subject(d)] = q]
      /\ SetJob(d, NextJob(d)) /\ UNCHANGED <<now, gw, wallet, restarts>>
  BY DEF Record
<1>2. /\ orders[subject(d)] \in Rows /\ orders[subject(d)].status = "paid"
      /\ copy(d) \in Rows /\ subject(d) \in Orders
      /\ JobAgrees(job[d], orders, gw, wallet, silent)
  BY <1>1, Subject
<1>3. now \in Nat
  BY DEF DeliveryIInv, WorldInv, WorldTypeOK
<1>4. /\ q \in Rows /\ q.amount = orders[subject(d)].amount /\ q.status = "paid"
      /\ q.notify \in {"pending", "failed", "succeeded"}
      /\ q.notify = "succeeded" => job[d].answered
  BY <1>2, <1>3, RecordedFacts
<1>5. job[d].answered => wallet[subject(d)] # "pending"
  BY <1>1, <1>2 DEF JobAgrees, subject
<1>6. NextJob(d) \in Jobs
  BY <1>1, Subject, NextJobAgrees
<1> HIDE DEF q
<1> QED
  BY <1>1, <1>2, <1>4, <1>5, <1>6, RestAgrees, WritingStep

LEMMA PostLostKeeps ==
  ASSUME DeliveryIInv, NEW d \in Deliverers, PostLost(d)
  PROVE  StepGoal
<1> DEFINE n == [job[d] EXCEPT !.pc = "record", !.answered = FALSE]
<1>1. /\ job[d].pc = "post" /\ subject(d) \notin silent
      /\ SetJob(d, n) /\ UNCHANGED worldVars
  BY DEF PostLost, Outcome
<1>2. job[d] \in Jobs /\ JobAgrees(job[d], orders, gw, wallet, silent)
  BY <1>1, Subject
<1>3. n \in Jobs /\ n.pc = "record" /\ n.batch = job[d].batch /\ ~ n.answered
  BY <1>2 DEF Jobs, JobPCs
<1> HIDE DEF n
<1>4. JobAgrees(n, orders, gw, wallet, silent)
  BY <1>1, <1>2, <1>3 DEF JobAgrees, subject
<1> QED
  BY <1>1, <1>3, <1>4, ReadingStep

\* NewAPI's handling of a notification for a paid order.
LEMMA CreditStep ==
  ASSUME WorldInv, NEW o \in Orders, orders[o].status = "paid",
         wallet' = [wallet EXCEPT ![o] = Credit(@)],
         UNCHANGED <<now, orders, gw, restarts>>
  PROVE  WorldInv' /\ (\A x \in Orders : Stable(x)) /\ wallet'[o] # "pending"
<1>1. wallet \in [Orders -> WalletStates] /\ wallet[o] \in WalletStates
  BY DEF WorldInv, WorldTypeOK
<1>2. \A x \in Orders : wallet'[x] = IF x = o THEN Credit(wallet[o]) ELSE wallet[x]
  BY <1>1
<1>3. Credit(wallet[o]) \in WalletStates /\ Credit(wallet[o]) # "pending"
  BY <1>1 DEF Credit, WalletStates
<1>4. WorldTypeOK'
  <2>1. wallet' \in [Orders -> WalletStates]
    BY <1>1, <1>3
  <2> QED
    BY <2>1 DEF WorldInv, WorldTypeOK
<1>5. CreditBacked'
  BY <1>2 DEF WorldInv, CreditBacked, PaidBacked, Credit
<1>6. (PaidBacked /\ PendingIsPaid /\ SuccessIsCaptured)'
  BY <1>2 DEF WorldInv, PaidBacked, PendingIsPaid, SuccessIsCaptured, Credit
<1>7. \A x \in Orders : Stable(x)
  BY <1>2 DEF Stable, Credit
<1> QED
  BY <1>2, <1>3, <1>4, <1>5, <1>6, <1>7 DEF WorldInv

LEMMA PostHandledKeeps ==
  ASSUME DeliveryIInv, NEW d \in Deliverers, PostHandled(d)
  PROVE  StepGoal
<1>1. PICK answer \in CreditAnswers(wallet[subject(d)]) \union {"lost"} :
        Outcome(d, answer = "success")
  BY DEF PostHandled
<1> DEFINE n == [job[d] EXCEPT !.pc = "record", !.answered = (answer = "success")]
<1>2. /\ job[d].pc = "post" /\ subject(d) \notin silent /\ SetJob(d, n)
      /\ UNCHANGED <<now, orders, gw, restarts>>
  BY <1>1 DEF PostHandled, Outcome
<1>3. /\ job[d] \in Jobs /\ JobAgrees(job[d], orders, gw, wallet, silent)
      /\ subject(d) \in Orders /\ orders[subject(d)].status = "paid"
  BY <1>2, Subject
<1>4. n \in Jobs /\ n.pc = "record" /\ n.batch = job[d].batch
  BY <1>3 DEF Jobs, JobPCs
<1> HIDE DEF n
<1>5. WorldInv' /\ (\A x \in Orders : Stable(x)) /\ wallet'[subject(d)] # "pending"
  <2>1. wallet' = [wallet EXCEPT ![subject(d)] = Credit(@)]
    BY DEF PostHandled
  <2> QED
    BY <1>2, <1>3, <2>1, CreditStep DEF DeliveryIInv
<1>6. JobAgrees(job[d], orders', gw', wallet', silent)
  BY <1>3, <1>5, JobKept
<1>7. JobAgrees(n, orders', gw', wallet', silent)
  BY <1>2, <1>4, <1>5, <1>6 DEF JobAgrees, subject
<1>8. \A x \in Orders : NoticeMove(x)
  BY <1>2 DEF NoticeMove
<1>9. job' \in [Deliverers -> Jobs] /\ JobsAgree' /\ silent' = silent
  BY <1>2, <1>4, <1>5, <1>7, JobSet DEF SetJob
<1> QED
  BY <1>5, <1>8, <1>9, StepKeeps

LEMMA DeliveryStoreFailsKeeps ==
  ASSUME DeliveryIInv, NEW d \in Deliverers, DeliveryStoreFails(d)
  PROVE  StepGoal
<1>1. UNCHANGED worldVars
  BY DEF DeliveryStoreFails
<1>2. CASE job[d].pc \in {"post", "record"}
  <2>1. SetJob(d, NextJob(d))
    BY <1>2 DEF DeliveryStoreFails
  <2>2. job[d] \in Jobs /\ JobAgrees(job[d], orders, gw, wallet, silent)
    BY <1>2, Subject
  <2>3. NextJob(d) \in Jobs /\ JobAgrees(NextJob(d), orders, gw, wallet, silent)
    BY <1>2, <2>2, NextJobAgrees
  <2> QED
    BY <1>1, <2>1, <2>3, ReadingStep
<1>3. CASE job[d].pc \notin {"post", "record"}
  BY <1>1, <1>3, GivesUp DEF DeliveryStoreFails
<1> QED
  BY <1>2, <1>3

\* The closer fails an order only once the wallet has failed its top-up.
LEMMA ExpiredUnpaidKeeps ==
  ASSUME DeliveryIInv, NEW o \in Orders, ExpiredUnpaid(o), UNCHANGED <<job, silent>>
  PROVE  StepGoal
<1>1. /\ orders \in [Orders -> Rows] /\ orders[o] \in Rows
      /\ wallet \in [Orders -> WalletStates]
  BY DEF DeliveryIInv, WorldInv, WorldTypeOK
<1>2. /\ \A x \in Orders : /\ wallet'[x] = IF x = o THEN "failed" ELSE wallet[x]
                           /\ orders'[x] = IF x = o THEN MarkFailedIfCreated(orders[o])
                                                    ELSE orders[x]
      /\ wallet[o] = "pending" /\ UNCHANGED <<now, gw, restarts>>
  BY <1>1 DEF ExpiredUnpaid
<1>3. /\ MarkFailedIfCreated(orders[o]) \in Rows
      /\ MarkFailedIfCreated(orders[o]).amount = orders[o].amount
      /\ MarkFailedIfCreated(orders[o]).notify = orders[o].notify
      /\ MarkFailedIfCreated(orders[o]).status =
           (IF orders[o].status = "created" THEN "failed" ELSE orders[o].status)
  <2>1. 0 \in Nat /\ TRUE \in BOOLEAN
    OBVIOUS
  <2> QED
    BY <1>1, <2>1, RowOpsType, RowOpsKeep, RowOpsStatus
<1>4. WorldTypeOK'
  <2>1. orders' \in [Orders -> Rows] /\ wallet' \in [Orders -> WalletStates]
    BY <1>1, <1>3 DEF ExpiredUnpaid, WalletStates
  <2> QED
    BY <1>2, <2>1 DEF DeliveryIInv, WorldInv, WorldTypeOK
<1>5. (CreditBacked /\ PaidBacked /\ PendingIsPaid /\ SuccessIsCaptured)'
  <2>1. CreditBacked'
    BY <1>2, <1>3 DEF DeliveryIInv, WorldInv, CreditBacked
  <2>2. PaidBacked'
    BY <1>2, <1>3 DEF DeliveryIInv, WorldInv, PaidBacked
  <2>3. (PendingIsPaid /\ SuccessIsCaptured)'
    BY <1>2, <1>3 DEF DeliveryIInv, WorldInv, PendingIsPaid, SuccessIsCaptured
  <2> QED
    BY <2>1, <2>2, <2>3
<1>6. \A x \in Orders : Stable(x) /\ NoticeMove(x)
  BY <1>2, <1>3 DEF Stable, NoticeMove
<1> QED
  BY <1>4, <1>5, <1>6, JobsKept, StepKeeps DEF WorldInv

\* A restart forgets every job; migrate writes neither the status of an order nor
\* that of its notification.
LEMMA DeliveryRestartKeeps ==
  ASSUME DeliveryIInv, DeliveryRestart
  PROVE  StepGoal
<1>1. WorldInv' /\ \A x \in Orders : Stable(x)
  BY ReopenInv DEF DeliveryIInv, DeliveryRestart
<1>2. orders \in [Orders -> Rows] /\ orders' = Migrate(orders)
  BY DEF DeliveryIInv, WorldInv, WorldTypeOK, DeliveryRestart, Reopen
<1>3. \A x \in Orders : NoticeMove(x)
  BY <1>2, MigrateKeeps DEF NoticeMove
<1>4. job' \in [Deliverers -> Jobs] /\ JobsAgree' /\ silent' = silent
  <2>1. job' = [d \in Deliverers |-> NoJob] /\ silent' = silent
    BY DEF DeliveryRestart
  <2>2. \A d \in Deliverers : job'[d] = NoJob
    BY <2>1
  <2> QED
    BY <2>1, <2>2, NoJobAgrees DEF JobsAgree
<1> QED
  BY <1>1, <1>3, <1>4, StepKeeps

LEMMA DeliveryInitInv == DeliveryInit => DeliveryIInv
<1> SUFFICES ASSUME DeliveryInit PROVE DeliveryIInv
  OBVIOUS
<1>1. WorldInv /\ \A o \in Orders : orders[o].status = "created" /\ orders[o].notify = "none"
  BY WorldInitInv DEF DeliveryInit
<1>2. PaidHasNotice /\ NoSilentLoss
  BY <1>1 DEF PaidHasNotice, NoSilentLoss
<1>3. job \in [Deliverers -> Jobs] /\ \A d \in Deliverers : job[d] = NoJob
  BY NoJobAgrees DEF DeliveryInit
<1>4. JobsAgree
  BY <1>3, NoJobAgrees DEF JobsAgree
<1>5. silent \subseteq Orders
  BY DEF DeliveryInit
<1> QED
  BY <1>1, <1>2, <1>3, <1>4, <1>5 DEF DeliveryIInv

LEMMA DeliveryNextInv == DeliveryIInv /\ [DeliveryNext]_deliveryVars => StepGoal
<1> SUFFICES ASSUME DeliveryIInv, [DeliveryNext]_deliveryVars PROVE StepGoal
  OBVIOUS
<1>1. CASE WorkerTick
  BY <1>1, WorkerTickKeeps
<1>2. ASSUME NEW d \in Pollers, PollStep(d)
      PROVE  StepGoal
  <2>1. d \in Deliverers
    BY DEF Deliverers
  <2>2. CASE \E o \in Orders : PollRead(d, o)
    BY <2>2, PollReadKeeps
  <2>3. CASE PollQueryFails(d)
    BY <2>1, <2>3, GivesUp DEF PollQueryFails
  <2>4. CASE PollQuery(d)
    BY <2>1, <2>4, PollQueryKeeps
  <2>5. CASE PollMark(d)
    BY <2>1, <2>5, PollMarkKeeps
  <2>6. CASE PollReread(d)
    BY <2>1, <2>6, PollRereadKeeps
  <2> QED
    BY <1>2, <2>2, <2>3, <2>4, <2>5, <2>6 DEF PollStep
<1>3. ASSUME NEW d \in Deliverers, Deliver(d) \/ DeliveryStoreFails(d)
      PROVE  StepGoal
  BY <1>3, DeliverSilentKeeps, PostLostKeeps, PostHandledKeeps, RecordKeeps,
     DeliveryStoreFailsKeeps DEF Deliver
<1>4. CASE WorldStep /\ UNCHANGED <<job, silent>>
  <2>1. WorldInv' /\ \A x \in Orders : Stable(x)
    BY <1>4, WorldStepInv DEF DeliveryIInv
  <2> QED
    BY <1>4, <2>1, WorldNotices, JobsKept, StepKeeps
<1>5. CASE (\E o \in Orders : ExpiredUnpaid(o)) /\ UNCHANGED <<job, silent>>
  BY <1>5, ExpiredUnpaidKeeps
<1>6. CASE Tick /\ UNCHANGED <<job, silent>>
  <2>1. WorldInv' /\ \A x \in Orders : Stable(x)
    BY <1>6, TickInv DEF DeliveryIInv
  <2>2. \A x \in Orders : NoticeMove(x)
    BY <1>6 DEF Tick, NoticeMove
  <2> QED
    BY <1>6, <2>1, <2>2, JobsKept, StepKeeps
<1>7. CASE DeliveryRestart
  BY <1>7, DeliveryRestartKeeps
<1>8. CASE UNCHANGED deliveryVars
  <2>1. UNCHANGED worldVars /\ UNCHANGED <<job, silent>>
    BY <1>8 DEF deliveryVars, worldVars
  <2>2. WorldInv' /\ \A x \in Orders : Stable(x) /\ NoticeMove(x)
    BY <2>1 DEF DeliveryIInv, worldVars, WorldInv, WorldTypeOK, CreditBacked, PaidBacked,
                PendingIsPaid, SuccessIsCaptured, Stable, NoticeMove
  <2> QED
    BY <2>1, <2>2, JobsKept, StepKeeps
<1> QED
  BY <1>1, <1>2, <1>3, <1>4, <1>5, <1>6, <1>7, <1>8 DEF DeliveryNext, DeliveryStep

-----------------------------------------------------------------------------
(* The theorems. *)

\* DeliveryIInv holds throughout: every copy a deliverer acts on still says what
\* the decision taken from it needs (deliver, notify.go; payStatus, http.go).
THEOREM DeliveryInvariant == DeliverySpec => []DeliveryIInv
<1>1. DeliveryIInv /\ [DeliveryNext]_deliveryVars => DeliveryIInv'
  BY DeliveryNextInv DEF StepGoal
<1> QED
  BY <1>1, DeliveryInitInv, PTL DEF DeliverySpec

\* Every variable keeps its type, whatever the retry limits and the backoff.
THEOREM DeliveryType == DeliverySpec => []DeliveryTypeOK
<1>1. DeliveryIInv => DeliveryTypeOK
  BY DEF DeliveryIInv, WorldInv, DeliveryTypeOK
<1> QED
  BY <1>1, DeliveryInvariant, PTL

\* Nothing is credited that was not paid at its amount, however the worker, the
\* cashier pages and the gateway's notification interleave.
THEOREM DeliveryCreditBacked == DeliverySpec => []CreditBacked
<1>1. DeliveryIInv => CreditBacked
  BY DEF DeliveryIInv, WorldInv
<1> QED
  BY <1>1, DeliveryInvariant, PTL

\* No payment is written off as notified without NewAPI having dealt with it
\* (deliver, notify.go:85).
THEOREM DeliveryNoSilentLoss == DeliverySpec => []NoSilentLoss
<1>1. DeliveryIInv => NoSilentLoss
  BY DEF DeliveryIInv
<1> QED
  BY <1>1, DeliveryInvariant, PTL

\* An order recorded as paid stays so, whatever is recorded of its notification
\* and whoever fails the top-up (MarkFailedIfCreated, NotifyRetry).
THEOREM DeliveryPaidIsFinal == DeliverySpec => PaidIsFinal
<1>1. DeliveryIInv /\ [DeliveryNext]_deliveryVars =>
        [\A o \in Orders : orders[o].status = "paid" => orders'[o].status = "paid"]_orders
  BY DeliveryNextInv DEF StepGoal, Stable
<1> QED
  BY <1>1, DeliveryInvariant, PTL DEF DeliverySpec, PaidIsFinal

-----------------------------------------------------------------------------
(* The deliverers implement TopUp. *)

PromiseStep == [Promise!TopUpNext]_(Promise!topUpVars)

\* The payment, the top-up and the notification of an order are as they were.
MoneyAsWas(o) == gw'[o].captured = gw[o].captured
WalletAsWas(o) == wallet'[o] = wallet[o]
NoticeAsWas(o) == orders'[o].notify = orders[o].notify

LEMMA QuietPromise ==
  ASSUME \A x \in Orders : MoneyAsWas(x) /\ WalletAsWas(x) /\ NoticeAsWas(x),
         silent' = silent
  PROVE  PromiseStep
<1>1. MoneyTaken' = MoneyTaken /\ TopUpState' = TopUpState
  BY DEF MoneyTaken, TopUpState, MoneyAsWas, WalletAsWas
<1>2. NoticeState(silent)' = NoticeState(silent)
  BY DEF NoticeState, NoticeAsWas
<1> QED
  BY <1>1, <1>2 DEF PromiseStep, Promise!topUpVars

\* A step that moves only the notification of order o.
LEMMA NoticeSeen ==
  ASSUME DeliveryIInv, NEW o \in Orders, NEW q, orders' = [orders EXCEPT ![o] = q],
         UNCHANGED <<gw, wallet, silent>>
  PROVE  /\ MoneyTaken' = MoneyTaken /\ TopUpState' = TopUpState
         /\ NoticeState(silent)' =
              [NoticeState(silent) EXCEPT ![o] = NoticeOf(q.notify, o \in silent)]
         /\ q.notify = orders[o].notify => PromiseStep
<1>1. \A x \in Orders : orders'[x] = IF x = o THEN q ELSE orders[x]
  BY DEF DeliveryIInv, WorldInv, WorldTypeOK
<1>2. MoneyTaken' = MoneyTaken /\ TopUpState' = TopUpState
  BY DEF MoneyTaken, TopUpState
<1>3. NoticeState(silent) = [x \in Orders |-> NoticeOf(orders[x].notify, x \in silent)]
  BY DEF NoticeState, NoticeOf
<1>4. NoticeState(silent)' = [x \in Orders |-> NoticeOf(orders'[x].notify, x \in silent)]
  BY DEF NoticeState, NoticeOf
<1>5. NoticeState(silent)' =
        [NoticeState(silent) EXCEPT ![o] = NoticeOf(q.notify, o \in silent)]
  BY <1>1, <1>3, <1>4
<1>6. ASSUME q.notify = orders[o].notify PROVE PromiseStep
  BY <1>1, <1>6, QuietPromise DEF MoneyAsWas, WalletAsWas, NoticeAsWas
<1> QED
  BY <1>2, <1>5, <1>6

\* A paid order has a notification that somebody owes, answered or gave up.
LEMMA PaidIsSeen ==
  ASSUME DeliveryIInv, NEW o \in Orders, orders[o].status = "paid"
  PROVE  NoticeState(silent)[o] # "none"
<1>1. orders[o].notify # "none"
  BY DEF DeliveryIInv, PaidHasNotice
<1> QED
  BY <1>1, Views DEF NoticeOf

\* An order is recorded as paid: NewAPI is owed the notification.
LEMMA MarkPaidPromise ==
  ASSUME DeliveryIInv, NEW o \in Orders, gw[o].captured,
         orders' = [orders EXCEPT ![o] = MarkPaid(orders[o], TRUE, now)],
         UNCHANGED <<gw, wallet, silent>>
  PROVE  PromiseStep
<1> DEFINE q == MarkPaid(orders[o], TRUE, now)
<1>1. orders[o] \in Rows /\ now \in Nat
  BY DEF DeliveryIInv, WorldInv, WorldTypeOK
<1>2. q.notify = (IF orders[o].notify = "succeeded" THEN "succeeded" ELSE "pending")
  BY <1>1, MarkPaidNotify
<1>3. orders' = [orders EXCEPT ![o] = q]
  OBVIOUS
<1> HIDE DEF q
<1>4. CASE orders[o].notify = "succeeded"
  BY <1>2, <1>3, <1>4, NoticeSeen
<1>5. CASE orders[o].notify # "succeeded"
  <2>1. NoticeOf(q.notify, o \in silent) = "owed"
    BY <1>2, <1>5 DEF NoticeOf
  <2>2. MoneyTaken[o]
    BY DEF MoneyTaken
  <2>3. Promise!Owe(o)
    BY <1>3, <2>1, <2>2, NoticeSeen DEF Promise!Owe
  <2> QED
    BY <2>3 DEF PromiseStep, Promise!TopUpNext
<1> QED
  BY <1>4, <1>5

\* A deliverer records what became of its attempt.
LEMMA DeliverSilentPromise ==
  ASSUME DeliveryIInv, NEW d \in Deliverers, DeliverSilent(d)
  PROVE  PromiseStep
<1> DEFINE o == subject(d)
           q == NotifySucceeded(orders[o])
<1>1. /\ orders' = [orders EXCEPT ![o] = q]
      /\ job[d].pc = "post" /\ o \in silent /\ UNCHANGED <<gw, wallet, silent>>
  BY DEF DeliverSilent, SetJob
<1>2. o \in Orders /\ orders[o] \in Rows /\ orders[o].status = "paid"
  BY <1>1, Subject
<1>3. q.notify = "succeeded"
  BY <1>2, RowOpsStatus
<1> HIDE DEF o, q
<1>4. NoticeOf(q.notify, o \in silent) = "given up"
  BY <1>1, <1>3 DEF NoticeOf
<1>5. NoticeState(silent)[o] # "none"
  BY <1>2, PaidIsSeen
<1>6. /\ MoneyTaken' = MoneyTaken /\ TopUpState' = TopUpState
      /\ NoticeState(silent)' =
           [NoticeState(silent) EXCEPT ![o] = NoticeOf(q.notify, o \in silent)]
  BY <1>1, <1>2, NoticeSeen
<1>7. Promise!Retry(o)
  BY <1>4, <1>5, <1>6 DEF Promise!Retry
<1> QED
  BY <1>2, <1>7 DEF PromiseStep, Promise!TopUpNext

LEMMA RecordPromise ==
  ASSUME DeliveryIInv, NEW d \in Deliverers, Record(d)
  PROVE  PromiseStep
<1> DEFINE o == subject(d)
           q == Recorded(d, orders[o])
<1>1. /\ orders' = [orders EXCEPT ![o] = q]
      /\ job[d].pc = "record" /\ UNCHANGED <<gw, wallet, silent>>
  BY DEF Record, SetJob
<1>2. /\ o \in Orders /\ orders[o] \in Rows /\ orders[o].status = "paid"
      /\ copy(d) \in Rows /\ JobAgrees(job[d], orders, gw, wallet, silent)
  BY <1>1, Subject
<1>3. o \notin silent /\ (job[d].answered => wallet[o] # "pending")
  BY <1>1, <1>2 DEF JobAgrees, subject
<1>4. now \in Nat /\ wallet[o] \in WalletStates
  BY <1>2 DEF DeliveryIInv, WorldInv, WorldTypeOK
<1>5. /\ q.notify \in {"pending", "failed", "succeeded"}
      /\ q.notify = "succeeded" => job[d].answered
  BY <1>2, <1>4, RecordedFacts
<1> HIDE DEF o, q
<1>6. NoticeState(silent)[o] # "none"
  BY <1>2, PaidIsSeen
<1>7. /\ MoneyTaken' = MoneyTaken /\ TopUpState' = TopUpState
      /\ NoticeState(silent)' =
           [NoticeState(silent) EXCEPT ![o] = NoticeOf(q.notify, o \in silent)]
  BY <1>1, <1>2, NoticeSeen
<1>8. CASE q.notify \in {"pending", "failed"}
  <2>1. NoticeOf(q.notify, o \in silent) \in {"owed", "given up"}
    BY <1>8 DEF NoticeOf
  <2>2. Promise!Retry(o)
    BY <1>6, <1>7, <2>1 DEF Promise!Retry
  <2> QED
    BY <1>2, <2>2 DEF PromiseStep, Promise!TopUpNext
<1>9. CASE q.notify = "succeeded"
  <2>1. NoticeOf(q.notify, o \in silent) = "answered"
    BY <1>3, <1>9 DEF NoticeOf
  <2>2. TopUpState[o] # "open"
    <3>1. wallet[o] # "pending"
      BY <1>3, <1>5, <1>9
    <3> QED
      BY <1>2, <1>4, <3>1 DEF TopUpState, WalletStates
  <2>3. Promise!Answer(o)
    BY <1>6, <1>7, <2>1, <2>2 DEF Promise!Answer
  <2> QED
    BY <1>2, <2>3 DEF PromiseStep, Promise!TopUpNext
<1> QED
  BY <1>5, <1>8, <1>9

\* NewAPI moves a top-up: the payment and the notification stay as they were.
LEMMA TopUpSeen ==
  ASSUME DeliveryIInv, NEW o \in Orders, NEW w, wallet' = [wallet EXCEPT ![o] = w],
         \A x \in Orders : MoneyAsWas(x) /\ NoticeAsWas(x), silent' = silent
  PROVE  /\ MoneyTaken' = MoneyTaken /\ NoticeState(silent)' = NoticeState(silent)
         /\ TopUpState' = [TopUpState EXCEPT ![o] = TopUpOf(w)]
         /\ w = wallet[o] => PromiseStep
<1>1. \A x \in Orders : wallet'[x] = IF x = o THEN w ELSE wallet[x]
  BY DEF DeliveryIInv, WorldInv, WorldTypeOK
<1>2. MoneyTaken' = MoneyTaken /\ NoticeState(silent)' = NoticeState(silent)
  BY DEF MoneyTaken, NoticeState, MoneyAsWas, NoticeAsWas
<1>3. TopUpState' = [TopUpState EXCEPT ![o] = TopUpOf(wallet'[o])]
  BY <1>1, TopUpMoves
<1>4. ASSUME w = wallet[o] PROVE PromiseStep
  BY <1>1, <1>4, QuietPromise DEF WalletAsWas
<1> QED
  BY <1>1, <1>2, <1>3, <1>4

LEMMA PostHandledPromise ==
  ASSUME DeliveryIInv, NEW d \in Deliverers, PostHandled(d)
  PROVE  PromiseStep
<1> DEFINE o == subject(d)
<1>1. /\ wallet' = [wallet EXCEPT ![o] = Credit(wallet[o])]
      /\ job[d].pc = "post" /\ UNCHANGED <<orders, gw, silent>>
  BY DEF PostHandled, Outcome, SetJob
<1>2. o \in Orders /\ orders[o].status = "paid"
  BY <1>1, Subject
<1> HIDE DEF o
<1>3. \A x \in Orders : MoneyAsWas(x) /\ NoticeAsWas(x)
  BY <1>1 DEF MoneyAsWas, NoticeAsWas
<1>4. CASE wallet[o] = "pending"
  <2>1. MoneyTaken[o] /\ TopUpState[o] = "open"
    BY <1>2, <1>4 DEF DeliveryIInv, WorldInv, PaidBacked, MoneyTaken, TopUpState
  <2>2. NoticeState(silent)[o] # "none"
    BY <1>2, PaidIsSeen
  <2>3. TopUpOf(Credit(wallet[o])) = "credited"
    BY <1>4 DEF Credit, TopUpOf
  <2>4. Promise!CreditTopUp(o)
    BY <1>1, <1>2, <1>3, <2>1, <2>2, <2>3, TopUpSeen DEF Promise!CreditTopUp
  <2> QED
    BY <1>2, <2>4 DEF PromiseStep, Promise!TopUpNext
<1>5. CASE wallet[o] # "pending"
  <2>1. Credit(wallet[o]) = wallet[o]
    BY <1>5 DEF Credit
  <2> QED
    BY <1>1, <1>2, <1>3, <2>1, TopUpSeen
<1> QED
  BY <1>4, <1>5

LEMMA ExpiredUnpaidPromise ==
  ASSUME DeliveryIInv, NEW o \in Orders, ExpiredUnpaid(o), UNCHANGED <<job, silent>>
  PROVE  PromiseStep
<1>1. orders \in [Orders -> Rows] /\ orders[o] \in Rows
  BY DEF DeliveryIInv, WorldInv, WorldTypeOK
<1>2. MarkFailedIfCreated(orders[o]).notify = orders[o].notify
  BY <1>1, RowOpsStatus
<1>3. \A x \in Orders : MoneyAsWas(x) /\ NoticeAsWas(x)
  BY <1>1, <1>2 DEF ExpiredUnpaid, MoneyAsWas, NoticeAsWas
<1>4. wallet' = [wallet EXCEPT ![o] = "failed"] /\ TopUpState[o] = "open"
  BY DEF ExpiredUnpaid, TopUpState
<1>5. TopUpOf("failed") = "expired"
  BY DEF TopUpOf
<1>6. Promise!Expire(o)
  BY <1>3, <1>4, <1>5, TopUpSeen DEF Promise!Expire
<1> QED
  BY <1>6 DEF PromiseStep, Promise!TopUpNext

\* What the others do is a payment taken, a top-up granted, a payment
\* notification, or seen by nobody.
LEMMA DeliveryWorldPromise ==
  ASSUME DeliveryIInv, WorldStep, UNCHANGED <<job, silent>>
  PROVE  PromiseStep
<1>1. PICK o \in Orders : \/ GatewaySends(o)
                          \/ CustomerPays(o)
                          \/ LatePayment(o)
                          \/ GatewayConfirms(o)
                          \/ GatewayFails(o)
                          \/ GatewayExpires(o)
                          \/ AdministratorGrants(o)
                          \/ HandleJeepayNotify(o)
  BY DEF WorldStep
<1>2. gw \in [Orders -> GatewayOrders] /\ gw[o] \in GatewayOrders /\ now \in Nat
  BY DEF DeliveryIInv, WorldInv, WorldTypeOK
<1>3. ASSUME NEW h, GatewayStep(o, h), h.captured = gw[o].captured
      PROVE  PromiseStep
  <2>1. \A x \in Orders : MoneyAsWas(x) /\ WalletAsWas(x) /\ NoticeAsWas(x)
    BY <1>2, <1>3 DEF GatewayStep, MoneyAsWas, WalletAsWas, NoticeAsWas
  <2> QED
    BY <2>1, QuietPromise
<1>4. CASE GatewaySends(o)
  <2>1. [gw[o] EXCEPT !.state = StateIng].captured = gw[o].captured
    BY <1>2 DEF GatewayOrders
  <2> QED
    BY <1>3, <1>4, <2>1 DEF GatewaySends
<1>5. CASE CustomerPays(o) \/ LatePayment(o)
  <2>1. PICK h \in {[gw[o] EXCEPT !.captured = TRUE, !.since = now],
                    [gw[o] EXCEPT !.captured = TRUE]} : GatewayStep(o, h)
    BY <1>5 DEF CustomerPays, LatePayment
  <2>2. h.captured = TRUE /\ ~ gw[o].captured
    BY <1>2, <1>5 DEF GatewayOrders, CustomerPays, LatePayment
  <2>3. \A x \in Orders : gw'[x] = IF x = o THEN h ELSE gw[x]
    BY <1>2, <2>1 DEF GatewayStep
  <2>4. MoneyTaken' = [MoneyTaken EXCEPT ![o] = gw'[o].captured] /\ ~ MoneyTaken[o]
    <3>1. MoneyTaken' = [MoneyTaken EXCEPT ![o] = gw'[o].captured]
      BY <2>3, MoneyMoves
    <3> QED
      BY <2>2, <3>1 DEF MoneyTaken
  <2>5. TopUpState' = TopUpState /\ NoticeState(silent)' = NoticeState(silent)
    BY <2>1 DEF GatewayStep, TopUpState, NoticeState
  <2>6. Promise!TakeMoney(o)
    BY <2>2, <2>3, <2>4, <2>5 DEF Promise!TakeMoney
  <2> QED
    BY <2>6 DEF PromiseStep, Promise!TopUpNext
<1>6. CASE GatewayConfirms(o)
  <2>1. [gw[o] EXCEPT !.state = StateSuccess].captured = gw[o].captured
    BY <1>2 DEF GatewayOrders
  <2> QED
    BY <1>3, <1>6, <2>1 DEF GatewayConfirms
<1>7. CASE GatewayFails(o)
  <2>1. [gw[o] EXCEPT !.state = StateFail].captured = gw[o].captured
    BY <1>2 DEF GatewayOrders
  <2> QED
    BY <1>3, <1>7, <2>1 DEF GatewayFails
<1>8. CASE GatewayExpires(o)
  <2>1. Closed(gw[o], now).captured = gw[o].captured
    BY <1>2, ClosedFacts
  <2> QED
    BY <1>3, <1>8, <2>1 DEF GatewayExpires
<1>9. CASE AdministratorGrants(o)
  <2>1. \A x \in Orders : MoneyAsWas(x) /\ NoticeAsWas(x)
    BY <1>9 DEF AdministratorGrants, MoneyAsWas, NoticeAsWas
  <2>2. wallet' = [wallet EXCEPT ![o] = "granted"] /\ TopUpState[o] = "open"
    BY <1>9 DEF AdministratorGrants, TopUpState
  <2>3. TopUpOf("granted") = "granted"
    BY DEF TopUpOf
  <2>4. Promise!Grant(o)
    BY <2>1, <2>2, <2>3, TopUpSeen DEF Promise!Grant
  <2> QED
    BY <2>4 DEF PromiseStep, Promise!TopUpNext
<1>10. CASE HandleJeepayNotify(o)
  <2>1. gw[o].captured
    BY <1>10 DEF HandleJeepayNotify, DeliveryIInv, WorldInv, SuccessIsCaptured
  <2> QED
    BY <1>10, <2>1, MarkPaidPromise DEF HandleJeepayNotify
<1> QED
  BY <1>1, <1>4, <1>5, <1>6, <1>7, <1>8, <1>9, <1>10

LEMMA DeliveryNextPromise ==
  DeliveryIInv /\ [DeliveryNext]_deliveryVars => PromiseStep
<1> SUFFICES ASSUME DeliveryIInv, [DeliveryNext]_deliveryVars PROVE PromiseStep
  OBVIOUS
<1>1. ASSUME UNCHANGED worldVars, silent' = silent
      PROVE  PromiseStep
  BY <1>1, QuietPromise DEF worldVars, MoneyAsWas, WalletAsWas, NoticeAsWas
<1>2. CASE WorkerTick
  BY <1>1, <1>2 DEF WorkerTick, SetJob
<1>3. ASSUME NEW d \in Pollers, PollStep(d)
      PROVE  PromiseStep
  <2>1. CASE PollMark(d)
    <3>1. d \in Deliverers /\ job[d].pc = "mark"
      BY <2>1 DEF Deliverers, PollMark
    <3>2. subject(d) \in Orders /\ gw[subject(d)].captured
      BY <3>1, Subject DEF JobAgrees, subject
    <3>3. /\ orders' = [orders EXCEPT ![subject(d)] = MarkPaid(orders[subject(d)], TRUE, now)]
          /\ UNCHANGED <<gw, wallet, silent>>
      BY <2>1 DEF PollMark, SetJob
    <3> QED
      BY <3>2, <3>3, MarkPaidPromise
  <2>2. CASE ~ PollMark(d)
    BY <1>1, <1>3, <2>2
       DEF PollStep, PollRead, PollQueryFails, PollQuery, PollReread, SetJob
  <2> QED
    BY <2>1, <2>2
<1>4. ASSUME NEW d \in Deliverers, Deliver(d) \/ DeliveryStoreFails(d)
      PROVE  PromiseStep
  <2>1. CASE PostLost(d) \/ DeliveryStoreFails(d)
    BY <1>1, <2>1 DEF PostLost, Outcome, DeliveryStoreFails, SetJob
  <2> QED
    BY <1>4, <2>1, DeliverSilentPromise, RecordPromise, PostHandledPromise DEF Deliver
<1>5. CASE WorldStep /\ UNCHANGED <<job, silent>>
  BY <1>5, DeliveryWorldPromise
<1>6. CASE (\E o \in Orders : ExpiredUnpaid(o)) /\ UNCHANGED <<job, silent>>
  BY <1>6, ExpiredUnpaidPromise
<1>7. CASE Tick /\ UNCHANGED <<job, silent>>
  BY <1>7, QuietPromise DEF Tick, MoneyAsWas, WalletAsWas, NoticeAsWas
<1>8. CASE DeliveryRestart
  <2>1. orders \in [Orders -> Rows]
    BY DEF DeliveryIInv, WorldInv, WorldTypeOK
  <2>2. \A x \in Orders : MoneyAsWas(x) /\ WalletAsWas(x) /\ NoticeAsWas(x)
    BY <1>8, <2>1, MigrateKeeps
       DEF DeliveryRestart, Reopen, MoneyAsWas, WalletAsWas, NoticeAsWas
  <2> QED
    BY <1>8, <2>2, QuietPromise DEF DeliveryRestart
<1>9. CASE UNCHANGED deliveryVars
  BY <1>1, <1>9 DEF deliveryVars, worldVars
<1> QED
  BY <1>2, <1>3, <1>4, <1>5, <1>6, <1>7, <1>8, <1>9 DEF DeliveryNext, DeliveryStep

LEMMA DeliveryInitPromise ==
  ASSUME DeliveryInit
  PROVE  Promise!TopUpInit
<1>1. WorldTypeOK
  BY DeliveryInitInv DEF DeliveryIInv, WorldInv
<1>2. Promise!TopUpType
  <2>1. NoticeState(silent) \in [Orders -> {"none", "owed", "answered", "given up"}]
    BY DEF NoticeState
  <2> QED
    BY <1>1, <2>1, ViewTypes DEF Promise!TopUpType, Promise!TopUpStates, Promise!Notices
<1>3. \A o \in Orders : /\ wallet[o] \in {"pending", "missing", "not_epay"}
                       /\ orders[o].notify = "none"
  BY WorldInitInv DEF DeliveryInit
<1>4. \A o \in Orders : TopUpState[o] \in {"open", "foreign"} /\ NoticeState(silent)[o] = "none"
  BY <1>3 DEF TopUpState, NoticeState
<1> QED
  BY <1>2, <1>4 DEF Promise!TopUpInit

\* The worker, the cashier pages and the gateway's notification implement TopUp:
\* what is credited was paid and owed, and a notification counts as answered only
\* when NewAPI has dealt with the top-up (deliver, payStatus, confirmFromJeepay).
THEOREM DeliveryPromiseKept == DeliverySpec => PromiseKept
<1>1. DeliveryInit => Promise!TopUpInit
  BY DeliveryInitPromise
<1>2. DeliveryIInv /\ [DeliveryNext]_deliveryVars => PromiseStep
  BY DeliveryNextPromise
<1> QED
  BY <1>1, <1>2, DeliveryInvariant, PTL
     DEF DeliverySpec, PromiseKept, PromiseStep, Promise!TopUpSpec
=============================================================================
