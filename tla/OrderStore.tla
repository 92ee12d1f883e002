----------------------------- MODULE OrderStore -----------------------------
(***************************************************************************)
(* The orders table of internal/store/store.go.  Every statement of the    *)
(* store runs on one SQLite connection (SetMaxOpenConns(1)) and is one     *)
(* transaction, so each operation is an operator on a row, or on the whole *)
(* table, that an action of another module applies in one step.  The       *)
(* operators keep the names of the Go methods.                             *)
(*                                                                         *)
(* A row keeps the columns that some decision of the program reads.        *)
(* jeepay_state, pay_data_type, paid_at and the texts shown to the payer   *)
(* are written but never read for a decision.  jeepay_pay_order_id and     *)
(* pay_data are kept as "is it known": the gateway refuses a second order  *)
(* under one merchant number, so there is one value either can have.       *)
(***************************************************************************)
EXTENDS Integers, Sequences, FiniteSets

CONSTANTS Orders,     \* merchant order numbers (out_trade_no)
          Amounts,    \* amounts in fen
          LegacyTTL   \* seconds migrate gives a row without a deadline: 7200

ASSUME OrdersAssumption == IsFiniteSet(Orders)
ASSUME AmountsAssumption == Amounts \subseteq Nat \ {0}
ASSUME LegacyTTLAssumption == LegacyTTL \in Nat \ {0}

PayStatuses == {"absent", "created", "paid", "failed"}
NotifyStatuses == {"none", "pending", "succeeded", "failed"}

Rows == [status    : PayStatuses,
         notify    : NotifyStatuses,
         attempts  : Nat,
         nextAt    : Nat,
         amount    : Amounts,
         payId     : BOOLEAN,
         payData   : BOOLEAN,
         createdAt : Nat,
         expireAt  : Nat,
         closedAt  : Nat,
         blocked   : BOOLEAN]

-----------------------------------------------------------------------------
(* Statements that write one row. *)

\* Insert.  The statement does not name expire_at, channel_closed_at and
\* expire_blocked, so a new row takes their defaults.
Insert(amount, at) ==
  [status |-> "created", notify |-> "none", attempts |-> 0, nextAt |-> 0,
   amount |-> amount, payId |-> FALSE, payData |-> FALSE,
   createdAt |-> at, expireAt |-> 0, closedAt |-> 0, blocked |-> FALSE]

\* UpdateJeepay writes both columns whatever they held.
UpdateJeepay(row, payId, payData) ==
  [row EXCEPT !.payId = payId, !.payData = payData]

\* Mutant of MarkPaid: the notification is not queued.
MarkPaidQuietly(row, payId, at) ==
  [row EXCEPT !.status = "paid", !.payId = @ \/ payId]

\* Mutant of MarkPaid: queues the notification again even when it succeeded.
MarkPaidAnyway(row, payId, at) ==
  [row EXCEPT !.status = "paid", !.payId = @ \/ payId,
              !.notify = "pending", !.nextAt = at]

\* MarkPaid has no guard on pay_status.  It queues the notification again
\* unless it has already succeeded, and keeps the count of attempts.
MarkPaid(row, payId, at) ==
  [row EXCEPT !.status = "paid",
              !.payId  = @ \/ payId,
              !.notify = IF @ = "succeeded" THEN @ ELSE "pending",
              !.nextAt = IF row.notify = "succeeded" THEN @ ELSE at]

MarkFailed(row) == [row EXCEPT !.status = "failed"]

\* Mutant of MarkFailedIfCreated: without its WHERE on pay_status.
MarkFailedWhatever(row) == [row EXCEPT !.status = "failed"]

MarkFailedIfCreated(row) ==
  IF row.status = "created" THEN [row EXCEPT !.status = "failed"] ELSE row

\* Mutant of SetExpireAt: without its WHERE on expire_at.
SetExpireAtAnyway(row, expireAt) == [row EXCEPT !.expireAt = expireAt]

SetExpireAt(row, expireAt) ==
  IF row.expireAt = 0 THEN [row EXCEPT !.expireAt = expireAt] ELSE row

SetChannelClosed(row, at) ==
  IF row.status = "created" /\ row.closedAt = 0
  THEN [row EXCEPT !.closedAt = at]
  ELSE row

BlockExpire(row) ==
  IF row.status = "created" THEN [row EXCEPT !.blocked = TRUE] ELSE row

NotifySucceeded(row) ==
  [row EXCEPT !.notify = "succeeded", !.nextAt = 0]

\* Mutants of NotifyRetry: giving up is written to the wrong column, or under
\* a name that is no notify_status.
NotifyRetryFailsOrder(row, attempts, nextAt, giveUp) ==
  [row EXCEPT !.status = IF giveUp THEN "failed" ELSE @,
              !.attempts = attempts, !.nextAt = nextAt]

NotifyRetryUnnamed(row, attempts, nextAt, giveUp) ==
  [row EXCEPT !.notify = IF giveUp THEN "given up" ELSE "pending",
              !.attempts = attempts, !.nextAt = nextAt]

NotifyRetry(row, attempts, nextAt, giveUp) ==
  [row EXCEPT !.notify = IF giveUp THEN "failed" ELSE "pending",
              !.attempts = attempts, !.nextAt = nextAt]

-----------------------------------------------------------------------------
(* Statements on the table. *)

\* Mutant of Migrate: the deadline lies before the creation of the order.
MigrateBackwards(table) ==
  [o \in Orders |->
     IF table[o].expireAt = 0 /\ table[o].status = "created"
     THEN [table[o] EXCEPT !.expireAt = table[o].createdAt - LegacyTTL]
     ELSE table[o]]

\* The last statement of migrate, run each time the process opens the store.
Migrate(table) ==
  [o \in Orders |->
     IF table[o].expireAt = 0 /\ table[o].status = "created"
     THEN [table[o] EXCEPT !.expireAt = table[o].createdAt + LegacyTTL]
     ELSE table[o]]

\* What SELECT ... ORDER BY key LIMIT limit may return of the rows S: rows
\* with equal keys come in any order, so there may be several answers.
Selections(S, key, limit) ==
  {s \in UNION {[1..k -> S] : k \in 0..limit} :
     /\ \A i, j \in DOMAIN s : i < j => s[i] # s[j] /\ key[s[i]] <= key[s[j]]
     /\ \A x \in S : (\A i \in DOMAIN s : s[i] # x) =>
          /\ Len(s) = limit
          /\ \A i \in DOMAIN s : key[s[i]] <= key[x]}

\* A fetched row is a copy that stays as it was read.
Fetch(table, s) == [i \in DOMAIN s |-> [order |-> s[i], row |-> table[s[i]]]]

Fetched == [order : Orders, row : Rows]

DueCloses(table, dueAt, limit) ==
  LET due == {o \in Orders : /\ table[o].status = "created"
                             /\ ~ table[o].blocked
                             /\ table[o].expireAt > 0
                             /\ table[o].expireAt <= dueAt}
  IN {Fetch(table, s) :
        s \in Selections(due, [o \in Orders |-> table[o].expireAt], limit)}

\* Mutant of DueNotifies: without its WHERE on next_notify_at.
DueNotifiesAtOnce(table, limit, at) ==
  LET due == {o \in Orders : table[o].status # "absent" /\ table[o].notify = "pending"}
  IN {Fetch(table, s) :
        s \in Selections(due, [o \in Orders |-> table[o].nextAt], limit)}

\* The query does not look at pay_status.
DueNotifies(table, limit, at) ==
  LET due == {o \in Orders : /\ table[o].status # "absent"
                             /\ table[o].notify = "pending"
                             /\ table[o].nextAt <= at}
  IN {Fetch(table, s) :
        s \in Selections(due, [o \in Orders |-> table[o].nextAt], limit)}
=============================================================================
