------------------------------- MODULE Refund -------------------------------
(***************************************************************************)
(* Taking a refunded top-up back (internal/app/refund.go, with the         *)
(* refund_debits table of internal/store/store.go and the NewAPI client of *)
(* internal/newapi/client.go).  Jeepay tells the adapter of a refund, as   *)
(* often as it likes; the adapter claims the refund in its table, subtracts*)
(* the quota in NewAPI, and marks the row done.                            *)
(*                                                                         *)
(* refundMu serialises the handlers from the claim to the end, so there is *)
(* one handler at a time; the NewAPI requests it gave up on are not        *)
(* serialised by anything.                                                 *)
(***************************************************************************)
EXTENDS Integers, FiniteSets

CONSTANTS Refunds,      \* refund order ids
          Pays,         \* gateway order ids of paid orders
          PaidAmount,   \* PaidAmount[p]: amount_fen of the order
          Holder,       \* Holder[p]: the user credited, read off the trade number
          Quota,        \* Quota[p]: creditedQuota, the quota the order bought
          Notices,      \* refund notifications, see Notice
          Patience,     \* seconds before a pending debit is sent again: 30
          ApplyLag,     \* longest time NewAPI may take over a request given up on
          ClockLag,     \* most by which NewAPI's clock is behind
          LogComplete,  \* does the page of 50 log entries hold all that matter?
          MaxTime,      \* bound: the clock stops here
          MaxDebits     \* bound: debits NewAPI carries out for one refund

Notice == [refund : Refunds, pay : Pays, success : BOOLEAN, refundAmount : Nat, payAmount : Nat]

ASSUME RefundAssumption == /\ PaidAmount \in [Pays -> Nat \ {0}]
                           /\ Quota \in [Pays -> Nat \ {0}]
                           /\ Notices \subseteq Notice /\ Notices # {}
                           /\ Patience \in Nat /\ ApplyLag \in Nat /\ ClockLag \in Nat
                           /\ LogComplete \in BOOLEAN
                           /\ MaxTime \in Nat /\ MaxDebits \in Nat \ {0}

VARIABLES now,
          table,     \* table[r]: the row of refund_debits
          handler,   \* the handler that holds refundMu
          log,       \* what NewAPI logged of subtractions
          debited,   \* debited[r]: how often NewAPI subtracted for refund r
          inflight   \* requests given up on that NewAPI may still carry out

refundVars == <<now, table, handler, log, debited, inflight>>

Users == {Holder[p] : p \in Pays}
Quotas == {Quota[p] : p \in Pays}

\* Rows.  "none" is no row.
NoRow(r) == [state |-> "none", pay |-> CHOOSE p \in Pays : TRUE, createdAt |-> 0]
DebitRows == [state : {"none", "pending", "done"}, pay : Pays, createdAt : Nat]

HandlerPCs == {"idle", "billing", "claim", "check", "send", "finish", "release"}
NoNotice == CHOOSE n \in Notices : TRUE
Unlocked == [pc |-> "idle", notice |-> NoNotice]

RefundInit == /\ now = 1
              /\ table = [r \in Refunds |-> NoRow(r)]
              /\ handler = Unlocked
              /\ log = {}
              /\ debited = [r \in Refunds |-> 0]
              /\ inflight = {}

refund == handler.notice.refund
row == table[refund]

Goto(pc) == handler' = [handler EXCEPT !.pc = pc]
Unlock == handler' = Unlocked

-----------------------------------------------------------------------------
(* ClaimRefund, FinishRefund and ReleaseRefund *)

DonePays == {table[r].pay : r \in {x \in Refunds : table[x].state = "done"}}

\* Mutant of Claim: a pending refund counts as dealt with.
ClaimOnce(r, pay) ==
  CASE table[r].state # "none" -> "done"
    [] table[r].state = "none" /\ pay \in DonePays -> "pay-done"
    [] OTHER -> "new"

Claim(r, pay) ==
  CASE table[r].state = "done"    -> "done"
    [] table[r].state = "pending" -> "pending"
    [] table[r].state = "none" /\ pay \in DonePays -> "pay-done"
    [] OTHER -> "new"

\* The unique index on the pay orders of done rows refuses a second one.
CanFinish(r) == table[r].state = "pending" /\ table[r].pay \notin DonePays

\* Mutant of Released: the row is kept, in a state of its own.
ReleasedByName(r) ==
  IF table[r].state = "pending" THEN [table[r] EXCEPT !.state = "released"] ELSE table[r]

Released(r) == IF table[r].state = "pending" THEN NoRow(r) ELSE table[r]

-----------------------------------------------------------------------------
(* NewAPI *)

\* NewAPI subtracts the quota and logs it, at the time its clock shows.
Subtracted(r, pay) ==
  /\ debited[r] < MaxDebits
  /\ debited' = [debited EXCEPT ![r] = @ + 1]
  /\ \E lag \in 0..ClockLag :
       log' = log \union {[user |-> Holder[pay], quota |-> Quota[pay], at |-> now - lag]}

NotSubtracted == UNCHANGED <<debited, log>>

\* Mutants of HasSubtract: the quota is not compared; one second is lost.
HasSubtractOfUser(user, quota, since) ==
  \E e \in log : e.user = user /\ e.at >= since

HasSubtractAfter(user, quota, since) ==
  \E e \in log : e.user = user /\ e.quota = quota /\ e.at > since

\* HasSubtract looks for an entry of the same user and quota.
HasSubtract(user, quota, since) ==
  \E e \in log : e.user = user /\ e.quota = quota /\ e.at >= since

\* A request the adapter has given up on is carried out after all.
LateSubtract ==
  \E x \in inflight :
    /\ Subtracted(x.refund, x.pay)
    /\ inflight' = inflight \ {x}
    /\ UNCHANGED <<now, table, handler>>

-----------------------------------------------------------------------------
(* HandleRefundNotify *)

\* The checks made before the lock is taken: a refund that succeeded, of the
\* whole amount, of an order known to be paid at that amount.
Accepted(n) == /\ n.success
               /\ n.refundAmount = n.payAmount /\ n.refundAmount > 0
               /\ PaidAmount[n.pay] = n.payAmount

Receive == /\ handler.pc = "idle"
           /\ \E n \in Notices : /\ Accepted(n)
                                 /\ handler' = [pc |-> "billing", notice |-> n]
           /\ UNCHANGED <<now, table, log, debited, inflight>>

BillingAnswered == /\ handler.pc = "billing"
                   /\ Goto("claim")
                   /\ UNCHANGED <<now, table, log, debited, inflight>>

ClaimRefund ==
  /\ handler.pc = "claim"
  /\ LET claim == Claim(refund, handler.notice.pay)
     IN /\ table' = IF claim = "new"
                    THEN [table EXCEPT ![refund] =
                            [state |-> "pending", pay |-> handler.notice.pay, createdAt |-> now]]
                    ELSE table
        /\ CASE claim = "new"     -> Goto("send")
             [] claim = "pending" -> Goto("check")
             [] OTHER -> Unlock
  /\ UNCHANGED <<now, log, debited, inflight>>

\* finishPendingRefund.  The log is read from one second before the claim;
\* a page that does not hold all entries may miss the one that counts.
CheckPending ==
  /\ handler.pc = "check"
  /\ LET logged == HasSubtract(Holder[row.pay], Quota[row.pay], row.createdAt - 1)
     IN \E found \in IF LogComplete THEN {logged} ELSE {logged, FALSE} :
          IF found THEN Goto("finish")
          ELSE IF now - row.createdAt < Patience THEN Unlock ELSE Goto("send")
  /\ UNCHANGED <<now, table, log, debited, inflight>>

\* Subtract, called by subtractRefund.
SubtractAnswered ==
  /\ handler.pc = "send"
  /\ Subtracted(refund, row.pay)
  /\ Goto("finish")
  /\ UNCHANGED <<now, table, inflight>>

\* ErrUncertain: no answer, or none that says what happened.
SubtractUncertain ==
  /\ handler.pc = "send"
  /\ Subtracted(refund, row.pay) \/ NotSubtracted
  /\ Unlock
  /\ UNCHANGED <<now, table, inflight>>

\* ErrUncertain as well: NewAPI still has the request, and may carry it out.
SubtractUnfinished ==
  /\ handler.pc = "send"
  /\ NotSubtracted
  /\ inflight' = inflight \union {[refund |-> refund, pay |-> row.pay, sent |-> now]}
  /\ Unlock
  /\ UNCHANGED <<now, table>>

\* ErrRejected: NewAPI refused, and subtracted nothing.
SubtractRejected ==
  /\ handler.pc = "send"
  /\ Goto("release")
  /\ UNCHANGED <<now, table, log, debited, inflight>>

FinishRefund ==
  /\ handler.pc = "finish"
  /\ table' = IF CanFinish(refund)
              THEN [table EXCEPT ![refund].state = "done"]
              ELSE table
  /\ Unlock
  /\ UNCHANGED <<now, log, debited, inflight>>

ReleaseRefund ==
  /\ handler.pc = "release"
  /\ table' = [table EXCEPT ![refund] = Released(refund)]
  /\ Unlock
  /\ UNCHANGED <<now, log, debited, inflight>>

\* Any call or statement may fail, or the process die: nothing is done, and
\* what the table holds is all that is remembered.
GiveUp == /\ handler.pc \in {"billing", "claim", "check", "finish", "release"}
          /\ Unlock
          /\ UNCHANGED <<now, table, log, debited, inflight>>

\* A request is carried out within ApplyLag or not at all.
RefundTick == /\ now < MaxTime
              /\ now' = now + 1
              /\ inflight' = {x \in inflight : now < x.sent + ApplyLag}
              /\ UNCHANGED <<table, handler, log, debited>>

HandlerStep == \/ BillingAnswered \/ ClaimRefund \/ CheckPending
               \/ SubtractAnswered \/ SubtractUncertain \/ SubtractRejected
               \/ FinishRefund \/ ReleaseRefund \/ GiveUp

RefundNext == Receive \/ HandlerStep \/ RefundTick

\* NewAPI has carried out a request when the adapter gives it up, or never does.
RefundSpec == RefundInit /\ [][RefundNext]_refundVars

\* NewAPI may also carry it out later.
LateNext == RefundNext \/ SubtractUnfinished \/ LateSubtract

LateSpec == RefundInit /\ [][LateNext]_refundVars

\* A handler does not stop half way.  Jeepay, or a person, sends the
\* notification again until it is accepted, and what is tried again and again
\* succeeds once.  Nothing in the adapter itself
\* takes up a pending row.
RefundFairSpec ==
  /\ RefundSpec
  /\ WF_refundVars(RefundTick)
  /\ WF_refundVars(HandlerStep)
  /\ \A r \in Refunds :
       /\ SF_refundVars(Receive /\ handler'.notice.refund = r)
       /\ SF_refundVars(BillingAnswered /\ refund = r)
       /\ SF_refundVars(ClaimRefund /\ refund = r)
       /\ SF_refundVars(CheckPending /\ refund = r)
       /\ SF_refundVars(SubtractAnswered /\ refund = r)
       /\ SF_refundVars(FinishRefund /\ refund = r)

-----------------------------------------------------------------------------
(* Properties *)

\* Every variable keeps its type.
RefundTypeOK ==
  /\ now \in Nat
  /\ table \in [Refunds -> DebitRows]
  /\ handler \in [pc : HandlerPCs, notice : Notices]
  /\ log \subseteq [user : Users, quota : Quotas, at : Int]
  /\ debited \in [Refunds -> Nat]
  /\ inflight \subseteq [refund : Refunds, pay : Pays, sent : Nat]

\* One refund is taken back at most once, whatever is lost, repeated or
\* interrupted (README:52).
DebitedOnce == \A r \in Refunds : debited[r] <= 1

\* A row marked done is one whose quota NewAPI has subtracted; RefundedOutTradeNos
\* reports the order as taken back (store.go:267).  HasSubtract takes the entry
\* of another refund of the same user and quota for its own, so this holds only
\* where these tell the refunds apart.
DoneIsDebited == \A r \in Refunds : table[r].state = "done" => debited[r] > 0

\* NewAPI has logged a subtraction of the row's user and quota no earlier than
\* the second before the row was claimed.
Logged(r) == \E e \in log : /\ e.user = Holder[table[r].pay]
                           /\ e.quota = Quota[table[r].pay]
                           /\ e.at >= table[r].createdAt - 1

\* What a row marked done does stand for, also where refunds look the same,
\* requests are carried out late and the page of the log is incomplete: a
\* subtraction of its size, of its user, made since it was claimed
\* (refund.go:101 and 132).
DoneIsLogged == \A r \in Refunds : table[r].state = "done" => Logged(r)

\* Once a refund of an order is done nothing more is subtracted for that order
\* (ClaimRefund, store.go:191).
DoneStopsDebits ==
  [][\A r, q \in Refunds :
       /\ table[r].state = "done" /\ table[q].state # "none"
       /\ table[q].pay = table[r].pay
       => debited'[q] = debited[q]]_refundVars

\* A claimed refund is in the end done, or NewAPI has refused it.  One claimed
\* so late that the bounded clock stops within its Patience is left out.
PendingIsSettled ==
  \A r \in Refunds :
    table[r].state = "pending" ~>
      (table[r].state # "pending" \/ table[r].createdAt > MaxTime - Patience)
=============================================================================
