---------------------------- MODULE RefundProofs ----------------------------
(***************************************************************************)
(* Refunds, for every set of refunds, orders, amounts and notifications:   *)
(* what a refund recorded as done stands for, and that a refund is taken   *)
(* back once.                                                              *)
(*                                                                         *)
(* The first needs the clocks to agree (ClocksAgree), the second also that *)
(* NewAPI's log can be relied on (LogIsProof) and that no request is       *)
(* carried out late (RefundSpec); the run refund_late shows what happens   *)
(* otherwise.  That a done refund has been debited itself is not provable: *)
(* of two refunds of one user and one size, the debit of one may be taken  *)
(* for that of the other.                                                  *)
(***************************************************************************)
EXTENDS Refund, TLAPS

\* NewAPI's clock is behind by no more than the second that finishPendingRefund
\* allows for.
ClocksAgree == ClockLag <= 1

\* What is not in the log has not happened: the page read is complete, and the
\* clocks agree.
LogIsProof == LogComplete /\ ClocksAgree

\* Where the handler works on the pending row of its refund.
AtWork == handler.pc \in {"check", "send", "finish", "release"}

AtWorkIsPending == AtWork => row.state = "pending"

RefundIInv == RefundTypeOK /\ AtWorkIsPending

NotClaimedLater == \A r \in Refunds : table[r].createdAt <= now

\* A handler about to record a refund as done has seen it in the log, or has
\* been told so by NewAPI.
DoneInv ==
  /\ NotClaimedLater
  /\ handler.pc = "finish" => \A r \in Refunds : r = refund => Logged(r)
  /\ DoneIsLogged

OnceInv ==
  /\ DebitedOnce
  /\ NotClaimedLater
  /\ \A r \in Refunds : debited[r] > 0 => table[r].state # "none" /\ Logged(r)
  /\ handler.pc \in {"send", "release"} => debited[refund] = 0

USE RefundAssumption

-----------------------------------------------------------------------------
(* Types, and the row a handler works on. *)

\* There is something to be told, so there are refunds and orders.
LEMMA NoticeFacts ==
  /\ NoNotice \in Notices
  /\ \A n \in Notices : n.refund \in Refunds /\ n.pay \in Pays
  /\ \A r \in Refunds : NoRow(r) \in DebitRows
<1>1. NoNotice \in Notices
  BY DEF NoNotice
<1>2. \A n \in Notices : n.refund \in Refunds /\ n.pay \in Pays
  BY DEF Notice
<1>3. (CHOOSE p \in Pays : TRUE) \in Pays
  BY <1>1, <1>2
<1> QED
  BY <1>1, <1>2, <1>3 DEF NoRow, DebitRows

\* The handler works on a refund, on a row of the table and for a notification.
LEMMA HandlerFacts ==
  ASSUME RefundTypeOK
  PROVE  /\ handler.notice \in Notices /\ handler.pc \in HandlerPCs
         /\ refund \in Refunds /\ handler.notice.pay \in Pays
         /\ row \in DebitRows /\ row = table[refund] /\ row.pay \in Pays
         /\ Unlocked \in [pc : HandlerPCs, notice : Notices]
<1>1. handler.notice \in Notices /\ handler.pc \in HandlerPCs
  BY DEF RefundTypeOK
<1>2. refund \in Refunds /\ handler.notice.pay \in Pays
  BY <1>1, NoticeFacts DEF refund
<1>3. row \in DebitRows /\ row = table[refund]
  BY <1>2 DEF RefundTypeOK, row
<1>4. Unlocked \in [pc : HandlerPCs, notice : Notices]
  BY NoticeFacts DEF Unlocked, HandlerPCs
<1> QED
  BY <1>1, <1>2, <1>3, <1>4 DEF DebitRows

\* What the three ends of a handler's step do to it.
LEMMA HandlerMoves ==
  ASSUME RefundTypeOK
  PROVE  /\ \A pc \in HandlerPCs : Goto(pc) =>
              /\ handler' \in [pc : HandlerPCs, notice : Notices]
              /\ handler'.pc = pc /\ refund' = refund
         /\ Unlock => /\ handler' \in [pc : HandlerPCs, notice : Notices]
                      /\ handler'.pc = "idle"
<1>1. handler \in [pc : HandlerPCs, notice : Notices]
  BY DEF RefundTypeOK
<1>2. ASSUME NEW pc \in HandlerPCs, Goto(pc)
      PROVE  /\ handler' \in [pc : HandlerPCs, notice : Notices]
             /\ handler'.pc = pc /\ refund' = refund
  BY <1>1, <1>2 DEF Goto, refund
<1>3. Unlock => /\ handler' \in [pc : HandlerPCs, notice : Notices]
                /\ handler'.pc = "idle"
  BY HandlerFacts DEF Unlock, Unlocked
<1> QED
  BY <1>2, <1>3

\* NewAPI's side of a subtraction keeps the types.
LEMMA SubtractedType ==
  ASSUME RefundTypeOK, NEW r \in Refunds, NEW p \in Pays, Subtracted(r, p)
  PROVE  /\ debited' \in [Refunds -> Nat]
         /\ log' \subseteq [user : Users, quota : Quotas, at : Int]
         /\ \A x \in Refunds : debited'[x] = IF x = r THEN debited[x] + 1 ELSE debited[x]
         /\ \E lag \in 0..ClockLag :
              log' = log \union {[user |-> Holder[p], quota |-> Quota[p], at |-> now - lag]}
<1>1. debited \in [Refunds -> Nat] /\ now \in Nat
  BY DEF RefundTypeOK
<1>2. debited' = [debited EXCEPT ![r] = @ + 1]
  BY DEF Subtracted
<1>3. PICK lag \in 0..ClockLag :
        log' = log \union {[user |-> Holder[p], quota |-> Quota[p], at |-> now - lag]}
  BY DEF Subtracted
<1>4. Holder[p] \in Users /\ Quota[p] \in Quotas /\ now - lag \in Int
  BY <1>1 DEF Users, Quotas
<1>5. log' \subseteq [user : Users, quota : Quotas, at : Int]
  BY <1>3, <1>4 DEF RefundTypeOK
<1> QED
  BY <1>1, <1>2, <1>3, <1>5

LEMMA ClaimStep ==
  ASSUME RefundIInv, ClaimRefund
  PROVE  RefundIInv'
<1> DEFINE claim == Claim(refund, handler.notice.pay)
           new == [state |-> "pending", pay |-> handler.notice.pay, createdAt |-> now]
<1> USE DEF RefundIInv
<1>1. /\ refund \in Refunds /\ handler.notice.pay \in Pays
      /\ row \in DebitRows /\ row = table[refund]
  BY HandlerFacts
<1>2. /\ table' = IF claim = "new" THEN [table EXCEPT ![refund] = new] ELSE table
      /\ \/ claim = "new" /\ Goto("send")
         \/ claim = "pending" /\ Goto("check")
         \/ Unlock
      /\ UNCHANGED <<now, log, debited, inflight>>
  BY DEF ClaimRefund
<1>3. new \in DebitRows
  BY <1>1 DEF DebitRows, RefundTypeOK
<1>4. claim = "pending" => row.state = "pending"
  BY <1>1 DEF Claim
<1>5. claim = "new" => row.state = "none"
  BY <1>1 DEF Claim, DebitRows
<1> HIDE DEF claim
<1>6. table' \in [Refunds -> DebitRows]
  BY <1>1, <1>2, <1>3 DEF RefundTypeOK
<1>7. /\ handler' \in [pc : HandlerPCs, notice : Notices]
      /\ handler'.pc \in {"send", "check", "idle"}
      /\ handler'.pc # "idle" => refund' = refund
      /\ handler'.pc = "send" => claim = "new"
      /\ handler'.pc = "check" => claim = "pending"
  BY <1>2, HandlerMoves DEF HandlerPCs
<1>8. RefundTypeOK'
  BY <1>2, <1>6, <1>7 DEF RefundTypeOK
<1>9. AtWorkIsPending'
  <2>1. claim = "new" => table'[refund].state = "pending"
    BY <1>1, <1>2 DEF RefundTypeOK
  <2>2. claim = "pending" => table'[refund].state = "pending"
    BY <1>1, <1>2, <1>4
  <2> QED
    BY <1>7, <2>1, <2>2 DEF AtWorkIsPending, AtWork, row
<1> QED
  BY <1>8, <1>9

LEMMA TableSteps ==
  ASSUME RefundIInv, FinishRefund \/ ReleaseRefund
  PROVE  RefundIInv'
<1> USE DEF RefundIInv
<1>1. /\ refund \in Refunds /\ row \in DebitRows /\ row = table[refund]
      /\ row.state = "pending" /\ AtWork
  BY HandlerFacts DEF FinishRefund, ReleaseRefund, AtWorkIsPending, AtWork
<1>2. /\ handler' \in [pc : HandlerPCs, notice : Notices] /\ handler'.pc = "idle"
      /\ UNCHANGED <<now, log, debited, inflight>>
  BY HandlerMoves DEF FinishRefund, ReleaseRefund
<1>3. CASE ReleaseRefund
  <2>1. table' = [table EXCEPT ![refund] = NoRow(refund)] /\ NoRow(refund) \in DebitRows
    BY <1>1, <1>3, NoticeFacts DEF ReleaseRefund, Released
  <2> QED
    BY <1>2, <2>1 DEF RefundTypeOK, AtWorkIsPending, AtWork
<1>4. CASE FinishRefund
  <2>1. table' = [table EXCEPT ![refund].state = "done"] \/ table' = table
    BY <1>4 DEF FinishRefund
  <2>2. table' \in [Refunds -> DebitRows]
    BY <1>1, <2>1 DEF RefundTypeOK, DebitRows
  <2> QED
    BY <1>2, <2>2 DEF RefundTypeOK, AtWorkIsPending, AtWork
<1> QED
  BY <1>3, <1>4

\* Steps that leave the table alone and go on with the refund only if they were
\* at work on it.
LEMMA OtherRefundSteps ==
  ASSUME RefundIInv,
         \/ Receive \/ BillingAnswered \/ CheckPending \/ SubtractAnswered
         \/ SubtractUncertain \/ SubtractUnfinished \/ SubtractRejected \/ GiveUp \/ LateSubtract
         \/ RefundTick \/ UNCHANGED refundVars
  PROVE  /\ RefundIInv' /\ UNCHANGED table
         /\ AtWork' => AtWork /\ refund' = refund
<1> USE DEF RefundIInv
<1>1. /\ refund \in Refunds /\ row \in DebitRows /\ row.pay \in Pays /\ UNCHANGED table
  BY HandlerFacts DEF Receive, BillingAnswered, CheckPending, SubtractAnswered,
     SubtractUncertain, SubtractUnfinished, SubtractRejected, GiveUp, LateSubtract, RefundTick, refundVars
<1>2. /\ handler' \in [pc : HandlerPCs, notice : Notices]
      /\ AtWork' => AtWork /\ refund' = refund
  <2>1. CASE Receive
    <3>1. PICK n \in Notices : handler' = [pc |-> "billing", notice |-> n]
      BY <2>1 DEF Receive
    <3> QED
      BY <3>1 DEF HandlerPCs, AtWork
  <2>2. CASE BillingAnswered
    BY <2>2, HandlerMoves DEF BillingAnswered, HandlerPCs, AtWork
  <2>3. CASE CheckPending \/ SubtractAnswered \/ SubtractUncertain \/ SubtractUnfinished \/ SubtractRejected
    <3>1. AtWork
      BY <2>3 DEF CheckPending, SubtractAnswered, SubtractUncertain, SubtractUnfinished, SubtractRejected, AtWork
    <3>2. \/ Unlock
          \/ \E pc \in {"finish", "send", "release"} : Goto(pc)
      BY <2>3 DEF CheckPending, SubtractAnswered, SubtractUncertain, SubtractUnfinished, SubtractRejected
    <3> QED
      BY <3>1, <3>2, HandlerMoves DEF HandlerPCs, AtWork
  <2>4. CASE GiveUp
    BY <2>4, HandlerMoves DEF GiveUp, AtWork
  <2>5. CASE LateSubtract \/ RefundTick \/ UNCHANGED refundVars
    BY <2>5 DEF LateSubtract, RefundTick, refundVars, RefundTypeOK, AtWork, refund
  <2> QED
    BY <2>1, <2>2, <2>3, <2>4, <2>5
<1>3. now' \in Nat
  <2>1. RefundTick \/ now' = now
    BY DEF Receive, BillingAnswered, CheckPending, SubtractAnswered,
       SubtractUncertain, SubtractUnfinished, SubtractRejected, GiveUp, LateSubtract, refundVars
  <2> QED
    BY <2>1 DEF RefundTick, RefundTypeOK
<1>4. /\ debited' \in [Refunds -> Nat]
      /\ log' \subseteq [user : Users, quota : Quotas, at : Int]
  <2>1. CASE \E r \in Refunds, p \in Pays : Subtracted(r, p)
    BY <2>1, SubtractedType
  <2>2. CASE UNCHANGED <<debited, log>>
    BY <2>2 DEF RefundTypeOK
  <2>3. CASE LateSubtract
    BY <2>1, <2>3 DEF LateSubtract, RefundTypeOK
  <2> QED
    BY <1>1, <2>1, <2>2, <2>3 DEF Receive, BillingAnswered, CheckPending, SubtractAnswered,
       SubtractUncertain, SubtractUnfinished, SubtractRejected, GiveUp, RefundTick, refundVars, NotSubtracted
<1>5. inflight' \subseteq [refund : Refunds, pay : Pays, sent : Nat]
  <2> DEFINE sent == [refund |-> refund, pay |-> row.pay, sent |-> now]
  <2>1. \/ inflight' \subseteq inflight
        \/ inflight' = inflight \union {sent}
    BY DEF Receive, BillingAnswered, CheckPending, SubtractAnswered,
       SubtractUncertain, SubtractUnfinished, SubtractRejected, GiveUp, LateSubtract, RefundTick, refundVars
  <2>2. sent \in [refund : Refunds, pay : Pays, sent : Nat]
    BY <1>1 DEF RefundTypeOK
  <2> HIDE DEF sent
  <2> QED
    BY <2>1, <2>2 DEF RefundTypeOK
<1>6. RefundTypeOK'
  BY <1>1, <1>2, <1>3, <1>4, <1>5 DEF RefundTypeOK
<1>7. AtWorkIsPending'
  BY <1>1, <1>2 DEF AtWorkIsPending, row
<1> QED
  BY <1>1, <1>2, <1>6, <1>7

LEMMA RefundInitInv ==
  ASSUME RefundInit
  PROVE  RefundIInv
<1>1. RefundTypeOK
  BY NoticeFacts DEF RefundInit, RefundTypeOK, Unlocked, HandlerPCs
<1> QED
  BY <1>1 DEF RefundIInv, RefundInit, AtWorkIsPending, AtWork, Unlocked

LEMMA RefundNextInv ==
  ASSUME RefundIInv, [LateNext]_refundVars
  PROVE  RefundIInv'
BY ClaimStep, TableSteps, OtherRefundSteps DEF LateNext, RefundNext, HandlerStep

-----------------------------------------------------------------------------
(* A done refund is in the log. *)

\* An entry that is in the log stays there.
LEMMA LoggedStays ==
  ASSUME NEW r \in Refunds, Logged(r), log \subseteq log',
         table'[r].pay = table[r].pay, table'[r].createdAt = table[r].createdAt
  PROVE  Logged(r)'
BY DEF Logged

\* A subtraction made for the pending row at hand is logged at a time at which
\* it is looked for.
LEMMA SubtractedIsLogged ==
  ASSUME RefundTypeOK, ClocksAgree, NotClaimedLater, Subtracted(refund, row.pay),
         UNCHANGED table, NEW q \in Refunds, q = refund
  PROVE  log \subseteq log' /\ Logged(q)'
<1>1. /\ refund \in Refunds /\ row \in DebitRows /\ row = table[refund] /\ row.pay \in Pays
  BY HandlerFacts
<1>2. PICK lag \in 0..ClockLag :
        log' = log \union {[user |-> Holder[row.pay], quota |-> Quota[row.pay],
                            at |-> now - lag]}
  BY <1>1, SubtractedType
<1> DEFINE entry == [user |-> Holder[row.pay], quota |-> Quota[row.pay], at |-> now - lag]
<1>3. now - lag >= row.createdAt - 1
  <2>1. lag \in Nat /\ lag <= 1 /\ now \in Nat /\ row.createdAt \in Nat
    BY <1>1 DEF ClocksAgree, RefundTypeOK, DebitRows
  <2>2. row.createdAt <= now
    BY <1>1 DEF NotClaimedLater
  <2> QED
    BY <2>1, <2>2
<1>4. /\ entry \in log' /\ entry.user = Holder[row.pay] /\ entry.quota = Quota[row.pay]
      /\ entry.at >= row.createdAt - 1
  BY <1>2, <1>3
<1>5. \E e \in log' : /\ e.user = Holder[row.pay] /\ e.quota = Quota[row.pay]
                      /\ e.at >= row.createdAt - 1
  BY <1>4
<1>6. table'[q].pay = row.pay /\ table'[q].createdAt = row.createdAt
  BY <1>1
<1>7. \E e \in log' : /\ e.user = Holder[table'[q].pay]
                      /\ e.quota = Quota[table'[q].pay]
                      /\ e.at >= table'[q].createdAt - 1
  BY <1>5, <1>6
<1> QED
  BY <1>2, <1>7 DEF Logged

\* What NewAPI logs it does not take back.
LEMMA LogGrows ==
  ASSUME RefundIInv, [LateNext]_refundVars
  PROVE  log \subseteq log'
<1>1. CASE \E r, p : Subtracted(r, p)
  BY <1>1 DEF Subtracted
<1>2. CASE UNCHANGED log
  BY <1>2
<1>3. CASE LateSubtract
  BY <1>1, <1>3 DEF LateSubtract
<1> QED
  BY <1>1, <1>2, <1>3 DEF LateNext, RefundNext, HandlerStep, Receive, BillingAnswered, ClaimRefund,
     CheckPending, SubtractAnswered, SubtractUncertain, SubtractUnfinished, SubtractRejected, FinishRefund,
     ReleaseRefund, GiveUp, RefundTick, refundVars, NotSubtracted

LEMMA DoneNextInv ==
  ASSUME RefundIInv, DoneInv, ClocksAgree, [LateNext]_refundVars
  PROVE  DoneInv'
<1> USE DEF RefundIInv
<1>1. /\ refund \in Refunds /\ row \in DebitRows /\ row = table[refund] /\ row.pay \in Pays
      /\ now \in Nat /\ log \subseteq log'
  BY HandlerFacts, LogGrows DEF RefundTypeOK
<1>2. \A r \in Refunds : /\ table[r].state = "done" => Logged(r)
                        /\ table[r].createdAt <= now
  BY DEF DoneInv, NotClaimedLater, DoneIsLogged
<1>3. CASE ClaimRefund
  <2> DEFINE new == [state |-> "pending", pay |-> handler.notice.pay, createdAt |-> now]
  <2>1. /\ table' = [table EXCEPT ![refund] = new] \/ table' = table
        /\ UNCHANGED now /\ (Goto("send") \/ Goto("check") \/ Unlock)
    BY <1>3 DEF ClaimRefund
  <2>2. handler'.pc # "finish"
    BY <2>1, HandlerMoves DEF HandlerPCs
  <2>3. \A r \in Refunds : \/ table'[r] = table[r]
                           \/ table'[r].state = "pending" /\ table'[r].createdAt = now
    BY <1>1, <2>1 DEF RefundTypeOK
  <2>4. \A r \in Refunds : /\ table'[r].state = "done" => Logged(r)'
                          /\ table'[r].createdAt <= now'
    BY <1>1, <1>2, <2>1, <2>3, LoggedStays
  <2> QED
    BY <2>2, <2>4 DEF DoneInv, NotClaimedLater, DoneIsLogged
<1>4. CASE FinishRefund \/ ReleaseRefund
  <2>1. UNCHANGED now /\ handler'.pc = "idle"
    BY <1>4, HandlerMoves DEF FinishRefund, ReleaseRefund
  <2>2. \A r \in Refunds : \/ table'[r] = table[r]
                           \/ table'[r].state = "none" /\ table'[r].createdAt = 0
                           \/ /\ handler.pc = "finish" /\ r = refund
                              /\ table'[r].pay = table[r].pay
                              /\ table'[r].createdAt = table[r].createdAt
    <3>1. CASE FinishRefund
      BY <1>1, <3>1 DEF FinishRefund, RefundTypeOK, DebitRows
    <3>2. CASE ReleaseRefund
      BY <1>1, <3>2 DEF ReleaseRefund, Released, NoRow, RefundTypeOK
    <3> QED
      BY <1>4, <3>1, <3>2
  <2>3. \A r \in Refunds : handler.pc = "finish" /\ r = refund => Logged(r)
    BY DEF DoneInv
  <2>4. \A r \in Refunds : /\ table'[r].state = "done" => Logged(r)'
                          /\ table'[r].createdAt <= now'
    BY <1>1, <1>2, <2>1, <2>2, <2>3, LoggedStays
  <2> QED
    BY <2>1, <2>4 DEF DoneInv, NotClaimedLater, DoneIsLogged
<1>5. CASE SubtractAnswered
  <2>1. UNCHANGED <<now, table>> /\ Subtracted(refund, row.pay) /\ refund' = refund
    BY <1>5, HandlerMoves DEF SubtractAnswered, HandlerPCs
  <2>2. \A r \in Refunds : r = refund => Logged(r)'
    BY <2>1, SubtractedIsLogged DEF DoneInv
  <2>3. \A r \in Refunds : table[r].state = "done" => Logged(r)'
    BY <1>1, <1>2, <2>1, LoggedStays
  <2> QED
    BY <1>2, <2>1, <2>2, <2>3 DEF DoneInv, NotClaimedLater, DoneIsLogged
<1>6. CASE CheckPending
  <2>1. UNCHANGED <<now, table>>
    BY <1>6 DEF CheckPending
  <2>2. \/ Goto("finish") /\ Logged(refund)
        \/ Goto("send") \/ Unlock
    BY <1>1, <1>6 DEF CheckPending, HasSubtract, Logged
  <2>3. \A r \in Refunds : handler'.pc = "finish" /\ r = refund' => Logged(r)
    BY <2>2, HandlerMoves DEF HandlerPCs
  <2> QED
    BY <1>1, <1>2, <2>1, <2>3, LoggedStays DEF DoneInv, NotClaimedLater, DoneIsLogged
<1>7. CASE \/ Receive \/ BillingAnswered \/ SubtractUncertain \/ SubtractUnfinished
           \/ SubtractRejected \/ GiveUp
  <2>1. UNCHANGED <<now, table>>
    BY <1>7 DEF Receive, BillingAnswered, SubtractUncertain, SubtractUnfinished, SubtractRejected, GiveUp
  <2>2. handler'.pc # "finish"
    BY <1>7, HandlerMoves DEF Receive, BillingAnswered, SubtractUncertain, SubtractUnfinished, SubtractRejected,
       GiveUp, HandlerPCs
  <2> QED
    BY <1>1, <1>2, <2>1, <2>2, LoggedStays DEF DoneInv, NotClaimedLater, DoneIsLogged
<1>8. CASE LateSubtract \/ RefundTick \/ UNCHANGED refundVars
  <2>1. UNCHANGED <<table, handler>> /\ now' >= now
    BY <1>1, <1>8 DEF LateSubtract, RefundTick, refundVars
  <2>2. \A r \in Refunds : table[r].createdAt \in Nat
    BY DEF RefundTypeOK, DebitRows
  <2>3. now' \in Nat /\ refund' = refund
    BY <1>1, <1>8, <2>1 DEF LateSubtract, RefundTick, refundVars, refund
  <2>4. \A r \in Refunds : Logged(r) => Logged(r)'
    BY <1>1, <2>1, LoggedStays
  <2> QED
    BY <1>1, <1>2, <2>1, <2>2, <2>3, <2>4 DEF DoneInv, NotClaimedLater, DoneIsLogged
<1> QED
  BY <1>3, <1>4, <1>5, <1>6, <1>7, <1>8 DEF LateNext, RefundNext, HandlerStep

-----------------------------------------------------------------------------
(* A refund is debited once. *)

\* The debit of the pending row at hand is the first one, and is logged.
LEMMA FirstDebit ==
  ASSUME RefundTypeOK, OnceInv, LogIsProof, handler.pc = "send",
         Subtracted(refund, row.pay), UNCHANGED table, NEW q \in Refunds, q = refund
  PROVE  /\ log \subseteq log'
         /\ \A r \in Refunds : debited'[r] = IF r = q THEN 1 ELSE debited[r]
         /\ Logged(q)'
<1>1. \A r \in Refunds : debited'[r] = IF r = refund THEN debited[r] + 1 ELSE debited[r]
  BY HandlerFacts, SubtractedType
<1>2. debited[refund] = 0
  BY DEF OnceInv
<1>3. log \subseteq log' /\ Logged(q)'
  BY SubtractedIsLogged DEF OnceInv, LogIsProof
<1> QED
  BY <1>1, <1>2, <1>3

LEMMA OnceNextInv ==
  ASSUME RefundIInv, OnceInv, LogIsProof, [RefundNext]_refundVars
  PROVE  OnceInv'
<1> USE DEF RefundIInv
<1>1. /\ refund \in Refunds /\ row \in DebitRows /\ row = table[refund] /\ row.pay \in Pays
      /\ handler.notice.pay \in Pays /\ now \in Nat
      /\ \A r \in Refunds : debited[r] \in Nat
  BY HandlerFacts DEF RefundTypeOK
<1>2. \A r \in Refunds : debited[r] > 0 => table[r].state # "none" /\ Logged(r)
  BY DEF OnceInv
<1>3. CASE ClaimRefund
  <2> DEFINE claim == Claim(refund, handler.notice.pay)
             new == [state |-> "pending", pay |-> handler.notice.pay, createdAt |-> now]
  <2>1. /\ table' = IF claim = "new" THEN [table EXCEPT ![refund] = new] ELSE table
        /\ UNCHANGED <<now, log, debited, inflight>>
        /\ \/ claim = "new" /\ Goto("send")
           \/ Goto("check")
           \/ Unlock
    BY <1>3 DEF ClaimRefund
  <2>2. claim = "new" => row.state = "none"
    BY <1>1 DEF Claim, DebitRows
  <2> HIDE DEF claim
  <2>3. /\ handler'.pc \notin {"release"}
        /\ handler'.pc = "send" => claim = "new" /\ refund' = refund
    BY <2>1, HandlerMoves DEF HandlerPCs
  <2>4. claim = "new" => debited[refund] = 0
    BY <1>1, <1>2, <2>2
  <2>5. \A r \in Refunds : \/ table'[r] = table[r]
                           \/ debited[r] = 0 /\ table'[r].createdAt = now
    BY <1>1, <2>1, <2>4 DEF RefundTypeOK
  <2>6. \A r \in Refunds :
          /\ table'[r].createdAt <= now'
          /\ debited'[r] > 0 => table'[r].state # "none" /\ Logged(r)'
    BY <1>1, <1>2, <2>1, <2>5, LoggedStays DEF OnceInv, NotClaimedLater
  <2> QED
    BY <2>1, <2>3, <2>4, <2>6 DEF OnceInv, DebitedOnce, NotClaimedLater
<1>4. CASE FinishRefund \/ ReleaseRefund
  <2>1. /\ UNCHANGED <<now, log, debited, inflight>> /\ handler'.pc = "idle"
    BY <1>4, HandlerMoves DEF FinishRefund, ReleaseRefund
  <2>2. \A r \in Refunds : \/ table'[r] = table[r]
                           \/ debited[r] = 0 /\ table'[r].createdAt = 0
                           \/ /\ table'[r].state # "none" /\ table'[r].pay = table[r].pay
                              /\ table'[r].createdAt = table[r].createdAt
    <3>1. CASE FinishRefund
      BY <1>1, <3>1 DEF FinishRefund, RefundTypeOK, DebitRows
    <3>2. CASE ReleaseRefund
      BY <1>1, <3>2 DEF ReleaseRefund, Released, NoRow, RefundTypeOK, OnceInv
    <3> QED
      BY <1>4, <3>1, <3>2
  <2>3. \A r \in Refunds :
          /\ table'[r].createdAt <= now'
          /\ debited'[r] > 0 => table'[r].state # "none" /\ Logged(r)'
    BY <1>1, <1>2, <2>1, <2>2, LoggedStays DEF OnceInv, NotClaimedLater
  <2> QED
    BY <2>1, <2>3 DEF OnceInv, DebitedOnce, NotClaimedLater
<1>5. CASE SubtractAnswered \/ SubtractUncertain
  <2>1. /\ handler.pc = "send" /\ UNCHANGED <<now, table>> /\ handler'.pc \in {"idle", "finish"}
        
    BY <1>5, HandlerMoves DEF SubtractAnswered, SubtractUncertain, HandlerPCs
  <2>2. row.state = "pending"
    BY <2>1 DEF AtWorkIsPending, AtWork
  <2>3. CASE Subtracted(refund, row.pay)
    <3>1. PICK q \in Refunds : q = refund
      BY <1>1
    <3>2. /\ log \subseteq log' /\ Logged(q)'
          /\ \A r \in Refunds : debited'[r] = IF r = q THEN 1 ELSE debited[r]
      BY <2>1, <2>3, <3>1, FirstDebit
    <3>3. \A r \in Refunds : r # q => (debited'[r] > 0 => table'[r].state # "none" /\ Logged(r)')
      BY <1>2, <2>1, <3>2, LoggedStays
    <3> QED
      BY <1>1, <2>1, <2>2, <3>1, <3>2, <3>3 DEF OnceInv, DebitedOnce, NotClaimedLater
  <2>4. CASE UNCHANGED <<debited, log>>
    BY <1>2, <2>1, <2>4, LoggedStays DEF OnceInv, DebitedOnce, NotClaimedLater
  <2> QED
    BY <1>5, <2>3, <2>4 DEF SubtractAnswered, SubtractUncertain, NotSubtracted
<1>6. CASE CheckPending
  <2>1. /\ handler.pc = "check" /\ UNCHANGED <<now, table, log, debited, inflight>>
    BY <1>6 DEF CheckPending
  <2>2. \/ Goto("finish") \/ Unlock
        \/ Goto("send") /\ ~ Logged(refund)
    BY <1>1, <1>6 DEF CheckPending, LogIsProof, HasSubtract, Logged
  <2>3. /\ handler'.pc # "release"
        /\ handler'.pc = "send" => debited[refund] = 0 /\ refund' = refund
    BY <1>1, <1>2, <2>2, HandlerMoves DEF HandlerPCs
  <2> QED
    BY <1>2, <2>1, <2>3, LoggedStays DEF OnceInv, DebitedOnce, NotClaimedLater
<1>7. CASE Receive \/ BillingAnswered \/ SubtractRejected \/ GiveUp
  <2>1. UNCHANGED <<now, table, log, debited, inflight>>
    BY <1>7 DEF Receive, BillingAnswered, SubtractRejected, GiveUp
  <2>2. \/ handler'.pc \notin {"send", "release"}
        \/ handler.pc = "send" /\ refund' = refund
    BY <1>7, HandlerMoves DEF Receive, BillingAnswered, SubtractRejected, GiveUp, HandlerPCs
  <2> QED
    BY <1>2, <2>1, <2>2, LoggedStays DEF OnceInv, DebitedOnce, NotClaimedLater
<1>8. CASE RefundTick \/ UNCHANGED refundVars
  <2>1. /\ UNCHANGED <<table, handler, log, debited>>
        /\ now' \in Nat /\ now' >= now
    BY <1>1, <1>8 DEF RefundTick, refundVars
  <2>2. \A r \in Refunds : table[r].createdAt \in Nat
    BY DEF RefundTypeOK, DebitRows
  <2> QED
    BY <1>1, <1>2, <2>1, <2>2, LoggedStays DEF OnceInv, DebitedOnce, NotClaimedLater, refund
<1> QED
  BY <1>3, <1>4, <1>5, <1>6, <1>7, <1>8 DEF RefundNext, HandlerStep

-----------------------------------------------------------------------------
(* The theorems. *)

\* What holds however late requests are carried out holds without such ones.
LEMMA InTimeIsLate == RefundSpec => LateSpec
<1>1. [RefundNext]_refundVars => [LateNext]_refundVars
  BY DEF LateNext
<1> QED
  BY <1>1, PTL DEF RefundSpec, LateSpec

\* The inductive invariant: types, and a pending row under a handler at work.
THEOREM RefundInvariant == LateSpec => []RefundIInv
<1>1. RefundInit => RefundIInv
  BY RefundInitInv
<1>2. RefundIInv /\ [LateNext]_refundVars => RefundIInv'
  BY RefundNextInv
<1> QED
  BY <1>1, <1>2, PTL DEF LateSpec

\* Types of the refund table, the handler, the log and the late requests.
THEOREM RefundType == RefundSpec \/ LateSpec => []RefundTypeOK
<1>1. RefundIInv => RefundTypeOK
  BY DEF RefundIInv
<1> QED
  BY <1>1, RefundInvariant, InTimeIsLate, PTL

\* A refund marked done stands for a subtraction of its size, of its user, made
\* since it was claimed: however late requests are carried out, however little
\* of the log is read, and also where refunds look the same.
THEOREM RefundDoneIsLogged ==
  ASSUME ClocksAgree
  PROVE  RefundSpec \/ LateSpec => []DoneIsLogged
<1>1. RefundInit => DoneInv
  BY DEF RefundInit, DoneInv, NotClaimedLater, NoRow, Unlocked, DoneIsLogged
<1>2. RefundIInv /\ DoneInv /\ [LateNext]_refundVars => DoneInv'
  BY DoneNextInv
<1>3. DoneInv => DoneIsLogged
  BY DEF DoneInv
<1> QED
  BY <1>1, <1>2, <1>3, RefundInvariant, InTimeIsLate, PTL DEF LateSpec

\* A refund is subtracted at most once, whatever answers are lost and however
\* often the notification is repeated, if the log can be relied on and no request
\* is carried out after the adapter has given up on it.
THEOREM RefundDebitedOnce ==
  ASSUME LogIsProof
  PROVE  RefundSpec => []DebitedOnce
<1>1. RefundInit => OnceInv
  BY DEF RefundInit, OnceInv, NotClaimedLater, NoRow, Unlocked, DebitedOnce
<1>2. RefundIInv /\ OnceInv /\ [RefundNext]_refundVars => OnceInv'
  BY OnceNextInv
<1>3. OnceInv => DebitedOnce
  BY DEF OnceInv
<1> QED
  BY <1>1, <1>2, <1>3, RefundInvariant, InTimeIsLate, PTL DEF RefundSpec
=============================================================================
