--------------------------- MODULE CloseDecision ----------------------------
(***************************************************************************)
(* The decisions of the closer (internal/app/close.go) and of the Jeepay   *)
(* client (internal/jeepay/client.go) that touch no state.                 *)
(***************************************************************************)
EXTENDS OrderStore

CONSTANTS CloseLead,     \* closeLeadSec: seconds before the deadline, 90
          ChannelGrace,  \* channelGraceSec: wait after the channel closed, 120
          MissedGrace    \* missedGraceSec: wait after the deadline, 1800

ASSUME CloseAssumption == /\ CloseLead \in Nat
                          /\ ChannelGrace \in Nat \ {0}
                          /\ MissedGrace \in Nat \ {0}

\* Order states of the gateway: 0, 1, 2, 3 and 6.  4 (revoked) and 5 (refunded)
\* are treated by every caller as 3 (failed) is.
NoOrder == "no order"
StateInit == "init"
StateIng == "ing"
StateSuccess == "success"
StateFail == "fail"
StateClosed == "closed"
GatewayStates == {NoOrder, StateInit, StateIng, StateSuccess, StateFail, StateClosed}

\* What ClassifyClose makes of an answer to a close request.
CloseKinds == {"success", "paid", "rejected", "failed"}

-----------------------------------------------------------------------------
\* Mutant of missedDue: due at the deadline, without the grace.
missedDueAtDeadline(at, expireAt) == expireAt > 0 /\ at >= expireAt

missedDue(at, expireAt) == expireAt > 0 /\ at >= expireAt + MissedGrace

\* Mutant of closeStepOf: a closed channel is queried again at once.
closeStepOfImpatient(row, at) ==
  IF row.status # "created" \/ row.blocked \/ row.expireAt = 0 THEN "none"
  ELSE IF row.closedAt > 0 THEN "requery"
       ELSE IF at >= row.expireAt - CloseLead THEN "query" ELSE "none"

closeStepOf(row, at) ==
  IF row.status # "created" \/ row.blocked \/ row.expireAt = 0 THEN "none"
  ELSE IF row.closedAt > 0
       THEN IF at < row.closedAt + ChannelGrace THEN "wait" ELSE "requery"
       ELSE IF at >= row.expireAt - CloseLead THEN "query" ELSE "none"

NoPlan == [markPaid |-> FALSE, block |-> FALSE, callClose |-> FALSE,
           ing |-> FALSE, expire |-> FALSE]

Plans == [markPaid : BOOLEAN, block : BOOLEAN, callClose : BOOLEAN,
          ing : BOOLEAN, expire : BOOLEAN]

paidPlan(amount, orderAmount) ==
  IF amount = orderAmount /\ orderAmount > 0
  THEN [NoPlan EXCEPT !.markPaid = TRUE]
  ELSE [NoPlan EXCEPT !.block = TRUE]

\* Mutant of openPlan: an order the gateway has failed or closed is left alone.
openPlanLeavesClosed(state, at, expireAt) ==
  CASE state = StateIng -> [NoPlan EXCEPT !.callClose = TRUE, !.ing = TRUE]
    [] state = StateInit -> [NoPlan EXCEPT !.callClose = TRUE, !.expire = missedDue(at, expireAt)]
    [] OTHER -> NoPlan

openPlan(state, at, expireAt) ==
  CASE state = StateIng -> [NoPlan EXCEPT !.callClose = TRUE, !.ing = TRUE]
    [] state = StateInit -> [NoPlan EXCEPT !.callClose = TRUE, !.expire = missedDue(at, expireAt)]
    [] state \in {StateFail, StateClosed} -> [NoPlan EXCEPT !.expire = missedDue(at, expireAt)]
    [] OTHER -> NoPlan

\* Mutant of decideQuery: a payment found after the channel was closed does
\* not count.
decideQueryTooLate(state, amount, orderAmount, requery, at, expireAt) ==
  CASE requery -> [NoPlan EXCEPT !.expire = TRUE]
    [] ~ requery /\ state = StateSuccess -> paidPlan(amount, orderAmount)
    [] OTHER -> openPlan(state, at, expireAt)

\* What to do about an order the gateway reports in the given state.
decideQuery(state, amount, orderAmount, requery, at, expireAt) ==
  CASE state = StateSuccess -> paidPlan(amount, orderAmount)
    [] state # StateSuccess /\ requery -> [NoPlan EXCEPT !.expire = TRUE]
    [] OTHER -> openPlan(state, at, expireAt)

\* Mutant of decideClose: a close request that is refused is proof enough.
decideCloseRejectedAtOnce(kind, ing, at, expireAt) ==
  [record |-> kind = "success" /\ ing,
   block  |-> kind = "paid",
   expire |-> \/ kind = "rejected"
              \/ kind \in {"success", "failed"} /\ ~ ing /\ missedDue(at, expireAt)]

\* What to do about the answer to a close request.
decideClose(kind, ing, at, expireAt) ==
  [record |-> kind = "success" /\ ing,
   block  |-> kind = "paid",
   expire |-> /\ missedDue(at, expireAt)
              /\ kind = "rejected" \/ (kind \in {"success", "failed"} /\ ~ ing)]

\* A close request that gets no answer (applyClose, err # nil).
expireAfterCloseError(plan) == ~ plan.ing /\ plan.expire
=============================================================================
