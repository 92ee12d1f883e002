----------------------------- MODULE MCRefund ------------------------------
(***************************************************************************)
(* Instances of Refund.  Amounts and quotas are small numbers; a payment    *)
(* is named p1, p2, and its refunds r1, r2.                                *)
(***************************************************************************)
EXTENDS Refund

CONSTANTS r1, r2, p1, p2, alice, bob

Full(r, p) == [refund |-> r, pay |-> p, success |-> TRUE, refundAmount |-> 1, payAmount |-> 1]
Partial(r, p) == [Full(r, p) EXCEPT !.payAmount = 2]
Failed(r, p) == [Full(r, p) EXCEPT !.success = FALSE]

\* Two orders, one refund each; a refund that failed first is told of too.
MCNotices == {Full(r1, p1), Failed(r1, p1), Full(r2, p2), Partial(r2, p2)}

\* Two refunds of one order.
MCNoticesOneOrder == {Full(r1, p1), Full(r2, p1)}

MCAmounts == [p \in Pays |-> 1]

MCTwoHolders == [p \in Pays |-> IF p = p1 THEN alice ELSE bob]
MCOneHolder == [p \in Pays |-> alice]

MCSameQuota == [p \in Pays |-> 1]
MCTwoQuotas == [p \in Pays |-> IF p = p1 THEN 1 ELSE 2]
=============================================================================
