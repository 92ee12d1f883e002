------------------------------- MODULE Forms --------------------------------
(***************************************************************************)
(* What the handlers make of the amounts and forms they are sent, before   *)
(* they touch any state: each call is one step from its arguments to its   *)
(* outcome.  The operators are those of Decimals and Signing; the other    *)
(* side, which signs, is described by what the protocols ask of it.        *)
(***************************************************************************)
EXTENDS Decimals, Signing

CONSTANTS Yuan,       \* decimals a money field may hold
          Dollars,    \* amounts credited, creditedUser
          PerUnits,   \* quota_per_unit settings of NewAPI
          Values,     \* what a field of a form may hold
          Signed,     \* forms as the other side signs them
          Received,   \* forms as they come: the values each field is sent with
          Numbers     \* numbers in an answer of the gateway

\* NewAPI's quota_per_unit is positive (Billing refuses any other).
ASSUME InputAssumption == /\ Yuan \subseteq Decimal
                          /\ PerUnits \subseteq Decimal /\ \A u \in PerUnits : u.coef > 0
                          /\ Dollars \subseteq Nat \ {0}
                          /\ Numbers \subseteq 0..Two[MantissaBits + 1]
                          /\ \A v \in Values : v = [text |-> v.text, more |-> v.more]
                          /\ Signed \subseteq [Fields -> Values \union {Empty}]
                          /\ Received \subseteq [Fields -> Seq(Values \union {Empty})]

VARIABLES call,    \* the call and its arguments
          outcome  \* what it returned, if it has

formsVars == <<call, outcome>>

NotReturned == [done |-> FALSE, ok |-> FALSE, value |-> 0]

\* The two keys: that of the adapter's configuration, and another.
Keys == {"ours", "other"}

\* The order of the names an epay signature is made over, and the signature.
InOrder(names) == CHOOSE s \in SetToSeqs(names) :
                    \A i, j \in DOMAIN s : i < j => Rank[s[i]] < Rank[s[j]]

PartnerSign(form, key) ==
  [key |-> key, text |-> Written(form, InOrder({f \in Fields \ {"sign_type"} : form[f] # Empty}))]

\* The gateway orders names by lower case too, and signs what is not empty.
GatewaySigns(form, key) ==
  {[key |-> key, text |-> Written(form, s)] :
     s \in Sorts({f \in Fields : form[f] # Empty}, Fold)}

FormsInit ==
  /\ outcome = NotReturned
  /\ \/ \E yuan \in Yuan : call = [op |-> "YuanToFen", yuan |-> yuan]
     \/ \E d \in Dollars, u \in PerUnits, t \in DisplayTypes :
          call = [op |-> "creditedQuota", dollars |-> d, billing |-> [perUnit |-> u, display |-> t]]
     \/ \E form \in Signed, values \in Received, key \in Keys :
          \E sign \in {PartnerSign(form, key), NoSign} :
            call = [op |-> "epay", form |-> form, values |-> values, sign |-> sign]
     \/ \E form \in Signed, values \in Received, key \in Keys :
          \E sign \in GatewaySigns(form, key) \union {NoSign} :
            call = [op |-> "jeepay", form |-> form, values |-> values, sign |-> sign]
     \/ \E signed, sent \in Numbers : call = [op |-> "answer", signed |-> signed, sent |-> sent]

Returns(result) == outcome' = [done |-> TRUE, ok |-> result.ok, value |-> result.value]

Calls(op) == call.op = op /\ ~ outcome.done /\ UNCHANGED call

CallYuanToFen == Calls("YuanToFen") /\ Returns(YuanToFen(call.yuan))

CallCreditedQuota ==
  Calls("creditedQuota") /\ Returns(creditedQuota(call.dollars, call.billing))

CallEpayVerify ==
  /\ Calls("epay")
  /\ Returns(IF EpayVerify(mapForm(call.values), call.sign, "ours") THEN Value(0) ELSE Refused)

VerifiedNotify ==
  /\ Calls("jeepay")
  /\ \E verified \in JeepayVerifies(mapForm(call.values), call.sign, "ours") :
       Returns(IF verified THEN Value(0) ELSE Refused)

Digits(n) == [digits |-> n]

\* Mutant of str: a number is signed as it was sent, not as it was read.
strAsSent(n) == Digits(n)

\* A number of an answer is read into a float64, and signed as that is written.
str(n) == Digits(Float(n))

\* The amount of an answer whose signature, over the digits of the number the
\* gateway meant, is compared with that over the number as it was read.
unwrapSigned ==
  /\ Calls("answer")
  /\ Returns(IF str(call.sent) = Digits(call.signed) THEN Value(Float(call.sent)) ELSE Refused)

FormsNext == CallYuanToFen \/ CallCreditedQuota \/ CallEpayVerify \/ VerifiedNotify \/ unwrapSigned

FormsSpec == FormsInit /\ [][FormsNext]_formsVars

-----------------------------------------------------------------------------
(* Properties *)

Returned(op) == outcome.done /\ call.op = op

\* Every outcome is one the functions can return: an integer of IntBits bits,
\* and zero with an error.
FormsTypeOK == /\ outcome \in [done : BOOLEAN, ok : BOOLEAN, value : Int]
               /\ Fits(outcome.value)
               /\ ~ outcome.ok => outcome.value = 0

\* An amount of money becomes exactly its number of fen in whatever notation it
\* comes, and is refused just when it is not a positive number of whole fen
\* (YuanToFen, money.go:10), for amounts whose fen fit an int64.
FenIsExact ==
  Returned("YuanToFen") /\ Fits(Rescale(Times(call.yuan, 100), 0)) =>
    LET IsFen(n) == SameValue([coef |-> n, exp |-> -2], call.yuan)
    IN IF outcome.ok
       THEN outcome.value > 0 /\ IsFen(outcome.value)
       ELSE ~ \E n \in 1..Two[IntBits - 1] - 1 : IsFen(n)

\* The quota taken back for a refund is the one nearest to what the dollars were
\* worth, the larger of two that are equally near, and a refund is refused just
\* when there is none in range (creditedQuota), for products that fit an int64.
QuotaIsNearest ==
  Returned("creditedQuota") /\ Fits(Rescale(Times(call.billing.perUnit, call.dollars), 0) + 1) =>
    LET worth == IF call.billing.display = "TOKENS" THEN [coef |-> call.dollars, exp |-> 0]
                 ELSE Times(call.billing.perUnit, call.dollars)
        scale == IF worth.exp < 0 THEN -worth.exp ELSE 0
        Error(q) == Abs(q * Ten[scale] - Rescale(worth, -scale))
        Nearest(q) == \A p \in {q - 1, q + 1} :
                        Error(q) < Error(p) \/ (Error(q) = Error(p) /\ p < q)
    IN outcome.ok <=> /\ call.billing.display # "other"
                      /\ \E q \in 1..MaxWalletQuota :
                           Nearest(q) /\ (outcome.ok => outcome.value = q)

Covered(form, unsigned) == {<<f, form[f]>> : f \in Present(form) \ unsigned}

\* The call came with the fields that were signed with the common key.
AsSigned(unsigned) ==
  /\ call.sign.key = "ours"
  /\ Covered(mapForm(call.values), unsigned) = Covered(call.form, unsigned)

\* No value has an "&", neither as it was signed nor as it came.
NoneDivided == \A f \in Fields : Plain(call.form[f]) /\ Plain(mapForm(call.values)[f])

\* A submission is taken up if it has the fields NewAPI signed with the common
\* key: whatever order they came in, without regard to fields that are empty and
\* to sign_type; and no other is, with a value changed or a field left out, when
\* no value has an "&" (epay Verify; sign_test.go:25, device must be signed).
EpayVerifiesTheSigned ==
  Returned("epay") =>
    /\ AsSigned({"sign_type"}) => outcome.ok
    /\ outcome.ok /\ NoneDivided => AsSigned({"sign_type"})

\* Names of two fields of the form that differ in case only.
Twins(form) == \E f, g \in Present(form) : f # g /\ Fold[f] = Fold[g]

\* A notification of the gateway is taken up if it has the fields the gateway
\* signed with the common key and no two of their names differ in case only (the
\* order of such names is not fixed); and no other is when no value has an "&"
\* (jeepay Verify).
JeepayVerifiesTheSigned ==
  Returned("jeepay") =>
    /\ AsSigned({}) /\ ~ Twins(call.form) => outcome.ok
    /\ outcome.ok /\ NoneDivided => AsSigned({})

\* The amount read off an answer is the one the gateway signed: a number too
\* large for a float64 is refused and never misread, and a smaller one is never
\* refused (verifyDataSign, str and asInt64 in client.go).
AnswerIsExact ==
  Returned("answer") =>
    /\ outcome.ok => outcome.value = call.signed
    /\ call.signed = call.sent /\ call.sent < Two[MantissaBits] => outcome.ok
=============================================================================
