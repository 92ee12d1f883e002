------------------------------- MODULE TopUp --------------------------------
(***************************************************************************)
(* What the adapter promises about a top-up, in terms of the three things  *)
(* its two partners and the customer can see:                              *)
(*                                                                         *)
(*   money[o]    has the customer's money been taken?                      *)
(*   topup[o]    what NewAPI has made of the top-up                        *)
(*   notice[o]   what became of the notification NewAPI is owed            *)
(*                                                                         *)
(* A top-up is credited only for money taken and on a notification that    *)
(* was owed; a notification counts as answered only once NewAPI has dealt  *)
(* with the top-up; and, if the delays of the closer are kept, a top-up    *)
(* expires only when no money was and none will be taken for it.           *)
(*                                                                         *)
(* Nothing here is a step of the program: the modules of the components    *)
(* instantiate this one and are shown to implement it.                     *)
(***************************************************************************)
CONSTANTS Orders,
          OnTime  \* are the closer's calls quick against its delays?

VARIABLES money, topup, notice

topUpVars == <<money, topup, notice>>

TopUpStates == {"open", "credited", "granted", "expired", "foreign"}
Notices == {"none", "owed", "answered", "given up"}

TopUpType == /\ money \in [Orders -> BOOLEAN]
             /\ topup \in [Orders -> TopUpStates]
             /\ notice \in [Orders -> Notices]

Dealt(o) == topup[o] \in {"credited", "granted"}

\* An order paid before the adapter started may wait for its notification.
TopUpInit == /\ TopUpType
             /\ \A o \in Orders : /\ topup[o] \in {"open", "granted", "foreign"}
                                  /\ notice[o] \in {"none", "owed"}
                                  /\ notice[o] = "owed" => money[o]

TakeMoney(o) ==
  /\ ~ money[o] /\ (OnTime => topup[o] # "expired")
  /\ money' = [money EXCEPT ![o] = TRUE]
  /\ UNCHANGED <<topup, notice>>

\* The payment is known: NewAPI has to be told, or told again.
Owe(o) ==
  /\ money[o] \/ Dealt(o)
  /\ notice' = [notice EXCEPT ![o] = "owed"]
  /\ UNCHANGED <<money, topup>>

\* The answer to the notification that credits may be lost.
CreditTopUp(o) ==
  /\ money[o] /\ topup[o] = "open" /\ notice[o] # "none"
  /\ topup' = [topup EXCEPT ![o] = "credited"]
  /\ notice' \in {notice, [notice EXCEPT ![o] = "answered"]}
  /\ UNCHANGED money

Answer(o) ==
  /\ notice[o] # "none" /\ topup[o] # "open"
  /\ notice' = [notice EXCEPT ![o] = "answered"]
  /\ UNCHANGED <<money, topup>>

\* The outcome of an older attempt may be recorded after that of a newer one.
Retry(o) ==
  /\ notice[o] # "none"
  /\ notice' \in {[notice EXCEPT ![o] = n] : n \in {"owed", "given up"}}
  /\ UNCHANGED <<money, topup>>

Grant(o) ==
  /\ topup[o] = "open"
  /\ topup' = [topup EXCEPT ![o] = "granted"]
  /\ UNCHANGED <<money, notice>>

Expire(o) ==
  /\ topup[o] = "open" /\ (OnTime => ~ money[o])
  /\ topup' = [topup EXCEPT ![o] = "expired"]
  /\ UNCHANGED <<money, notice>>

TopUpNext == \E o \in Orders : \/ TakeMoney(o) \/ Owe(o) \/ CreditTopUp(o) \/ Answer(o)
                               \/ Retry(o) \/ Grant(o) \/ Expire(o)

TopUpSpec == TopUpInit /\ [][TopUpNext]_topUpVars
=============================================================================
