------------------------------ MODULE MCForms -------------------------------
(***************************************************************************)
(* Forms with the names and numbers that tell its properties apart: two    *)
(* names that differ in case only, values that differ, one with an "&"     *)
(* after which it reads like a field of the form, amounts with up to four  *)
(* decimals, on both sides of a half, and too large for an integer of      *)
(* twelve bits.                                                            *)
(***************************************************************************)
EXTENDS Forms

MCFields == {"device", "Device", "money", "sign_type"}
MCRank == [f \in MCFields |-> CASE f = "Device" -> 1 [] f = "device" -> 2
                                [] f = "money"  -> 3 [] OTHER -> 4]
MCFold == [f \in MCFields |-> CASE f \in {"device", "Device"} -> 1
                                [] f = "money" -> 2 [] OTHER -> 3]

A == Text("a")
B == Text("b")
\* a&money=b
Divided == [text |-> "a", more |-> <<[name |-> "money", text |-> "b"]>>]

MCValues == {A, B, Divided}

Form(device, Device, money, type) ==
  [f \in MCFields |-> CASE f = "device" -> device [] f = "Device" -> Device
                        [] f = "money"  -> money  [] OTHER -> type]

MCSigned == {Form(d, D, m, t) : d \in {Empty, A, Divided}, D \in {Empty, A, B},
                                m \in {Empty, A, B}, t \in {Empty, A}}

\* A field may come without a value, empty, or twice.
MCReceived ==
  {Form(d, D, m, t) : d \in {<<>>, <<Empty>>, <<A>>, <<Divided>>, <<A, Divided>>},
                      D \in {<<>>, <<A>>, <<B>>}, m \in {<<>>, <<A>>, <<B>>, <<B, A>>},
                      t \in {<<>>, <<A>>}}

MCYuan == [coef : -1..130, exp : -4..1]
MCPerUnits == [coef : 1..40, exp : -2..1]
=============================================================================
