------------------------------ MODULE Signing -------------------------------
(***************************************************************************)
(* Signatures of forms (internal/epay/sign.go, internal/jeepay/sign.go,    *)
(* verifyDataSign of internal/jeepay/client.go).  A form gives every field *)
(* a value.  Both protocols drop some fields and those that are empty, put *)
(* the rest in order, write them one after the other as name=value with an *)
(* "&" between them, and hash that text together with a key; they differ   *)
(* in what they drop and in the order.                                     *)
(*                                                                         *)
(* Nothing is escaped, so the text does not show where a value ends that   *)
(* has an "&" of its own.  A text is therefore the sequence of its pieces, *)
(* from one "&" to the next, and a value of several pieces signs like as   *)
(* many fields.  The hash is taken to tell any two texts and any two keys  *)
(* apart, and names to have neither "&" nor "=".                           *)
(***************************************************************************)
EXTENDS Integers, SequencesExt

CONSTANTS Fields,  \* names of fields, other than sign
          Rank,    \* the order of names by their bytes
          Fold     \* the order of names in lower case

ASSUME NamesAssumption == /\ IsFiniteSet(Fields)
                          /\ Rank \in [Fields -> Nat] /\ Fold \in [Fields -> Nat]
                          /\ \A f, g \in Fields : Rank[f] = Rank[g] => f = g

\* A value: what comes before its first "&", and the pieces that follow.
Text(t) == [text |-> t, more |-> <<>>]
Empty == Text("")

\* A value without an "&".
Plain(value) == value.more = <<>>

Present(form) == {f \in Fields : form[f] # Empty}

\* The pieces a field is written as: the first has its name.
Pieces(form, f) == <<[name |-> f, text |-> form[f].text]>> \o form[f].more

\* The text of fields in some order.
Written(form, order) == FlattenSeq([i \in DOMAIN order |-> Pieces(form, order[i])])

\* What a sort of the names may return.
Sorts(names, order) ==
  {s \in SetToSeqs(names) : \A i, j \in DOMAIN s : i < j => order[s[i]] <= order[s[j]]}

\* A form without a signature.
NoSign == [key |-> "", text |-> <<>>]

\* mapForm and formMap: the first of the values a field was sent with.
mapForm(values) == [f \in Fields |-> IF values[f] = <<>> THEN Empty ELSE Head(values[f])]

-----------------------------------------------------------------------------
(* epay: without sign and sign_type, in the order of the names' bytes.  The *)
(* key follows the last value; it is taken not to be mistaken for its end.  *)

\* Mutant of filter: a field the adapter does not know is not signed.
filterUnknown(form) == Present(form) \ {"sign_type", "device"}

filter(form) == Present(form) \ {"sign_type"}

EpaySign(form, key) ==
  [key |-> key, text |-> Written(form, CHOOSE s \in Sorts(filter(form), Rank) : TRUE)]

EpayVerify(form, sign, key) == sign # NoSign /\ sign = EpaySign(form, key)

-----------------------------------------------------------------------------
(* jeepay: without sign, in the order of the names in lower case, and then  *)
(* the key as a field of its own.  The sort is not stable and the fields    *)
(* come out of a map in any order, so names equal but for case may come     *)
(* either way.                                                              *)

\* Mutant of JeepaySigns: empty fields are signed as well.
JeepaySignsAll(form, key) ==
  {[key |-> key, text |-> Written(form, s)] : s \in Sorts(Fields, Fold)}

\* The signatures a call of Sign may return.
JeepaySigns(form, key) ==
  {[key |-> key, text |-> Written(form, s)] : s \in Sorts(Present(form), Fold)}

\* The outcomes a call of Verify may have.
JeepayVerifies(form, sign, key) == {sign # NoSign /\ sign = s : s \in JeepaySigns(form, key)}
=============================================================================
