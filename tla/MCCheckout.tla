----------------------------- MODULE MCCheckout -----------------------------
(***************************************************************************)
(* Checkout with interchangeable requests.                                 *)
(***************************************************************************)
EXTENDS Checkout, TLC

\* Requests differ by nothing but their name, and every property is one of
\* safety, so TLC may identify states that swap them.
Interchangeable == Permutations(Submitters)
=============================================================================
