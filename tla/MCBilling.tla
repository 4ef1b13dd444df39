----------------------------- MODULE MCBilling -----------------------------
(* Small instances of Billing. *)
EXTENDS Billing, TLC

\* Which invoice, payment, run or charger is which makes no difference.
Alike == Permutations(Invoice) \cup Permutations(Hosted) \cup Permutations(Payment \ Hosted)
           \cup Permutations(Run) \cup Permutations(Charger)
=============================================================================
