--------------------------- MODULE MCWithdrawals ---------------------------
(* Small instances of Withdrawals for TLC.                                 *)
EXTENDS Withdrawals, TLC

\* Requests, and supers that hold no wallet, are interchangeable.
Symmetry == Permutations(Requests) \cup Permutations(Supers \ Members)
=============================================================================
