----------------------------- MODULE MCPayments -----------------------------
(* Payments on a small instance.  9 millionths earn no bonus and 30 earn 2    *)
(* (1.5 rounded up), so both outcomes of the rounding happen.  overlapped     *)
(* remembers that two calls have been in flight together; the worker's sweep  *)
(* does not count as one.                                                     *)
EXTENDS Payments, TLC

VARIABLE overlapped

\* Two of the calls are in flight together.
Together(calls) == \E r, s \in Requests : r # s /\ calls[r] # NoCall /\ calls[s] # NoCall

MCVars == <<vars, overlapped>>
MCInit == Init /\ overlapped = FALSE
MCNext == Next /\ overlapped' = (overlapped \/ Together(req'))
MCSpec == MCInit /\ [][MCNext]_MCVars

DepositSymmetry == Permutations(Deposits) \cup Permutations(Requests)

\* One confirm at a time credits a deposit once.
SerialCreditedOnce == ~overlapped => CreditedOnce

\* One call at a time: the refund of a withdrawal is in the ledger exactly when it FAILED.
SerialRefundedIffFailed == ~overlapped => RefundedIffFailed

=============================================================================
