--------------------------- MODULE MCConsignment ---------------------------
(* Two submissions, one of a certified card, two vault items and a cap of     *)
(* one a day.  overlapped remembers that two calls have been in flight        *)
(* together, or that the console worked on an item under a call; died, that a *)
(* call stopped between its intake and its advance.                           *)
EXTENDS Consignment, TLC

VARIABLES overlapped, died

\* Two of the calls are in flight together; one is, and the console works on an item.
Together(calls) == \E r, s \in Requests : r # s /\ calls[r] # Idle /\ calls[s] # Idle
ConsoleMeetsCall == (\E r \in Requests : req[r] # Idle) /\ req' = req /\ item' # item

MCVars == <<vars, overlapped, died>>
MCInit == Init /\ overlapped = FALSE /\ died = FALSE
MCNext ==
    /\ Next
    /\ overlapped' = (overlapped \/ Together(req') \/ ConsoleMeetsCall)
    /\ died' = \/ died
               \/ \E r \in Requests : req[r].at = "advance" /\ req[r].item # NoItem
                                               /\ submission' = submission /\ req'[r] = Idle
MCSpec == MCInit /\ [][MCNext]_MCVars

Interchangeable == Permutations(Requests) \cup Permutations(Items)

\* One call at a time, also when calls die: MINTED means minted.
SerialMintedHasToken == ~overlapped => MintedHasToken

\* One call at a time, none dying between intake and link: one item per submission.
SerialItemIsLinked == ~overlapped /\ ~died => ItemIsLinked
=============================================================================
