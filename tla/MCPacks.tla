------------------------------ MODULE MCPacks ------------------------------
(* A small pack: two cards of weights 1 and 3, two openings, two client       *)
(* seeds, entropy of three bits that makes the seeds draw different cards.    *)
(* overlapped remembers that two calls have been in flight together.          *)
EXTENDS Packs, TLC

CONSTANTS ann, bob, o1, o2, s1, s2

VARIABLE overlapped

MCWeight   == [c \in Cards |-> IF c = 2 THEN 3 ELSE 1]
MCBalances == [u \in {ann, bob} |-> IF u = ann THEN 9 ELSE 3]
MCEntropy  == [x \in {o1, o2} \X {s1, s2} |-> IF x[2] = s1 THEN 0 ELSE IF x[1] = o1 THEN 4 ELSE 7]

\* Two of the calls are in flight together.
Together(calls) == \E r, s \in Requests : r # s /\ calls[r].at # "idle" /\ calls[s].at # "idle"

MCVars == <<vars, overlapped>>
MCInit == Init /\ overlapped = FALSE
MCNext == Next /\ overlapped' = (overlapped \/ Together(req'))
MCSpec == MCInit /\ [][MCNext]_MCVars

CallSymmetry == Permutations(Requests)

\* One call at a time: the outcome is final once the server seed is public.
SerialOutcomeIsFinal ==
    [][~overlapped' => \A o \in Settled : /\ opening'[o].result = opening[o].result
                                          /\ opening'[o].seed = opening[o].seed]_vars

=============================================================================
