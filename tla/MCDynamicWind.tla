---------------------------- MODULE MCDynamicWind ----------------------------
(* DynamicWind on an instance for TLC. *)
EXTENDS DynamicWind

\* Three dynamic-winds and two continuations together only where no operand lies
\* below them: every two of the three bounds are exhausted, the product is not.
Affordable ==
    Len(entries) + Len(conts) = MaxEntries + MaxConts =>
        /\ \A e \in DOMAIN entries : entries[e].base = 0
        /\ \A c \in DOMAIN conts : conts[c].opstack = <<>>
        /\ Len(opstack) <= 1
=============================================================================
