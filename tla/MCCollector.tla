---------------------------- MODULE MCCollector ----------------------------
(***************************************************************************)
(* Collector for TLC: small programs.  The groups of instructions are      *)
(* combined where they hold each other's objects; each combination has the *)
(* largest bounds that TLC can explore in a minute.                        *)
(***************************************************************************)
EXTENDS Collector

Small(groups, handles, closures) ==
    [uses |-> groups, handles |-> handles, closures |-> closures, operands |-> 2]

\* Two closures are a definition and a use of it, with a parent chain.
\* Five handles are a literal, a closure, an entry of a dynamic-wind, a
\* continuation and its snapshot.
CleanPrograms ==
    {Small({"lists", "strings"}, 4, 2),
     Small({"strings", "fork"}, 4, 1),
     Small({"timers"}, 5, 2),
     Small({"timers", "fork"}, 4, 2),
     Small({"dynamic-wind", "fork"}, 4, 2),
     Small({"continuations", "dynamic-wind"}, 5, 1),
     [Small({"continuations", "dynamic-wind", "fork"}, 5, 1) EXCEPT !.operands = 1]}

LiteralPrograms == {Small({"lists", "set literals"}, 4, 2)}
=============================================================================
