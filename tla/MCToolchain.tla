----------------------------- MODULE MCToolchain -----------------------------
(* Toolchain on small programs for TLC. *)
EXTENDS Toolchain

Sources == INSTANCE SourceEvals

CorePrograms == Sources!CorePrograms
UnitPrograms == Sources!UnitPrograms
EvalPrograms == Sources!EvalPrograms
AllPrograms  == Sources!CorePrograms \cup Sources!UnitPrograms \cup Sources!EvalPrograms

\* Programs that show something else than the reference (README 3.2).
Late     == Sources!Late
Again    == Sources!Again
Leak     == Sources!Leak
NameKept == Sources!NameKept
CodeKept == Sources!CodeKept
=============================================================================
