------------------------------ MODULE Execution ------------------------------
(***************************************************************************)
(* The run of one process (runtime.c, am_runtime_tick), one instruction or *)
(* one evaluated text a step, until an instruction fails, pauses or halts. *)
(*                                                                         *)
(* What the process starts with, and what the compiler makes of each text  *)
(* that can be evaluated, are parameters: Toolchain takes them from the    *)
(* compiler, the theorems of ExecutionProofs hold for all that are         *)
(* Loadable.                                                               *)
(***************************************************************************)
EXTENDS Evaluation

VARIABLES stage,    \* "run", or the mode of the machine that stopped
          work      \* the machine

Running == stage \in {"run", "halted", "paused", "failed"}

\* The process goes on as long as its instructions succeed.
GoOn == stage' = IF work'.mode = "running" THEN "run" ELSE work'.mode

Run ==
    /\ stage = "run" /\ ~CallsEval(work)
    /\ work' = Execute(work)
    /\ GoOn

EvaluateText(texts) ==
    /\ stage = "run" /\ CallsEval(work)
    /\ work' = EvalText(work, texts)
    /\ GoOn

Runs(m, texts) ==
    /\ stage = "run" /\ work = m
    /\ [][Run \/ EvaluateText(texts)]_<<stage, work>>

----------------------------------------------------------------------------
(* What the compiler gives *)

IsNode(o) == "type" \in DOMAIN o /\ o.type \in ListTypes \cup {"STRING", "SCOPE"}

\* Code without clean-ups, which names variables there are.
PlainCode(il, vocab) ==
    \A i \in DOMAIN il :
        /\ il[i][1] # "evalcleanup"
        /\ Tag(il[i][2]) = "var" => Held(il[i][2]) \in DOMAIN vocab

\* The parts of a process that begins, and of a text: its code starts with the
\* call of its function and a jump, and what it pushes is made of nodes it has.
LoadableMachine(il, heap, next, a) ==
    /\ il \in Seq(Range(il)) /\ a.vocab \in Seq(Range(a.vocab)) /\ PlainCode(il, a.vocab)
    /\ DOMAIN a.vtype = DOMAIN a.vocab
    /\ a.vartop \in Seq(DOMAIN a.vocab)
    /\ next \in Nat \ {0}
    /\ \A h \in DOMAIN heap : h \in 1..(next - 1) /\ IsNode(heap[h])

LoadableText(c) ==
    c.ok =>
        /\ "il" \in DOMAIN c
        /\ c.il \in Seq(Range(c.il)) /\ c.ast.vocab \in Seq(Range(c.ast.vocab)) /\ PlainCode(c.il, c.ast.vocab)
        /\ Len(c.il) >= 2
        /\ Copied(c) \in Seq(DOMAIN c.ast.nodes)
        /\ \A h \in DOMAIN c.ast.nodes : IsNode(c.ast.nodes[h])

----------------------------------------------------------------------------
(* Properties *)

\* Evaluated code is taken out of the process without a trace, whatever it did:
\* the program's own code and names are never touched, code names only variables
\* there are, every clean-up that may still run has its record, and without
\* records there is nothing but the program.
EvalRecords == {h \in DOMAIN work.heap : work.heap[h].type = "EVAL_RECORD"}

EvaluatedCodeIsTakenOut ==
    Running =>
        LET own == work.loaded
        IN /\ IsPrefix(own.il, work.il) /\ IsPrefix(own.vocab, work.vocab)
           /\ \A i \in DOMAIN work.il :
                 /\ Tag(work.il[i][2]) = "var" => Held(work.il[i][2]) \in DOMAIN work.vocab
                 /\ work.il[i][1] = "evalcleanup" => Held(work.il[i][2]) \in EvalRecords
           /\ EvalRecords = {} => work.il = own.il /\ work.vocab = own.vocab

=============================================================================
