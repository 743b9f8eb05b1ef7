------------------------------ MODULE Evaluation ------------------------------
(***************************************************************************)
(* System.eval (native_System.c 1044-1700): the running process compiles a *)
(* text, appends the code to its own, and goes on there.  The code is the  *)
(* body of a function of its own, called from the place of the call; it    *)
(* sees the top variables of the program.  The instruction evalcleanup at  *)
(* its end (Machine) takes it out of the process again.                    *)
(*                                                                         *)
(* The text is compiled for itself first, so its variables and objects     *)
(* have numbers of their own, which are mapped to those of the process.    *)
(* Symbols carry their names here, and need no mapping.  The native        *)
(* libraries a text declares are entered in a table that no instruction    *)
(* reads, and are left out.                                                *)
(***************************************************************************)
EXTENDS Machine

EvalName == <<"System", "eval">>

CallsEval(m) ==
    /\ m.pc \in 0..(Len(m.il) - 1)
    /\ LET op == m.il[m.pc + 1][1]
           v  == m.il[m.pc + 1][2]
       IN /\ op \in {"call", "tailcall", "callnative"} /\ Tag(v) = "var"
          /\ m.vocab[Held(v)] = EvalName
          /\ op = "callnative" \/ IsNativeVar(m, v)

----------------------------------------------------------------------------
(* Variables *)

\* Where among the top variables, first defined first, are those whose name before
\* renaming was this one; what was merged in from other modules has no such name.
TopsCalled(m, name) ==
    {i \in DOMAIN m.vartop : m.vartop[i] \in DOMAIN m.arn /\ NameOf(m, m.arn[m.vartop[i]]) = name}

\* Variables of the text that are mapped so far, and the machine with the names added.
Mapped(x, v, m) == [x EXCEPT !.m = m, !.of = Append(@, v)]

\* A free variable stands for a top variable; a temporary of the compiler gets a
\* name that no evaluation had before; any other keeps its name.
MapVar(x, name, type) ==
    LET tops  == TopsCalled(x.m, name)
        fresh == <<"__eval_" \o ToString(x.m.temps) \o "_" \o name[1]>>
        m     == IF type = "ILTEMP" THEN [InternAs(x.m, fresh, type) EXCEPT !.temps = @ + 1]
                 ELSE Intern(x.m, name, type)
    IN IF ~x.ok THEN x
       ELSE IF type # "GLOBAL_FREE" THEN Mapped(x, VarId(m, IF type = "ILTEMP" THEN fresh ELSE name), m)
       ELSE IF tops # {} THEN Mapped(x, x.m.vartop[Min(tops)], x.m)
       ELSE [x EXCEPT !.ok = FALSE]

\* The names of the text one after another.
MapVars(m, a) ==
    LET after[n \in 0..Len(a.vocab)] ==
            IF n = 0 THEN [m |-> m, of |-> <<>>, ok |-> TRUE]
            ELSE MapVar(after[n - 1], a.vocab[n], a.vtype[n])
    IN after[Len(a.vocab)]

----------------------------------------------------------------------------
(* Objects *)

Reached(a, h) ==
    LET below[x \in DOMAIN a.nodes] ==
            {x} \cup (IF Node(a, x).type = "STRING" THEN {}
                      ELSE UNION {below[Held(v)] : v \in {u \in Range(Node(a, x).ch) : Tag(u) = "h"}})
    IN below[h]

\* What the code pushes is copied into the heap of the process, in this order.
Copied(c) == Ascending(UNION {Reached(c.ast, Held(c.il[i][2])) : i \in {j \in DOMAIN c.il : Tag(c.il[j][2]) = "h"}})
CopyOf(m, c, h) == m.next - 1 + CHOOSE i \in DOMAIN Copied(c) : Copied(c)[i] = h

CopiedValue(m, c, v) == IF Tag(v) = "h" THEN Handle(CopyOf(m, c, Held(v))) ELSE v
CopiedNode(m, c, o) ==
    IF o.type = "STRING" THEN o ELSE [o EXCEPT !.ch = [i \in DOMAIN @ |-> CopiedValue(m, c, @[i])]]

CopyObjects(m, c) ==
    LET copies == m.next..(m.next + Len(Copied(c)) - 1)
        Copy(h) == CopiedNode(m, c, Node(c.ast, Copied(c)[h - m.next + 1]))
    IN [m EXCEPT !.heap = [h \in DOMAIN @ \cup copies |-> IF h \in copies THEN Copy(h) ELSE @[h]],
                 !.next = @ + Len(Copied(c))]

----------------------------------------------------------------------------
(* am_native_System_eval *)

\* The code with the numbers of the process, made for the end of its code; the
\* jump behind the call of the text's function becomes the clean-up.
Relocated(m, c, vars, record) ==
    LET il == Resolve(c, Len(m.il)).il
        Operand(v) == IF Tag(v) = "var" THEN Var(vars[Held(v)]) ELSE CopiedValue(m, c, v)
    IN [i \in DOMAIN il |-> IF i = 2 THEN <<"evalcleanup", record>> ELSE <<il[i][1], Operand(il[i][2])>>]

\* Where to go on, and what the operand stack, the code and the vocabulary were.
CleanupRecord(m) ==
    [type |-> "EVAL_RECORD", ret |-> m.pc + 1, ops |-> Len(m.ops), il |-> Len(m.il), vocab |-> Len(m.vocab)]

\* compiled gives what the compiler makes of each text that can be given.
EvalText(m, compiled) ==
    LET text   == Object(m, Arg(m)).ch[1]
        c      == compiled[text]
        caller == DropOps(m, 1)
        names  == MapVars(caller, c.ast)
        copied == CopyObjects(names.m, c)
        code   == Relocated(names.m, c, names.of, Handle(copied.next))
    IN IF ~IsType(m, Arg(m), "STRING") THEN Fault(m, "no text")
       ELSE IF text \notin DOMAIN compiled \/ ~c.ok THEN Fault(m, "not compiled")
       ELSE IF ~names.ok THEN Fault(m, "undefined variable")
       ELSE Goto([AddObject(copied, CleanupRecord(caller)) EXCEPT !.il = @ \o code], Len(m.il))

=============================================================================
