------------------------------ MODULE Compiler ------------------------------
(***************************************************************************)
(* The compiler (compiler.c): a tree to a list of instructions, with the   *)
(* labels in it resolved.                                                  *)
(*                                                                         *)
(* A compiler state c holds the tree (temporary variables are added to its *)
(* vocabulary), the code, the located labels, the counter of unique ids,   *)
(* the stack of enclosing loops, and whether everything went well.         *)
(***************************************************************************)
EXTENDS Ast

UniqueIndex(n) == <<"uint", n>>

CompilerState(a) == [ast |-> a, il |-> <<>>, at |-> <<>>, uid |-> 0, whiles |-> <<>>, ok |-> TRUE]

Reject(c)       == [c EXCEPT !.ok = FALSE]
Emit(c, op, v)  == IF c.ok THEN [c EXCEPT !.il = Append(@, <<op, v>>)] ELSE c
Here(c)         == Len(c.il)
Locate(c, idx)  == IF c.ok THEN [c EXCEPT !.at = (idx :> Here(c)) @@ @] ELSE c
NewIds(c, n)    == [c EXCEPT !.uid = @ + n]
Require(c, cond) == IF cond THEN c ELSE Reject(c)

\* am_compiler_make_temp_varid: a variable of the compiler's own.
MakeTemp(c, name) == [c EXCEPT !.ast = InternAs(@, <<name>>, "ILTEMP")]
TempVar(c, name)  == Var(VarId(c.ast, <<name>>))

Kids(c, h)      == Node(c.ast, h).ch
KindOf(c, v)    == IF Tag(v) = "h" /\ HasNode(c.ast, Held(v)) THEN Node(c.ast, Held(v)).type ELSE "NONE"
IsNative(c, v)  == IsNativeRef(c.ast, Held(v))
BuiltinOp(c, v) == OpcodesOf(NameOf(c.ast, Held(v)))
IsNamed(c, v, name) == Tag(v) = "var" /\ NameOf(c.ast, Held(v)) = <<name>>
IsLoopExit(v)   == v \in {Kw("break"), Kw("continue")}
Constants       == {"uint", "int", "float", "bool", "null", "undef"}

----------------------------------------------------------------------------
(* Values *)

RECURSIVE CompileValue(_, _), CompileApplication(_, _), CompileQuasi(_, _)

\* A condition: only an application is evaluated, anything else is pushed or loaded.
CompilePredicate(c, v) ==
    CASE KindOf(c, v) = "APPLICATION" -> CompileApplication(c, Held(v))
      [] Tag(v) = "h" /\ KindOf(c, v) # "APPLICATION" -> Emit(c, "push", v)
      [] Tag(v) = "var" -> Emit(c, IF IsNative(c, v) THEN "push" ELSE "load", v)
      [] Tag(v) = "kw" -> IF IsLoopExit(v) THEN Reject(c) ELSE Emit(c, "push", v)
      [] Tag(v) \in Constants \cup {"sym"} -> Emit(c, "push", v)

CompileHandle(c, v) ==
    LET kind == KindOf(c, v)
    IN CASE kind = "LAMBDA" -> Emit(c, "loadclosure", LabelOf(v))
         [] kind \in {"QUOTE", "STRING"} -> Emit(c, "push", v)
         [] kind = "QUASIQUOTE" -> CompileQuasi(c, Held(v))
         [] kind \in {"APPLICATION", "UNQUOTE"} -> CompileApplication(c, Held(v))
         [] OTHER -> Reject(c)

\* break and continue jump out of the innermost loop; a name that stands for an
\* instruction or a native function is pushed, not loaded.
CompileValue(c, v) ==
    CASE ~c.ok -> c
      [] c.ok /\ Tag(v) = "h" -> CompileHandle(c, v)
      [] c.ok /\ IsLoopExit(v) ->
            IF c.whiles = <<>> THEN Reject(c)
            ELSE Emit(c, "goto", IF v = Kw("break") THEN Last(c.whiles).end ELSE Last(c.whiles).cond)
      [] c.ok /\ Tag(v) = "var" ->
            Emit(c, IF IsNative(c, v) \/ BuiltinOp(c, v) # {} THEN "push" ELSE "load", v)
      [] c.ok /\ ~IsLoopExit(v) /\ Tag(v) \in Constants \cup {"sym", "kw"} -> Emit(c, "push", v)

CompileEach(c, vs) == Fold(CompileValue, c, vs)
From(s, i)         == SubSeq(s, i, Len(s))

----------------------------------------------------------------------------
(* Applications *)

\* The head is itself an application: a temporary lambda takes the function and
\* the arguments as its parameters, so that a continuation captured while they
\* are computed has them in bindings of its own.
CompileComplex(c, h, call) ==
    LET n     == Len(Kids(c, h))
        begin == UniqueIndex(c.uid)
        temp  == UniqueIndex(c.uid + 1)
        name(i) == "TEMP_LAMBDA_PARAM_" \o ToString(c.uid) \o "_" \o ToString(i - 1)
        down  == [i \in 1..n |-> n + 1 - i]
        c0 == Emit(Fold(LAMBDA x, i : MakeTemp(x, name(i)), NewIds(c, 2), down), "goto", LabelOf(begin))
        c1 == Fold(LAMBDA x, i : Emit(x, "store", TempVar(x, name(i))), Locate(c0, temp), down)
        c2 == Fold(LAMBDA x, i : Emit(x, "load", TempVar(x, name(i))), c1, From([i \in 1..n |-> i], 2))
        c3 == Emit(Emit(c2, "tailcall", TempVar(c2, name(1))), "return", NoOperand)
    IN Emit(CompileEach(Locate(c3, begin), Kids(c, h)), call, LabelOf(temp))

\* The captured continuation resumes behind the call of its receiver.
CompileCallcc(c, h) ==
    LET name  == "CC_" \o ToString(c.uid)
        thunk == Kids(c, h)[2]
        c0 == NewIds(MakeTemp(c, name), 1)
        k  == TempVar(c0, name)
        c1 == Emit(Emit(c0, "capturecc", k), "load", k)
    IN IF Len(Kids(c, h)) < 2 THEN Reject(c)
       ELSE IF KindOf(c, thunk) = "LAMBDA" THEN Locate(Emit(c1, "call", LabelOf(thunk)), k)
       ELSE IF Tag(thunk) = "var" THEN Locate(Emit(c1, "call", thunk), k)
       ELSE Reject(c)

CompileDynamicWind(c, h) ==
    LET c1 == CompileEach(c, From(Kids(c, h), 2))
    IN IF Len(Kids(c, h)) # 4 THEN Reject(c)
       ELSE Fold(LAMBDA x, op : Emit(x, op, NoOperand), c1,
                     <<"dynamicwind", "dynamicwind_after_before", "dynamicwind_before_after",
                       "dynamicwind_done">>)

\* The arguments are pushed in order; a builtin is one instruction, anything
\* else is called, by tailcall if the application is in tail position.
CompileCall(c, h, call) ==
    LET first == Kids(c, h)[1]
        args  == CompileEach(c, From(Kids(c, h), 2))
    IN IF IsNamed(c, first, "call/cc") THEN CompileCallcc(c, h)
       ELSE IF IsNamed(c, first, "dynamic-wind") THEN CompileDynamicWind(c, h)
       ELSE IF Tag(first) = "var" /\ BuiltinOp(c, first) # {}
       THEN Emit(args, CHOOSE op \in BuiltinOp(c, first) : TRUE, NoOperand)
       ELSE IF Tag(first) = "var" THEN Emit(args, call, first)
       ELSE IF KindOf(c, first) = "LAMBDA" THEN Emit(args, call, LabelOf(first))
       ELSE Reject(c)

----------------------------------------------------------------------------
(* Special forms *)

\* define pushes the address of a lambda, set! makes a closure of it.
CompileStore(c, h, op) ==
    LET left  == Kids(c, h)[2]
        right == Kids(c, h)[3]
        isLambda == KindOf(c, right) = "LAMBDA"
        c1 == IF isLambda /\ op = "store" THEN Emit(c, "push", LabelOf(right)) ELSE CompileValue(c, right)
    IN IF Len(Kids(c, h)) < 3 \/ Tag(left) # "var" THEN Reject(c) ELSE Emit(c1, op, left)

\* One clause after another: the test jumps to the next clause, the last one to
\* the end; only the first expression of a clause is compiled, and nothing behind an else.
RECURSIVE CompileClauses(_, _, _)
CompileClauses(c, h, i) ==
    LET n      == Len(Kids(c, h))
        end    == <<"cond", h, 0>>
        branch == <<"cond", h, i>>
        clause == Kids(c, h)[i]
        isClause == Tag(clause) = "h" /\ IsListNode(c.ast, Held(clause)) /\ Len(Kids(c, Held(clause))) >= 2
        test   == Kids(c, Held(clause))[1]
        isElse == test = Kw("else")
        c1 == Locate(c, branch)
        c2 == IF isElse THEN c1
              ELSE Emit(CompilePredicate(c1, test), "iffalse",
                        LabelOf(IF i = n THEN end ELSE <<"cond", h, i + 1>>))
        c3 == CompileValue(c2, Kids(c, Held(clause))[2])
    IN IF ~c.ok THEN c
       ELSE IF ~isClause THEN Reject(c)
       ELSE IF isElse \/ i = n THEN Locate(c3, end)
       ELSE CompileClauses(Emit(c3, "goto", LabelOf(end)), h, i + 1)

CompileCond(c, h) == IF Len(Kids(c, h)) < 2 THEN Reject(c) ELSE CompileClauses(c, h, 2)

CompileIf(c, h) ==
    LET ch  == Kids(c, h)
        yes == UniqueIndex(c.uid)
        end == UniqueIndex(c.uid + 1)
        test == CompilePredicate(NewIds(c, 2), ch[2])
        no   == Emit(CompileValue(Emit(test, "iftrue", LabelOf(yes)), ch[4]), "goto", LabelOf(end))
    IN IF Len(ch) < 3 THEN Reject(c)
       ELSE IF Len(ch) > 3 THEN Locate(CompileValue(Locate(no, yes), ch[3]), end)
       ELSE Locate(CompileValue(Emit(test, "iffalse", LabelOf(end)), ch[3]), end)

CompileWhile(c, h) ==
    LET ch   == Kids(c, h)
        cond == UniqueIndex(c.uid)
        end  == UniqueIndex(c.uid + 1)
        c1 == [NewIds(c, 2) EXCEPT !.whiles = Append(@, [cond |-> LabelOf(cond), end |-> LabelOf(end)])]
        c2 == Emit(CompilePredicate(Locate(c1, cond), ch[2]), "iffalse", LabelOf(end))
        c3 == Emit(CompileEach(c2, From(ch, 3)), "goto", LabelOf(cond))
    IN IF Len(ch) < 3 THEN Reject(c) ELSE [Locate(c3, end) EXCEPT !.whiles = Front(@)]

\* and leaves at the first false operand, or at the first true one; what is left
\* on the stack is a boolean in either case.
CompileLogic(c, h, jump, through) ==
    LET end  == UniqueIndex(c.uid)
        exit == UniqueIndex(c.uid + 1)
        c1 == Fold(LAMBDA x, v : Emit(CompileValue(x, v), jump, LabelOf(exit)),
                       NewIds(c, 2), From(Kids(c, h), 2))
        c2 == Emit(Emit(c1, "push", Bool(through)), "goto", LabelOf(end))
    IN Locate(Emit(Locate(c2, exit), "push", Bool(~through)), end)

CompileAnd(c, h) == CompileLogic(c, h, "iffalse", TRUE)
CompileOr(c, h)  == CompileLogic(c, h, "iftrue", FALSE)

\* The expressions of a begin one after another; what each leaves on the stack stays there.
CompileBegin(c, h) == CompileEach(c, From(Kids(c, h), 2))

\* Each element is pushed, the unquoted ones evaluated, and concat makes the list.
CompileQuasi(c, h) ==
    LET Item(x, v) ==
            IF Tag(v) = "h"
            THEN CASE KindOf(x, v) \in {"APPLICATION", "UNQUOTE"} -> CompileApplication(x, Held(v))
                   [] KindOf(x, v) = "QUASIQUOTE" -> CompileQuasi(x, Held(v))
                   [] OTHER -> Emit(x, "push", v)
            ELSE CompilePredicate(x, v)
    IN Emit(Emit(Fold(Item, c, Kids(c, h)), "push", Num(Len(Kids(c, h)))), "concat", NoOperand)

NoCode == {"import", "native", "define-syntax", "let-syntax", "letrec-syntax", "syntax-rules"}

CompileApplication(c, h) ==
    LET kw   == HeadKw(c.ast, h)
        call == IF h \in c.ast.tail THEN "tailcall" ELSE "call"
    IN IF ~c.ok \/ Kids(c, h) = <<>> \/ kw \in NoCode THEN c
       ELSE CASE kw = "begin"  -> CompileBegin(c, h)
              [] kw = "define" -> CompileStore(c, h, "store")
              [] kw = "set!"   -> CompileStore(c, h, "set")
              [] kw = "cond"   -> CompileCond(c, h)
              [] kw = "if"     -> CompileIf(c, h)
              [] kw = "while"  -> CompileWhile(c, h)
              [] kw = "and"    -> CompileAnd(c, h)
              [] kw = "or"     -> CompileOr(c, h)
              [] kw = "" /\ KindOf(c, Kids(c, h)[1]) = "APPLICATION" -> CompileComplex(c, h, call)
              [] kw = "" /\ KindOf(c, Kids(c, h)[1]) # "APPLICATION" -> CompileCall(c, h, call)
              [] OTHER -> Reject(c)

----------------------------------------------------------------------------
(* Lambdas and the whole program *)

\* The parameters are stored last one first; what a body leaves stays on the stack.
CompileLambda(c, h) ==
    LET c1 == Fold(LAMBDA x, v : Emit(x, "store", v), Locate(c, Handle(h)), Reverse(Params(c.ast, h)))
    IN Emit(CompileEach(c1, Bodies(c.ast, h)), "return", NoOperand)

\* The program calls the top lambda and halts, or goes to the caller's address
\* (evaluated code); then come all lambdas, in the order they were recorded.
CompileAll(a, ret) ==
    LET top == IF a.top # NullHandle THEN a.top ELSE TopLambda(a)
        c1  == Emit(CompilerState(a), "call", LabelOf(Handle(top)))
        c2  == IF ret > 0 THEN Emit(c1, "goto", <<"iaddr", ret>>) ELSE Emit(c1, "halt", NoOperand)
    IN IF top = NullHandle THEN Reject(CompilerState(a)) ELSE Fold(CompileLambda, c2, a.lambdas)

Unlocated(c) == {i \in DOMAIN c.il : Tag(c.il[i][2]) = "label" /\ Held(c.il[i][2]) \notin DOMAIN c.at}

Compile(a, offset, ret) ==
    LET c == CompileAll(a, ret)
    IN IF ~c.ok \/ Unlocated(c) # {} THEN Reject(c) ELSE Resolve(c, offset)

=============================================================================
