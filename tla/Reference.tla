------------------------------ MODULE Reference ------------------------------
(***************************************************************************)
(* What a program means: the language as the documents of the repository   *)
(* describe it (Scheme: lexical scope, proper tail calls, first-class      *)
(* continuations), evaluated on the source text itself by a machine with a *)
(* control, an environment, a store and a continuation.  Nothing here      *)
(* models code; it is what the chain of parser, macro expander, linker,    *)
(* compiler and virtual machine is compared with.                          *)
(*                                                                         *)
(* A source term is a pair: a number, a boolean, an identifier, a keyword, *)
(* a string, a list of terms, or a quotation of a term.                    *)
(***************************************************************************)
EXTENDS Integers, SequencesExt, FiniteSetsExt, TLC

N(n)   == <<"n", n>>
B(b)   == <<"b", b>>
I(x)   == <<"i", <<x>>>>
Ext(m, x) == <<"i", <<m, x>>>>
K(k)   == <<"k", k>>
S(s)   == <<"s", s>>
L(ts)  == <<"l", ts>>
QQ(kind, t) == <<kind, t>>

Lambda(ps, body) == L(<<K("lambda"), L([i \in DOMAIN ps |-> I(ps[i])])>> \o body)
Define(x, t)     == L(<<K("define"), I(x), t>>)
Assign(x, t)     == L(<<K("set!"), I(x), t>>)
If(t, a, b)      == L(<<K("if"), t, a, b>>)
Apply(f, args)   == L(<<f>> \o args)
Call(f, args)    == Apply(I(f), args)
Quote(t)         == QQ("QUOTE", t)
\* A module: its bodies in a lambda that is called.
Program(bodies)  == L(<<L(<<K("lambda"), L(<<>>)>> \o bodies)>>)

Kind(t) == t[1]
Sub(t)  == t[2]
IsForm(t, k) == Kind(t) = "l" /\ Sub(t) # <<>> /\ Sub(t)[1] = K(k)

----------------------------------------------------------------------------
(* Values, as the program can show them, and the primitive functions *)

Number(n)  == <<"number", n>>
Truth(b)   == <<"bool", b>>
ListVal(s) == IF s = <<>> THEN <<"QUOTE", s>> ELSE <<"LIST", s>>
Void       == <<"void", 0>>
Opaque(v)  == IF v[1] = "fn" THEN <<"object", "CLOSURE">>
              ELSE IF v[1] = "kont" THEN <<"object", "CONTINUATION">> ELSE v

Primitives == {"+", "-", "*", "<", "==", "not", "null?", "car", "cdr", "cons"}

Primitive(name, vs) ==
    CASE name = "+"     -> Number(vs[1][2] + vs[2][2])
      [] name = "-"     -> Number(vs[1][2] - vs[2][2])
      [] name = "*"     -> Number(vs[1][2] * vs[2][2])
      [] name = "<"     -> Truth(vs[1][2] < vs[2][2])
      [] name = "=="    -> Truth(vs[1] = vs[2])
      [] name = "not"   -> Truth(vs[1] = Truth(FALSE))
      [] name = "null?" -> Truth(vs[1] = ListVal(<<>>))
      [] name = "car"   -> vs[1][2][1]
      [] name = "cdr"   -> ListVal(Tail(vs[1][2]))
      [] name = "cons"  -> ListVal(<<vs[1]>> \o vs[2][2])

\* A quoted term is data.
RECURSIVE Datum(_)
Datum(t) ==
    CASE Kind(t) = "n" -> Number(Sub(t))
      [] Kind(t) = "b" -> Truth(Sub(t))
      [] Kind(t) = "i" -> <<"name", Sub(t)>>
      [] Kind(t) = "k" -> <<"name", <<Sub(t)>>>>
      [] Kind(t) = "s" -> <<"string", Sub(t)>>
      [] Kind(t) = "l" -> ListVal([i \in DOMAIN Sub(t) |-> Datum(Sub(t)[i])])

----------------------------------------------------------------------------
(* The machine *)

Eval(t)  == <<"eval", t>>
Give(v)  == <<"give", v>>

\* env maps names to locations of mem; k is the continuation, innermost frame last.
\* A frame <<"return">> stands for a call that something waits for; deep is
\* the largest number of those there ever were.  global is the environment of
\* the program's own definitions, and texts the terms that System.eval is given
\* by name; failed is set when there is no such term, or it means nothing.
RefStart(t, texts) ==
    [c |-> Eval(t), env |-> <<>>, k |-> <<>>, mem |-> <<>>, out |-> <<>>, deep |-> 0, done |-> FALSE,
     global |-> <<>>, texts |-> texts, failed |-> FALSE]

Pending(k) == Cardinality({i \in DOMAIN k : k[i][1] = "return"})
EvalIn(r, t, env)   == [r EXCEPT !.c = Eval(t), !.env = env]
Push(r, frame)      == [r EXCEPT !.k = Append(@, frame)]
Return(r, v)        == [r EXCEPT !.c = Give(v)]

\* The names defined by the body of a lambda, also inside begin.
RECURSIVE DefinedIn(_)
DefinedIn(ts) ==
    FlattenSeq([i \in DOMAIN ts |->
        IF IsForm(ts[i], "define") THEN <<Sub(Sub(ts[i])[2])>>
        ELSE IF IsForm(ts[i], "begin") THEN DefinedIn(Tail(Sub(ts[i])))
        ELSE <<>>])

\* One term after another; the value of the last is the value of all.
EvalBody(r, ts, env) ==
    EvalIn(IF Len(ts) = 1 THEN r ELSE Push(r, <<"seq", Tail(ts), env>>), ts[1], env)

ApplyClosure(r, f, vs) ==
    LET names == DefinedIn(f[3])
        locals == f[2] \o names
        base == Len(r.mem)
        env  == [x \in Range(locals) |-> base + Min({i \in DOMAIN locals : locals[i] = x})] @@ f[4]
        k    == IF r.k # <<>> /\ Last(r.k)[1] # "return" THEN Append(r.k, <<"return">>) ELSE r.k
        r1   == [r EXCEPT !.mem = @ \o vs \o [i \in DOMAIN names |-> Void],
                          !.k = k, !.deep = IF Pending(k) > @ THEN Pending(k) ELSE @,
                          !.global = IF DOMAIN @ = {} THEN env ELSE @]
    IN EvalBody(r1, f[3], env)

\* Evaluated terms are the body of a function that was made where the program
\* has its definitions; what they are worth is forgotten.
EvalText(r, text) ==
    IF text \in DOMAIN r.texts /\ r.texts[text].ok
    THEN ApplyClosure(Push(r, <<"void">>), <<"fn", <<>>, r.texts[text].core, r.global>>, <<>>)
    ELSE [r EXCEPT !.failed = TRUE, !.done = TRUE]

RECURSIVE ApplyValue(_, _, _)
ApplyValue(r, f, vs) ==
    CASE f[1] = "fn"   -> ApplyClosure(r, f, vs)
      [] f[1] = "kont" -> Return([r EXCEPT !.k = f[2]], vs[1])
      [] f[1] = "prim" -> IF f[2] = "display" THEN Return([r EXCEPT !.out = Append(@, Opaque(vs[1]))], Void)
                          ELSE IF f[2] = "call/cc" THEN ApplyValue(r, vs[1], <<<<"kont", r.k>>>>)
                          ELSE IF f[2] = "System.eval" THEN EvalText(r, vs[1][2])
                          ELSE Return(r, Primitive(f[2], vs))

Lookup(r, x) ==
    IF x \in DOMAIN r.env THEN r.mem[r.env[x]]
    ELSE <<"prim", IF x = <<"System", "eval">> THEN "System.eval" ELSE x[1]>>

EvalForm(r, ts) ==
    LET env == r.env
    IN CASE ts[1] = K("lambda") ->
              Return(r, <<"fn", [i \in DOMAIN Sub(ts[2]) |-> Sub(Sub(ts[2])[i])], SubSeq(ts, 3, Len(ts)), env>>)
         [] ts[1] = K("if")     -> EvalIn(Push(r, <<"if", ts[3], ts[4], env>>), ts[2], env)
         [] ts[1] = K("cond")   ->
              LET c == Sub(ts[2])
              IN IF c[1] = K("else") THEN EvalIn(r, c[2], env)
                 ELSE EvalIn(Push(r, <<"if", c[2], L(<<K("cond")>> \o SubSeq(ts, 3, Len(ts))), env>>), c[1], env)
         [] ts[1] \in {K("define"), K("set!")} -> EvalIn(Push(r, <<"set", Sub(ts[2]), env>>), ts[3], env)
         [] ts[1] = K("begin")  -> EvalBody(r, Tail(ts), env)
         [] ts[1] = K("and")    ->
              EvalIn(IF Len(ts) = 2 THEN r
                     ELSE Push(r, <<"if", L(<<K("and")>> \o SubSeq(ts, 3, Len(ts))), B(FALSE), env>>), ts[2], env)
         [] ts[1] = K("or")     ->
              EvalIn(IF Len(ts) = 2 THEN r
                     ELSE Push(r, <<"if", B(TRUE), L(<<K("or")>> \o SubSeq(ts, 3, Len(ts))), env>>), ts[2], env)
         [] ts[1] = K("while")  ->
              EvalIn(Push(r, <<"while", ts[2], SubSeq(ts, 3, Len(ts)), env>>), ts[2], env)
         [] Kind(ts[1]) # "k"   -> EvalIn(Push(r, <<"app", <<>>, Tail(ts), env>>), ts[1], env)

EvalTerm(r, t) ==
    CASE Kind(t) \in {"n", "b", "s"} -> Return(r, Datum(t))
      [] Kind(t) = "i"          -> Return(r, Lookup(r, Sub(t)))
      [] Kind(t) = "QUOTE"      -> Return(r, Datum(Sub(t)))
      [] Kind(t) = "QUASIQUOTE" ->
            IF Sub(Sub(t)) = <<>> THEN Return(r, ListVal(<<>>))
            ELSE EvalIn(Push(r, <<"quasi", <<>>, Tail(Sub(Sub(t))), r.env>>), QQ("item", Sub(Sub(t))[1]), r.env)
      [] Kind(t) = "item"       ->
            IF Kind(Sub(t)) = "UNQUOTE" THEN EvalIn(r, Sub(Sub(t)), r.env) ELSE Return(r, Datum(Sub(t)))
      [] t \in {K("break"), K("continue")} ->
            LET loop == Max({i \in DOMAIN r.k : r.k[i][1] \in {"while", "loop"}})
                w    == r.k[loop]
                r1   == [r EXCEPT !.k = SubSeq(@, 1, loop - 1)]
            IN IF t = K("break") THEN Return(r1, Void)
               ELSE EvalIn(Push(r1, <<"while", w[2], w[3], w[4]>>), w[2], w[4])
      [] Kind(t) = "l"          -> EvalForm(r, Sub(t))

GiveTo(r, v) ==
    LET f == Last(r.k)
        p == [r EXCEPT !.k = Front(@)]
    IN CASE f[1] = "return" -> p
         [] f[1] = "void"   -> Return(p, Void)
         [] f[1] = "if"     -> EvalIn(p, IF v = Truth(FALSE) THEN f[3] ELSE f[2], f[4])
         [] f[1] = "seq"    -> EvalBody(p, f[2], f[3])
         [] f[1] = "set"    -> Return([p EXCEPT !.mem[f[3][f[2]]] = v], Void)
         [] f[1] = "while"  ->
              IF v = Truth(FALSE) THEN Return(p, Void)
              ELSE EvalBody(Push(p, <<"loop", f[2], f[3], f[4]>>), f[3], f[4])
         [] f[1] = "loop"   -> EvalIn(Push(p, <<"while", f[2], f[3], f[4]>>), f[2], f[4])
         [] f[1] = "quasi"  ->
              LET vs == Append(f[2], v)
              IN IF f[3] = <<>> THEN Return(p, ListVal(vs))
                 ELSE EvalIn(Push(p, <<"quasi", vs, Tail(f[3]), f[4]>>), QQ("item", f[3][1]), f[4])
         [] f[1] = "app"    ->
              LET vs == Append(f[2], v)
              IN IF f[3] = <<>> THEN ApplyValue(p, vs[1], Tail(vs))
                 ELSE EvalIn(Push(p, <<"app", vs, Tail(f[3]), f[4]>>), f[3][1], f[4])

RefStep(r) ==
    IF r.c[1] = "eval" THEN EvalTerm(r, r.c[2])
    ELSE IF r.k = <<>> THEN [r EXCEPT !.done = TRUE]
    ELSE GiveTo(r, r.c[2])

RefValue(r) == Opaque(r.c[2])

=============================================================================
