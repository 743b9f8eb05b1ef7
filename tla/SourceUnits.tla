----------------------------- MODULE SourceUnits -----------------------------
(***************************************************************************)
(* Programs with macros, programs of several modules, and malformed ones.  *)
(* Each comes with the core term it stands for: macros expanded by hand    *)
(* with names of their own, the bodies of all modules in one sequence, the *)
(* imported ones first.                                                    *)
(***************************************************************************)
EXTENDS SourcePrograms

t      == I("t")
a      == I("a")
b      == I("b")
e      == I("e")
Dots   == K("...")
Under  == K("_")
Let(p, value, body) == Apply(Fn(<<p>>, body), <<value>>)

\* clauses are pairs of a pattern and a template.
Rules(literals, clauses) ==
    L(<<K("syntax-rules"), L(literals)>> \o [i \in DOMAIN clauses |-> L(<<clauses[i][1], clauses[i][2]>>)])
Syntax(m, literals, clauses) == L(<<K("define-syntax"), I(m), Rules(literals, clauses)>>)
Use(ps) == L(<<Under>> \o ps)

Linked(files, core) ==
    [files |-> files, main |-> Main, core |-> Program(core), valid |-> TRUE, evals |-> <<>>, escapes |-> FALSE]
Expanded(bodies, core) == Linked(Main :> bodies, core)
Malformed(files)       == [Linked(files, <<N(0)>>) EXCEPT !.valid = FALSE]

----------------------------------------------------------------------------
(* Hygiene: a macro that binds p around one of its arguments, used with    *)
(* arguments that mention p, inside lambdas that bind p, and inside itself *)

Binder(p) == Syntax("m", <<>>, <<<<Use(<<a, b>>), Let(p, a, Plus(I(p), b))>>>>)
\* The use (m l r), and what it stands for when its variable is called f.
Bind(l, r)       == Call("m", <<l, r>>)
ByHand(f, l, r)  == Let(f, l, Plus(I(f), r))

Args == {x, Plus(x, t), Let("t", N(3), Plus(x, t))}
Flat   == {<<Bind(l, r), ByHand("f1", l, r)>> : l \in Args, r \in Args}
Nested == {<<Bind(Bind(t, x), Bind(x, t)), ByHand("f1", ByHand("f2", t, x), ByHand("f3", x, t))>>,
           <<Bind(x, Let("t", Bind(t, x), Plus(x, t))),
             ByHand("f1", x, Let("t", ByHand("f2", t, x), Plus(x, t)))>>,
           <<Let("t", N(5), Bind(t, Bind(t, t))), Let("t", N(5), ByHand("f1", t, ByHand("f2", t, t)))>>}

Hygiene == {Expanded(<<Define("x", N(1)), Define("t", N(2)), Binder(p), Show(u[1]), Show(Plus(x, t))>>,
                     <<Define("x", N(1)), Define("t", N(2)), Show(u[2]), Show(Plus(x, t))>>) :
               p \in {"t", "x", "z"}, u \in Flat \cup Nested}

\* What is free in a template means what it means where the macro was defined.
Transparent ==
    Expanded(<<Define("x", N(1)), Syntax("m", <<>>, <<<<Use(<<a>>), Plus(a, x)>>>>),
               Show(Let("x", N(5), Call("m", <<x>>)))>>,
             <<Define("x", N(1)), Show(Let("y", N(5), Plus(y, x)))>>)

Swap ==
    Expanded(<<Define("t", N(1)), Define("y", N(2)),
               Syntax("swap", <<>>, <<<<Use(<<a, b>>),
                   Apply(Lambda(<<"t">>, <<Assign("a", b), Assign("b", t)>>), <<a>>)>>>>),
               Call("swap", <<t, y>>), Show(t), Show(y)>>,
             <<Define("t", N(1)), Define("y", N(2)),
               Apply(Lambda(<<"f1">>, <<Assign("t", y), Assign("y", I("f1"))>>), <<t>>), Show(t), Show(y)>>)

\* A definition in a template, used twice.
Loop(v, f, end) == Apply(Lambda(<<v>>, <<
                    Define(f, Lambda(<<>>, <<If(Call("<", <<end, I(v)>>),
                        Begin(<<Show(I(v)), Assign(v, Minus(I(v), N(1))), Call(f, <<>>)>>), N(0))>>)),
                    Call(f, <<>>)>>), <<N(2)>>)
Downward ==
    Expanded(<<Syntax("down", <<I("to")>>, <<<<Use(<<a, I("to"), b>>), Loop("a", "t", b)>>>>),
               Define("t", N(0)), Call("down", <<x, I("to"), t>>), Call("down", <<t, I("to"), N(1)>>), Show(t)>>,
             <<Define("t", N(0)), Loop("x", "f1", t), Loop("f2", "f3", N(1)), Show(t)>>)

----------------------------------------------------------------------------
(* Ellipses, literals, recursion, local macros *)

LetRule == <<Use(<<L(<<L(<<a, b>>), Dots>>), e, Dots>>),
             L(<<L(<<K("lambda"), L(<<a, Dots>>), e, Dots>>), b, Dots>>)>>
Lets ==
    Expanded(<<Syntax("with", <<>>, <<LetRule>>), Define("x", N(1)),
               Show(Call("with", <<L(<<L(<<x, N(2)>>), L(<<y, x>>)>>),
                        Call("with", <<L(<<L(<<x, Plus(x, y)>>)>>), Plus(x, y)>>)>>)), Show(x)>>,
             <<Define("x", N(1)),
               Show(Apply(Lambda(<<"f1", "f2">>, <<Let("f3", Plus(I("f1"), I("f2")), Plus(I("f3"), I("f2")))>>),
                          <<N(2), x>>)), Show(x)>>)

\* The macro's user gives the variable: it hides the one outside, and closures and
\* assignments inside are about the inner one.
Hides(bodies)  == Call("with", <<L(<<L(<<x, Plus(x, N(5))>>)>>)>> \o bodies)
Hidden(bodies) == Apply(Lambda(<<"x">>, bodies), <<Plus(x, N(5))>>)
Inside(hide(_)) ==
    <<<<x>>, <<Assign("x", N(7)), Plus(x, x)>>,
      <<Define("g", Lambda(<<>>, <<Assign("x", Plus(x, N(1))), x>>)), Call("g", <<>>), Plus(x, Call("g", <<>>))>>,
      <<Define("g", Lambda(<<>>, <<x>>)), hide(<<Assign("x", N(7)), Plus(x, Call("g", <<>>))>>)>>>>
Shadow(i) ==
    Expanded(<<Syntax("with", <<>>, <<LetRule>>), Define("x", N(1)), Show(Hides(Inside(Hides)[i])), Show(x)>>,
             <<Define("x", N(1)), Show(Hidden(Inside(Hidden)[i])), Show(x)>>)
Shadows == {Shadow(i) : i \in 1..3}
\* A closure made outside that sees the inner variable.
Leak    == {Shadow(4)}

Recursive ==
    LET all == Syntax("all", <<>>, <<<<Use(<<>>), B(TRUE)>>, <<Use(<<e>>), e>>,
                                     <<Use(<<a, e, Dots>>), If(a, Call("all", <<e, Dots>>), B(FALSE))>>>>)
        small == Call("<", <<x, N(2)>>)
    IN Expanded(<<all, Define("x", N(1)), Show(Call("all", <<>>)), Show(Call("all", <<small, small, N(7)>>)),
                  Show(Call("all", <<small, B(FALSE), x>>))>>,
                <<Define("x", N(1)), Show(B(TRUE)), Show(If(small, If(small, N(7), B(FALSE)), B(FALSE))),
                  Show(If(small, If(B(FALSE), x, B(FALSE)), B(FALSE)))>>)

Literals ==
    Expanded(<<Syntax("when", <<K("else")>>, <<<<Use(<<K("else"), e>>), e>>, <<Use(<<a, e>>), If(a, e, N(0))>>>>),
               Show(Call("when", <<K("else"), N(1)>>)), Show(Call("when", <<B(FALSE), N(1)>>)),
               Show(Call("when", <<B(TRUE), N(2)>>))>>,
             <<Show(N(1)), Show(If(B(FALSE), N(1), N(0))), Show(If(B(TRUE), N(2), N(0)))>>)

\* The innermost macro of a name is used, and it goes out of scope.
Innermost ==
    LET one(i) == Rules(<<>>, <<<<Use(<<>>), N(i)>>>>)
    IN Expanded(<<L(<<K("define-syntax"), I("m"), one(1)>>),
                  Show(L(<<K("let-syntax"), L(<<L(<<I("m"), one(2)>>)>>), Plus(Call("m", <<>>), N(10))>>)),
                  Show(Apply(Lambda(<<>>, <<L(<<K("define-syntax"), I("m"), one(3)>>), Call("m", <<>>)>>), <<>>)),
                  Show(Call("m", <<>>))>>,
                <<Show(Plus(N(2), N(10))), Show(Apply(Lambda(<<>>, <<N(3)>>), <<>>)), Show(N(1))>>)

\* Two lists from one list of pairs, in a quasiquotation.
Unzip ==
    LET unq(v) == QQ("UNQUOTE", v)
        listed(vs) == QQ("QUASIQUOTE", L(vs))
    IN Expanded(<<Syntax("unzip", <<>>, <<<<Use(<<L(<<a, b>>), Dots>>),
                     Call("cons", <<listed(<<unq(a), Dots>>), listed(<<unq(b), Dots>>)>>)>>>>),
                  Define("x", N(1)), Show(Call("car", <<Call("unzip", <<L(<<x, N(2)>>), L(<<N(3), x>>)>>)>>)),
                  Show(Call("cdr", <<Call("unzip", <<L(<<x, N(2)>>), L(<<N(3), x>>)>>)>>))>>,
                <<Define("x", N(1)), Show(listed(<<unq(x), unq(N(3))>>)), Show(listed(<<unq(N(2)), unq(x)>>))>>)

\* An argument that is used twice is two terms, also where it binds something.
Twice ==
    LET bump == Assign("x", Plus(x, N(1)))
        two(f, v) == Call(f, <<v>>)
        sum == Let("t", x, Plus(t, x))
    IN Expanded(<<Define("x", N(1)), Syntax("twice", <<>>, <<<<Use(<<e>>), Begin(<<e, e>>)>>>>),
                  Syntax("double", <<>>, <<<<Use(<<e>>), Plus(e, e)>>>>),
                  two("twice", bump), two("twice", two("twice", bump)), Show(two("double", two("double", sum)))>>,
                <<Define("x", N(1)), bump, bump, bump, bump, bump, bump,
                  Show(Plus(Plus(sum, sum), Plus(sum, sum)))>>)

Macros == Hygiene \cup Shadows \cup {Transparent, Swap, Twice, Downward, Lets, Recursive, Literals, Innermost, Unzip}

----------------------------------------------------------------------------
(* Modules *)

LibA == <<"a">>
LibB == <<"b">>
LibC == <<"c">>
Import(alias, path) == L(<<K("import"), I(alias), S(path)>>)
CallIn(m, f, args)  == Apply(Ext(m, f), args)

\* Both modules have a variable x and a macro m, and each means its own.
OneImport ==
    Linked((Main :> <<Import("l", LibA), Define("x", N(1)), Syntax("m", <<>>, <<<<Use(<<>>), N(5)>>>>),
                      Show(Plus(x, CallIn("l", "bump", <<N(2)>>))), Show(CallIn("l", "bump", <<x>>)),
                      Show(Call("m", <<>>))>>)
        @@ (LibA :> <<Define("x", N(10)), Syntax("m", <<>>, <<<<Use(<<>>), N(7)>>>>),
                      Define("bump", Lambda(<<"y">>, <<Assign("x", Plus(x, y)), Plus(x, Call("m", <<>>))>>))>>),
           <<Define("ax", N(10)), Define("bump", Lambda(<<"y">>, <<Assign("ax", Plus(I("ax"), y)), Plus(I("ax"), N(7))>>)),
             Define("x", N(1)), Show(Plus(x, Call("bump", <<N(2)>>))), Show(Call("bump", <<x>>)), Show(N(5))>>)

\* Two ways to one module: it is loaded once, before those that use it.
Diamond ==
    Linked((Main :> <<Import("l", LibA), Import("r", LibB), Show(CallIn("l", "f", <<>>)), Show(CallIn("r", "f", <<>>))>>)
        @@ (LibA :> <<Import("l", LibC), Define("f", Lambda(<<>>, <<CallIn("l", "next", <<>>)>>)), Show(CallIn("l", "next", <<>>))>>)
        @@ (LibB :> <<Import("l", LibC), Define("f", Lambda(<<>>, <<Plus(N(10), CallIn("l", "next", <<>>))>>))>>)
        @@ (LibC :> <<Define("x", N(0)), Show(N(100)), Define("next", Lambda(<<>>, <<Assign("x", Plus(x, N(1))), x>>))>>),
           <<Define("x", N(0)), Show(N(100)), Define("next", Lambda(<<>>, <<Assign("x", Plus(x, N(1))), x>>)),
             Define("bf", Lambda(<<>>, <<Plus(N(10), Call("next", <<>>))>>)),
             Define("af", Lambda(<<>>, <<Call("next", <<>>)>>)), Show(Call("next", <<>>)),
             Show(Call("af", <<>>)), Show(Call("bf", <<>>))>>)

\* A chain that the main module also enters at its end, the deep module first or last.
Chain(first, second) ==
    Linked((Main :> <<first, second, Show(CallIn("p", "f", <<>>)), Show(CallIn("q", "f", <<>>))>>)
        @@ (LibA :> <<Import("q", LibB), Show(N(1)), Define("f", Lambda(<<>>, <<Plus(N(20), CallIn("q", "f", <<>>))>>))>>)
        @@ (LibB :> <<Show(N(2)), Define("f", Lambda(<<>>, <<N(3)>>))>>),
           <<Show(N(2)), Define("qf", Lambda(<<>>, <<N(3)>>)), Show(N(1)),
             Define("pf", Lambda(<<>>, <<Plus(N(20), Call("qf", <<>>))>>)), Show(Call("pf", <<>>)), Show(Call("qf", <<>>))>>)

Modules == {OneImport, Diamond, Chain(Import("p", LibA), Import("q", LibB)), Chain(Import("q", LibB), Import("p", LibA))}

----------------------------------------------------------------------------
(* Programs that must be turned away *)

Alone(bodies) == Malformed(Main :> bodies)
One(m)        == Syntax("m", <<>>, <<m>>)
Rejected ==
    {Alone(<<Show(Lambda(<<"x", "x">>, <<x>>))>>),                            \* a parameter twice
     Alone(<<Define("x", N(1)), Define("x", N(2)), Show(x)>>),                \* a definition twice
     Alone(<<Show(N(1)), K("break")>>),                                       \* no loop to leave
     Alone(<<L(<<K("while"), B(FALSE), N(1)>>), Lambda(<<>>, <<N(1)>>), K("continue")>>),
     Alone(<<L(<<K("set!"), I("x")>>)>>), Alone(<<L(<<K("cond")>>)>>),
     Alone(<<Call("call/cc", <<N(1)>>)>>), Alone(<<Apply(N(1), <<N(2)>>)>>),
     Alone(<<One(<<Use(<<a>>), a>>), Show(Call("m", <<N(1), N(2)>>))>>),      \* no clause
     Alone(<<One(<<L(<<Dots, a>>), a>>), Show(Call("m", <<N(1), N(2)>>))>>),
     Alone(<<One(<<Use(<<a, Dots>>), L(<<e, Dots>>)>>), Show(Call("m", <<N(1)>>))>>),
     Alone(<<L(<<K("define-syntax"), I("m"), N(1)>>), Show(N(1))>>),
     Alone(<<Import("l", LibA), Show(N(1))>>),                                \* no such file
     Malformed((Main :> <<Import("l", LibA), Show(CallIn("l", "g", <<>>))>>)  \* no such name
            @@ (LibA :> <<Define("f", N(1))>>)),
     Malformed((Main :> <<Import("l", LibA), Show(N(1))>>)                    \* a cycle
            @@ (LibA :> <<Import("l", LibB), Define("f", N(1))>>)
            @@ (LibB :> <<Import("l", LibA), Define("f", N(1))>>)),
     Malformed((Main :> <<Import("l", LibA), Show(N(1))>>) @@ (LibA :> <<Import("m", Main), Define("f", N(1))>>)),
     Malformed((Main :> <<Import("l", LibA), Show(N(1))>>) @@ (LibA :> <<Show(Lambda(<<"x", "x">>, <<x>>))>>))}

UnitPrograms == Macros \cup Modules \cup Rejected

=============================================================================
