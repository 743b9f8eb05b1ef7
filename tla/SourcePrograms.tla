---------------------------- MODULE SourcePrograms ----------------------------
(***************************************************************************)
(* Programs for the toolchain: source terms, and for those with macros or  *)
(* modules the core term they stand for.                                   *)
(***************************************************************************)
EXTENDS Reference

Main == <<"main">>
x == I("x")
y == I("y")
n == I("n")
k == I("k")
Show(t)      == Call("display", <<t>>)
Fn(ps, t)    == Lambda(ps, <<t>>)
Plus(a, b)   == Call("+", <<a, b>>)
Minus(a, b)  == Call("-", <<a, b>>)
Begin(ts)    == L(<<K("begin")>> \o ts)
Cond(cs)     == L(<<K("cond")>> \o [i \in DOMAIN cs |-> L(cs[i])])

Single(bodies) ==
    [files |-> (Main :> bodies), main |-> Main, core |-> Program(bodies), valid |-> TRUE,
     evals |-> <<>>, escapes |-> FALSE]

----------------------------------------------------------------------------
(* Recursion, tail calls, assignment, continuations *)

Factorial == <<Define("f", Fn(<<"n">>, If(Call("<", <<n, N(1)>>), N(1), Call("*", <<n, Call("f", <<Minus(n, N(1))>>)>>)))),
               Show(Call("f", <<N(4)>>))>>

\* Two functions that call each other in tail position.
EvenOdd == <<Define("even", Fn(<<"n">>, If(Call("==", <<n, N(0)>>), B(TRUE), Call("odd", <<Minus(n, N(1))>>)))),
             Define("odd", Fn(<<"n">>, If(Call("==", <<n, N(0)>>), B(FALSE), Call("even", <<Minus(n, N(1))>>)))),
             Show(Call("even", <<N(5)>>))>>

\* Tail position through cond, and, begin.
Descend == <<Define("down", Fn(<<"n">>,
               Cond(<<<<Call("<", <<n, N(1)>>), N(7)>>,
                      <<Call("<", <<n, N(3)>>), L(<<K("and"), B(TRUE), Call("==", <<N(7), Call("down", <<Minus(n, N(1))>>)>>)>>)>>,
                      <<K("else"), Call("down", <<Minus(n, N(1))>>)>>>>))),
             Show(Call("down", <<N(0)>>)), Show(Call("down", <<N(4)>>))>>

\* A counter: a closure over a variable that it assigns, twice.
Counters == <<Define("make", Lambda(<<>>, <<Define("x", N(0)),
                 Lambda(<<>>, <<Assign("x", Plus(x, N(1))), x>>)>>)),
              Define("a", Call("make", <<>>)), Define("b", Call("make", <<>>)),
              Show(Call("a", <<>>)), Show(Call("a", <<>>)), Show(Call("b", <<>>))>>

\* Escaping from a call with a continuation, and coming back to one again.
Escape == <<Define("find", Fn(<<"k">>, Plus(N(1), Call("k", <<N(5)>>)))),
            Show(Plus(N(10), Call("call/cc", <<I("find")>>)))>>
ComeBack == <<Define("k", B(FALSE)), Define("x", N(0)),
              Show(Plus(N(1), Call("call/cc", <<Lambda(<<"c">>, <<Assign("k", I("c")), N(1)>>)>>))),
              Assign("x", Plus(x, N(1))),
              If(Call("<", <<x, N(3)>>), Call("k", <<x>>), x)>>

\* The function is itself computed; arguments are computed in the middle of it.
Curried == <<Define("add", Fn(<<"x">>, Fn(<<"y">>, Plus(x, y)))),
             Show(Apply(Call("add", <<N(1)>>), <<Apply(Call("add", <<N(2)>>), <<N(3)>>)>>))>>

\* Loops that are left and continued.
Loops == <<Define("n", N(0)),
           L(<<K("while"), B(TRUE), Assign("n", Plus(n, N(1))),
               If(Call("<", <<n, N(2)>>), K("continue"), Show(n)),
               If(Call("<", <<N(3), n>>), K("break"), Show(N(0)))>>),
           n>>

\* Quoted and half-quoted lists, and strings.
Lists == <<Define("l", Quote(L(<<N(1), L(<<I("x"), B(TRUE)>>), K("if")>>))),
           Show(I("l")), Show(Call("car", <<Call("cdr", <<I("l")>>)>>)),
           Show(QQ("QUASIQUOTE", L(<<N(1), QQ("UNQUOTE", Call("car", <<I("l")>>)), I("y")>>))),
           Show(Call("cons", <<S(<<"text">>), Quote(L(<<>>))>>)), Show(Quote(I("word")))>>

Logic == <<Show(L(<<K("or"), B(FALSE), Call("<", <<N(1), N(2)>>)>>)),
           Show(L(<<K("and"), Call("<", <<N(1), N(2)>>), B(FALSE)>>)),
           Show(If(L(<<K("or"), B(FALSE), B(FALSE)>>), N(1), N(2))),
           Show(Call("not", <<Call("null?", <<Quote(L(<<>>))>>)>>))>>

Named == {Factorial, EvenOdd, Descend, Counters, Escape, ComeBack, Loops, Lists, Logic,
          Curried}

----------------------------------------------------------------------------
(* Every small term over two names that lambdas bind and definitions shadow *)

Atoms == {x, y, N(1)}
Bound(T) == {Apply(Fn(<<p>>, t), <<a>>) : p \in {"x", "y"}, t \in T, a \in {x, y}}
Sums     == {Plus(a, b) : a \in {x, y}, b \in Atoms}
Inner    == Sums \cup Bound({x, Plus(x, y)})
Assigned == {Lambda(<<>>, <<Assign(p, Plus(x, y)), t>>) : p \in {"x", "y"}, t \in {x, Plus(x, y)}}
Local    == {Lambda(<<>>, <<Define(p, t), Plus(x, y)>>) : p \in {"x", "y"}, t \in {N(3), Call("+", <<N(1), N(2)>>)}}
Thunks   == {Apply(f, <<>>) : f \in Assigned \cup Local}
Small    == Inner \cup Bound(Inner) \cup Bound(Thunks)

Scoped == {<<Define("x", N(1)), Define("y", N(2)), Show(t), Show(Plus(x, y))>> : t \in Small}

----------------------------------------------------------------------------
(* Every short sequence of captures, assignments and reads of one variable *)

Get(f)   == Define(f, Fn(<<>>, x))                             \* reads the variable where it is
Far(f)   == Define(f, Apply(Fn(<<"z">>, Fn(<<>>, x)), <<N(0)>>))   \* made by another function
Put(f)   == Define(f, Fn(<<>>, Assign("x", Plus(x, N(10)))))
Add      == Assign("x", Plus(x, N(1)))
Steps    == {Get("g"), Far("h"), Put("p"), Add, Show(Call("g", <<>>)), Show(Call("h", <<>>)), Call("p", <<>>)}

Uses(t)  == IF t = Show(Call("g", <<>>)) THEN {"g"} ELSE IF t = Show(Call("h", <<>>)) THEN {"h"}
            ELSE IF t = Call("p", <<>>) THEN {"p"} ELSE {}
Makes(t) == IF t = Get("g") THEN {"g"} ELSE IF t = Far("h") THEN {"h"} ELSE IF t = Put("p") THEN {"p"} ELSE {}
Legal(ts) == /\ \A i \in DOMAIN ts : Uses(ts[i]) \subseteq UNION {Makes(ts[j]) : j \in 1..(i - 1)}
             /\ \A i, j \in DOMAIN ts : i # j => Makes(ts[i]) \cap Makes(ts[j]) = {}

Captured == {<<Apply(Lambda(<<"x">>, ts \o <<Show(x)>>), <<N(0)>>)>> : ts \in {q \in [1..4 -> Steps] : Legal(q)}}

----------------------------------------------------------------------------
(* Closures whose variables change after they were made *)

\* A loop in tail position assigns its parameter after a closure has captured it,
\* goes round again, and asks the closure.
LateAssign == <<Define("g", B(FALSE)),
                Define("loop", Lambda(<<"n">>, <<
                    If(Call("<", <<n, N(2)>>),
                       Begin(<<Assign("g", Fn(<<>>, n)), Assign("n", Plus(n, N(10))), Call("loop", <<n>>)>>),
                       Call("g", <<>>))>>)),
                Show(Call("loop", <<N(1)>>))>>

\* A function that is a closure, made by a call, and needs its argument after it has called itself.
Reentered == <<Define("f", Apply(Fn(<<"z">>, Fn(<<"n">>,
                    If(Call("<", <<n, N(1)>>), N(1), Call("*", <<Call("f", <<Minus(n, N(1))>>), n>>)))), <<N(0)>>)),
               Show(Call("f", <<N(3)>>))>>

Late == {Single(LateAssign)}
Again == {Single(Reentered)}

CorePrograms == {Single(bodies) : bodies \in Named \cup Scoped \cup Captured}

=============================================================================
