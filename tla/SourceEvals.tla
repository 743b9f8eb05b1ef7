----------------------------- MODULE SourceEvals -----------------------------
(***************************************************************************)
(* Programs that give text to System.eval.  A text is a name here; what it *)
(* says stands beside the program, once as its bodies and once as the core *)
(* terms it stands for.                                                    *)
(***************************************************************************)
EXTENDS SourceUnits

Native      == L(<<K("native"), I("System")>>)
TextA       == <<"text", "a">>
TextB       == <<"text", "b">>
Evaluate(s) == Apply(Ext("System", "eval"), <<S(s)>>)

Text(bodies)     == [code |-> bodies, core |-> bodies, ok |-> TRUE]
Outer(bodies)    == [Text(bodies) EXCEPT !.code = <<Native>> \o bodies]     \* evaluates text itself
Useless(bodies)  == [Text(bodies) EXCEPT !.ok = FALSE]
Evaluating(bodies, evals) == [Linked(Main :> <<Native>> \o bodies, bodies) EXCEPT !.evals = evals]
Leaving(bodies, evals)    == [Evaluating(bodies, evals) EXCEPT !.escapes = TRUE]

----------------------------------------------------------------------------
(* Two texts in every place where code can be evaluated *)

\* What a text may do with the top variable x: show and assign it, hide it behind
\* a definition or a parameter of its own, which also closures and continuations
\* see, leave a list in it, and call a function of the program.
Jump(v)   == Call("call/cc", <<Fn(<<"k">>, Plus(N(1), Call("k", <<v>>)))>>)
Snippets  == {<<Show(x)>>,
              <<Assign("x", Plus(x, N(10))), Show(x)>>,
              <<Define("x", N(5)), Define("y", Fn(<<>>, Assign("x", Plus(x, N(1))))), Call("y", <<>>), Show(x)>>,
              <<Show(Plus(x, Jump(Let("x", N(7), Plus(x, Jump(x))))))>>,
              <<Call("f", <<N(4)>>), Show(Plus(N(1), N(2)))>>,
              <<L(<<K("while"), Call("<", <<x, N(3)>>), Assign("x", Plus(x, N(1)))>>), Show(x)>>}

\* One after the other, in a loop, under operands that wait, where x is something
\* else, and as the last thing a function does.
Around(one, two) ==
    {<<one, two, Show(x)>>,
     <<L(<<K("while"), Call("<", <<I("i"), N(2)>>), Assign("i", Plus(I("i"), N(1))), one, two>>), Show(x)>>,
     <<Define("g", Lambda(<<"x">>, <<one, Assign("x", Plus(x, N(1))), two, x>>)), Show(Plus(x, Call("g", <<x>>))), Show(x)>>,
     <<Define("g", Lambda(<<"x">>, <<one, If(Call("<", <<x, N(2)>>), Call("g", <<Plus(x, N(1))>>), two)>>)),
       Call("g", <<N(1)>>), Show(x)>>}

Before == <<Define("x", N(1)), Define("i", N(0)), Define("f", Lambda(<<"x">>, <<Show(Plus(x, N(100)))>>))>>

Placed == {Evaluating(Before \o bodies, TextA :> Text(one) @@ TextB :> Text(two)) :
              bodies \in Around(Evaluate(TextA), Evaluate(TextB)), one \in Snippets, two \in Snippets}

----------------------------------------------------------------------------
(* Evaluated code that evaluates, keeps data, or is left *)

\* The inner text has variables of the same name in the same place.
Nesting == {Evaluating(<<Define("x", N(1)), Evaluate(TextA), Show(x), Evaluate(TextB), Show(x)>>,
                (TextA :> Outer(<<Define("y", N(3)), Define("g", Fn(<<>>, Plus(x, y))), Evaluate(TextB),
                               Show(Plus(y, Call("g", <<>>)))>>)) @@ (TextB :> Text(two))) : two \in
                   {<<Define("y", N(4)), Define("g", Fn(<<>>, Plus(y, x))), Assign("x", Call("g", <<>>)), Show(x)>>,
                    <<Show(Let("y", N(4), Jump(Plus(x, y))))>>}}

\* Data made by evaluated code stays when the code is gone.
Kept == Evaluating(<<Define("x", Quote(L(<<>>))), Evaluate(TextA), Evaluate(TextB), Show(x)>>,
            (TextA :> Text(<<Assign("x", Quote(L(<<N(1), L(<<I("if"), I("z")>>)>>)))>>))
         @@ (TextB :> Text(<<Show(Call("car", <<x>>)), Assign("x", Call("cons", <<S(<<"s">>), Call("cdr", <<x>>)>>))>>)))

\* The program's variable is meant, not that of a module of the same name.
OwnFirst ==
    [Linked((Main :> <<Native, Import("l", LibA), Define("x", N(1)), Evaluate(TextA), Show(CallIn("l", "get", <<>>)), Show(x)>>)
         @@ (LibA :> <<Define("x", N(10)), Define("get", Lambda(<<>>, <<x>>))>>),
            <<Define("ax", N(10)), Define("get", Fn(<<>>, I("ax"))), Define("x", N(1)), Evaluate(TextA),
              Show(Call("get", <<>>)), Show(x)>>) EXCEPT !.evals = TextA :> Text(<<Assign("x", Plus(x, N(1)))>>)]

\* Evaluated code goes back to a place before it was evaluated.
Back == Leaving(<<Define("n", N(0)), Define("k", B(FALSE)),
                  Show(Plus(N(1), Call("call/cc", <<Lambda(<<"c">>, <<Assign("k", I("c")), N(1)>>)>>))),
                  Assign("n", Plus(n, N(1))),
                  If(Call("<", <<n, N(3)>>), Evaluate(TextA), n), Show(n)>>, TextA :> Text(<<Call("k", <<n>>)>>))

\* Inner evaluated code goes back into the outer one, which ends later.
BackInside ==
    Leaving(<<Define("k", B(FALSE)), Define("x", N(7)), Evaluate(TextA), Show(x)>>,
        (TextA :> Outer(<<Define("t", N(0)),
                        Show(Plus(N(1), Call("call/cc", <<Lambda(<<"c">>, <<Assign("k", I("c")), N(1)>>)>>))),
                        Assign("t", Plus(t, N(1))), If(Call("<", <<t, N(3)>>), Evaluate(TextB), t)>>))
     @@ (TextB :> Text(<<Call("k", <<x>>)>>)))

----------------------------------------------------------------------------
(* Texts that cannot be evaluated *)

Refused == {Evaluating(<<Define("x", N(1)), Define("g", Lambda(<<"y">>, <<Evaluate(TextA), y>>)), Show(x),
                         Show(Call("g", <<N(2)>>))>>, TextA :> Useless(bodies)) :
              bodies \in {<<Show(x), Show(I("z"))>>,                       \* no such variable
                          <<Show(y)>>,                                     \* not a top variable
                          <<Show(x), Lambda(<<"y", "y">>, <<y>>)>>,        \* malformed
                          <<K("break")>>,
                          <<Syntax("m", <<>>, <<<<Use(<<a>>), a>>>>), Show(x)>>}}   \* macros are not known here

EvalPrograms == Placed \cup Nesting \cup {Kept, OwnFirst, Back, BackInside} \cup Refused

----------------------------------------------------------------------------
(* What evaluated code may not leave behind, but does *)

\* A builtin as a value is the number of its name, which goes with the text.
NameKept == {Evaluating(<<Define("g", N(0)), Evaluate(TextA), Evaluate(TextB)>>,
                (TextA :> Text(<<Assign("g", I("*"))>>))
             @@ (TextB :> Text(<<Show(N(1)), Show(Call("g", <<N(2), N(3)>>)), Show(Minus(N(3), N(1)))>>)))}

\* A closure is the address of its code, which goes as well.
CodeKept == {Evaluating(<<Define("g", N(0)), Define("x", N(5)), Evaluate(TextA), Show(N(1)), Show(Call("g", <<>>))>>,
                TextA :> Text(<<Assign("g", Fn(<<>>, x))>>))}

=============================================================================
