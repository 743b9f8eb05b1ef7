-------------------------------- MODULE Macro --------------------------------
(***************************************************************************)
(* The macro expander (macro.c): syntax-rules with literals, ellipses and  *)
(* renaming of the variables a template binds.  It runs on the tree after  *)
(* alpha-renaming.                                                         *)
(*                                                                         *)
(* A macro is its literals, its clauses - pattern, template and pattern    *)
(* variables - and the number of its expansions so far.  The expander x    *)
(* holds the tree, the macros met, whether anything changed, and the       *)
(* result v (or vs) of the last step; an environment maps the names of     *)
(* macros to their indexes, inner frames over outer ones.                  *)
(***************************************************************************)
EXTENDS Parser

Expander(a) == [ast |-> a, macros |-> <<>>, changed |-> FALSE, v |-> Undefined, vs |-> <<>>]

Broken(x)       == Failed(x.ast)
Refuse(x, why)  == [x EXCEPT !.ast = Fail(@, why)]
AsList(a, v)    == Tag(v) = "h" /\ IsListNode(a, Held(v))
Children(a, v)  == Node(a, Held(v)).ch
IsAppOf(a, v, n) == IsKind(a, v, "APPLICATION") /\ Len(Children(a, v)) = n

\* One value after another through an operation that leaves its result in v.
Through(Op(_, _), x, items) ==
    Fold(LAMBDA y, item : LET z == Op(y, item)
                              IN IF Broken(y) THEN y ELSE [z EXCEPT !.vs = Append(y.vs, z.v)],
             [x EXCEPT !.vs = <<>>], items)

\* The ellipsis, as a keyword, as a quoted name outside quote, or unquoted.
RECURSIVE IsEllipsis(_, _, _)
IsEllipsis(a, v, inQuote) ==
    \/ v = Kw("...")
    \/ ~inQuote /\ v = Sym(<<"...">>)
    \/ /\ IsKind(a, v, "UNQUOTE")
       /\ Len(Children(a, v)) = 1
       /\ IsEllipsis(a, Children(a, v)[1], FALSE)

----------------------------------------------------------------------------
(* syntax-rules *)

RECURSIVE PatternVars(_, _, _)
PatternVars(a, literals, v) ==
    IF Tag(v) = "var" THEN {v} \ literals
    ELSE IF AsList(a, v) THEN UNION {PatternVars(a, literals, c) : c \in Range(Children(a, v))}
    ELSE {}

\* A template variable that has the base name of a pattern variable is that variable.
Canonical(a, pvars, v) ==
    LET same == {p \in pvars : Last(NameOf(a, Held(p))) = Last(NameOf(a, Held(v)))}
    IN IF same = {} THEN v ELSE CHOOSE p \in same : TRUE

RECURSIVE Canonicalize(_, _, _)
Canonicalize(a, pvars, v) ==
    IF ~AsList(a, v) \/ IsKind(a, v, "QUOTE") THEN a
    ELSE Fold(LAMBDA b, i :
                    LET c == Children(a, v)[i]
                    IN IF Tag(c) = "var" THEN SetChild(b, Held(v), i, Canonical(b, pvars, c))
                       ELSE Canonicalize(b, pvars, c),
                  a, [i \in DOMAIN Children(a, v) |-> i])

WellFormedRules(a, h) ==
    LET ch == Node(a, h).ch
    IN /\ IsListNode(a, h) /\ Node(a, h).type = "APPLICATION" /\ Len(ch) >= 3
       /\ HeadKw(a, h) = "syntax-rules"
       /\ \/ ch[2] = Null
          \/ AsList(a, ch[2]) /\ \A l \in Range(Children(a, ch[2])) : Tag(l) \in {"var", "kw", "sym"}
       /\ \A i \in 3..Len(ch) : IsAppOf(a, ch[i], 2)

\* macro_parse_syntax_rules, and the macro joins the ones met so far.
AddMacro(x, h) ==
    LET a        == x.ast
        ch       == Node(a, h).ch
        literals == IF ch[2] = Null THEN {} ELSE Range(Children(a, ch[2]))
        Clause(y, c) ==
            LET pattern  == Children(y.ast, c)[1]
                template == Children(y.ast, c)[2]
                pvars    == PatternVars(y.ast, literals, pattern)
            IN [y EXCEPT !.ast = Canonicalize(@, pvars, template),
                         !.v = [pattern |-> pattern, pvars |-> pvars,
                                template |-> IF Tag(template) = "var" THEN Canonical(y.ast, pvars, template)
                                             ELSE template]]
        y == Through(Clause, x, SubSeq(ch, 3, Len(ch)))
    IN IF ~WellFormedRules(a, h) THEN Refuse(x, "failed to parse syntax-rules")
       ELSE [y EXCEPT !.macros = Append(@, [literals |-> literals, clauses |-> y.vs, uses |-> 0])]

----------------------------------------------------------------------------
(* Matching: m holds the tree, the substitution and whether all matched so far *)

PVarsIn(a, clause, v) == PatternVars(a, {}, v) \cap clause.pvars

\* The list that collects what an ellipsis variable matches.
EllipsisList(m, p) ==
    IF p \in DOMAIN m.subst /\ Tag(m.subst[p]) = "h" THEN m
    ELSE [m EXCEPT !.ast = MakeSList(@, m.parent, "APPLICATION"),
                   !.subst = (p :> Handle(m.ast.next)) @@ @]

Collect(m, p, v) ==
    LET n == EllipsisList(m, p) IN [n EXCEPT !.ast = PushChild(@, Held(n.subst[p]), v)]

NoMatch(m) == [m EXCEPT !.ok = FALSE]

RECURSIVE MatchValue(_, _, _, _)
MatchEach(m, clause, patterns, inputs) ==
    Fold(LAMBDA n, i : IF n.ok THEN MatchValue(n, clause, patterns[i], inputs[i]) ELSE n,
             m, [i \in DOMAIN patterns |-> i])

\* One repetition of an ellipsis pattern is matched on its own, then collected.
MatchRepeat(m, clause, pattern, input) ==
    LET one == MatchValue([m EXCEPT !.subst = <<>>], clause, pattern, input)
        back == [one EXCEPT !.subst = m.subst, !.ast.err = m.ast.err]
    IN IF one.ok THEN FoldSet(LAMBDA p, n : Collect(n, p, one.subst[p]), back, DOMAIN one.subst)
       ELSE NoMatch(back)

MatchList(m, clause, ps, ins) ==
    LET dots    == {i \in DOMAIN ps : ps[i] = Kw("...")}
        at      == Min(dots) - 1
        suffix  == Len(ps) - at - 1
        k       == Len(ins) - (at - 1) - suffix
        before  == MatchEach(m, clause, SubSeq(ps, 1, at - 1), ins)
        opened  == FoldSet(LAMBDA p, n : EllipsisList(n, p), before, PVarsIn(m.ast, clause, ps[at]))
        middle  == Fold(LAMBDA n, i : IF n.ok THEN MatchRepeat(n, clause, ps[at], ins[i]) ELSE n,
                            opened, [i \in 1..k |-> at - 1 + i])
    IN IF dots = {} THEN IF Len(ps) = Len(ins) THEN MatchEach(m, clause, ps, ins) ELSE NoMatch(m)
       ELSE IF Cardinality(dots) > 1 \/ at = 0 THEN NoMatch([m EXCEPT !.ast = Fail(@, "misplaced ellipsis")])
       ELSE IF k < 0 THEN NoMatch(m)
       ELSE IF ~before.ok THEN before
       ELSE IF ~middle.ok THEN middle
       ELSE MatchEach(middle, clause, SubSeq(ps, at + 2, Len(ps)),
                      SubSeq(ins, at + k, Len(ins)))

MatchValue(m, clause, pattern, input) ==
    IF pattern = Kw("_") THEN m
    ELSE IF pattern \in clause.pvars /\ pattern \notin DOMAIN m.subst
    THEN [m EXCEPT !.subst = (pattern :> input) @@ @]
    ELSE IF pattern \in clause.pvars
    THEN IF m.subst[pattern] = input THEN m ELSE NoMatch(m)
    ELSE IF Tag(pattern) # "h" THEN IF pattern = input THEN m ELSE NoMatch(m)
    ELSE IF AsList(m.ast, pattern) /\ AsList(m.ast, input)
    THEN MatchList(m, clause, Children(m.ast, pattern), Children(m.ast, input))
    ELSE NoMatch(m)

----------------------------------------------------------------------------
(* Copying and instantiating: x also holds subst, fresh, id and bindings *)

\* A lambda node, its scope and its parameters.
NewLambda(x, parent) == [x EXCEPT !.ast = AddScope(MakeLambda(@, parent), x.ast.next)]
WithParams(x, h, params) ==
    Fold(LAMBDA y, p : IF Broken(y) THEN y
                           ELSE IF Tag(p) # "var" THEN Refuse(y, "lambda parameter must be variable")
                           ELSE [y EXCEPT !.ast = AddScopeVar(AddParameter(@, h, p), h, Held(p))],
             x, params)
WithBodies(x, h, bodies) == [x EXCEPT !.ast = SetBodies(@, h, bodies), !.v = Handle(h)]
NewList(x, parent, type) == [x EXCEPT !.ast = MakeSList(@, parent, type)]
WithChildren(x, h, ch)   == [x EXCEPT !.ast.nodes[h].ch = ch, !.v = Handle(h)]

\* Mutant: what a pattern variable matched is shared, not copied.
Share(x, v, parent) == [x EXCEPT !.v = v]

RECURSIVE DeepCopy(_, _, _)
DeepCopy(x, v, parent) ==
    LET a == x.ast
        h == a.next
        Copy(y, c) == DeepCopy(y, c, h)
        lambda == Through(Copy, WithParams(NewLambda(x, parent), h, Params(a, Held(v))), Bodies(a, Held(v)))
        list   == Through(Copy, NewList(x, parent, Node(a, Held(v)).type), Children(a, v))
    IN IF Broken(x) THEN x
       ELSE IF Tag(v) # "h" THEN [x EXCEPT !.v = v]
       ELSE IF Node(a, Held(v)).type = "STRING"
       THEN [x EXCEPT !.ast = AddNode(@, "STRING", NullHandle, Children(a, v)), !.v = Handle(h)]
       ELSE IF Node(a, Held(v)).type = "LAMBDA"
       THEN IF Broken(lambda) THEN lambda ELSE WithBodies(lambda, h, lambda.vs)
       ELSE IF Broken(list) THEN list ELSE WithChildren(list, h, list.vs)

\* What a template binds: parameters of its lambdas and the targets of its definitions.
RECURSIVE TemplateBindings(_, _, _)
TemplateBindings(a, clause, v) ==
    LET h  == Held(v)
        ch == Children(a, v)
        bound == IF IsKind(a, v, "LAMBDA") THEN {p \in Range(Params(a, h)) : Tag(p) = "var"}
                 ELSE IF IsKind(a, v, "APPLICATION") /\ Len(ch) >= 2 /\ HeadKw(a, h) = "define" /\ Tag(ch[2]) = "var"
                 THEN {ch[2]} ELSE {}
        below == IF IsKind(a, v, "LAMBDA") THEN Range(Bodies(a, h)) ELSE Range(ch)
    IN IF ~AsList(a, v) THEN {}
       ELSE (bound \ clause.pvars) \cup UNION {TemplateBindings(a, clause, c) : c \in below}

\* A variable the template binds gets a new name for each expansion.
FreshName(x, v) == x.ast.mid \o <<"M" \o ToString(x.id)>> \o NameOf(x.ast, Held(v))
Freshen(x, v) ==
    LET a == Intern(x.ast, FreshName(x, v), "NEW")
        w == Var(VarId(a, FreshName(x, v)))
    IN IF v \in DOMAIN x.fresh THEN [x EXCEPT !.v = x.fresh[v]]
       ELSE [x EXCEPT !.ast = a, !.fresh = (v :> w) @@ @, !.v = w]

RECURSIVE Instantiate(_, _, _, _), InstItems(_, _, _, _, _, _)

\* The repetitions of an ellipsis template, as many as its variables collected.
Repeat(x, clause, template, parent) ==
    LET pvars == PVarsIn(x.ast, clause, template)
        bound == \A p \in pvars : p \in DOMAIN x.subst /\ AsList(x.ast, x.subst[p])
        lengths == {Len(Children(x.ast, x.subst[p])) : p \in pvars}
        Once(y, j) ==
            LET each == [p \in pvars |-> Children(x.ast, x.subst[p])[j]]
                z == Instantiate([y EXCEPT !.subst = each @@ x.subst], clause, template, parent)
            IN [z EXCEPT !.subst = x.subst]
    IN IF pvars = {} \/ ~bound THEN Refuse(x, "invalid ellipsis in template")
       ELSE IF Cardinality(lengths) # 1 THEN Refuse(x, "inconsistent lengths of ellipsis variables")
       ELSE Through(Once, x, [j \in 1..(CHOOSE n \in lengths : TRUE) |-> j])

\* In a list an ellipsis may stand after any item, in a lambda after the last one only.
InstItems(x, clause, items, anywhere, inQuote, parent) ==
    LET dotted == /\ Len(items) >= 2
                  /\ IsEllipsis(x.ast, items[2], inQuote)
                  /\ anywhere \/ Len(items) = 2
        one  == Instantiate(x, clause, items[1], parent)
        many == Repeat(x, clause, items[1], parent)
        first == IF dotted THEN many ELSE [one EXCEPT !.vs = <<one.v>>]
        rest  == InstItems(first, clause, SubSeq(items, IF dotted THEN 3 ELSE 2, Len(items)), anywhere, inQuote, parent)
    IN IF items = <<>> \/ Broken(x) THEN [x EXCEPT !.vs = <<>>]
       ELSE IF Broken(first) THEN first
       ELSE [rest EXCEPT !.vs = first.vs \o @]

InstLambda(x, clause, v, parent) ==
    LET h == x.ast.next
        params == InstItems(NewLambda(x, parent), clause, Params(x.ast, Held(v)), FALSE, FALSE, h)
        headed == WithParams(params, h, params.vs)
        bodies == InstItems(headed, clause, Bodies(x.ast, Held(v)), FALSE, FALSE, h)
    IN IF Broken(bodies) THEN bodies ELSE WithBodies(bodies, h, bodies.vs)

InstList(x, clause, v, parent) ==
    LET h == x.ast.next
        type == Node(x.ast, Held(v)).type
        items == InstItems(NewList(x, parent, type), clause, Children(x.ast, v), TRUE, type = "QUOTE", h)
    IN IF Broken(items) THEN items ELSE WithChildren(items, h, items.vs)

Instantiate(x, clause, t, parent) ==
    IF Broken(x) THEN x
    ELSE IF t \in clause.pvars
    THEN IF t \in DOMAIN x.subst THEN DeepCopy(x, x.subst[t], parent)
         ELSE Refuse(x, "unbound pattern variable in template")
    ELSE IF t \in x.bindings THEN Freshen(x, t)
    ELSE IF Tag(t) # "h" THEN [x EXCEPT !.v = t]
    ELSE IF ~AsList(x.ast, t) THEN DeepCopy(x, t, parent)
    ELSE IF IsKind(x.ast, t, "LAMBDA") THEN InstLambda(x, clause, t, parent)
    ELSE InstList(x, clause, t, parent)

----------------------------------------------------------------------------
(* Expansion *)

RECURSIVE ExpandValue(_, _, _, _)

DefinesSyntax(a, v) ==
    IsAppOf(a, v, 3) /\ HeadKw(a, Held(v)) = "define-syntax" /\ Tag(Children(a, v)[2]) = "var"

\* One macro after another joins the frame: x.v is the environment.
DefineMacro(x, name, transformer) ==
    LET y == AddMacro(x, Held(transformer))
    IN IF Broken(x) THEN x
       ELSE IF Tag(transformer) # "h" THEN Refuse(x, "invalid transformer")
       ELSE IF Broken(y) THEN y
       ELSE [y EXCEPT !.v = (Held(name) :> Len(y.macros)) @@ x.v]

\* First the definitions of the whole sequence, then the other bodies in their scope.
ExpandBodies(x, env, bodies, parent) ==
    LET a      == x.ast
        rules  == SelectSeq(bodies, LAMBDA v : DefinesSyntax(a, v))
        others == SelectSeq(bodies, LAMBDA v : ~DefinesSyntax(a, v))
        framed == Fold(LAMBDA y, v : DefineMacro(y, Children(a, v)[2], Children(a, v)[3]),
                           [x EXCEPT !.v = env], rules)
        Expand(y, v) == ExpandValue(y, framed.v, v, parent)
    IN IF Broken(framed) THEN framed
       ELSE Through(Expand, [framed EXCEPT !.changed = @ \/ rules # <<>>], others)

\* A lambda or list none of whose parts changed is kept.
ExpandLambda(x, env, h, parent) ==
    LET old == Bodies(x.ast, h)
        y == ExpandBodies(x, env, old, h)
        n == y.ast.next
        copied == WithParams(NewLambda(y, parent), n, Params(x.ast, h))
    IN IF Broken(y) THEN y
       ELSE IF y.vs = old THEN [y EXCEPT !.v = Handle(h)]
       ELSE IF Broken(copied) THEN copied ELSE WithBodies(copied, n, y.vs)

ExpandSList(x, env, h, parent) ==
    LET old == Node(x.ast, h).ch
        Expand(y, v) == ExpandValue(y, env, v, h)
        y == Through(Expand, x, old)
    IN IF Broken(y) THEN y
       ELSE IF y.vs = old THEN [y EXCEPT !.v = Handle(h)]
       ELSE WithChildren(NewList(y, parent, Node(x.ast, h).type), y.ast.next, y.vs)

\* The first clause that matches is instantiated, and the result expanded again.
RECURSIVE ExpandUse(_, _, _, _, _, _)
ExpandUse(x, env, k, c, use, parent) ==
    LET macro  == x.macros[k]
        clause == macro.clauses[c]
        m == MatchValue([ast |-> x.ast, subst |-> <<>>, parent |-> parent, ok |-> TRUE],
                        clause, clause.pattern, use)
        y == [x EXCEPT !.ast = m.ast]
        ctx == [ast |-> m.ast, v |-> Undefined, vs |-> <<>>, subst |-> m.subst, fresh |-> <<>>,
                id |-> macro.uses + 1, bindings |-> TemplateBindings(m.ast, clause, clause.template)]
        inst == Instantiate(ctx, clause, clause.template, parent)
        done == [y EXCEPT !.ast = inst.ast, !.changed = TRUE, !.macros[k].uses = @ + 1]
    IN IF Broken(x) THEN x
       ELSE IF c > Len(macro.clauses) THEN Refuse(x, "macro use did not match any clause")
       ELSE IF m.ok THEN IF Broken(done) THEN done ELSE ExpandValue(done, env, inst.v, parent)
       ELSE ExpandUse(y, env, k, c + 1, use, parent)

\* let-syntax and letrec-syntax alike; the bodies replace the form.
ExpandLetSyntax(x, env, h, parent) ==
    LET a  == x.ast
        ch == Node(a, h).ch
        valid == IsKind(a, ch[2], "APPLICATION") /\ \A b \in Range(Children(a, ch[2])) :
                    IsAppOf(a, b, 2) /\ Tag(Children(a, b)[1]) = "var"
        framed == Fold(LAMBDA y, b : DefineMacro(y, Children(a, b)[1], Children(a, b)[2]),
                           [x EXCEPT !.v = env, !.changed = TRUE], Children(a, ch[2]))
        Expand(y, v) == ExpandValue(y, framed.v, v, parent)
        y == Through(Expand, framed, SubSeq(ch, 3, Len(ch)))
    IN IF ~valid THEN Refuse(x, "invalid let-syntax bindings")
       ELSE IF Broken(framed) THEN framed
       ELSE IF Broken(y) THEN y
       ELSE IF Len(y.vs) = 1 THEN [y EXCEPT !.v = y.vs[1]]
       ELSE WithChildren(NewList(y, parent, "APPLICATION"), y.ast.next, <<Kw("begin")>> \o y.vs)

\* A use of a macro is expanded wherever it stands, else quoted code is left alone.
ExpandValue(x, env, v, parent) ==
    LET a  == x.ast
        ch == Children(a, v)
        IsUse == ch # <<>> /\ Tag(ch[1]) = "var" /\ Held(ch[1]) \in DOMAIN env
    IN IF Broken(x) THEN x
       ELSE IF ~AsList(a, v) THEN [x EXCEPT !.v = v]
       ELSE IF IsUse THEN ExpandUse(x, env, env[Held(ch[1])], 1, v, parent)
       ELSE IF Len(ch) >= 2 /\ HeadKw(a, Held(v)) \in {"let-syntax", "letrec-syntax"}
       THEN ExpandLetSyntax(x, env, Held(v), parent)
       ELSE IF Node(a, Held(v)).type \in Quotings THEN [x EXCEPT !.v = v]
       ELSE IF Node(a, Held(v)).type = "LAMBDA" THEN ExpandLambda(x, env, Held(v), parent)
       ELSE ExpandSList(x, env, Held(v), parent)

----------------------------------------------------------------------------
(* am_macro_expand *)

MacroKeywords == {"define-syntax", "let-syntax", "letrec-syntax", "syntax-rules"}
HasMacros(a) == \E h \in DOMAIN a.nodes : IsListNode(a, h) /\ HeadKw(a, h) \in MacroKeywords

RebuildLambdas(a) == [a EXCEPT !.lambdas = SelectSeq(WalkOrder(a), LAMBDA h : Node(a, h).type = "LAMBDA")]
RebuildVarTop(a)  == [a EXCEPT !.vartop = TopVariables(a)]

MacroExpand(a) ==
    LET top == TopLambda(a)
        x == ExpandBodies(Expander(a), <<>>, Bodies(a, top), top)
    IN IF ~HasMacros(a) THEN a
       ELSE IF top = NullHandle THEN Fail(a, "failed to get top lambda handle")
       ELSE IF Broken(x) \/ ~x.changed THEN x.ast
       ELSE RebuildVarTop(TailCalls(RebuildLambdas(SetBodies(x.ast, top, x.vs))))

=============================================================================
