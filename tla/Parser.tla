------------------------------- MODULE Parser -------------------------------
(***************************************************************************)
(* The parser (parser.c): recursive descent over the tokens of the lexer,  *)
(* then the passes over the tree - preprocessing directives, renaming of   *)
(* module aliases, alpha-renaming in two passes.                           *)
(*                                                                         *)
(* A token is a pair of its type and its text; the text of a NUMBER is its *)
(* value, that of every other token a name.  A parser state p holds the    *)
(* tree, the tokens, the index of the next token, and the three stacks of  *)
(* parser_ctx_t that decide anything: nodes, quotation states and the      *)
(* import/native forms.  (The C parser also keeps a stack of lambdas that  *)
(* nothing reads.)                                                         *)
(***************************************************************************)
EXTENDS Ast

LB == <<"LB", <<"(">>>>
RB == <<"RB", <<")">>>>
KwTok(k) == <<"KEYWORD", <<k>>>>
EndTok == <<"END", <<>>>>

Quotings == {"QUOTE", "UNQUOTE", "QUASIQUOTE"}
QuotingOf(kw) == CASE kw = KwTok("quote") -> "QUOTE"
                   [] kw = KwTok("unquote") -> "UNQUOTE"
                   [] kw = KwTok("quasiquote") -> "QUASIQUOTE"
                   [] OTHER -> "NONE"

ParserState(mid, tokens) ==
    [ast |-> EmptyAst(mid), toks |-> tokens, i |-> 1,
     nodes |-> <<Handle(NullHandle)>>, states |-> <<>>, special |-> <<>>]

Bad(p)         == Failed(p.ast)
Err(p, why)    == [p EXCEPT !.ast = Fail(@, why)]
TokAt(p, i)    == IF i \in DOMAIN p.toks THEN p.toks[i] ELSE EndTok
Tok(p)         == TokAt(p, p.i)
Advance(p, n)  == [p EXCEPT !.i = @ + n]
TopOf(s, none) == IF s = <<>> THEN none ELSE Last(s)
State(p)       == TopOf(p.states, "NONE")
PushNode(p, v) == [p EXCEPT !.nodes = Append(@, v)]
PopNode(p)     == [p EXCEPT !.nodes = Front(@)]

IdentifierTypes == {"NUMBER", "STRING", "SYMBOL", "IDENTIFIER", "KEYWORD", "BOOLEAN", "NULL", "UNDEFINED"}
IsIdentifier(t) == t[1] \in IdentifierTypes
StartsTerm(t)   == t[1] \in Quotings \cup {"LB"} \/ IsIdentifier(t)

\* The node on top of the stack, or none at the outermost level.
ParentHandle(p) == LET t == TopOf(p.nodes, Undefined) IN IF Tag(t) = "h" THEN Held(t) ELSE NullHandle

\* append_child_to_top: the finished term leaves the stack and joins the list below it.
AppendChildToTop(p) ==
    IF Len(p.nodes) < 2 THEN Err(p, "node stack underflow")
    ELSE LET below == p.nodes[Len(p.nodes) - 1]
         IN IF Tag(below) # "h" \/ ~IsListNode(p.ast, Held(below)) THEN Err(p, "parent is not a list")
            ELSE [PopNode(p) EXCEPT !.ast = PushChild(@, Held(below), Last(p.nodes))]

\* The import or native form whose first element has just been appended.
SpecialApp(p) ==
    LET h == ParentHandle(p)
    IN IF IsListNode(p.ast, h) /\ Len(Node(p.ast, h).ch) = 1 THEN HeadKw(p.ast, h) ELSE ""

----------------------------------------------------------------------------
(* Identifiers *)

\* A name outside quotation becomes a variable; the special forms and dotted
\* names fix its type at once.
ParseVariable(p, name) ==
    LET a    == Intern(p.ast, name, "OLD")
        v    == VarId(a, name)
        type == IF p.special # <<>> THEN "OLD" ELSE IF IsExtRef(a, v) THEN "EXT_REF" ELSE a.vtype[v]
    IN PushNode([p EXCEPT !.ast = [a EXCEPT !.vtype[v] = type]], Var(v))

ParseIdentifier(p) ==
    LET t == Tok(p)
        quoted == State(p) \in {"QUOTE", "QUASIQUOTE"}
        unquoted == State(p) = "UNQUOTE" /\ t[1] = "SYMBOL"
        q == CASE t[1] = "NUMBER"    -> PushNode(p, Num(t[2]))
               [] t[1] = "BOOLEAN"   -> PushNode(p, Bool(t[2] = <<"#t">>))
               [] t[1] = "NULL"      -> PushNode(p, Null)
               [] t[1] = "UNDEFINED" -> PushNode(p, Undefined)
               [] t[1] = "STRING"    ->
                    LET a == MakeString(p.ast, t[2])
                    IN PushNode([p EXCEPT !.ast = a], Handle(StringHandle(a, t[2])))
               [] unquoted           ->
                    LET a == Intern(p.ast, t[2], "OLD")
                    IN PushNode([p EXCEPT !.ast = a], Var(VarId(a, t[2])))
               [] t[1] = "SYMBOL" /\ ~unquoted               -> PushNode(p, Sym(t[2]))
               [] t[1] \in {"KEYWORD", "IDENTIFIER"} /\ quoted -> PushNode(p, Sym(t[2]))
               [] t[1] = "KEYWORD" /\ ~quoted                -> PushNode(p, Kw(t[2][1]))
               [] t[1] = "IDENTIFIER" /\ ~quoted             -> ParseVariable(p, t[2])
    IN Advance(q, 1)

\* A closing bracket, or an error.
Close(p, what) == IF Bad(p) THEN p ELSE IF Tok(p) = RB THEN Advance(p, 1) ELSE Err(p, what)

----------------------------------------------------------------------------
(* Recursive descent *)

RECURSIVE ParseTerm(_), ParseSListSeq(_), ParseArgSeq(_), ParseBodies(_)

\* Mutant: the state of a quotation is left on the stack.
ParseQuotedKeepsState(p, state) == ParseTerm([p EXCEPT !.states = Append(@, state)])

\* A term under a quotation mark or keyword: the state holds while it is parsed.
ParseQuoted(p, state) ==
    LET q == ParseTerm([p EXCEPT !.states = Append(@, state)])
    IN [q EXCEPT !.states = Front(@)]

\* A list takes its type from the innermost quotation state.
ParseSList(p) ==
    LET type == IF State(p) \in Quotings THEN State(p) ELSE "APPLICATION"
        h    == p.ast.next
        q    == PushNode([p EXCEPT !.ast = MakeSList(@, ParentHandle(p), type)], Handle(h))
    IN Close(ParseSListSeq(Advance(q, 1)), "slist not closed")

ParseSListSeq(p) ==
    IF Bad(p) THEN p
    ELSE IF Tok(p) = EndTok THEN Err(p, "unexpected end of input in slist seq")
    ELSE IF ~StartsTerm(Tok(p)) THEN p
    ELSE LET q == ParseTerm(p)
             r == IF Bad(q) THEN q ELSE AppendChildToTop(q)
             s == IF Bad(r) \/ SpecialApp(r) \notin {"import", "native"} THEN r
                  ELSE LET t == ParseTerm([r EXCEPT !.special = Append(@, SpecialApp(r))])
                           u == IF Bad(t) THEN t ELSE AppendChildToTop(t)
                       IN [u EXCEPT !.special = Front(@)]
         IN ParseSListSeq(s)

\* The lambda on top of the stack grows.
AddParameterToTop(p, v) == [p EXCEPT !.ast = AddParameter(@, ParentHandle(p), v)]
AddBodyToTop(p, v)      == [p EXCEPT !.ast = PushChild(@, ParentHandle(p), v)]

\* A parameter is a variable, or the ellipsis of a macro template.
ParseArgSeq(p) ==
    IF Bad(p) THEN p
    ELSE IF Tok(p) = EndTok THEN Err(p, "unexpected end of input in arglist seq")
    ELSE IF ~IsIdentifier(Tok(p)) THEN p
    ELSE LET q == ParseIdentifier(p)
             v == Last(q.nodes)
         IN IF Tag(v) # "var" /\ v # Kw("...") THEN Err(q, "lambda parameter must be variable")
            ELSE ParseArgSeq(AddParameterToTop(PopNode(q), v))

\* At least one body: a term is required before the bracket is looked for.
ParseBody(p) ==
    LET q == ParseTerm(p)
    IN IF Bad(q) THEN q
       ELSE AddBodyToTop(PopNode(q), Last(q.nodes))

ParseBodies(p) ==
    IF Bad(p) THEN p
    ELSE IF Tok(p) = EndTok THEN Err(p, "unexpected end of input in body tail")
    ELSE IF StartsTerm(Tok(p)) THEN ParseBodies(ParseBody(p)) ELSE p

ParseLambda(p) ==
    LET h == p.ast.next
        q == Advance(PushNode([p EXCEPT !.ast = MakeLambda(@, ParentHandle(p))], Handle(h)), 2)
    IN IF Tok(q) # LB THEN Err(q, "expected '(' for arglist")
       ELSE LET r == ParseArgSeq(Advance([q EXCEPT !.states = Append(@, "PARAMETER")], 1))
                s == Close([r EXCEPT !.states = Front(@)], "arglist not closed")
            IN Close(ParseBodies(IF Bad(s) THEN s ELSE ParseBody(s)), "lambda not closed")

ParseTerm(p) ==
    LET t == Tok(p)
        n == TokAt(p, p.i + 1)
        isLambda == n = KwTok("lambda") /\ State(p) \notin {"QUOTE", "QUASIQUOTE"}
    IN IF Bad(p) THEN p
       ELSE IF t = EndTok THEN Err(p, "unexpected end of input in term")
       ELSE IF t = LB
       THEN CASE isLambda                -> ParseLambda(p)
              [] QuotingOf(n) # "NONE"   -> Close(ParseQuoted(Advance(p, 2), QuotingOf(n)), "quotation not closed")
              [] ~isLambda /\ QuotingOf(n) = "NONE" -> ParseSList(p)
       ELSE IF t[1] \in Quotings THEN ParseQuoted(Advance(p, 1), t[1])
       ELSE IF IsIdentifier(t) THEN ParseIdentifier(p)
       ELSE Err(p, "unexpected token in term")

\* am_parse up to the first pass: the whole input is one term.
ParseTokens(mid, tokens) ==
    LET p == ParseTerm(ParserState(mid, tokens))
    IN IF ~Bad(p) /\ p.i # Len(tokens) + 1 THEN Fail(p.ast, "trailing tokens after parse") ELSE p.ast

----------------------------------------------------------------------------
(* Preprocessing directives and module aliases *)

IsApplication(a, h) == Node(a, h).type = "APPLICATION" /\ Node(a, h).ch # <<>>

\* (import alias "path") records a dependency, (native lib) a native library.
PreprocessNode(a, h) ==
    LET ch == Node(a, h).ch
        kw == IF IsApplication(a, h) THEN HeadKw(a, h) ELSE ""
    IN IF kw = "import" /\ Len(ch) = 3
       THEN IF Tag(ch[2]) # "var" \/ ~IsKind(a, ch[3], "STRING") THEN Fail(a, "invalid import syntax")
            ELSE [a EXCEPT !.deps = (Held(ch[2]) :> Held(ch[3])) @@ @]
       ELSE IF kw = "native" /\ Len(ch) = 2
       THEN IF Tag(ch[2]) # "var" THEN Fail(a, "invalid native syntax")
            ELSE [a EXCEPT !.vtype[Held(ch[2])] = "NATIVE_ID", !.natives = @ \cup {Held(ch[2])}]
       ELSE a

Preprocess(a) == Walk(a, PreprocessNode)

\* An alias gets a name of its own in the module ...
RenameAlias(a, h) ==
    LET old == Held(Node(a, h).ch[2])
        b   == InternAs(a, ModuleName(a, old), "IMPORT_ALIAS")
        new == VarId(b, ModuleName(a, old))
    IN [SetChild(b, h, 2, Var(new)) EXCEPT !.deps = (new :> Held(Node(a, h).ch[3])) @@ @]

\* ... and so does each reference alias.name; a reference lib.name is marked native.
RenameRef(a, h, i) ==
    LET v == Held(Node(a, h).ch[i])
    IN IF Tag(Node(a, h).ch[i]) # "var" \/ a.vtype[v] # "EXT_REF" THEN a
       ELSE IF IsNativeRef(a, v) THEN [a EXCEPT !.vtype[v] = "NATIVE_REF"]
       ELSE IF ~IsImportRef(a, v) THEN a
       ELSE LET b == InternAs(a, ModuleName(a, v), "IMPORT_REF")
            IN SetChild(b, h, i, Var(VarId(b, ModuleName(a, v))))

RenameRefs(a, h) == Fold(LAMBDA x, i : RenameRef(x, h, i), a, [i \in DOMAIN Node(a, h).ch |-> i])

AliasNode(a, h) ==
    IF ~IsListNode(a, h) THEN a
    ELSE IF IsApplication(a, h) /\ Len(Node(a, h).ch) = 3 /\ HeadKw(a, h) = "import"
    THEN RenameAlias(a, h)
    ELSE RenameRefs(a, h)

\* The names the aliases had in the source are dropped afterwards.
AliasRename(a) ==
    LET b == Walk(a, AliasNode)
    IN IF Failed(b) THEN b
       ELSE [b EXCEPT !.deps = [v \in DOMAIN @ \ DOMAIN a.deps |-> @[v]]]

----------------------------------------------------------------------------
(* Alpha-renaming *)

\* Pass 1: a scope for every lambda, its parameters, then the definitions.
AddParams(a, lambda) ==
    Fold(LAMBDA x, v : IF Failed(x) \/ Tag(v) # "var" THEN x ELSE AddScopeVar(x, lambda, Held(v)),
             a, Params(a, lambda))

DefineNode(a, h) ==
    LET ch == Node(a, h).ch
        lambda == NearestLambda(a, Node(a, h).parent)
    IN IF Node(a, h).type # "APPLICATION" \/ Len(ch) < 2 THEN a
       ELSE IF HeadKw(a, h) # "define" \/ Tag(ch[2]) # "var" THEN a
       ELSE IF lambda = NullHandle THEN Fail(a, "define outside lambda scope")
       ELSE AddScopeVar(a, lambda, Held(ch[2]))

BuildScopes(a) ==
    LET lambdas == SelectSeq(WalkOrder(a), LAMBDA h : Node(a, h).type = "LAMBDA")
        scoped  == Fold(AddScope, a, lambdas)
        params  == Fold(AddParams, scoped, lambdas)
    IN Walk(params, DefineNode)

\* Pass 2: an occurrence gets the name of the lambda that binds it.  A variable
\* that no lambda binds keeps its varid; for eval it is marked as global.
SkipTypes == {"IMPORT_ALIAS", "NATIVE_ID", "IMPORT_REF", "NATIVE_REF", "EXT_REF"}

RenameVar(a, keepFree, h, i, isParam) ==
    LET v == Held(Node(a, h).ch[i])
        lambda == IF isParam THEN h ELSE BindingLambda(a, v, h)
        b == Intern(a, UniqueName(a, v, lambda), "NEW")
        n == VarId(b, UniqueName(a, v, lambda))
    IN IF Tag(Node(a, h).ch[i]) # "var" \/ a.vtype[v] \in SkipTypes THEN a
       ELSE IF lambda = NullHandle
       THEN IF keepFree /\ ~IsBuiltinName(NameOf(a, v)) THEN [a EXCEPT !.vtype[v] = "GLOBAL_FREE"] ELSE a
       ELSE [SetChild(b, h, i, Var(n)) EXCEPT !.arn = (n :> v) @@ @]

RenameNode(a, keepFree, h) ==
    LET type == Node(a, h).type
        from == IF type = "LAMBDA" THEN 3 ELSE 1
        Each(x, i) == RenameVar(x, keepFree, h, i, type = "LAMBDA" /\ i < BodyStart(a, h))
    IN IF type \notin {"LAMBDA", "APPLICATION", "QUASIQUOTE", "UNQUOTE"} THEN a
       ELSE IF type # "LAMBDA" /\ HeadKw(a, h) \in {"import", "native"} THEN a
       ELSE Fold(Each, a, [i \in 1..(Len(Node(a, h).ch) - from + 1) |-> i + from - 1])

AlphaRename(a, keepFree) ==
    LET b == BuildScopes(a)
    IN IF Failed(b) THEN b ELSE Walk(b, LAMBDA x, h : RenameNode(x, keepFree, h))

----------------------------------------------------------------------------
(* After macro expansion *)

CleanScopes(a) == FreeNodes(a, {h \in DOMAIN a.nodes : Node(a, h).type = "SCOPE"})

\* A body of the top lambda that defines a variable makes it a top variable.
DefinedBy(a, v) ==
    IF IsKind(a, v, "APPLICATION") /\ HeadKw(a, Held(v)) = "define" /\ Len(Node(a, Held(v)).ch) >= 2
    THEN LET d == Node(a, Held(v)).ch[2] IN IF Tag(d) = "var" THEN <<Held(d)>> ELSE <<>>
    ELSE <<>>

TopVariables(a) == FlattenSeq([i \in DOMAIN Bodies(a, TopLambda(a)) |-> DefinedBy(a, Bodies(a, TopLambda(a))[i])])

PopulateTop(a) ==
    IF TopLambda(a) = NullHandle THEN Fail(a, "failed to get top lambda handle")
    ELSE [a EXCEPT !.top = TopLambda(a), !.vartop = TopVariables(a)]

=============================================================================
