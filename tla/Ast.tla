-------------------------------- MODULE Ast --------------------------------
(***************************************************************************)
(* The abstract syntax tree of the front end (ast.c, with the list and     *)
(* scope operations it is made of, list.c and scope.c).  A tree is a heap  *)
(* of nodes that refer to one another by handle, with the vocabularies and *)
(* the tables the later phases fill in.                                    *)
(*                                                                         *)
(* The children of a node are values (Code); the null handle is also the   *)
(* parent of the top node.  The hash order in which the C code walks its   *)
(* heap is ascending handle order here: nothing below depends on it but    *)
(* the numbering of new varids.                                            *)
(***************************************************************************)
EXTENDS Code

----------------------------------------------------------------------------
(* Construction and node access *)

EmptyAst(mid) ==
    [mid |-> mid, nodes |-> <<>>, next |-> 1, vocab |-> <<>>, vtype |-> <<>>,
     lambdas |-> <<>>, tail |-> {}, top |-> NullHandle, vartop |-> <<>>,
     deps |-> <<>>, natives |-> {}, scopes |-> <<>>, arn |-> <<>>, err |-> ""]

Failed(a)    == a.err # ""
Fail(a, why) == IF Failed(a) THEN a ELSE [a EXCEPT !.err = why]

IsListNode(a, h) == HasNode(a, h) /\ Node(a, h).type \notin {"STRING", "SCOPE"}
IsKind(a, v, type) == Tag(v) = "h" /\ HasNode(a, Held(v)) /\ Node(a, Held(v)).type = type

HeadKw(a, h) ==
    IF Node(a, h).ch # <<>> /\ Tag(Node(a, h).ch[1]) = "kw" THEN Held(Node(a, h).ch[1]) ELSE ""

\* The handles in the order in which the heap is walked.
WalkOrder(a) == Ascending(DOMAIN a.nodes)

\* am_heap_iter: an operation applied to every node that existed at the start.
Walk(a, Op(_, _)) == Fold(LAMBDA x, h : IF Failed(x) THEN x ELSE Op(x, h), a, WalkOrder(a))

\* am_heap_alloc_handle followed by am_heap_set; the new node is a.next.
AddNode(a, type, parent, ch) ==
    [a EXCEPT !.nodes = (a.next :> [type |-> type, parent |-> parent, ch |-> ch]) @@ @,
              !.next = @ + 1]

SetChild(a, h, i, v)  == [a EXCEPT !.nodes[h].ch[i] = v]
PushChild(a, h, v)    == [a EXCEPT !.nodes[h].ch = Append(@, v)]
SetParent(a, h, p)    == [a EXCEPT !.nodes[h].parent = p]
FreeNodes(a, hs)      == [a EXCEPT !.nodes = [h \in DOMAIN @ \ hs |-> @[h]]]

\* A lambda node is 'lambda, the number of its parameters, these and the bodies.
MakeLambda(a, parent) ==
    [AddNode(a, "LAMBDA", parent, <<Kw("lambda"), Num(0)>>)
        EXCEPT !.lambdas = Append(@, a.next)]
MakeSList(a, parent, type) == AddNode(a, type, parent, <<>>)

\* am_ast_make_wstring_node interns: one node for each distinct text.
StringHandle(a, text) ==
    LET same == {h \in DOMAIN a.nodes : Node(a, h).type = "STRING" /\ Node(a, h).ch = <<text>>}
    IN IF same = {} THEN NullHandle ELSE Min(same)
MakeString(a, text) ==
    IF StringHandle(a, text) # NullHandle THEN a ELSE AddNode(a, "STRING", NullHandle, <<text>>)

ParamCount(a, h) == Held(Node(a, h).ch[2])
BodyStart(a, h)  == 3 + ParamCount(a, h)
Params(a, h)     == SubSeq(Node(a, h).ch, 3, BodyStart(a, h) - 1)
Bodies(a, h)     == SubSeq(Node(a, h).ch, BodyStart(a, h), Len(Node(a, h).ch))

AddParameter(a, h, v) ==
    [a EXCEPT !.nodes[h].ch =
        InsertAt([@ EXCEPT ![2] = Num(ParamCount(a, h) + 1)], BodyStart(a, h), v)]
SetBodies(a, h, bodies) ==
    [a EXCEPT !.nodes[h].ch = SubSeq(@, 1, BodyStart(a, h) - 1) \o bodies]

----------------------------------------------------------------------------
(* Top of the tree and lexical scopes *)

TopNodes(a) == {h \in DOMAIN a.nodes : IsListNode(a, h) /\ Node(a, h).parent = NullHandle}
TopNode(a)  == IF TopNodes(a) = {} THEN NullHandle ELSE Min(TopNodes(a))

TopLambda(a) ==
    LET t == TopNode(a)
    IN IF t = NullHandle THEN NullHandle
       ELSE IF Node(a, t).ch = <<>> \/ Tag(Node(a, t).ch[1]) # "h" THEN NullHandle
       ELSE Held(Node(a, t).ch[1])

RECURSIVE NearestLambda(_, _)
NearestLambda(a, h) ==
    IF ~IsListNode(a, h) THEN NullHandle
    ELSE IF Node(a, h).type = "LAMBDA" THEN h
    ELSE NearestLambda(a, Node(a, h).parent)

ScopeOf(a, lambda)     == IF lambda \in DOMAIN a.scopes THEN a.scopes[lambda] ELSE NullHandle
ScopeHas(a, lambda, v) == HasNode(a, ScopeOf(a, lambda)) /\ v \in Range(Node(a, ScopeOf(a, lambda)).ch)

\* The lambda that binds v, looked for from node h upwards.
RECURSIVE BindingLambda(_, _, _)
BindingLambda(a, v, h) ==
    IF ~IsListNode(a, h) THEN NullHandle
    ELSE IF Node(a, h).type = "LAMBDA" /\ ScopeHas(a, h, v) THEN h
    ELSE BindingLambda(a, v, Node(a, h).parent)

\* A scope is an object in the same heap; its children are the bound varids.
AddScope(a, lambda) ==
    LET outer == NearestLambda(a, Node(a, lambda).parent)
    IN [AddNode(a, "SCOPE", ScopeOf(a, outer), <<>>)
            EXCEPT !.scopes = (lambda :> a.next) @@ @]

\* Mutant: a second definition in the same lambda is let through.
AddScopeVarAnyway(a, lambda, v) == PushChild(a, ScopeOf(a, lambda), v)

\* am_scope_add_var refuses a variable that the scope already has.
AddScopeVar(a, lambda, v) ==
    IF ScopeHas(a, lambda, v) THEN Fail(a, "scope has variable")
    ELSE PushChild(a, ScopeOf(a, lambda), v)

----------------------------------------------------------------------------
(* Variables *)

\* Mutant: one name for a variable wherever it is bound in the module.
NameOfModule(a, v, lambda) == a.mid \o NameOf(a, v)

\* The names the phases make: module.lambda.name, module.alias, module.alias.name.
UniqueName(a, v, lambda) == a.mid \o <<ToString(lambda)>> \o NameOf(a, v)
ModuleName(a, v)         == a.mid \o NameOf(a, v)

IsExtRef(a, v)    == Len(NameOf(a, v)) = 2
IsNativeRef(a, v) ==
    LET lib == <<NameOf(a, v)[1]>> IN Known(a, lib) /\ VarId(a, lib) \in a.natives
IsImportRef(a, v) ==
    LET alias == Front(NameOf(a, v))
    IN alias # <<>> /\ Known(a, alias) /\ VarId(a, alias) \in DOMAIN a.deps

----------------------------------------------------------------------------
(* Tail positions *)

\* am_parser_tail_call_analysis: the applications whose value is the value of
\* the lambda they are in.  Quoted code is not entered.
RECURSIVE TailItem(_, _, _)
TailItem(a, v, isTail) ==
    IF IsKind(a, v, "LAMBDA")
    THEN LET bodies == Bodies(a, Held(v))
         IN UNION {TailItem(a, bodies[i], i = Len(bodies)) : i \in DOMAIN bodies}
    ELSE IF ~IsKind(a, v, "APPLICATION") THEN {}
    ELSE LET h  == Held(v)
             ch == Node(a, h).ch
             kw == HeadKw(a, h)
             seqForm == kw \in {"begin", "and", "or"}
             below ==
                 IF kw = "if"
                 THEN UNION {TailItem(a, ch[i], i > 2 /\ isTail) : i \in DOMAIN ch \cap 2..4}
                 ELSE IF kw = "cond"
                 THEN UNION {LET c == Node(a, Held(ch[i])).ch
                             IN UNION {TailItem(a, c[j], j = 2 /\ isTail) : j \in DOMAIN c \cap 1..2} :
                             i \in {k \in 2..Len(ch) : IsKind(a, ch[k], "APPLICATION")}}
                 ELSE UNION {TailItem(a, ch[i], seqForm /\ i = Len(ch) /\ isTail) : i \in DOMAIN ch}
         IN below \cup (IF isTail THEN {h} ELSE {})

TailCalls(a) == [a EXCEPT !.tail = TailItem(a, Handle(TopNode(a)), TRUE)]

=============================================================================
