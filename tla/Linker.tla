------------------------------- MODULE Linker -------------------------------
(***************************************************************************)
(* The linker (linker.c) and the merging of trees (ast.c): the modules a   *)
(* program imports are parsed, sorted so that the importing module comes   *)
(* first, and merged into it one after another; then the references to     *)
(* imported names are resolved.                                            *)
(*                                                                         *)
(* Paths are absolute and abstract, the sequence of their parts without    *)
(* ".scm"; the id of a module is its path with dots, which is the same     *)
(* sequence.  A file is given by its tokens, wrapped as the code wraps     *)
(* them: ((lambda () ... )).  ParseFile stands for am_parse.               *)
(***************************************************************************)
EXTENDS Macro

MaxModules == 32

\* am_parse: the tokens of a module to a tree.
ParseFile(path, tokens, keepFree) ==
    LET Then(a, Op(_)) == IF Failed(a) THEN a ELSE Op(a)
    IN Then(Then(Then(Then(Then(Then(ParseTokens(path, tokens), Preprocess), AliasRename),
                           LAMBDA a : AlphaRename(a, keepFree)),
                      MacroExpand),
                 CleanScopes),
            PopulateTop)

----------------------------------------------------------------------------
(* Import analysis *)

\* Modules in the order in which they were first met, and the edges importer -> importee.
Loading(main) == [paths |-> <<>>, asts |-> <<>>, edges |-> <<>>, ok |-> TRUE]

IndexOf(l, path) == CHOOSE i \in DOMAIN l.paths : l.paths[i] = path
DependencyPaths(a) ==
    LET aliases == Ascending(DOMAIN a.deps)
    IN [i \in DOMAIN aliases |-> Node(a, a.deps[aliases[i]]).ch[1]]

\* A module is parsed when it is first met; the edge is added every time.
RECURSIVE LoadModule(_, _, _, _, _)
LoadModule(l, files, main, path, importer) ==
    LET a == IF path = main.mid THEN main
             ELSE IF path \in DOMAIN files THEN ParseFile(path, files[path], FALSE)
             ELSE Fail(EmptyAst(path), "no such file")
        n == Len(l.paths) + 1
        added  == [l EXCEPT !.paths = Append(@, path), !.asts = Append(@, a),
                            !.ok = ~Failed(a) /\ n <= MaxModules]
        loaded == IF path \in Range(l.paths) THEN l
                  ELSE IF ~added.ok THEN added
                  ELSE Fold(LAMBDA x, dep : LoadModule(x, files, main, dep, n), added, DependencyPaths(a))
    IN IF ~l.ok THEN l
       ELSE IF importer = 0 \/ ~loaded.ok THEN loaded
       ELSE [loaded EXCEPT !.edges = Append(@, <<importer, IndexOf(loaded, path)>>)]

\* Kahn's algorithm; on a cycle the result is shorter than the number of modules.
RECURSIVE Kahn(_, _, _, _)
Kahn(edges, degree, queue, sorted) ==
    IF queue = <<>> THEN sorted
    ELSE LET node == Head(queue)
             step(x, e) == IF e[1] # node THEN x
                           ELSE [degree |-> [x.degree EXCEPT ![e[2]] = @ - 1],
                                 queue  |-> IF x.degree[e[2]] = 1 THEN Append(x.queue, e[2]) ELSE x.queue]
             next == Fold(step, [degree |-> degree, queue |-> Tail(queue)], edges)
         IN Kahn(edges, next.degree, next.queue, Append(sorted, node))

TopoSort(edges, n) ==
    LET degree == [i \in 1..n |-> Cardinality({k \in DOMAIN edges : edges[k][2] = i})]
    IN Kahn(edges, degree, SelectSeq([i \in 1..n |-> i], LAMBDA i : degree[i] = 0), <<>>)

----------------------------------------------------------------------------
(* Merging the tree b into the tree a *)

\* The variables of b get the varids their names have in a, and bring their types.
MergeNames(a, b) ==
    Fold(LAMBDA x, v : InternAs(x, b.vocab[v], b.vtype[v]), a, [v \in DOMAIN b.vocab |-> v])

MergedNodes(b) == SelectSeq(WalkOrder(b), LAMBDA h : Node(b, h).type # "SCOPE")

\* A merge: the tree into which, with the names of both, the tree from which, its
\* nodes, and the handle the first of them gets.
MergeOf(a, b) == [to |-> MergeNames(a, b), from |-> b, nodes |-> MergedNodes(b), first |-> a.next]

MovedVar(g, v)    == VarId(g.to, g.from.vocab[v])
MovedHandle(g, h) ==
    IF h \in Range(g.nodes) THEN g.first - 1 + CHOOSE i \in DOMAIN g.nodes : g.nodes[i] = h ELSE h
MovedValue(g, v)  ==
    CASE Tag(v) = "h"   -> Handle(MovedHandle(g, Held(v)))
      [] Tag(v) = "var" -> Var(MovedVar(g, Held(v)))
      [] OTHER          -> v
MovedNode(g, h)   ==
    LET o == Node(g.from, h)
    IN [o EXCEPT !.parent = MovedHandle(g, @),
                 !.ch = IF o.type = "STRING" THEN @ ELSE [i \in DOMAIN @ |-> MovedValue(g, @[i])]]

\* The top variables, lambdas, tail calls and dependencies of b.  A native library
\* is recorded with no handle, and what has no handle is not moved.
MergeVarTop(g, x) ==
    LET moved == [i \in DOMAIN g.from.vartop |-> MovedVar(g, g.from.vartop[i])]
    IN [x EXCEPT !.vartop = @ \o SelectSeq(moved, LAMBDA v : v \notin Range(x.vartop))]

MergeTables(g, x) ==
    LET b == g.from
    IN [x EXCEPT !.lambdas = @ \o [i \in DOMAIN b.lambdas |-> MovedHandle(g, b.lambdas[i])],
                 !.tail    = @ \cup {MovedHandle(g, h) : h \in b.tail},
                 !.deps    = [v \in {MovedVar(g, w) : w \in DOMAIN b.deps} |->
                                MovedHandle(g, b.deps[CHOOSE w \in DOMAIN b.deps : MovedVar(g, w) = v])] @@ @]

MergeNodes(g, x) ==
    [x EXCEPT !.nodes = [h \in {MovedHandle(g, o) : o \in Range(g.nodes)} |->
                            MovedNode(g, CHOOSE o \in Range(g.nodes) : MovedHandle(g, o) = h)] @@ @,
              !.next  = @ + Len(g.nodes)]

KnownTop(a) == IF HasNode(a, a.top) THEN a.top ELSE TopLambda(a)

\* The bodies of the other top lambda come before those of this one, and under it.
GraftBodies(g, x, top, bodies) ==
    LET adopted == {h \in {Held(v) : v \in {u \in Range(bodies) : Tag(u) = "h"}} : IsListNode(x, h)}
    IN SetBodies([x EXCEPT !.nodes = [h \in DOMAIN @ |->
                                        IF h \in adopted THEN [@[h] EXCEPT !.parent = top] ELSE @[h]]],
                 top, bodies \o Bodies(x, top))

\* What is left of the other tree: its top node and top lambda.
DropDead(x, dead) ==
    FreeNodes([x EXCEPT !.lambdas = SelectSeq(@, LAMBDA h : h \notin dead), !.tail = @ \ dead], dead)

\* am_ast_merge with order 0.
Merge(a, b) ==
    LET g        == MergeOf(a, b)
        otherTop == KnownTop(b)
        bodies   == [i \in DOMAIN Bodies(b, otherTop) |-> MovedValue(g, Bodies(b, otherTop)[i])]
        merged   == MergeNodes(g, MergeTables(g, MergeVarTop(g, g.to)))
    IN DropDead(GraftBodies(g, merged, KnownTop(a), bodies),
                {MovedHandle(g, otherTop), MovedHandle(g, Node(b, otherTop).parent)})

----------------------------------------------------------------------------
(* References to imported names *)

\* A top variable of a module whose name starts with the id and ends in the name.
IsTopOf(id, name, full) ==
    /\ Len(full) > Len(id) + 1
    /\ SubSeq(full, 1, Len(id)) = id
    /\ Last(full) = name

\* alias.name stands for the one top variable called name of the module the alias names.
ResolveRef(a, h, i) ==
    LET v       == Held(Node(a, h).ch[i])
        full    == NameOf(a, v)
        alias   == Front(full)
        known   == alias # <<>> /\ Known(a, alias) /\ VarId(a, alias) \in DOMAIN a.deps
        path    == Node(a, a.deps[VarId(a, alias)]).ch[1]
        matches == SelectSeq(a.vartop, LAMBDA t : IsTopOf(path, Last(full), NameOf(a, t)))
    IN IF Failed(a) \/ Tag(Node(a, h).ch[i]) # "var" THEN a
       ELSE IF a.vtype[v] # "IMPORT_REF" THEN a
       ELSE IF ~known THEN Fail(a, "reference to no import")
       ELSE IF Len(matches) # 1 THEN Fail(a, "reference not resolved")
       ELSE SetChild(a, h, i, Var(matches[1]))

ResolveNode(a, h) ==
    IF ~IsListNode(a, h) THEN a
    ELSE Fold(LAMBDA x, i : ResolveRef(x, h, i), a, [i \in DOMAIN Node(a, h).ch |-> i])

ResolveRefs(a) == Walk(a, ResolveNode)

----------------------------------------------------------------------------
(* am_link *)

\* One module is taken as it is; several are sorted and merged into the first.
MergeAll(l) ==
    LET sorted == TopoSort(l.edges, Len(l.paths))
    IN IF Len(l.paths) = 1 THEN l.asts[1]
       ELSE IF Len(sorted) # Len(l.paths) THEN Fail(l.asts[1], "cyclic import")
       ELSE Fold(LAMBDA a, i : Merge(a, l.asts[i]), l.asts[sorted[1]], Tail(sorted))

Link(files, main) ==
    LET l      == LoadModule(Loading(main), files, main, main.mid, 0)
        merged == MergeAll(l)
    IN IF ~l.ok THEN Fail(main, "import failed")
       ELSE IF Failed(merged) THEN merged
       ELSE ResolveRefs(TailCalls(merged))

=============================================================================
