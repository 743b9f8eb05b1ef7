------------------------------ MODULE Toolchain ------------------------------
(***************************************************************************)
(* From source text to execution: a program is parsed, its names renamed,  *)
(* its macros expanded, its modules linked, the result compiled and run by *)
(* the virtual machine of one process (am_process_load_module and the      *)
(* passes it is preceded by), one pass or one instruction a step.          *)
(*                                                                         *)
(* A program is given twice: as its files, the source terms of each        *)
(* module, and as a core term without macros and modules, written down by  *)
(* hand, which the reference machine evaluates first.  The same holds for  *)
(* the texts it gives to System.eval: evals has the bodies and the core    *)
(* terms of each by name, and ok says that it can be evaluated; escapes    *)
(* says that the program leaves evaluated code by a continuation.          *)
(***************************************************************************)
EXTENDS Linker, Compiler, Execution

\* Records [files |-> [path |-> bodies], main |-> path, core |-> term, valid |-> BOOLEAN,
\*          evals |-> [text |-> [code |-> bodies, core |-> terms, ok |-> BOOLEAN]], escapes |-> BOOLEAN].
CONSTANT Programs

Ref == INSTANCE Reference

\* Besides those of Execution: before it runs, stage is the pass that comes next,
\* and work is the tree.
VARIABLES program,  \* the program that is run
          ref       \* the reference machine

vars == <<program, stage, work, ref>>

----------------------------------------------------------------------------
(* Source text *)

\* The tokens of a source term; inQuote says that a quoted name is a word of a list.
RECURSIVE TokensOf(_)
TokensOf(t) ==
    LET Listed(ts) == <<LB>> \o FlattenSeq([i \in DOMAIN ts |-> TokensOf(ts[i])]) \o <<RB>>
    IN CASE t[1] = "n" -> <<<<"NUMBER", t[2]>>>>
         [] t[1] = "b" -> <<<<"BOOLEAN", <<IF t[2] THEN "#t" ELSE "#f">>>>>>
         [] t[1] = "i" -> <<<<"IDENTIFIER", t[2]>>>>
         [] t[1] = "k" -> <<KwTok(t[2])>>
         [] t[1] = "s" -> <<<<"STRING", t[2]>>>>
         [] t[1] = "l" -> Listed(t[2])
         [] t[1] = "QUOTE" /\ t[2][1] = "i" -> <<<<"SYMBOL", t[2][2]>>>>
         [] t[1] \in Quotings /\ ~(t[1] = "QUOTE" /\ t[2][1] = "i") ->
              <<<<t[1], <<t[1]>>>>>> \o TokensOf(t[2])

\* A file holds the bodies of a module, which the loader wraps in a lambda and a call.
Wrapped(bodies) == Ref!Program(bodies)
Tokens(bodies)  == TokensOf(Wrapped(bodies))
Files(p)        == [path \in DOMAIN p.files |-> Tokens(p.files[path])]

Keywords == {"lambda", "define", "set!", "begin", "if", "and", "or", "cond", "else", "while", "break", "continue",
             "...", "_", "import", "native", "define-syntax", "let-syntax", "letrec-syntax", "syntax-rules"}

\* The source term a tree stands for; the names of variables are given by Name.
RECURSIVE TermOf(_, _, _, _)
TermOf(a, Name(_), v, state) ==
    LET h     == Held(v)
        type  == Node(a, h).type
        inner == IF type \in Quotings THEN type ELSE state
        items(vs) == [i \in DOMAIN vs |-> TermOf(a, Name, vs[i], inner)]
        list  == IF type = "LAMBDA"
                 THEN Ref!L(<<Ref!K("lambda"), Ref!L(items(Params(a, h)))>> \o items(Bodies(a, h)))
                 ELSE Ref!L(items(Node(a, h).ch))
    IN CASE Tag(v) = "uint" -> Ref!N(Held(v))
         [] Tag(v) = "bool" -> Ref!B(Held(v))
         [] Tag(v) = "kw"   -> Ref!K(Held(v))
         [] Tag(v) = "sym"  -> IF Held(v)[1] \in Keywords THEN Ref!K(Held(v)[1])
                               ELSE IF state = "NONE" THEN Ref!QQ("QUOTE", <<"i", Held(v)>>) ELSE <<"i", Held(v)>>
         [] Tag(v) = "var"  -> IF state = "QUASIQUOTE" THEN Ref!QQ("UNQUOTE", <<"i", Name(Held(v))>>)
                               ELSE <<"i", Name(Held(v))>>
         [] Tag(v) = "h" /\ type = "STRING" -> Ref!S(Node(a, h).ch[1])
         [] Tag(v) = "h" /\ type # "STRING" ->
              IF type \in Quotings /\ type # state THEN Ref!QQ(type, list) ELSE list

Source(a) == TermOf(a, LAMBDA v : NameOf(a, v), Handle(TopNode(a)), "NONE")

----------------------------------------------------------------------------
(* The passes *)

\* What each pass makes of every program; a tree that failed stays as it is.
Then(tree, Passed(_)) == IF Failed(tree) THEN tree ELSE Passed(tree)

Parsed       == [p \in Programs |-> ParseTokens(p.main, Tokens(p.files[p.main]))]
Preprocessed == [p \in Programs |-> Then(Parsed[p], Preprocess)]
Qualified    == [p \in Programs |-> Then(Preprocessed[p], AliasRename)]
Renamed      == [p \in Programs |-> Then(Qualified[p], LAMBDA a : AlphaRename(a, FALSE))]
Unfolded     == [p \in Programs |-> Then(Renamed[p], MacroExpand)]
Finished     == [p \in Programs |-> Then(Unfolded[p], LAMBDA a : PopulateTop(CleanScopes(a)))]
Merged       == [p \in Programs |-> Then(Finished[p], LAMBDA a : Link(Files(p), a))]
Compiled     == [p \in {q \in Programs : ~Failed(Merged[q])} |-> Compile(Merged[p], 0, 0)]

\* Evaluated code is a module of its own whose free variables stay; it is
\* compiled without the linker, so no call in it becomes a tail call.
EvalPath       == <<"__eval__">>
CompileText(a) ==
    LET c == CompileAll(a, 1)
    IN IF Failed(a) THEN Reject(CompilerState(a)) ELSE IF c.ok /\ Unlocated(c) # {} THEN Reject(c) ELSE c

Evaluable == [p \in Programs |->
                 [text \in DOMAIN p.evals |-> CompileText(ParseFile(EvalPath, Tokens(p.evals[text].code), TRUE))]]

Init ==
    /\ program \in Programs
    /\ stage = "reference"
    /\ work = EmptyAst(program.main)
    /\ ref = Ref!RefStart(program.core, program.evals)

\* A pass that fails ends everything.
Pass(from, to, result) ==
    /\ stage = from
    /\ work' = result[program]
    /\ stage' = IF Failed(work') THEN "rejected" ELSE to
    /\ UNCHANGED <<program, ref>>

Refer ==
    /\ stage = "reference"
    /\ ref' = IF program.valid THEN Ref!RefStep(ref) ELSE [ref EXCEPT !.done = TRUE]
    /\ stage' = IF ref'.done THEN "parse" ELSE stage
    /\ UNCHANGED <<program, work>>

Parse         == Pass("parse", "preprocess", Parsed)
Directives    == Pass("preprocess", "alias", Preprocessed)
RenameAliases == Pass("alias", "alpha", Qualified)
RenameLocals  == Pass("alpha", "macro", Renamed)
Expand        == Pass("macro", "finish", Unfolded)
Finish        == Pass("finish", "link", Finished)
LinkModules   == Pass("link", "compile", Merged)

\* The tree becomes the first heap of the process.
Load(result) ==
    /\ stage = "compile"
    /\ LET c == result[program]
       IN /\ stage' = IF c.ok THEN "run" ELSE "rejected"
          /\ work' = IF c.ok THEN NewMachine(c.il, work.nodes, work.next, c.ast)
                     ELSE Fail(work, "not compiled")
    /\ UNCHANGED <<program, ref>>

CompileTree == Load(Compiled)

Frozen == UNCHANGED <<program, ref>>

RunProgram == Run /\ Frozen

EvaluateOne(result) == EvaluateText(result[program]) /\ Frozen
Evaluate            == EvaluateOne(Evaluable)

Next ==
    \/ Refer \/ Parse \/ Directives \/ RenameAliases \/ RenameLocals \/ Expand \/ Finish
    \/ LinkModules \/ CompileTree \/ RunProgram \/ Evaluate

Spec == Init /\ [][Next]_vars

\* What the compiler makes of these programs and texts is what ExecutionProofs
\* assumes of a process and of a text.
ASSUME CompiledIsLoadable ==
    \A p \in DOMAIN Compiled :
        /\ Compiled[p].ok => LoadableMachine(Compiled[p].il, Merged[p].nodes, Merged[p].next, Compiled[p].ast)
        /\ \A text \in DOMAIN Evaluable[p] : LoadableText(Evaluable[p][text])

----------------------------------------------------------------------------
(* Properties *)

InTree  == stage \in {"preprocess", "alias", "alpha", "macro", "finish", "link", "compile"}

\* Parsing loses nothing: the tree the parser builds stands for the very term
\* that was written, with its quotations, keywords and parameters.
ParsedAsWritten == stage = "preprocess" => Source(work) = Wrapped(program.files[program.main])

\* What a name means by lexical scope, worked out on the source: the lambda,
\* given by the way to it, that has it as a parameter or defines it.
RECURSIVE DefinesHere(_)
DefinesHere(t) ==
    IF t[1] # "l" \/ t[2] = <<>> \/ t[2][1] = Ref!K("lambda") THEN {}
    ELSE (IF t[2][1] = Ref!K("define") /\ t[2][2][1] = "i" THEN {t[2][2][2]} ELSE {})
         \cup UNION {DefinesHere(t[2][i]) : i \in DOMAIN t[2]}

RECURSIVE Occurrences(_, _, _, _)
Occurrences(t, renamed, way, env) ==
    LET ts     == t[2]
        isFn   == t[1] = "l" /\ ts # <<>> /\ ts[1] = Ref!K("lambda")
        isDirective == t[1] = "l" /\ ts # <<>> /\ ts[1] \in {Ref!K("import"), Ref!K("native")}
        names  == {p[2] : p \in {q \in Range(ts[2][2]) : q[1] = "i"}}
                  \cup UNION {DefinesHere(ts[i]) : i \in 3..Len(ts)}
        inner  == IF isFn THEN [x \in names |-> way] @@ env ELSE env
    IN CASE isDirective -> {}
         [] t[1] = "i" /\ Len(t[2]) > 1 -> {}
         [] t[1] = "i" /\ Len(t[2]) = 1 -> {<<t[2], IF t[2] \in DOMAIN env THEN env[t[2]] ELSE <<0>>, renamed[2]>>}
         [] t[1] = "l" /\ ~isDirective -> UNION {Occurrences(ts[i], renamed[2][i], Append(way, i), inner) : i \in DOMAIN ts}
         [] t[1] = "QUASIQUOTE" -> Occurrences(ts, renamed[2], Append(way, 0), env)
         [] t[1] = "UNQUOTE" -> Occurrences(ts, renamed[2], Append(way, 0), env)
         [] OTHER -> {}

\* After alpha-renaming two occurrences of variables (not names of other modules) have the same name exactly
\* if the same lambda binds the same name there; a free variable keeps its name.
RenamingKeepsBindings ==
    stage = "macro" =>
        LET all == Occurrences(Wrapped(program.files[program.main]), Source(work), <<>>, <<>>)
        IN /\ \A o, p \in all : (o[3] = p[3]) <=> (o[1] = p[1] /\ o[2] = p[2])
           /\ \A o \in all : o[2] = <<0>> => o[3] = o[1]

\* Between any two passes the tree is one: what hangs below the top node exists
\* and every list in it hangs in one place.  As long as scopes and renaming go by
\* the parents, the parent of a list is the list that holds it; the expander
\* leaves parents behind.
RECURSIVE Below(_, _)
ListsIn(a, h) == {Held(v) : v \in {u \in Range(Node(a, h).ch) : Tag(u) = "h" /\ IsListNode(a, Held(u))}}
Below(a, h)   == {h} \cup UNION {Below(a, c) : c \in ListsIn(a, h)}

TreeIsWhole ==
    InTree =>
        LET tree == Below(work, TopNode(work))
            places(v) == {<<h, i>> \in tree \X (1..Max({Len(Node(work, h).ch) : h \in tree})) :
                             i \in DOMAIN Node(work, h).ch /\ Node(work, h).ch[i] = v}
        IN \A h \in tree : \A v \in Range(Node(work, h).ch) :
              Tag(v) = "h" =>
                 /\ HasNode(work, Held(v))
                 /\ IsListNode(work, Held(v)) =>
                      /\ Cardinality(places(v)) = 1
                      /\ stage \notin {"finish", "link", "compile"} => Node(work, Held(v)).parent = h

\* A malformed program never reaches the machine, and a well-formed one is never
\* turned away, whatever the pass that would have to notice.
OnlyWellFormedRuns ==
    /\ ~program.valid => ~Running
    /\ program.valid => stage # "rejected"

\* What the program shows is what the reference machine shows: at any time it
\* has shown a beginning of it; it fails exactly where a text that cannot be
\* evaluated is given to System.eval; and when it halts it has shown all of it
\* and left the value of the program on the stack, and nothing of evaluated code
\* unless it left that by a continuation.
RunsAsReference ==
    Running =>
        /\ IsPrefix(work.out, ref.out)
        /\ stage = "failed" => ref.failed /\ work.out = ref.out
        /\ stage = "halted" =>
              /\ ~ref.failed /\ work.out = ref.out
              /\ Ref!RefValue(ref) # Ref!Void => Shown(work, Last(work.ops)) = Ref!RefValue(ref)
              /\ ~program.escapes => EvalRecords = {}

\* The function stack holds the calls that something waits for: each returns to
\* code that is there, and it is never deeper than these calls and that of the
\* program itself (proper tail calls; evaluated code has none).
StackHoldsWhatWaits ==
    Running =>
        /\ \A i \in DOMAIN work.fs : work.fs[i][2] < Len(work.il)
        /\ DOMAIN program.evals = {} => Len(work.fs) <= ref.deep + 1

=============================================================================
