------------------------------- MODULE Machine -------------------------------
(***************************************************************************)
(* The virtual machine of one process (runtime.c, the instructions;        *)
(* process.c, its stacks, closures and continuations; closure.c, the       *)
(* bindings): every instruction as a function from a machine to the next.  *)
(*                                                                         *)
(* A machine m has the code il, the program counter pc, the operand stack  *)
(* ops, the function stack fs of <<closure, return address>>, the current  *)
(* closure cur, the heap of objects by handle, the vocabulary, the top     *)
(* variables with what they were called before renaming, the number of     *)
(* temporaries of evaluated code so far, the output out, and its mode:     *)
(* "running", "halted", "paused", or "failed" after an instruction         *)
(* returned an error, with the reason in why; loaded keeps the code and    *)
(* the vocabulary it began with, which no instruction reads.  The          *)
(* instructions of dynamic-wind are in the module DynamicWind; here no     *)
(* extent is ever entered, so a continuation is restored at once.          *)
(*                                                                         *)
(* Numbers are integers with the type the code gives them, "uint", "int"   *)
(* or "float"; the width of the three and rounding are left out, and       *)
(* division, mod and pow are the exact ones.                               *)
(***************************************************************************)
EXTENDS Code

IAddr(n)     == <<"iaddr", n>>
NoValue      == <<"none", 0>>       \* what popping an empty stack gives (UINTPTR_MAX)
True         == Bool(TRUE)
False        == Bool(FALSE)
NumberTags   == {"uint", "int", "float"}
IsNumber(v)  == Tag(v) \in NumberTags
ListTypes    == {"APPLICATION", "LAMBDA", "QUOTE", "QUASIQUOTE", "UNQUOTE", "LIST"}

NewMachine(il, heap, next, a) ==
    [il |-> il, pc |-> 0, ops |-> <<>>, fs |-> <<>>, cur |-> NullHandle, heap |-> heap, next |-> next,
     vocab |-> a.vocab, vtype |-> a.vtype, vartop |-> a.vartop, arn |-> a.arn, temps |-> 0,
     out |-> <<>>, mode |-> "running", why |-> "", loaded |-> [il |-> il, vocab |-> a.vocab]]

Fault(m, why)   == [m EXCEPT !.mode = "failed", !.why = why]
StepOn(m)       == [m EXCEPT !.pc = @ + 1]
Goto(m, addr)   == [m EXCEPT !.pc = addr]
PushOp(m, v)    == [m EXCEPT !.ops = Append(@, v)]
DropOps(m, n)   == [m EXCEPT !.ops = SubSeq(@, 1, Len(@) - (IF n < Len(@) THEN n ELSE Len(@)))]
\* The value the k-th pop gives.
Popped(m, k)    == IF k <= Len(m.ops) THEN m.ops[Len(m.ops) + 1 - k] ELSE NoValue
Result(m, n, v) == StepOn(PushOp(DropOps(m, n), v))

HasObject(m, v)    == Tag(v) = "h" /\ Held(v) \in DOMAIN m.heap
Object(m, v)       == m.heap[Held(v)]
IsType(m, v, type) == HasObject(m, v) /\ Object(m, v).type = type
IsList(m, v)       == HasObject(m, v) /\ Object(m, v).type \in ListTypes
AddObject(m, o) ==
    [m EXCEPT !.heap = [h \in DOMAIN @ \cup {m.next} |-> IF h = m.next THEN o ELSE @[h]], !.next = @ + 1]
ListObject(type, parent, items) == [type |-> type, parent |-> parent, ch |-> items]

----------------------------------------------------------------------------
(* Closures: a sequence of bindings, at most one bound and one free of a variable *)

Binding(v, kind, dirty, value) == [v |-> v, kind |-> kind, dirty |-> dirty, value |-> value]
Finds(bs, v, kinds) == {i \in DOMAIN bs : bs[i].v = v /\ bs[i].kind \in kinds}
HasBound(bs, v) == Finds(bs, v, {"bound"}) # {}
HasFree(bs, v)  == Finds(bs, v, {"free"}) # {}
ValueIn(bs, v, kind) ==
    IF Finds(bs, v, {kind}) = {} THEN Undefined ELSE bs[Min(Finds(bs, v, {kind}))].value
\* The mark of a variable is that of its first binding.
IsDirty(bs, v) ==
    LET all == Finds(bs, v, {"bound", "free"}) IN all # {} /\ bs[Min(all)].dirty

Other(kind) == IF kind = "bound" THEN "free" ELSE "bound"

Bind(bs, v, kind, dirty, value) ==
    IF Finds(bs, v, {kind}) = {} THEN Append(bs, Binding(v, kind, dirty, value))
    ELSE [bs EXCEPT ![Min(Finds(bs, v, {kind}))] = Binding(v, kind, dirty, value)]

\* A first value clears the mark of both bindings of the variable ...
InitVar(bs, v, kind, value) ==
    LET b == Bind(bs, v, kind, FALSE, value)
    IN [i \in DOMAIN b |-> IF b[i].v = v THEN [b[i] EXCEPT !.dirty = FALSE] ELSE b[i]]

\* Mutant: an assignment does not mark the variable.
SetVarUnmarked(bs, v, kind, value) ==
    LET b == Bind(bs, v, kind, FALSE, value)
    IN [i \in DOMAIN b |-> IF b[i].v = v THEN [b[i] EXCEPT !.value = value] ELSE b[i]]

\* ... and an assigned one marks and replaces both.
SetVar(bs, v, kind, value) ==
    LET b == Bind(bs, v, kind, TRUE, value)
    IN [i \in DOMAIN b |-> IF b[i].v = v THEN [b[i] EXCEPT !.dirty = TRUE, !.value = value] ELSE b[i]]

IsClosure(m, h)  == IsType(m, Handle(h), "CLOSURE")
Bindings(m, h)   == m.heap[h].bs
HasCurrent(m)    == IsClosure(m, m.cur)

\* The closure that binds v, looked for from the closure h outwards.
Binder(m, h, v) ==
    LET found[c \in {d \in DOMAIN m.heap : IsClosure(m, d)}] ==
            IF HasBound(Bindings(m, c), v) THEN c
            ELSE IF IsClosure(m, m.heap[c].parent) THEN found[m.heap[c].parent]
            ELSE NullHandle
    IN IF IsClosure(m, h) THEN found[h] ELSE NullHandle

\* am_process_dereference: the closure that binds a variable is asked for the
\* value only when it was assigned to; otherwise the current closure has a copy.
Dereference(m, v) ==
    LET b == Binder(m, m.cur, v)
    IN IF b = NullHandle THEN NoValue
       ELSE IF b = m.cur \/ IsDirty(Bindings(m, b), v) THEN ValueIn(Bindings(m, b), v, "bound")
       ELSE ValueIn(Bindings(m, m.cur), v, "free")

\* A closure under the current one, with copies of all its bindings.
CopiedBindings(m) ==
    IF HasCurrent(m) THEN Fold(LAMBDA bs, b : InitVar(bs, b.v, "free", b.value), <<>>, Bindings(m, m.cur))
    ELSE <<>>
MakeClosure(m, addr) ==
    AddObject(m, [type |-> "CLOSURE", iaddr |-> addr, parent |-> m.cur, bs |-> CopiedBindings(m)])

----------------------------------------------------------------------------
(* Access *)

OpStore(m, v) ==
    IF ~HasCurrent(m) THEN Fault(m, "no closure")
    ELSE StepOn([DropOps(m, 1) EXCEPT !.heap[m.cur].bs = InitVar(@, Held(v), "bound", Popped(m, 1))])

OpLoad(m, v) ==
    LET value == Dereference(m, Held(v))
    IN IF value = NoValue THEN Fault(m, "undefined variable")
       ELSE IF Tag(value) = "iaddr" THEN Result(MakeClosure(m, Held(value)), 0, Handle(m.next))
       ELSE Result(m, 0, value)

OpLoadClosure(m, addr) == Result(MakeClosure(m, Held(addr)), 0, Handle(m.next))

OpSwap(m) ==
    IF NoValue \in {Popped(m, 1), Popped(m, 2)} THEN Fault(m, "empty stack")
    ELSE StepOn(PushOp(PushOp(DropOps(m, 2), Popped(m, 1)), Popped(m, 2)))

\* set!: the copy of the current closure, and the binding where it is bound.
OpSet(m, v) ==
    LET x == Held(v)
        value == Popped(m, 1)
        m1 == IF HasFree(Bindings(m, m.cur), x)
              THEN [DropOps(m, 1) EXCEPT !.heap[m.cur].bs = SetVar(@, x, "free", value)]
              ELSE DropOps(m, 1)
        b == Binder(m1, m1.cur, x)
    IN IF ~HasCurrent(m) THEN Fault(m, "no closure")
       ELSE StepOn(IF b = NullHandle THEN m1
                   ELSE [m1 EXCEPT !.heap[b].bs = SetVar(@, x, "bound", value)])

----------------------------------------------------------------------------
(* Calls and continuations *)

PushFrame(m, ret) == [m EXCEPT !.fs = Append(@, <<m.cur, ret>>)]
Enter(m, h)       == Goto([m EXCEPT !.cur = h], m.heap[h].iaddr)

\* Mutant: a tail call of a lambda pushes a frame like any other.
CallAddressWithFrame(m, addr, isTail) == Enter(MakeClosure(PushFrame(m, m.pc + 1), addr), m.next)

\* A tail call of the function that is running reuses its closure.
CallAddress(m, addr, isTail) ==
    IF isTail /\ HasCurrent(m) /\ m.heap[m.cur].iaddr = addr THEN Goto(m, addr)
    ELSE LET m1 == IF isTail THEN m ELSE PushFrame(m, m.pc + 1)
         IN Enter(MakeClosure(m1, addr), m.next)

Capture(m, ret) ==
    AddObject(m, [type |-> "CONTINUATION", ret |-> ret, cur |-> m.cur, ops |-> m.ops, fs |-> m.fs])

Restore(m, h, value) ==
    LET k == m.heap[h]
    IN Goto(PushOp([m EXCEPT !.ops = k.ops, !.fs = k.fs, !.cur = k.cur], value), k.ret)

OpCaptureCC(m, v) ==
    IF ~HasCurrent(m) THEN Fault(m, "no closure")
    ELSE StepOn([Capture(m, m.pc + 3) EXCEPT !.heap[m.cur].bs = InitVar(@, Held(v), "bound", Handle(m.next))])

OpReturn(m) ==
    IF m.fs = <<>> THEN Fault(m, "call stack is empty")
    ELSE Goto([m EXCEPT !.fs = Front(@), !.cur = Last(m.fs)[1]], Last(m.fs)[2])

\* A native function is named Library.function; none is installed in this model.
OpCallNative(m, v) ==
    IF Len(m.vocab[Held(v)]) = 2 THEN Fault(m, "no such native function") ELSE Fault(m, "not a native name")

IsNativeVar(m, v) == Tag(v) = "var" /\ m.vtype[Held(v)] = "NATIVE_REF"

\* The end of evaluated code (Evaluation): what it left on the stack, the code
\* itself, the names it brought and its record go, and the caller goes on.
Cut(s, n) == IF n < Len(s) THEN SubSeq(s, 1, n) ELSE s

\* Mutant: the code that was evaluated stays behind that of the program.
OpEvalCleanupKeepsCode(m, v) ==
    LET r == Object(m, v)
    IN Goto([m EXCEPT !.ops = Cut(@, r.ops), !.vocab = Cut(@, r.vocab), !.vtype = Cut(@, r.vocab),
                      !.heap = [h \in DOMAIN @ \ {Held(v)} |-> @[h]]], r.ret)

OpEvalCleanup(m, v) ==
    LET r == Object(m, v)
    IN IF ~IsType(m, v, "EVAL_RECORD") THEN Fault(m, "no clean-up record")
       ELSE Goto([m EXCEPT !.ops = Cut(@, r.ops), !.il = Cut(@, r.il),
                           !.vocab = Cut(@, r.vocab), !.vtype = Cut(@, r.vocab),
                           !.heap = [h \in DOMAIN @ \ {Held(v)} |-> @[h]]], r.ret)

----------------------------------------------------------------------------
(* Lists *)

Arg(m)          == Popped(m, 1)
OnList(m, v, r) == IF IsList(m, v) THEN r ELSE Fault(m, "not a list")
Items(m, v)     == Object(m, v).ch
FromList(m, v, items) == AddObject(m, ListObject(Object(m, v).type, Held(v), items))

OpCar(m) ==
    IF IsList(m, Arg(m)) /\ Items(m, Arg(m)) # <<>> THEN Result(m, 1, Items(m, Arg(m))[1])
    ELSE Fault(m, "car of no list")
OpCdr(m) ==
    IF IsList(m, Arg(m)) /\ Items(m, Arg(m)) # <<>>
    THEN Result(FromList(m, Arg(m), Tail(Items(m, Arg(m)))), 1, Handle(m.next))
    ELSE Fault(m, "cdr of no list")
OpCons(m) ==
    OnList(m, Arg(m), Result(FromList(m, Arg(m), <<Popped(m, 2)>> \o Items(m, Arg(m))), 2, Handle(m.next)))
OpLength(m) == OnList(m, Arg(m), Result(m, 1, Num(Len(Items(m, Arg(m))))))

OpGetItem(m) ==
    LET i == Held(Arg(m))
        l == Popped(m, 2)
    IN IF ~IsNumber(Arg(m)) THEN Fault(m, "index is no number")
       ELSE OnList(m, l, Result(m, 2, IF i \in 0..(Len(Items(m, l)) - 1) THEN Items(m, l)[i + 1] ELSE Undefined))

OpSetItem(m) ==
    LET i == Held(Popped(m, 2))
        l == Popped(m, 3)
    IN IF ~IsList(m, l) \/ ~IsNumber(Popped(m, 2)) THEN Fault(m, "not a list and an index")
       ELSE IF i \notin 0..(Len(Items(m, l)) - 1) THEN Fault(m, "index out of range")
       ELSE StepOn([DropOps(m, 3) EXCEPT !.heap[Held(l)].ch[i + 1] = Arg(m)])

\* Nothing is pushed for the list that grew.
OpListPush(m) ==
    LET l == Popped(m, 2)
    IN IF IsList(m, l) THEN StepOn([DropOps(m, 2) EXCEPT !.heap[Held(l)].ch = Append(@, Arg(m))])
       ELSE Fault(m, "not a list")
OpListPop(m) ==
    LET l == Arg(m)
    IN IF ~IsList(m, l) THEN Fault(m, "not a list")
       ELSE IF Items(m, l) = <<>> THEN Result(m, 1, Undefined)
       ELSE Result([m EXCEPT !.heap[Held(l)].ch = Front(@)], 1, Last(Items(m, l)))

\* The list of the last n operands, which become its children.
OpConcat(m) ==
    LET n     == Held(Arg(m))
        items == [i \in 1..n |-> Popped(m, n + 2 - i)]
        m1    == AddObject(m, ListObject("LIST", NullHandle, items))
        inner == {Held(items[i]) : i \in {k \in 1..n : IsList(m, items[k])}}
    IN IF ~IsNumber(Arg(m)) THEN Fault(m, "count is no number")
       ELSE Result([m1 EXCEPT !.heap = [h \in DOMAIN @ |->
                       IF h \in inner THEN [@[h] EXCEPT !.parent = m.next] ELSE @[h]]],
                   n + 1, Handle(m.next))

OpDuplicate(m) ==
    IF ~HasObject(m, Arg(m)) THEN Fault(m, "nothing to copy")
    ELSE IF IsList(m, Arg(m)) THEN Result(AddObject(m, Object(m, Arg(m))), 1, Handle(m.next))
    ELSE Result(m, 1, Arg(m))

----------------------------------------------------------------------------
(* Numbers and predicates *)

\* uint and uint stays uint where the table of the operation says so.
SumType(a, b)  == IF "float" \in {Tag(a), Tag(b)} THEN "float"
                  ELSE IF "int" \in {Tag(a), Tag(b)} THEN "int" ELSE "uint"
DiffType(a, b) == IF "float" \in {Tag(a), Tag(b)} THEN "float" ELSE "int"

Power(x, n) ==
    LET to[k \in Nat] == IF k = 0 THEN 1 ELSE x * to[k - 1]
    IN IF n <= 0 THEN 1 ELSE to[n]

Arith(op, b, a) ==
    LET x == Held(b)
        y == Held(a)
    IN CASE op = "add" -> <<SumType(a, b), x + y>>
         [] op = "sub" -> <<DiffType(a, b), x - y>>
         [] op = "mul" -> <<SumType(a, b), x * y>>
         [] op = "div" -> <<"float", x \div y>>
         [] op = "mod" -> <<"float", x % y>>
         [] op = "pow" -> <<"float", Power(x, y)>>
         [] op = "ge"  -> Bool(x >= y)
         [] op = "le"  -> Bool(x <= y)
         [] op = "gt"  -> Bool(x > y)
         [] op = "lt"  -> Bool(x < y)

Numerical == {"add", "sub", "mul", "div", "mod", "pow", "ge", "le", "gt", "lt"}

OpArith(m, op) ==
    IF ~IsNumber(Popped(m, 1)) \/ ~IsNumber(Popped(m, 2)) THEN Fault(m, "not a number")
    ELSE IF op = "div" /\ Held(Popped(m, 1)) = 0 THEN Fault(m, "division by zero")
    ELSE Result(m, 2, Arith(op, Popped(m, 2), Popped(m, 1)))

\* eq? compares the words, eqv? the numbers, equal? the contents of lists and strings.
Eqv(a, b) == IF IsNumber(a) /\ IsNumber(b) THEN Held(a) = Held(b) ELSE a = b

EqualValues(m, a, b) ==
    LET same[p \in (DOMAIN m.heap) \X (DOMAIN m.heap)] ==
            LET x == Handle(p[1])
                y == Handle(p[2])
            IN \/ /\ IsList(m, x) /\ IsList(m, y)
                  /\ Len(Items(m, x)) = Len(Items(m, y))
                  /\ \A i \in DOMAIN Items(m, x) :
                        LET v == Items(m, x)[i]
                            w == Items(m, y)[i]
                        IN Eqv(v, w) \/ (HasObject(m, v) /\ HasObject(m, w) /\ same[<<Held(v), Held(w)>>])
               \/ IsType(m, x, "STRING") /\ IsType(m, y, "STRING") /\ Items(m, x) = Items(m, y)
    IN Eqv(a, b) \/ (HasObject(m, a) /\ HasObject(m, b) /\ same[<<Held(a), Held(b)>>])

Comparison(m, op) ==
    LET a == Popped(m, 1)
        b == Popped(m, 2)
    IN CASE op = "eq"    -> a = b
         [] op = "eqv"   -> Eqv(a, b)
         [] op = "equal" -> EqualValues(m, b, a)
         [] op = "and"   -> a # False /\ b # False
         [] op = "or"    -> a # False \/ b # False

Predicate(m, op) ==
    LET a == Arg(m)
    IN CASE op = "not"      -> a = False
         [] op = "isnull"   -> a = Null \/ (IsList(m, a) /\ Items(m, a) = <<>>)
         [] op = "isundef"  -> a = Undefined
         [] op = "isatom"   -> Tag(a) # "h"
         [] op = "islist"   -> IsList(m, a)
         [] op = "isnumber" -> IsNumber(a)
         [] op = "isnan"    -> FALSE

Comparisons == {"eq", "eqv", "equal", "and", "or"}
Predicates  == {"not", "isnull", "isundef", "isatom", "islist", "isnumber", "isnan"}

\* A value of the stack is never a pointer, so every object is of type handle.
TypeName(v) ==
    CASE Tag(v) = "h" -> "handle"
      [] Tag(v) = "var" -> "varid"
      [] Tag(v) \in {"sym", "kw"} -> "symbol"
      [] Tag(v) = "bool" -> "boolean"
      [] Tag(v) = "undef" -> "undefined"
      [] Tag(v) \in NumberTags -> "number"
      [] Tag(v) \in {"iaddr", "label", "null"} -> Tag(v)
      [] OTHER -> "unknown"

\* The string is interned, so typeof gives the same handle for the same name.
OpTypeof(m) ==
    LET name == <<TypeName(Arg(m))>>
        same == {h \in DOMAIN m.heap : m.heap[h].type = "STRING" /\ m.heap[h].ch = <<name>>}
    IN IF same = {} THEN Result(AddObject(m, ListObject("STRING", NullHandle, <<name>>)), 1, Handle(m.next))
       ELSE Result(m, 1, Handle(Min(same)))

----------------------------------------------------------------------------
(* Output *)

\* A value that is no list, as display and error texts show it.
ShownScalar(m, v) ==
    CASE HasObject(m, v) -> IF Object(m, v).type = "STRING" THEN <<"string", Object(m, v).ch[1]>>
                            ELSE <<"object", Object(m, v).type>>
      [] Tag(v) = "var"  -> <<"name", m.vocab[Held(v)]>>
      [] Tag(v) \in {"sym", "kw"} -> <<"name", Held(v)>>
      [] IsNumber(v)     -> <<"number", Held(v)>>
      [] OTHER           -> v

\* What display shows of a value; brackets carry the quotation of the list.
Shown(m, v) ==
    LET list[h \in {d \in DOMAIN m.heap : IsList(m, Handle(d))}] ==
            LET l == m.heap[h]
                quoted == IF l.ch = <<>> THEN "QUOTE" ELSE IF l.type \in {"QUASIQUOTE", "UNQUOTE"} THEN l.type ELSE "LIST"
                Of(x) == IF IsList(m, x) THEN list[Held(x)] ELSE ShownScalar(m, x)
            IN IF l.type = "LAMBDA" THEN <<"lambda", [i \in 3..Len(l.ch) |-> Of(l.ch[i])]>>
               ELSE <<quoted, [i \in DOMAIN l.ch |-> Of(l.ch[i])]>>
    IN IF IsList(m, v) THEN list[Held(v)] ELSE ShownScalar(m, v)

OpDisplay(m) == StepOn([DropOps(m, 1) EXCEPT !.out = Append(@, Shown(m, Arg(m)))])
OpNewline(m) == StepOn([m EXCEPT !.out = Append(@, <<"newline", 0>>)])

----------------------------------------------------------------------------
(* Dispatch *)

Branch(m, op, addr) ==
    IF (Arg(m) = False) = (op = "iffalse") THEN Goto(DropOps(m, 1), Held(addr)) ELSE StepOn(DropOps(m, 1))

NoOperandOps == {"pop", "swap", "return", "car", "cdr", "cons", "length", "get_item", "set_item", "list_push",
             "list_pop", "concat", "duplicate", "typeof", "display", "newline", "read", "write", "nop",
             "pause", "halt", "fork"}

Plain(m, op) ==
    CASE op = "pop"       -> StepOn(DropOps(m, 1))
      [] op = "swap"      -> OpSwap(m)
      [] op = "return"    -> OpReturn(m)
      [] op = "car"       -> OpCar(m)
      [] op = "cdr"       -> OpCdr(m)
      [] op = "cons"      -> OpCons(m)
      [] op = "length"    -> OpLength(m)
      [] op = "get_item"  -> OpGetItem(m)
      [] op = "set_item"  -> OpSetItem(m)
      [] op = "list_push" -> OpListPush(m)
      [] op = "list_pop"  -> OpListPop(m)
      [] op = "concat"    -> OpConcat(m)
      [] op = "duplicate" -> OpDuplicate(m)
      [] op = "typeof"    -> OpTypeof(m)
      [] op = "display"   -> OpDisplay(m)
      [] op = "newline"   -> OpNewline(m)
      [] op \in {"read", "write", "nop"} -> StepOn(m)
      [] op = "pause"     -> [m EXCEPT !.mode = "paused"]
      [] op = "halt"      -> [m EXCEPT !.mode = "halted"]
      [] op = "fork"      -> Fault(m, "fork is obsolete")

Op(m, op) ==
    IF op \in Numerical THEN OpArith(m, op)
    ELSE IF op \in Comparisons THEN Result(m, 2, Bool(Comparison(m, op)))
    ELSE IF op \in Predicates THEN Result(m, 1, Bool(Predicate(m, op)))
    ELSE IF op \in NoOperandOps THEN Plain(m, op)
    ELSE Fault(m, "unknown instruction")

\* call and tailcall: a native function, the address of a lambda, a closure, a
\* continuation, or the name of a builtin that is the value of a variable.
OpCall(m, v, isTail) ==
    LET target == IF Tag(v) = "var" THEN Dereference(m, Held(v)) ELSE v
        framed == IF isTail THEN m ELSE PushFrame(m, m.pc + 1)
    IN IF IsNativeVar(m, v) THEN OpCallNative(m, v)
       ELSE IF target = NoValue THEN Fault(m, "undefined variable")
       ELSE IF Tag(target) = "iaddr" THEN CallAddress(m, Held(target), isTail)
       ELSE IF IsType(m, target, "CLOSURE") THEN Enter(framed, Held(target))
       ELSE IF IsType(m, target, "CONTINUATION") THEN Restore(DropOps(framed, 1), Held(target), Arg(m))
       ELSE IF Tag(target) = "var" /\ OpcodesOf(m.vocab[Held(target)]) # {}
       THEN Op(m, CHOOSE op \in OpcodesOf(m.vocab[Held(target)]) : TRUE)
       ELSE Fault(m, "not a function")

\* am_runtime_execute: the instruction at pc.
Execute(m) ==
    LET op == m.il[m.pc + 1][1]
        v  == m.il[m.pc + 1][2]
    IN IF m.pc \notin 0..(Len(m.il) - 1) THEN Fault(m, "no instruction")
       ELSE CASE op = "push"        -> Result(m, 0, v)
              [] op = "load"        -> OpLoad(m, v)
              [] op = "loadclosure" -> OpLoadClosure(m, v)
              [] op = "store"       -> OpStore(m, v)
              [] op = "set"         -> OpSet(m, v)
              [] op \in {"call", "tailcall"} -> OpCall(m, v, op = "tailcall")
              [] op = "callnative"  -> OpCallNative(m, v)
              [] op = "capturecc"   -> OpCaptureCC(m, v)
              [] op = "evalcleanup" -> OpEvalCleanup(m, v)
              [] op \in {"iftrue", "iffalse"} -> Branch(m, op, v)
              [] op = "goto"        -> Goto(m, Held(v))
              [] OTHER              -> Op(m, op)

=============================================================================
