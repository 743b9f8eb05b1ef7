-------------------------------- MODULE Code --------------------------------
(***************************************************************************)
(* What the front end, the compiler and the virtual machine share: the     *)
(* representation of values, names and nodes, the builtins, and code.      *)
(*                                                                         *)
(* A value is a pair of a tag and what it holds: <<"h", handle>>,          *)
(* <<"var", varid>>, <<"kw", keyword>>, <<"sym", quoted name>>,            *)
(* <<"uint", n>>, <<"bool", b>>, <<"null", 0>> or <<"undef", 0>>.  Handles *)
(* and varids count from one; 0 is AM_HANDLE_NULL.  Texts are abstract: a  *)
(* name is the sequence of its dot-separated parts, so "Mod.f" is          *)
(* <<"Mod", "f">>.                                                         *)
(*                                                                         *)
(* An instruction is a pair of an opcode and an operand.  A label is made  *)
(* from the value it is an index for, <<"label", index>>, which is what    *)
(* makes the same index give the same label.  Addresses count from zero,   *)
(* as in the code: the instruction at address i is il[i + 1].              *)
(***************************************************************************)
EXTENDS Integers, SequencesExt, FiniteSetsExt, TLC

NullHandle == 0

Handle(h) == <<"h", h>>
Var(v)    == <<"var", v>>
Kw(k)     == <<"kw", k>>
Sym(s)    == <<"sym", s>>
Num(n)    == <<"uint", n>>
Bool(b)   == <<"bool", b>>
Null      == <<"null", 0>>
Undefined == <<"undef", 0>>

Tag(v)  == v[1]
Held(v) == v[2]

BuiltinNames == {"+", "-", "*", "/", "mod", "pow", "not", ">", "<", ">=", "<=", "==",
                 "eq?", "eqv?", "equal?", "null?", "undefined?", "atom?", "list?", "number?",
                 "nan?", "typeof", "car", "cdr", "cons", "get_item", "set_item!", "push", "pop",
                 "length", "display", "newline", "write", "read", "call/cc", "fork", "dynamic-wind"}

IsBuiltinName(name) == Len(name) = 1 /\ name[1] \in BuiltinNames

HasNode(a, h) == h \in DOMAIN a.nodes
Node(a, h)    == a.nodes[h]

\* FoldLeft and SetToSortSeq of the community modules, in time linear in the length.
Fold(Op(_, _), base, seq) ==
    LET f[i \in 0..Len(seq)] == IF i = 0 THEN base ELSE Op(f[i - 1], seq[i]) IN f[Len(seq)]
Ascending(S) == LET m == Max(S \cup {0}) IN SelectSeq([i \in 1..m |-> i], LAMBDA i : i \in S)

----------------------------------------------------------------------------
(* Names: a vocabulary and the type of each name *)

NameOf(a, v) == a.vocab[v]
VarIds(a, name) == {v \in DOMAIN a.vocab : a.vocab[v] = name}
VarId(a, name)  == Min(VarIds(a, name))
Known(a, name)  == VarIds(a, name) # {}

\* am_vocab_insert: a new name gets the next varid and the given type.
Intern(a, name, type) ==
    IF Known(a, name) THEN a
    ELSE [a EXCEPT !.vocab = Append(@, name), !.vtype = Append(@, type)]

InternAs(a, name, type) ==
    LET b == Intern(a, name, type) IN [b EXCEPT !.vtype[VarId(b, name)] = type]

----------------------------------------------------------------------------
(* Instructions *)

\* The builtins that are one instruction; those not listed have the instruction's name.
BuiltinOpcode ==
    [n \in BuiltinNames \ {"call/cc", "dynamic-wind"} |->
        CASE n = "+" -> "add" [] n = "-" -> "sub" [] n = "*" -> "mul" [] n = "/" -> "div"
          [] n = ">" -> "gt" [] n = "<" -> "lt" [] n = ">=" -> "ge" [] n = "<=" -> "le"
          [] n = "==" -> "eqv" [] n = "eq?" -> "eq" [] n = "eqv?" -> "eqv" [] n = "equal?" -> "equal"
          [] n = "null?" -> "isnull" [] n = "undefined?" -> "isundef" [] n = "atom?" -> "isatom"
          [] n = "list?" -> "islist" [] n = "number?" -> "isnumber" [] n = "nan?" -> "isnan"
          [] n = "set_item!" -> "set_item" [] n = "push" -> "list_push" [] n = "pop" -> "list_pop"
          [] OTHER -> n]

OpcodesOf(name) == IF Len(name) = 1 /\ name[1] \in DOMAIN BuiltinOpcode THEN {BuiltinOpcode[name[1]]} ELSE {}

LabelOf(index) == <<"label", index>>
NoOperand      == Undefined

\* Labels become addresses, moved by where the code will be put.
Resolve(c, offset) ==
    LET Address(v) == IF Tag(v) = "label" THEN <<"iaddr", c.at[Held(v)] + offset>> ELSE v
    IN [c EXCEPT !.il = [i \in DOMAIN c.il |-> <<c.il[i][1], Address(c.il[i][2])>>]]

=============================================================================
