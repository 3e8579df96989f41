------------------------- MODULE ConditionCompiler -------------------------
(***************************************************************************)
(* compile_condition() of ragnerock/resources/condition.py: the dialect    *)
(* users write as a mapping, the structured grammar the API takes, and     *)
(* what each of them means for a node's execution context.                 *)
(***************************************************************************)
EXTENDS Integers, Sequences

CONSTANTS
  Keys,         \* keys of mappings: field paths, operators, and what is neither
  Fields,       \* the field paths among them: no $ in front, and not empty
  Contexts,     \* execution contexts: each gives a field a scalar, one, and a list, all
  Conditions,   \* what programs pass as conditions
  MaxDepth      \* bound on their nesting

\* A Python value: a scalar, a list, or a mapping (in its own order of keys).  Texts
\* are numbered; the one that every text matches as a pattern is AnyText.
Num(n)    == [t |-> "num", v |-> n]
Str(n)    == [t |-> "str", v |-> n]
AnyText   == Str(0)
Scalars   == [t : {"num"}, v : Int] \cup [t : {"str"}, v : Nat]
EntriesOf(V)  == [k : Keys, v : V]
ListsOf(V)    == [t : {"list"}, items : Seq(V)]
MapsOf(V)     == [t : {"map"}, items : Seq(EntriesOf(V))]
ValuesOver(V) == Scalars \cup ListsOf(V) \cup MapsOf(V)

VARIABLES
  condition,    \* a condition as it was written
  compiled      \* the tree made of it
conditionVars == <<condition, compiled>>

ServerOf == [op \in {"$eq", "$ne", "$gt", "$lt", "$gte", "$lte", "$matches"} |->
               CASE op = "$eq" -> "=="   [] op = "$ne" -> "!="
                 [] op = "$gt" -> ">"    [] op = "$lt" -> "<"
                 [] op = "$gte" -> ">="  [] op = "$lte" -> "<="
                 [] op = "$matches" -> "matches"]
ListOp   == [op \in {"$count", "$contains", "$min", "$max"} |->
               CASE op = "$count" -> "count" [] op = "$contains" -> "contains"
                 [] op = "$min" -> "min"     [] op = "$max" -> "max"]
LogicalOp == [op \in {"$and", "$or", "$not"} |->
               CASE op = "$and" -> "AND" [] op = "$or" -> "OR" [] op = "$not" -> "NOT"]

ASSUME FieldsAreKeys ==
  Fields \subseteq Keys \ (DOMAIN LogicalOp \cup DOMAIN ServerOf \cup DOMAIN ListOp \cup {""})

IsScalar(x) == x.t \in {"num", "str"}

-----------------------------------------------------------------------------
(* The compiler: ValidationError, raised out of every level, or a tree. *)

Refused == [type |-> "ValidationError"]

Logical(op, subs) ==
  IF \E i \in DOMAIN subs : subs[i] = Refused THEN Refused
  ELSE [type |-> "logical", operator |-> op, conditions |-> subs]

FieldComparison(f, op, x) ==
  IF ~ IsScalar(x) \/ (op = "$matches" /\ x.t # "str") THEN Refused
  ELSE [type |-> "field_comparison", field |-> f, operator |-> ServerOf[op], value |-> x]

ListOperation(f, op, x) ==
  LET tree(y, cmp) == [type |-> "list_operation", field |-> f, operator |-> ListOp[op],
                       value |-> y, comparison |-> cmp]
  IN IF op = "$contains"
     THEN IF IsScalar(x) THEN tree(x, "None") ELSE Refused
     ELSE IF x.t # "map" THEN Refused
     ELSE IF \/ Len(x.items) # 1
             \/ x.items[1].k \notin DOMAIN ServerOf \ {"$matches"}
             \/ ~ IsScalar(x.items[1].v)
          THEN Refused
     ELSE tree(x.items[1].v, ServerOf[x.items[1].k])

\* The trees of the entries of a mapping: of several the conjunction is made.
SlipConjunction(trees) == IF Len(trees) = 1 THEN trees[1] ELSE Logical("OR", trees)
Conjunction(trees)     == IF Len(trees) = 1 THEN trees[1] ELSE Logical("AND", trees)

CompileOp(f, op, x) ==
  IF op \in DOMAIN ServerOf THEN FieldComparison(f, op, x)
  ELSE IF op \in DOMAIN ListOp THEN ListOperation(f, op, x) ELSE Refused
CompileField(f, ops) ==
  IF ops.t # "map" THEN Refused
  ELSE IF ops.items = <<>> THEN Refused
  ELSE Conjunction([i \in DOMAIN ops.items |-> CompileOp(f, ops.items[i].k, ops.items[i].v)])

\* Sub is the compiler of the conditions one level down.
CompileLogical(Sub, k, x) ==
  IF k = "$not"
  THEN IF x.t = "list" THEN Refused ELSE Logical("NOT", <<Sub[x]>>)
  ELSE IF x.t # "list" THEN Refused
  ELSE IF x.items = <<>> THEN Refused
  ELSE Logical(LogicalOp[k], [i \in DOMAIN x.items |-> Sub[x.items[i]]])
CompileEntry(Sub, k, x) ==
  IF k \in DOMAIN LogicalOp THEN CompileLogical(Sub, k, x)
  ELSE IF k \in Fields THEN CompileField(k, x) ELSE Refused
CompileMapping(Sub, c) ==
  IF c.t # "map" THEN Refused
  ELSE IF c.items = <<>> THEN Refused
  ELSE Conjunction([i \in DOMAIN c.items |-> CompileEntry(Sub, c.items[i].k, c.items[i].v)])

\* compile_condition(), of values nested up to n levels.
CompileAbove(Sub) == [c \in ValuesOver(DOMAIN Sub) |-> CompileMapping(Sub, c)]
CompileTo[n \in Nat] ==
  IF n = 0 THEN [c \in Scalars |-> Refused] ELSE CompileAbove(CompileTo[n - 1])

\* compile_condition().
Compile == CompileTo[MaxDepth]

ASSUME ConditionsAreValues == MaxDepth \in Nat /\ Conditions \subseteq DOMAIN Compile

-----------------------------------------------------------------------------
(* What a comparison says of two scalars, in the dialect.  Scalars of two    *)
(* types are not equal and not ordered.                                     *)

Same(a, b) == a.t = b.t /\ a.v = b.v
Below(a, b) == a.t = "num" /\ b.t = "num" /\ a.v < b.v
Satisfies(op, a, b) ==
  CASE op = "$eq" -> Same(a, b)
    [] op = "$ne" -> ~ Same(a, b)
    [] op = "$gt" -> Below(b, a)
    [] op = "$lt" -> Below(a, b)
    [] op = "$gte" -> Below(b, a) \/ Same(a, b)
    [] op = "$lte" -> Below(a, b) \/ Same(a, b)
    [] op = "$matches" -> a.t = "str" /\ b = AnyText

\* The lists of a context hold numbers; the least of none is smaller than any other.
Least(s)    == IF s = <<>> THEN 0 ELSE s[CHOOSE i \in DOMAIN s : \A j \in DOMAIN s : s[i] <= s[j]]
Greatest(s) == IF s = <<>> THEN 0 ELSE s[CHOOSE i \in DOMAIN s : \A j \in DOMAIN s : s[i] >= s[j]]

(* The grammar of the dialect, and what a condition in it means: each entry *)
(* of each mapping holds.                                                   *)
NonEmpty(S)  == {s \in Seq(S) : s # <<>>}
Orders       == [k : DOMAIN ServerOf \ {"$matches"}, v : Scalars]
WellFormedOps ==
  Orders \cup [k : {"$matches"}, v : {x \in Scalars : x.t = "str"}]
    \cup [k : {"$contains"}, v : Scalars]
    \cup [k : {"$count", "$min", "$max"},
          v : [t : {"map"}, items : {s \in Seq(Orders) : Len(s) = 1}]]
WellFormedEntries(W) ==
  [k : {"$not"}, v : W]
    \cup [k : {"$and", "$or"}, v : [t : {"list"}, items : NonEmpty(W)]]
    \cup [k : Fields, v : [t : {"map"}, items : NonEmpty(WellFormedOps)]]
WellFormedOver(W) == [t : {"map"}, items : NonEmpty(WellFormedEntries(W))]

\* The contexts that are in every one of the sets.
InAll(sets) == {ctx \in Contexts : \A S \in sets : ctx \in S}

MeansOp(f, op, x) ==
  {ctx \in Contexts :
     CASE op \in DOMAIN ServerOf -> Satisfies(op, ctx.one[f], x)
       [] op = "$contains" -> \E i \in DOMAIN ctx.all[f] : Same(Num(ctx.all[f][i]), x)
       [] op = "$count" -> Satisfies(x.items[1].k, Num(Len(ctx.all[f])), x.items[1].v)
       [] op = "$min" -> Satisfies(x.items[1].k, Num(Least(ctx.all[f])), x.items[1].v)
       [] op = "$max" -> Satisfies(x.items[1].k, Num(Greatest(ctx.all[f])), x.items[1].v)}
MeansEntry(Sub, k, x) ==
  CASE k = "$not" -> Contexts \ Sub[x]
    [] k = "$and" -> InAll({Sub[x.items[i]] : i \in DOMAIN x.items})
    [] k = "$or" -> UNION {Sub[x.items[i]] : i \in DOMAIN x.items}
    [] OTHER -> InAll({MeansOp(k, x.items[i].k, x.items[i].v) : i \in DOMAIN x.items})
\* The conditions of the dialect nested up to n levels, and the contexts in which each holds.
MeansAbove(Sub) ==
  [c \in WellFormedOver(DOMAIN Sub) |->
     InAll({MeansEntry(Sub, c.items[i].k, c.items[i].v) : i \in DOMAIN c.items})]
MeansTo[n \in Nat] == IF n = 0 THEN [c \in {} |-> {}] ELSE MeansAbove(MeansTo[n - 1])
Means == MeansTo[MaxDepth]

-----------------------------------------------------------------------------
(* What the server makes of the structured form, whose symbols have their   *)
(* usual meaning: nothing here looks at the tables of the compiler.         *)
Comparisons    == {"==", "!=", ">", "<", ">=", "<=", "matches"}
ListOperations == {"count", "contains", "min", "max"}
Compares(op, a, b) ==
  CASE op = "==" -> Same(a, b)
    [] op = "!=" -> ~ Same(a, b)
    [] op = ">"  -> Below(b, a)
    [] op = "<"  -> Below(a, b)
    [] op = ">=" -> Below(b, a) \/ Same(a, b)
    [] op = "<=" -> Below(a, b) \/ Same(a, b)
    [] op = "matches" -> a.t = "str" /\ b = AnyText

HoldsOfList(n, s) ==
  CASE n.operator = "contains" -> \E i \in DOMAIN s : Same(Num(s[i]), n.value)
    [] n.operator = "count" -> Compares(n.comparison, Num(Len(s)), n.value)
    [] n.operator = "min" -> Compares(n.comparison, Num(Least(s)), n.value)
    [] n.operator = "max" -> Compares(n.comparison, Num(Greatest(s)), n.value)

Leaves ==
  [type : {"field_comparison"}, field : Keys, operator : Comparisons, value : Scalars]
  \cup [type : {"list_operation"}, field : Keys, operator : ListOperations,
        value : Scalars, comparison : {"None"} \cup Comparisons]
NodesOf(T) == [type : {"logical"}, operator : {"AND", "OR", "NOT"}, conditions : NonEmpty(T)]

HoldsLeaf(t) ==
  {ctx \in Contexts : IF t.type = "field_comparison" THEN Compares(t.operator, ctx.one[t.field], t.value)
                      ELSE HoldsOfList(t, ctx.all[t.field])}
HoldsNode(Sub, t) ==
  CASE t.operator = "NOT" -> Contexts \ Sub[t.conditions[1]]
    [] t.operator = "AND" -> InAll({Sub[t.conditions[i]] : i \in DOMAIN t.conditions})
    [] t.operator = "OR" -> UNION {Sub[t.conditions[i]] : i \in DOMAIN t.conditions}
\* The trees nested up to n levels, and the contexts in which the server lets each pass.
HoldsAbove(Sub) ==
  [t \in Leaves \cup NodesOf(DOMAIN Sub) |->
     IF t.type = "logical" THEN HoldsNode(Sub, t) ELSE HoldsLeaf(t)]
HoldsTo[n \in Nat] ==
  IF n = 0 THEN [t \in Leaves |-> HoldsLeaf(t)] ELSE HoldsAbove(HoldsTo[n - 1])
\* A mapping of several keys takes two levels of a tree.
Holds == HoldsTo[2 * MaxDepth]

-----------------------------------------------------------------------------
NotCompiled == [type |-> "not compiled"]

ConditionInit == condition \in Conditions /\ compiled = NotCompiled
CompileCondition ==
  /\ compiled = NotCompiled
  /\ compiled' = Compile[condition]
  /\ UNCHANGED condition
ConditionSpec == ConditionInit /\ [][CompileCondition]_conditionVars

(* Exactly the conditions of the dialect are accepted, and the tree sent to *)
(* the API holds in a context exactly when the condition as written does:   *)
(* implicit conjunctions, nested operators and list operations included.    *)
CompiledMeansSame ==
  compiled # NotCompiled =>
    /\ (compiled # Refused) <=> (condition \in DOMAIN Means)
    /\ compiled # Refused => compiled \in DOMAIN Holds /\ Holds[compiled] = Means[condition]
=============================================================================
