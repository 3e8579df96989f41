------------------------ MODULE MCConditionCompiler ------------------------
(* Conditions and contexts for TLC. *)
EXTENDS ConditionCompiler

Items(s)    == [t |-> "list", items |-> s]
Map(es)     == [t |-> "map", items |-> es]
Entry(k, x) == [k |-> k, v |-> x]
Just(k, x)  == Map(<<Entry(k, x)>>)

MCFields == {"a", "b"}
Plain   == {Num(1), AnyText}
Atoms   == Plain \cup {Items(<<>>), Map(<<>>)}
OpKeys  == DOMAIN ServerOf \cup DOMAIN ListOp \cup {"$size"}

\* Arguments of an operator: atoms, comparisons, and mappings of two comparisons.
OpArgs == Atoms \cup {Just(k, x) : k \in {"$gt", "$ne", "$matches", "$min"}, x \in Atoms}
                \cup {Map(<<Entry("$gt", Num(0)), Entry("$lt", Num(2))>>)}
FieldOps == {Just(op, x) : op \in OpKeys, x \in OpArgs}
Simple == {Just("$gt", Num(1)), Just("$lte", Num(1)), Just("$matches", AnyText),
           Just("$count", Just("$gte", Num(1))), Just("$contains", Num(2)), Map(<<>>), Num(1),
           Just("$matches", Num(1)), Map(<<Entry("$gt", Num(0)), Entry("$lt", Num(2))>>)}
Level1 == {Just(f, ops) : f \in MCFields, ops \in FieldOps \cup Simple}
            \cup {Just(k, Just("$eq", Num(1))) : k \in OpKeys \cup {"", "$nor"}} \cup Atoms
Simplest == {Just(f, ops) : f \in MCFields, ops \in Simple} \cup Atoms
Pairs  == {<<x, y>> : x \in Simplest, y \in Simplest}
Level2 == {Just("$not", x) : x \in Simplest} \cup {Just("$not", Items(<<x>>)) : x \in Simplest}
            \cup {Just(k, Items(p)) : k \in {"$and", "$or"}, p \in Pairs}
            \cup {Just(k, x) : k \in {"$and", "$or"}, x \in Atoms}
            \cup {Map(<<Entry("a", x), Entry("b", y)>>) : x \in Simple, y \in Simple}
Deep   == {Just("$not", x) : x \in Level2}
            \cup {Map(<<Entry("$or", Items(p)), Entry("a", Just("$gt", Num(0)))>>) : p \in Pairs}
MCConditions == Level1 \cup Level2 \cup Deep

MCKeys == MCFields \cup OpKeys \cup DOMAIN LogicalOp \cup {"", "$nor"}
MCContexts == {[one |-> [a |-> x, b |-> y], all |-> [a |-> s, b |-> <<1, 2>>]] :
                 x \in {Num(0), Num(2), AnyText}, y \in {Num(1)}, s \in {<<>>, <<1>>, <<2, 0>>}}
=============================================================================
