--------------------------- MODULE MCCommandLine ---------------------------
(* Instances of CommandLine for TLC. *)
EXTENDS CommandLine

CONSTANTS r1, r2, e1

Entry(k, s, i, f) == [key |-> k, source |-> s, item |-> i, field |-> f, short |-> {}]
ShortAt(e, vs)    == [e EXCEPT !.short = vs]     \* in these versions
Doc(a, es)        == [authored |-> a, entries |-> es]
Local  == Entry("a", "stringData", "text", FALSE)
FromR1 == Entry("b", "fromCloud", r1, FALSE)

\* Nothing, another kind, an empty source, keys of one document and of two that share
\* a reference, a document that is found broken late, and a key with two sources.
MCManifests ==
  {<<>>, <<Doc({}, <<>>)>>, <<Doc({"fromEnv"}, <<>>)>>,
   <<Doc({"stringData", "fromCloud"}, <<Local, FromR1, Entry("c", "fromCloud", r1, TRUE)>>),
     Doc({"fromEnv", "fromCloud"}, <<ShortAt(Entry("a", "fromEnv", e1, FALSE), {0}), FromR1,
                                     ShortAt(Entry("e", "fromCloud", r2, TRUE), {2})>>)>>,
   <<Doc({"fromCloud"}, <<FromR1>>), Doc({"data"}, <<Entry("a", "data", Broken, FALSE)>>)>>,
   <<Doc({"stringData", "fromCloud"}, <<Local, Entry("a", "fromCloud", r1, FALSE)>>)>>}

Cmd(v, k, ns, f) == [verb |-> v, kind |-> k, names |-> ns, filter |-> f]
MCCommands ==
  {Cmd("apply", "Document", <<>>, "none"), Cmd("query", "Document", <<>>, "none")}
    \cup {Cmd("get", k, ns, f) : k \in Known \cup {"unknown"}, ns \in {<<>>, <<11>>, <<2>>},
                                 f \in {"none", "given", "malformed"}}
    \cup {Cmd("delete", k, <<11>>, "none") : k \in Known \cup {"unknown"}}
    \cup {Cmd("run", "Workflow", ns, "none") : ns \in {<<11>>, <<11, 12>>, <<11, 12, 11>>}}

\* Three records read in pages of two; the second name is borne by the last only.
Listed == <<[id |-> 1, name |-> 13], [id |-> 2, name |-> 12], [id |-> 3, name |-> 11]>>
MCWorlds == {[k \in Known |-> IF k \in {"Document"} THEN SubSeq(Listed, 2, 3) ELSE Listed]}
=============================================================================
