-------------------------- MODULE MCWorkflowWiring --------------------------
(* Instances of WorkflowWiring for TLC. *)
EXTENDS WorkflowWiring, TLC

CONSTANTS n1, n2, n3, a, b, c

\* A chain, as a >> b >> c.  Nodes are not told apart.
Chain == {<<a, b>>, <<b, c>>}
Symmetry == Permutations(Nodes)
=============================================================================
