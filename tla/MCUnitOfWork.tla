---------------------------- MODULE MCUnitOfWork ----------------------------
(* Instances of UnitOfWork for TLC. *)
EXTENDS UnitOfWork, TLC

CONSTANTS doc, chunk, operator

\* A class checked before the flush, one that has no update and is checked
\* during the flush, and one with every call that is checked during the flush.
MCKindOf == [o \in {doc, chunk, operator} |->
               CASE o = doc -> "Document"
                 [] o = chunk -> "Chunk"
                 [] o = operator -> "Operator"]
MCKinds == [o \in Objects |-> MCKindOf[o]]
=============================================================================
