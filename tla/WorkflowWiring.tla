--------------------------- MODULE WorkflowWiring ---------------------------
(***************************************************************************)
(* How the edges of a workflow get from Python to the server: the `>>`     *)
(* operator and add_node() of ragnerock/resources/workflow.py, and the     *)
(* node requests of Session.commit().                                      *)
(*                                                                         *)
(* An edge is two halves, one in the lists of each of its nodes.  `>>`     *)
(* writes both into Python objects; each reaches the server in an update   *)
(* of its own, which replaces the whole lists of the node.                 *)
(***************************************************************************)
EXTENDS Integers, Sequences, FiniteSets, SequencesExt

CONSTANTS
  Nodes,     \* nodes the server can ever have in the workflow
  Objects,   \* WorkflowNode objects the caller holds
  Wires,     \* the pairs of objects the program wires with >>
  None,      \* the id of an object not yet created
  MaxStaged, \* bound: how many operations may be staged
  MaxOthers, \* bound: how often other clients wire, unwire or delete a node
  Faults     \* whether requests are refused, do not arrive or lose their answers

ASSUME WiringAssumption ==
  /\ Wires \subseteq Objects \X Objects
  /\ None \notin Nodes
  /\ MaxStaged \in Nat /\ MaxOthers \in Nat
  /\ Faults \in BOOLEAN

VARIABLES
  \* @ the caller's objects
  node,    \* node[o]: the id of the object
  ins,     \* ins[o]: in_nodes, a list without duplicates
  outs,    \* outs[o]: out_nodes
  queue,   \* the session's staged operations
  pos,     \* place in the queue of the commit() in progress, 0 for none
  \* @ the server
  life,    \* life[n]: "absent" (not created yet), "live" or "gone"
  inOf,    \* inOf[n]: the upstream nodes stored with n
  outOf,   \* outOf[n]: the downstream nodes stored with n
  others,  \* how often other clients changed the workflow
  \* @ history, read by properties only
  wired,   \* edges wired since the queue was last empty, as pairs of objects
  touched, \* nodes others rewired since the commit() in progress began
  unsettled \* nodes with half an edge somewhere, or lists older than the server's

objects == <<node, ins, outs>>
graph   == <<life, inOf, outOf, others>>
history == <<wired, touched, unsettled>>
vars    == <<objects, queue, pos, graph, history>>

Live(n) == n \in Nodes /\ life[n] = "live"

Op(op, o) == [op |-> op, obj |-> o]
Ops == [op : {"add", "update", "delete"}, obj : Objects]

Init ==
  /\ node = [o \in Objects |-> None]
  /\ ins = [o \in Objects |-> {}]
  /\ outs = [o \in Objects |-> {}]
  /\ queue = <<>>
  /\ pos = 0
  /\ life \in [Nodes -> {"absent", "live"}]
  /\ inOf = [n \in Nodes |-> {}]
  /\ outOf = [n \in Nodes |-> {}]
  /\ others = 0
  /\ wired = {}
  /\ touched = {}
  /\ unsettled = {}

-----------------------------------------------------------------------------
(* Calls of the program, between commits                                   *)

\* Staging the same operation again changes nothing.
Staged(q, op, o) == IF Contains(q, Op(op, o)) THEN q ELSE Append(q, Op(op, o))

Between == pos = 0

\* What was wired is not going to be written.
Unsettled == unsettled \cup {node[e[1]] : e \in wired} \cup {node[e[2]] : e \in wired}

\* Workflow.add_node: a new object, staged for creation.
AddNode(o) ==
  /\ Between
  /\ node[o] = None
  /\ queue' = Staged(queue, "add", o)
  /\ Len(queue') <= MaxStaged
  /\ UNCHANGED <<objects, pos, graph, wired, touched, unsettled>>

\* A node read with its workflow is a new object, even when the program holds
\* another one for the same node.
Load(o, n) ==
  /\ Between
  /\ node[o] = None /\ ~ Contains(queue, Op("add", o))
  /\ Live(n)
  /\ node' = [node EXCEPT ![o] = n]
  /\ ins' = [ins EXCEPT ![o] = inOf[n]]
  /\ outs' = [outs EXCEPT ![o] = outOf[n]]
  /\ unsettled' = unsettled \cup {m \in {n} : \E p \in Objects : node[p] = n}
  /\ UNCHANGED <<queue, pos, graph, wired, touched>>

SlipWireOnce(a, b) ==     \* an edge the objects know is not staged again
  /\ Between
  /\ node[a] # None /\ node[b] # None
  /\ outs' = [outs EXCEPT ![a] = @ \cup {node[b]}]
  /\ ins' = [ins EXCEPT ![b] = @ \cup {node[a]}]
  /\ queue' = IF node[b] \in outs[a] /\ node[a] \in ins[b] THEN queue
              ELSE Staged(Staged(queue, "update", a), "update", b)
  /\ Len(queue') <= MaxStaged
  /\ wired' = wired \cup {<<a, b>>}
  /\ UNCHANGED <<node, pos, graph, touched, unsettled>>

\* a >> b: both halves are written and both nodes staged.  Wiring a list of nodes
\* wires them one by one, and stops at the first that has no id.
Wire(a, b) ==
  /\ Between
  /\ node[a] # None /\ node[b] # None
  /\ outs' = [outs EXCEPT ![a] = @ \cup {node[b]}]
  /\ ins' = [ins EXCEPT ![b] = @ \cup {node[a]}]
  /\ queue' = Staged(Staged(queue, "update", a), "update", b)
  /\ Len(queue') <= MaxStaged
  /\ wired' = wired \cup {<<a, b>>}
  /\ UNCHANGED <<node, pos, graph, touched, unsettled>>

\* session.update(node), after other fields than the edges were edited.
UpdateNode(o) ==
  /\ Between
  /\ node[o] # None
  /\ queue' = Staged(queue, "update", o)
  /\ Len(queue') <= MaxStaged
  /\ UNCHANGED <<objects, pos, graph, wired, touched, unsettled>>

\* session.delete(node).
DeleteNode(o) ==
  /\ Between
  /\ \/ \E k \in DOMAIN queue : queue[k] = Op("add", o) /\ queue' = RemoveAt(queue, k)
     \/ /\ node[o] # None
        /\ queue' = Staged(queue, "delete", o)
  /\ Len(queue') <= MaxStaged
  /\ UNCHANGED <<objects, pos, graph, wired, touched, unsettled>>

\* rollback() empties the queue; the lists of the objects keep what was wired.
Rollback ==
  /\ Between
  /\ queue # <<>>
  /\ queue' = <<>>
  /\ wired' = {}
  /\ unsettled' = Unsettled
  /\ UNCHANGED <<objects, pos, graph, touched>>

Commit ==
  /\ Between
  /\ queue # <<>>
  /\ pos' = 1
  /\ UNCHANGED <<objects, queue, graph, history>>

-----------------------------------------------------------------------------
(* The requests of a commit                                                *)

Step == queue[pos]

Create(n) ==
  /\ Step.op = "add"
  /\ life[n] = "absent"
  /\ life' = [life EXCEPT ![n] = "live"]
  /\ UNCHANGED <<inOf, outOf, others>>

SlipUpdate(n) ==          \* the upstream nodes are not sent
  /\ Step.op = "update"
  /\ n = node[Step.obj] /\ Live(n)
  /\ outOf' = [outOf EXCEPT ![n] = outs[Step.obj]]
  /\ UNCHANGED <<inOf, life, others>>

\* The lists of the object replace those of the server.
Update(n) ==
  /\ Step.op = "update"
  /\ n = node[Step.obj] /\ Live(n)
  /\ inOf' = [inOf EXCEPT ![n] = ins[Step.obj]]
  /\ outOf' = [outOf EXCEPT ![n] = outs[Step.obj]]
  /\ UNCHANGED <<life, others>>

Near(n) == {n} \cup inOf[n] \cup outOf[n]

\* The server takes a node out and joins its neighbours, or only parts them.
Unlink(n) ==
  /\ life' = [life EXCEPT ![n] = "gone"]
  /\ \E join \in BOOLEAN :
       /\ inOf' = [m \in Nodes |->
                     (inOf[m] \ {n}) \cup IF join /\ m \in outOf[n] THEN inOf[n] \ {n} ELSE {}]
       /\ outOf' = [m \in Nodes |->
                      (outOf[m] \ {n}) \cup IF join /\ m \in inOf[n] THEN outOf[n] \ {n} ELSE {}]

Delete(n) ==
  /\ Step.op = "delete"
  /\ n = node[Step.obj] /\ Live(n)
  /\ Unlink(n)
  /\ UNCHANGED others

Serve(n) == Create(n) \/ Update(n) \/ Delete(n)

\* The answer of a node request is laid over the object; a delete has none.
Hydrate(o, n) ==
  IF Step.op = "delete" THEN UNCHANGED objects
  ELSE /\ node' = [node EXCEPT ![o] = n]
       /\ ins' = [ins EXCEPT ![o] = inOf'[n]]
       /\ outs' = [outs EXCEPT ![o] = outOf'[n]]

SlipLeave == queue' = <<>> /\ wired' = {} /\ touched' = {} /\ UNCHANGED pos   \* the place is kept

\* commit() is left, with or without an exception: the queue is empty.
Leave == queue' = <<>> /\ pos' = 0 /\ wired' = {} /\ touched' = {}

Succeeds ==
  /\ pos # 0
  /\ \E n \in Nodes :
       /\ Serve(n)
       /\ Hydrate(Step.obj, n)
       /\ unsettled' = unsettled \cup IF Step.op = "delete" THEN Near(n) ELSE {}
  /\ IF pos < Len(queue)
     THEN pos' = pos + 1 /\ UNCHANGED <<queue, wired, touched>>
     ELSE Leave

\* The first request that raises ends the commit(), carried out or not.
Fails ==
  /\ pos # 0
  /\ \/ /\ Faults \/ (Step.op # "add" /\ ~ Live(node[Step.obj]))
        /\ unsettled' = Unsettled
        /\ UNCHANGED graph
     \/ /\ Faults
        /\ \E n \in Nodes :
             /\ Serve(n)
             /\ unsettled' = Unsettled \cup IF Step.op = "delete" THEN Near(n) ELSE {}
  /\ Leave
  /\ UNCHANGED objects

-----------------------------------------------------------------------------
(* Other clients of the project                                            *)

OtherEdge(m, n) ==
  /\ others < MaxOthers /\ others' = others + 1
  /\ Live(m) /\ Live(n)
  /\ \/ /\ outOf' = [outOf EXCEPT ![m] = @ \cup {n}]
        /\ inOf' = [inOf EXCEPT ![n] = @ \cup {m}]
     \/ /\ outOf' = [outOf EXCEPT ![m] = @ \ {n}]
        /\ inOf' = [inOf EXCEPT ![n] = @ \ {m}]
  /\ touched' = IF pos = 0 THEN {} ELSE touched \cup {m, n}
  /\ unsettled' = unsettled \cup {m, n}
  /\ UNCHANGED <<objects, queue, pos, life, wired>>

OtherDelete(n) ==
  /\ others < MaxOthers /\ others' = others + 1
  /\ Live(n)
  /\ Unlink(n)
  /\ unsettled' = unsettled \cup Near(n)
  /\ UNCHANGED <<objects, queue, pos, wired, touched>>

-----------------------------------------------------------------------------

Next ==
  \/ \E o \in Objects : AddNode(o) \/ UpdateNode(o) \/ DeleteNode(o)
                        \/ \E n \in Nodes : Load(o, n)
  \/ \E e \in Wires : Wire(e[1], e[2])
  \/ Rollback \/ Commit \/ Succeeds \/ Fails
  \/ \E m, n \in Nodes : OtherEdge(m, n)
  \/ \E n \in Nodes : OtherDelete(n)

Spec == Init /\ [][Next]_vars

-----------------------------------------------------------------------------
(* Properties *)

TypeOK ==
  /\ node \in [Objects -> Nodes \cup {None}]
  /\ ins \in [Objects -> SUBSET Nodes] /\ outs \in [Objects -> SUBSET Nodes]
  /\ queue \in Seq(Ops) /\ pos \in 0..Len(queue)
  /\ life \in [Nodes -> {"absent", "live", "gone"}]
  /\ inOf \in [Nodes -> SUBSET Nodes] /\ outOf \in [Nodes -> SUBSET Nodes]
  /\ others \in 0..MaxOthers
  /\ wired \subseteq Wires
  /\ touched \subseteq Nodes /\ unsettled \subseteq Nodes

\* The only object of its node in the batch.
Sole(o) == \A p \in Objects : Contains(queue, Op("update", p)) /\ node[p] = node[o] => p = o

\* When commit() returns, every edge wired since the last commit() or rollback()
\* is on the server, both halves of it; also one that was wired before, in a
\* batch that failed or was rolled back.  Excepted are nodes that somebody else
\* changed meanwhile and nodes updated through two objects.
BatchIsWhole ==
  [][Succeeds /\ pos = Len(queue) =>
       \A e \in wired :
         LET m == node[e[1]]
             n == node[e[2]] IN
         /\ Sole(e[1]) /\ Sole(e[2])
         /\ life'[m] = "live" /\ life'[n] = "live" /\ touched \cap {m, n} = {}
         => n \in outOf'[m] /\ m \in inOf'[n]]_vars

\* Between commits no edge is on one of its nodes only, but where the last
\* attempt to write it failed or was rolled back, another client or a deletion
\* changed the node, or the program holds two objects for it.
HalvesMeet ==
  pos = 0 =>
    \A m, n \in Nodes \ unsettled : Live(m) /\ Live(n) => (n \in outOf[m] <=> m \in inOf[n])
=============================================================================
