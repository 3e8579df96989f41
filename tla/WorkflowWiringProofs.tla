------------------------ MODULE WorkflowWiringProofs ------------------------
(***************************************************************************)
(* What holds of the edges of a workflow for any number of nodes, objects   *)
(* and staged operations, whatever fails and whatever other clients do;     *)
(* and, at the end, of the conditions a workflow's nodes run on, whatever   *)
(* their depth and their fields.                                           *)
(*                                                                         *)
(* The two lists of a node are told apart by a direction d, so that what    *)
(* is said of one end of an edge is said of the other.                      *)
(***************************************************************************)
EXTENDS WorkflowWiring, ConditionCompiler, QueueTheorems

Ways       == {"out", "in"}
Back(d)    == IF d = "out" THEN "in" ELSE "out"
Mine(d)    == IF d = "out" THEN outs ELSE ins
Theirs(d)  == IF d = "out" THEN outOf ELSE inOf
Near1(d, e) == IF d = "out" THEN e[1] ELSE e[2]
Far(d, e)   == IF d = "out" THEN e[2] ELSE e[1]

\* The operations of the queue that a commit() has served, and the others.
ServedOf(q, p) == {q[k] : k \in {j \in DOMAIN q : j < p}}
DueOf(q, p)    == {q[k] : k \in {j \in DOMAIN q : j >= p}}
Served == ServedOf(queue, pos)
Due    == DueOf(queue, pos)
Given  == ToSet(queue)

-----------------------------------------------------------------------------
(* The invariant                                                           *)

\* Nothing is staged twice, and an object has an id unless its creation is due.
Distinct == IsInjective(queue)
Fresh == \A p \in Given :
           /\ p.op # "add" => node[p.obj] # None
           /\ p.op = "add" /\ p \in Due => node[p.obj] = None

\* Nodes that are known to anybody have been created.
Alive ==
  /\ \A o \in Objects : node[o] # None => life[node[o]] # "absent"
  /\ \A d \in Ways :
       /\ \A o \in Objects, y \in Nodes : y \in Mine(d)[o] => life[y] # "absent"
       /\ \A n, y \in Nodes :
            y \in Theirs(d)[n] => life[y] # "absent" /\ life[n] # "absent"

\* An edge that was wired is in the lists of both objects, and both are staged.
WiredOK ==
  \A e \in wired, d \in Ways :
    /\ node[Near1(d, e)] # None
    /\ Op("update", Near1(d, e)) \in Given
    /\ node[Far(d, e)] \in Mine(d)[Near1(d, e)]

\* A half that was served is on the server.
Clean(e) == Live(node[e[1]]) /\ Live(node[e[2]]) /\ touched \cap {node[e[1]], node[e[2]]} = {}
Written ==
  \A e \in wired, d \in Ways :
    (/\ Op("update", Near1(d, e)) \in Served
     /\ Sole(Near1(d, e))
     /\ Clean(e))
    => node[Far(d, e)] \in Theirs(d)[node[Near1(d, e)]]

IInv == TypeOK /\ Distinct /\ Fresh /\ Alive /\ WiredOK /\ Written

-----------------------------------------------------------------------------
(* The queue and what is served of it                                      *)

LEMMA WayType ==
  ASSUME TypeOK, NEW d \in Ways
  PROVE  /\ Mine(d) \in [Objects -> SUBSET Nodes]
         /\ Theirs(d) \in [Nodes -> SUBSET Nodes]
         /\ Back(d) \in Ways /\ Back(Back(d)) = d
BY DEF TypeOK, Ways, Mine, Theirs, Back

LEMMA EndType ==
  ASSUME TypeOK, NEW d \in Ways, NEW e \in wired
  PROVE  /\ e \in Wires /\ e[1] \in Objects /\ e[2] \in Objects
         /\ Near1(d, e) \in Objects /\ Far(d, e) \in Objects
         /\ Near1(Back(d), e) = Far(d, e) /\ Far(Back(d), e) = Near1(d, e)
BY WiringAssumption DEF TypeOK, Ways, Near1, Far, Back

LEMMA PartsOf ==
  ASSUME NEW q \in Seq(Ops), NEW p \in 0..Len(q)
  PROVE  /\ Len(q) \in Nat /\ DOMAIN q = 1..Len(q) /\ p \in Nat
         /\ ServedOf(q, p) \cup DueOf(q, p) = ToSet(q) /\ ToSet(q) \subseteq Ops
         /\ \A x : Contains(q, x) <=> x \in ToSet(q)
         /\ p = 0 => ServedOf(q, p) = {} /\ DueOf(q, p) = ToSet(q)
<1>1. Len(q) \in Nat /\ DOMAIN q = 1..Len(q) /\ p \in Nat
  BY LenProperties
<1>2. \A k \in DOMAIN q : (k < p \/ k >= p) /\ q[k] \in Ops
  BY <1>1, ElementOfSeq
<1>3. ServedOf(q, p) \cup DueOf(q, p) = ToSet(q) /\ ToSet(q) \subseteq Ops
  BY <1>2 DEF ServedOf, DueOf, ToSet
<1>4. \A x : Contains(q, x) <=> x \in ToSet(q)
  BY <1>1 DEF Contains, ToSet
<1>5. ASSUME p = 0 PROVE ServedOf(q, p) = {} /\ DueOf(q, p) = ToSet(q)
  <2>1. \A k \in DOMAIN q : ~ (k < p)
    BY <1>1, <1>5
  <2>2. ServedOf(q, p) = {}
    BY <2>1 DEF ServedOf
  <2> QED
    BY <2>2, <1>3
<1> QED
  BY <1>1, <1>3, <1>4, <1>5

LEMMA QueueType ==
  ASSUME TypeOK
  PROVE  /\ Len(queue) \in Nat /\ DOMAIN queue = 1..Len(queue) /\ pos \in Nat
         /\ Given = Served \cup Due /\ Given \subseteq Ops
         /\ \A p : Contains(queue, p) <=> p \in Given
         /\ pos = 0 => Served = {} /\ Due = Given
BY PartsOf DEF TypeOK, Served, Due, Given

\* While a commit() runs, an operation is due that was not served.
LEMMA StepType ==
  ASSUME TypeOK, Distinct, pos # 0
  PROVE  /\ Step \in Due /\ Step \in Given /\ Step \in Ops /\ Step.obj \in Objects
         /\ Step = Op(Step.op, Step.obj)
         /\ Step \notin Served
<1>1. pos \in DOMAIN queue
  BY QueueType DEF TypeOK
<1>2. Step \in Due /\ Step \in Given /\ Step \in Ops
  BY <1>1, QueueType DEF Step, Due, DueOf
<1>3. Step.obj \in Objects /\ Step = Op(Step.op, Step.obj)
  BY <1>2 DEF Ops, Op
<1>4. ASSUME NEW k \in DOMAIN queue, k < pos PROVE queue[k] # Step
  BY <1>1, <1>4, QueueType DEF Step, Distinct, IsInjective
<1> QED
  BY <1>2, <1>3, <1>4 DEF Served, ServedOf

\* Staging adds the operation, once.
LEMMA StagedMembers ==
  ASSUME NEW q \in Seq(Ops), IsInjective(q), NEW o \in Objects,
         NEW op \in {"add", "update", "delete"}
  PROVE  /\ Staged(q, op, o) \in Seq(Ops)
         /\ ToSet(Staged(q, op, o)) = ToSet(q) \cup {Op(op, o)}
         /\ IsInjective(Staged(q, op, o))
<1>1. Op(op, o) \in Ops
  BY DEF Op, Ops
<1>2. Contains(q, Op(op, o)) <=> Op(op, o) \in ToSet(q)
  BY LenProperties DEF Contains, ToSet
<1>3. CASE Contains(q, Op(op, o))
  BY <1>2, <1>3 DEF Staged
<1>4. CASE ~ Contains(q, Op(op, o))
  BY <1>1, <1>2, <1>4, AppendMembers DEF Staged
<1> QED
  BY <1>3, <1>4

\* Between two calls everything staged is due.
LEMMA QueueThen ==
  ASSUME queue' \in Seq(Ops), pos' \in 0..Len(queue')
  PROVE  /\ Given' = Served' \cup Due' /\ Given' \subseteq Ops
         /\ \A p : Contains(queue, p)' <=> p \in Given'
         /\ pos' = 0 => Served' = {} /\ Due' = Given'
BY PartsOf DEF Served, Due, Given, Contains

LEMMA EmptyThen ==
  ASSUME queue' = <<>>, pos' = 0
  PROVE  /\ queue' \in Seq(Ops) /\ pos' \in 0..Len(queue')
         /\ Distinct' /\ Given' = {} /\ Served' = {} /\ Due' = {}
<1>1. queue' \in Seq(Ops) /\ Len(queue') = 0 /\ DOMAIN queue' = {}
  BY EmptySeq
<1>2. Given' = {} /\ Distinct'
  BY <1>1 DEF Given, ToSet, Distinct, IsInjective
<1> QED
  BY <1>1, <1>2, QueueThen

\* commit() goes to the next operation, or is left.
LEMMA Advance ==
  ASSUME TypeOK, Distinct, pos # 0, pos < Len(queue), pos' = pos + 1, queue' = queue
  PROVE  /\ queue' \in Seq(Ops) /\ pos' \in 0..Len(queue') /\ Distinct'
         /\ Given' = Given /\ Served' = Served \cup {Step} /\ Due' = Due \ {Step}
<1>1. queue \in Seq(Ops) /\ pos \in 0..Len(queue)
  BY DEF TypeOK
<1>2. queue' \in Seq(Ops) /\ pos' \in 0..Len(queue') /\ Distinct' /\ Given' = Given
  BY <1>1, QueueType DEF Distinct, Given
<1>3. pos \in DOMAIN queue /\ \A k \in DOMAIN queue : k < pos + 1 <=> k < pos \/ k = pos
  BY QueueType DEF TypeOK
<1>4. Served' = Served \cup {Step}
  BY <1>3 DEF Served, ServedOf, Step
<1>5. \A k \in DOMAIN queue : k >= pos + 1 <=> k >= pos /\ k # pos
  BY QueueType DEF TypeOK
<1>6. \A k \in DOMAIN queue : k # pos <=> queue[k] # Step
  BY <1>3 DEF Distinct, IsInjective, Step
<1>7. Due' = Due \ {Step}
  BY <1>5, <1>6 DEF Due, DueOf
<1> QED
  BY <1>2, <1>4, <1>7

LEMMA LastServed ==
  ASSUME TypeOK, Distinct, pos # 0, ~ (pos < Len(queue))
  PROVE  Given \subseteq Served \cup {Step}
<1>1. /\ pos = Len(queue)
      /\ pos \in DOMAIN queue
  <2>1. Len(queue) \in Nat /\ pos \in 0..Len(queue) /\ DOMAIN queue = 1..Len(queue)
    BY QueueType DEF TypeOK
  <2>2. PICK m \in Nat : m = Len(queue)
    BY <2>1
  <2>3. pos \in 0..m /\ ~ (pos < m)
    BY <2>1, <2>2
  <2>4. pos = m
    BY <2>3
  <2> QED
    BY <2>1, <2>2, <2>4
<1>2. \A k \in DOMAIN queue : k < pos \/ k = pos
  BY <1>1, QueueType
<1>3. ASSUME NEW k \in DOMAIN queue PROVE queue[k] \in Served \cup {Step}
  BY <1>2 DEF Served, ServedOf, Step
<1> QED
  BY <1>3 DEF Given, ToSet

-----------------------------------------------------------------------------
(* What a request does to the server                                       *)

\* A node is taken out: its neighbours lose it, and may gain its others.
Parted(n, d) ==
  /\ life' = [life EXCEPT ![n] = "gone"]
  /\ Theirs(d)' \in [Nodes -> SUBSET Nodes]
  /\ \A m \in Nodes :
       /\ Theirs(d)[m] \ {n} \subseteq Theirs(d)'[m]
       /\ Theirs(d)'[m] \subseteq (Theirs(d)[m] \cup Theirs(d)[n]) \ {n}
       /\ m \notin Theirs(Back(d))[n] => Theirs(d)'[m] = Theirs(d)[m] \ {n}

LEMMA UnlinkParts ==
  ASSUME TypeOK, NEW n \in Nodes, Unlink(n), NEW d \in Ways
  PROVE  Parted(n, d)
<1>1. life' = [life EXCEPT ![n] = "gone"]
  BY DEF Unlink
<1>2. PICK join \in BOOLEAN :
        /\ inOf' = [m \in Nodes |->
             (inOf[m] \ {n}) \cup IF join /\ m \in outOf[n] THEN inOf[n] \ {n} ELSE {}]
        /\ outOf' = [m \in Nodes |->
             (outOf[m] \ {n}) \cup IF join /\ m \in inOf[n] THEN outOf[n] \ {n} ELSE {}]
  BY DEF Unlink
<1>3. CASE d = "out"
  <2>1. Theirs(d) = outOf /\ Theirs(d)' = outOf' /\ Theirs(Back(d)) = inOf
    BY <1>3 DEF Theirs, Back
  <2>2. \A m \in Nodes :
          outOf'[m] = (outOf[m] \ {n}) \cup IF join /\ m \in inOf[n] THEN outOf[n] \ {n} ELSE {}
    BY <1>2
  <2>3. outOf' \in [Nodes -> SUBSET Nodes]
    BY <1>2 DEF TypeOK
  <2> QED
    BY <1>1, <2>1, <2>2, <2>3 DEF Parted
<1>4. CASE d = "in"
  <2>1. Theirs(d) = inOf /\ Theirs(d)' = inOf' /\ Theirs(Back(d)) = outOf
    BY <1>4 DEF Theirs, Back
  <2>2. \A m \in Nodes :
          inOf'[m] = (inOf[m] \ {n}) \cup IF join /\ m \in outOf[n] THEN inOf[n] \ {n} ELSE {}
    BY <1>2
  <2>3. inOf' \in [Nodes -> SUBSET Nodes]
    BY <1>2 DEF TypeOK
  <2> QED
    BY <1>1, <2>1, <2>2, <2>3 DEF Parted
<1> QED
  BY <1>3, <1>4 DEF Ways

Made(n) == /\ Step.op = "add" /\ life[n] = "absent"
           /\ life' = [life EXCEPT ![n] = "live"]
           /\ inOf' = inOf /\ outOf' = outOf
Put(n, d) == /\ Step.op = "update" /\ n = node[Step.obj] /\ Live(n) /\ life' = life
             /\ Theirs(d)' = [Theirs(d) EXCEPT ![n] = Mine(d)[Step.obj]]

LEMMA ServeEffect ==
  ASSUME TypeOK, NEW n \in Nodes, Serve(n), NEW d \in Ways
  PROVE  \/ Made(n)
         \/ Put(n, d)
         \/ Step.op = "delete" /\ n = node[Step.obj] /\ Live(n) /\ Unlink(n) /\ Parted(n, d)
<1>1. CASE Create(n)
  BY <1>1 DEF Create, Made
<1>2. CASE Update(n)
  BY <1>2 DEF Update, Put, Theirs, Mine, Ways
<1>3. CASE Delete(n)
  BY <1>3, UnlinkParts DEF Delete
<1> QED
  BY <1>1, <1>2, <1>3 DEF Serve

LEMMA ServeType ==
  ASSUME TypeOK, NEW n \in Nodes, Serve(n), pos # 0, Distinct
  PROVE  /\ life' \in [Nodes -> {"absent", "live", "gone"}]
         /\ inOf' \in [Nodes -> SUBSET Nodes] /\ outOf' \in [Nodes -> SUBSET Nodes]
         /\ others' \in 0..MaxOthers
         /\ Step.op = "add" => life'[n] = "live" /\ life[n] = "absent"
         /\ Step.op # "add" => n = node[Step.obj] /\ life[n] = "live"
<1>1. CASE Create(n)
  BY <1>1 DEF Create, TypeOK
<1>2. CASE Update(n)
  BY <1>2, StepType DEF Update, TypeOK, Live
<1>3. CASE Delete(n)
  <2>1. Parted(n, "out") /\ Parted(n, "in")
    BY <1>3, UnlinkParts DEF Delete, Ways
  <2>2. inOf' \in [Nodes -> SUBSET Nodes] /\ outOf' \in [Nodes -> SUBSET Nodes]
    BY <2>1 DEF Parted, Theirs
  <2>3. life' \in [Nodes -> {"absent", "live", "gone"}]
    BY <2>1 DEF Parted, TypeOK
  <2> QED
    BY <1>3, <2>2, <2>3 DEF Delete, TypeOK, Live
<1> QED
  BY <1>1, <1>2, <1>3 DEF Serve

\* Whoever is known after a request was known before it, or has been created.
KnownThen ==
  /\ \A n \in Nodes : life[n] # "absent" => life'[n] # "absent"
  /\ \A d \in Ways, n, y \in Nodes :
       y \in Theirs(d)'[n] => life'[y] # "absent" /\ life'[n] # "absent"

LEMMA UnlinkKnown ==
  ASSUME TypeOK, Alive, NEW n \in Nodes, life[n] = "live", Unlink(n)
  PROVE  KnownThen
<1>1. ASSUME NEW m \in Nodes, life[m] # "absent" PROVE life'[m] # "absent"
  BY <1>1 DEF Unlink, TypeOK
<1>2. ASSUME NEW d \in Ways, NEW m \in Nodes, NEW y \in Nodes, y \in Theirs(d)'[m]
      PROVE  life[y] # "absent" /\ life[m] # "absent"
  <2>1. Parted(n, d) /\ Back(d) \in Ways
    BY UnlinkParts, WayType
  <2>2. CASE y \in Theirs(d)[m]
    BY <2>2 DEF Alive
  <2>3. CASE y \notin Theirs(d)[m]
    <3>1. y \in Theirs(d)[n] /\ m \in Theirs(Back(d))[n]
      BY <1>2, <2>1, <2>3 DEF Parted
    <3> QED
      BY <2>1, <3>1 DEF Alive
  <2> QED
    BY <2>2, <2>3
<1> QED
  BY <1>1, <1>2 DEF KnownThen

LEMMA ServeKnown ==
  ASSUME TypeOK, Alive, Distinct, pos # 0, NEW n \in Nodes, Serve(n)
  PROVE  KnownThen
<1>1. CASE Create(n)
  <2>1. \A m \in Nodes : life'[m] # "absent" \/ (life[m] = "absent" /\ m # n)
    BY <1>1 DEF Create, TypeOK
  <2>2. \A d \in Ways : Theirs(d)' = Theirs(d)
    BY <1>1 DEF Create, Theirs
  <2> QED
    BY <2>1, <2>2 DEF KnownThen, Alive
<1>2. CASE Update(n)
  <2>1. life' = life /\ life[n] # "absent" /\ Step.obj \in Objects
    BY <1>2, StepType DEF Update, Live
  <2>2. ASSUME NEW d \in Ways, NEW m \in Nodes, NEW y \in Nodes, y \in Theirs(d)'[m]
        PROVE  y \in Theirs(d)[m] \/ (m = n /\ y \in Mine(d)[Step.obj])
    <3>1. Theirs(d)' = [Theirs(d) EXCEPT ![n] = Mine(d)[Step.obj]]
      BY <1>2 DEF Update, Theirs, Mine, Ways
    <3> QED
      BY <2>2, <3>1, WayType
  <2>3. ASSUME NEW d \in Ways, NEW m \in Nodes, NEW y \in Nodes, y \in Theirs(d)'[m]
        PROVE  life[y] # "absent" /\ life[m] # "absent"
    BY <2>1, <2>2, <2>3 DEF Alive
  <2> QED
    BY <2>1, <2>3 DEF KnownThen
<1>3. CASE Delete(n)
  BY <1>3, UnlinkKnown DEF Delete, Live
<1> QED
  BY <1>1, <1>2, <1>3 DEF Serve

-----------------------------------------------------------------------------
(* The invariant is kept: calls of the program                             *)

LEMMA InitIInv == Init => IInv
<1> SUFFICES ASSUME Init PROVE IInv
  OBVIOUS
<1>1. TypeOK
  BY WiringAssumption, EmptySeq DEF Init, TypeOK
<1>2. DOMAIN queue = {}
  BY DEF Init
<1>3. Distinct /\ Given = {} /\ Served = {}
  BY <1>2, <1>1, QueueType DEF Init, Distinct, IsInjective, Given, ToSet
<1>4. Fresh /\ WiredOK /\ Written
  BY <1>3, <1>1, QueueType DEF Init, Fresh, WiredOK, Written
<1>5. ASSUME NEW d \in Ways
      PROVE  /\ \A o \in Objects : Mine(d)[o] = {}
             /\ \A n \in Nodes : Theirs(d)[n] = {}
  BY DEF Init, Mine, Theirs
<1>6. Alive
  BY <1>5 DEF Alive, Init
<1> QED
  BY <1>1, <1>3, <1>4, <1>6 DEF IInv

\* Calls that stage or cancel operations and leave everything else alone.
LEMMA StageStep ==
  ASSUME IInv, UNCHANGED <<objects, graph, wired>>, pos = 0,
         queue' \in Seq(Ops), pos' \in 0..Len(queue'), IsInjective(queue'), Served' = {},
         touched' \subseteq Nodes, unsettled' \subseteq Nodes,
         \A p \in Given : p.op = "update" => p \in Given',
         \A p \in Given' \ Given :
           /\ p.op # "add" => node[p.obj] # None
           /\ p.op = "add" => node[p.obj] = None
  PROVE  IInv'
<1> USE DEF objects, graph
<1>1. TypeOK'
  BY DEF IInv, TypeOK
<1>2. Distinct'
  BY DEF Distinct
<1>3. Due = Given /\ Due' = Given'
  BY QueueType, QueueThen DEF IInv
<1>4. Fresh'
  BY <1>3 DEF IInv, Fresh
<1>5. Alive'
  BY DEF IInv, Alive, Mine, Theirs
<1>6. WiredOK'
  BY DEF IInv, WiredOK, Mine, Op
<1>7. Written'
  BY DEF Written
<1> QED
  BY <1>1, <1>2, <1>4, <1>5, <1>6, <1>7 DEF IInv

LEMMA AddNodeInv ==
  ASSUME IInv, NEW o \in Objects, AddNode(o) PROVE IInv'
<1>1. /\ queue \in Seq(Ops) /\ IsInjective(queue) /\ pos = 0 /\ pos' = 0
      /\ queue' = Staged(queue, "add", o) /\ node[o] = None
      /\ UNCHANGED <<objects, graph, wired>> /\ touched' = touched /\ unsettled' = unsettled
  BY DEF AddNode, IInv, TypeOK, Distinct, Between, objects, graph
<1>2. queue' \in Seq(Ops) /\ IsInjective(queue') /\ Given' = Given \cup {Op("add", o)}
  BY <1>1, StagedMembers DEF Given
<1>3. pos' \in 0..Len(queue') /\ Served' = {}
  BY <1>1, <1>2, QueueThen, LenProperties
<1> QED
  BY <1>1, <1>2, <1>3, StageStep DEF Op, IInv, TypeOK

LEMMA UpdateNodeInv ==
  ASSUME IInv, NEW o \in Objects, UpdateNode(o) PROVE IInv'
<1>1. /\ queue \in Seq(Ops) /\ IsInjective(queue) /\ pos = 0 /\ pos' = 0
      /\ queue' = Staged(queue, "update", o) /\ node[o] # None
      /\ UNCHANGED <<objects, graph, wired>> /\ touched' = touched /\ unsettled' = unsettled
  BY DEF UpdateNode, IInv, TypeOK, Distinct, Between, objects, graph
<1>2. queue' \in Seq(Ops) /\ IsInjective(queue') /\ Given' = Given \cup {Op("update", o)}
  BY <1>1, StagedMembers DEF Given
<1>3. pos' \in 0..Len(queue') /\ Served' = {}
  BY <1>1, <1>2, QueueThen, LenProperties
<1> QED
  BY <1>1, <1>2, <1>3, StageStep DEF Op, IInv, TypeOK

LEMMA DeleteNodeInv ==
  ASSUME IInv, NEW o \in Objects, DeleteNode(o) PROVE IInv'
<1>1. /\ queue \in Seq(Ops) /\ IsInjective(queue) /\ pos = 0 /\ pos' = 0
      /\ UNCHANGED <<objects, graph, wired>> /\ touched' = touched /\ unsettled' = unsettled
  BY DEF DeleteNode, IInv, TypeOK, Distinct, Between, objects, graph
<1>2. CASE \E k \in DOMAIN queue : queue[k] = Op("add", o) /\ queue' = RemoveAt(queue, k)
  <2>1. PICK k \in 1..Len(queue) : queue[k] = Op("add", o) /\ queue' = RemoveAt(queue, k)
    BY <1>1, <1>2, LenProperties
  <2>2. /\ queue' \in Seq(Ops) /\ IsInjective(queue')
        /\ Given' \subseteq Given /\ Given \subseteq Given' \cup {Op("add", o)}
    BY <1>1, <2>1, RemoveMembers DEF Given
  <2>3. pos' \in 0..Len(queue') /\ Served' = {}
    BY <1>1, <2>2, QueueThen, LenProperties
  <2> QED
    BY <1>1, <2>2, <2>3, StageStep DEF Op, IInv, TypeOK
<1>3. CASE node[o] # None /\ queue' = Staged(queue, "delete", o)
  <2>1. queue' \in Seq(Ops) /\ IsInjective(queue') /\ Given' = Given \cup {Op("delete", o)}
    BY <1>1, <1>3, StagedMembers DEF Given
  <2>2. pos' \in 0..Len(queue') /\ Served' = {}
    BY <1>1, <2>1, QueueThen, LenProperties
  <2> QED
    BY <1>1, <1>3, <2>1, <2>2, StageStep DEF Op, IInv, TypeOK
<1> QED
  BY <1>2, <1>3 DEF DeleteNode

LEMMA CommitInv ==
  ASSUME IInv, Commit PROVE IInv'
<1>1. /\ queue \in Seq(Ops) /\ IsInjective(queue) /\ pos = 0 /\ pos' = 1 /\ queue # <<>>
      /\ UNCHANGED <<objects, graph, wired>> /\ touched' = touched /\ unsettled' = unsettled
      /\ queue' = queue
  BY DEF Commit, IInv, TypeOK, Distinct, Between, objects, graph, history
<1>2. Len(queue) \in Nat /\ Len(queue) # 0 /\ DOMAIN queue = 1..Len(queue)
  BY <1>1, EmptySeq
<1>3. pos' \in 0..Len(queue') /\ Given' = Given
  BY <1>1, <1>2 DEF Given
<1>4. \A k \in DOMAIN queue' : ~ (k < pos')
  BY <1>1, <1>2
<1>5. Served' = {}
  BY <1>4 DEF Served, ServedOf
<1> QED
  BY <1>1, <1>3, <1>5, StageStep DEF IInv, TypeOK

LEMMA EmptyStep ==
  ASSUME IInv, queue' = <<>>, pos' = 0, wired' = {}, touched' \subseteq Nodes,
         unsettled' \subseteq Nodes,
         node' \in [Objects -> Nodes \cup {None}],
         ins' \in [Objects -> SUBSET Nodes], outs' \in [Objects -> SUBSET Nodes],
         life' \in [Nodes -> {"absent", "live", "gone"}],
         inOf' \in [Nodes -> SUBSET Nodes], outOf' \in [Nodes -> SUBSET Nodes],
         others' \in 0..MaxOthers, Alive'
  PROVE  IInv'
<1>1. queue' \in Seq(Ops) /\ pos' \in 0..Len(queue') /\ Distinct' /\ Given' = {} /\ Served' = {}
  BY EmptyThen
<1>2. TypeOK'
  BY <1>1 DEF TypeOK
<1>3. Fresh' /\ WiredOK' /\ Written'
  BY <1>1 DEF Fresh, WiredOK, Written
<1> QED
  BY <1>1, <1>2, <1>3 DEF IInv

LEMMA UnsettledType ==
  ASSUME IInv PROVE Unsettled \subseteq Nodes /\ unsettled \subseteq Unsettled
<1>1. ASSUME NEW e \in wired PROVE node[e[1]] \in Nodes /\ node[e[2]] \in Nodes
  <2>1. node[Near1("out", e)] # None /\ node[Near1("in", e)] # None
    BY DEF IInv, WiredOK, Ways
  <2> QED
    BY <2>1, EndType DEF IInv, TypeOK, Near1, Ways
<1> QED
  BY <1>1 DEF Unsettled, IInv, TypeOK

LEMMA RollbackInv ==
  ASSUME IInv, Rollback PROVE IInv'
<1>1. queue' = <<>> /\ pos' = 0 /\ wired' = {} /\ touched' = touched /\ unsettled' = Unsettled
      /\ UNCHANGED <<objects, graph>>
  BY DEF Rollback, Between
<1>2. Alive'
  BY <1>1 DEF IInv, Alive, Mine, Theirs, objects, graph
<1> QED
  BY <1>1, <1>2, EmptyStep, UnsettledType DEF IInv, TypeOK, objects, graph

LEMMA LoadInv ==
  ASSUME IInv, NEW o \in Objects, NEW n \in Nodes, Load(o, n) PROVE IInv'
<1>1. /\ pos = 0 /\ pos' = 0 /\ queue' = queue /\ node[o] = None /\ life[n] = "live"
      /\ Op("add", o) \notin Given
      /\ node' = [node EXCEPT ![o] = n]
      /\ ins' = [ins EXCEPT ![o] = inOf[n]] /\ outs' = [outs EXCEPT ![o] = outOf[n]]
      /\ UNCHANGED <<graph, wired, touched>>
      /\ unsettled' \subseteq Nodes
  <2>1. unsettled' \subseteq Nodes
    BY DEF Load, IInv, TypeOK
  <2>2. Op("add", o) \notin Given
    BY QueueType DEF Load, IInv
  <2> QED
    BY <2>1, <2>2 DEF Load, Between, Live
<1> USE DEF graph
<1>2. TypeOK'
  BY <1>1 DEF IInv, TypeOK
<1>3. Given' = Given /\ Served' = {} /\ Due' = Given /\ Due = Given /\ Distinct'
  <2>1. Given' = Given /\ Distinct'
    BY <1>1 DEF Given, Distinct, IInv
  <2> QED
    BY <1>1, <1>2, <2>1, QueueType, QueueThen DEF IInv, TypeOK
<1>4. \A p \in Given : p \in Ops
  BY QueueType DEF IInv
<1>5. Fresh'
  <2>1. ASSUME NEW p \in Given PROVE p.obj \in Objects /\ (p.op = "add" => p.obj # o)
    BY <1>1, <1>4 DEF Ops, Op
  <2>2. ASSUME NEW p \in Given PROVE node'[p.obj] = IF p.obj = o THEN n ELSE node[p.obj]
    BY <1>1, <2>1 DEF IInv, TypeOK
  <2> QED
    BY <1>3, <2>1, <2>2, WiringAssumption DEF Fresh, IInv
<1>6. ASSUME NEW d \in Ways
      PROVE  Mine(d)' = [Mine(d) EXCEPT ![o] = Theirs(d)[n]] /\ Theirs(d)' = Theirs(d)
  BY <1>1 DEF Mine, Theirs, Ways
<1>7. Alive'
  <2>1. ASSUME NEW p \in Objects, node'[p] # None PROVE life'[node'[p]] # "absent"
    BY <1>1, <2>1 DEF IInv, TypeOK, Alive
  <2>2. ASSUME NEW d \in Ways, NEW p \in Objects, NEW y \in Nodes, y \in Mine(d)'[p]
        PROVE  life'[y] # "absent"
    <3>1. y \in Mine(d)[p] \/ y \in Theirs(d)[n]
      BY <1>6, <2>2, WayType DEF IInv
    <3> QED
      BY <1>1, <3>1 DEF IInv, Alive
  <2>3. ASSUME NEW d \in Ways, NEW m \in Nodes, NEW y \in Nodes, y \in Theirs(d)'[m]
        PROVE  life'[y] # "absent" /\ life'[m] # "absent"
    BY <1>1, <1>6, <2>3 DEF IInv, Alive
  <2> QED
    BY <2>1, <2>2, <2>3 DEF Alive
<1>8. WiredOK'
  <2>1. ASSUME NEW e \in wired, NEW d \in Ways
        PROVE  /\ node'[Near1(d, e)] # None
               /\ Op("update", Near1(d, e)) \in Given
               /\ node'[Far(d, e)] \in Mine(d)'[Near1(d, e)]
    <3>1. /\ node[Near1(d, e)] # None /\ Op("update", Near1(d, e)) \in Given
          /\ node[Far(d, e)] \in Mine(d)[Near1(d, e)]
      BY DEF IInv, WiredOK
    <3>2. node[Far(d, e)] # None
      <4>1. node[Near1(Back(d), e)] # None
        BY WayType DEF IInv, WiredOK
      <4> QED
        BY <4>1, EndType DEF IInv
    <3>3. Near1(d, e) # o /\ Far(d, e) # o /\ Near1(d, e) \in Objects /\ Far(d, e) \in Objects
      BY <1>1, <3>1, <3>2, EndType DEF IInv
    <3> QED
      BY <1>1, <1>6, <3>1, <3>3, WayType DEF IInv, TypeOK
  <2> QED
    BY <1>1, <1>3, <2>1 DEF WiredOK, Op
<1>9. Written'
  BY <1>3 DEF Written
<1> QED
  BY <1>2, <1>3, <1>5, <1>7, <1>8, <1>9 DEF IInv

LEMMA WireInv ==
  ASSUME IInv, NEW e \in Wires, Wire(e[1], e[2]) PROVE IInv'
<1> DEFINE a == e[1]
           b == e[2]
<1>1. a \in Objects /\ b \in Objects /\ e = <<a, b>>
  BY WiringAssumption
<1> HIDE DEF a, b
<1>2. Wire(a, b)
  BY DEF a, b
<1>3. /\ pos = 0 /\ pos' = 0 /\ node[a] # None /\ node[b] # None
      /\ outs' = [outs EXCEPT ![a] = @ \cup {node[b]}]
      /\ ins' = [ins EXCEPT ![b] = @ \cup {node[a]}]
      /\ queue' = Staged(Staged(queue, "update", a), "update", b)
      /\ wired' = wired \cup {e}
      /\ UNCHANGED <<node, graph, touched, unsettled>>
  BY <1>1, <1>2 DEF Wire, Between
<1>4. /\ queue' \in Seq(Ops) /\ IsInjective(queue')
      /\ Given' = Given \cup {Op("update", a), Op("update", b)}
  <2> DEFINE q == Staged(queue, "update", a)
  <2>1. q \in Seq(Ops) /\ IsInjective(q) /\ ToSet(q) = Given \cup {Op("update", a)}
    BY <1>1, StagedMembers DEF IInv, TypeOK, Distinct, Given
  <2> HIDE DEF q
  <2>2. /\ Staged(q, "update", b) \in Seq(Ops) /\ IsInjective(Staged(q, "update", b))
        /\ ToSet(Staged(q, "update", b)) = ToSet(q) \cup {Op("update", b)}
    BY <1>1, <2>1, StagedMembers
  <2> QED
    BY <1>3, <2>1, <2>2 DEF q, Given
<1> USE DEF graph
<1>5. TypeOK' /\ Distinct'
  <2>1. pos' \in 0..Len(queue')
    BY <1>3, <1>4, LenProperties
  <2>2. node[a] \in Nodes /\ node[b] \in Nodes
    BY <1>1, <1>3 DEF IInv, TypeOK
  <2> QED
    BY <1>3, <1>4, <2>1, <2>2 DEF IInv, TypeOK, Distinct
<1>6. Served' = {} /\ Due' = Given' /\ Due = Given
  BY <1>3, <1>5, QueueType, QueueThen DEF IInv, TypeOK
<1>7. Fresh'
  <2>1. \A p \in {Op("update", a), Op("update", b)} : p.op = "update" /\ node[p.obj] # None
    BY <1>3 DEF Op
  <2> QED
    BY <1>3, <1>4, <1>6, <2>1 DEF Fresh, IInv
<1>8. ASSUME NEW d \in Ways
      PROVE  /\ Mine(d)' = [Mine(d) EXCEPT ![Near1(d, e)] = @ \cup {node[Far(d, e)]}]
             /\ Theirs(d)' = Theirs(d)
             /\ Near1(d, e) \in {a, b} /\ Far(d, e) \in {a, b}
             /\ node[Far(d, e)] \in Mine(d)'[Near1(d, e)]
             /\ \A p \in Objects : Mine(d)[p] \subseteq Mine(d)'[p]
  <2>1. /\ Mine(d)' = [Mine(d) EXCEPT ![Near1(d, e)] = @ \cup {node[Far(d, e)]}]
        /\ Theirs(d)' = Theirs(d)
        /\ Near1(d, e) \in {a, b} /\ Far(d, e) \in {a, b}
    BY <1>3 DEF Mine, Theirs, Near1, Far, Ways, a, b
  <2>2. Near1(d, e) \in Objects /\ Mine(d) \in [Objects -> SUBSET Nodes]
    BY <1>1, <2>1, WayType DEF IInv
  <2> QED
    BY <2>1, <2>2
<1>9. Alive'
  <2>1. ASSUME NEW p \in Objects, node'[p] # None PROVE life'[node'[p]] # "absent"
    BY <1>3, <2>1 DEF IInv, Alive
  <2>2. ASSUME NEW d \in Ways, NEW p \in Objects, NEW y \in Nodes, y \in Mine(d)'[p]
        PROVE  life'[y] # "absent"
    <3>1. y \in Mine(d)[p] \/ y = node[a] \/ y = node[b]
      BY <1>1, <1>8, <2>2, WayType DEF IInv
    <3> QED
      BY <1>1, <1>3, <3>1 DEF IInv, Alive
  <2>3. ASSUME NEW d \in Ways, NEW m \in Nodes, NEW y \in Nodes, y \in Theirs(d)'[m]
        PROVE  life'[y] # "absent" /\ life'[m] # "absent"
    BY <1>3, <1>8, <2>3 DEF IInv, Alive
  <2> QED
    BY <2>1, <2>2, <2>3 DEF Alive
<1>10. WiredOK'
  <2>1. ASSUME NEW f \in wired', NEW d \in Ways
        PROVE  /\ node[Near1(d, f)] # None
               /\ Op("update", Near1(d, f)) \in Given'
               /\ node[Far(d, f)] \in Mine(d)'[Near1(d, f)]
    <3>1. CASE f = e
      BY <1>3, <1>4, <1>8, <3>1
    <3>2. CASE f \in wired
      <4>1. /\ node[Near1(d, f)] # None /\ Op("update", Near1(d, f)) \in Given
            /\ node[Far(d, f)] \in Mine(d)[Near1(d, f)]
        BY <3>2 DEF IInv, WiredOK
      <4>2. Near1(d, f) \in Objects
        BY <3>2, EndType DEF IInv
      <4> QED
        BY <1>4, <1>8, <4>1, <4>2
    <3> QED
      BY <1>3, <3>1, <3>2
  <2> QED
    BY <1>3, <2>1 DEF WiredOK, Op
<1>11. Written'
  BY <1>6 DEF Written
<1> QED
  BY <1>5, <1>7, <1>9, <1>10, <1>11 DEF IInv

-----------------------------------------------------------------------------
(* The invariant is kept: the requests of commit()                         *)

\* A request leaves a half on the server, when it was there or is served now.
LEMMA ServeWritten ==
  ASSUME IInv, pos # 0, NEW n \in Nodes, Serve(n), NEW e \in wired, NEW d \in Ways,
         Op("update", Near1(d, e)) \in Served \cup {Step}, Sole(Near1(d, e)),
         life'[node[e[1]]] = "live", life'[node[e[2]]] = "live",
         touched \cap {node[e[1]], node[e[2]]} = {}
  PROVE  node[Far(d, e)] \in Theirs(d)'[node[Near1(d, e)]]
<1> DEFINE o == Near1(d, e)
           m == node[Near1(d, e)]
           y == node[Far(d, e)]
<1>1. /\ o \in Objects /\ m \in Nodes /\ y \in Nodes /\ y \in Mine(d)[o]
      /\ {m, y} = {node[e[1]], node[e[2]]}
      /\ Op("update", o) \in Given
  <2>1. /\ node[Near1(d, e)] # None /\ node[Near1(Back(d), e)] # None
        /\ node[Far(d, e)] \in Mine(d)[Near1(d, e)] /\ Op("update", Near1(d, e)) \in Given
    BY WayType DEF IInv, WiredOK
  <2> QED
    BY <2>1, EndType DEF IInv, TypeOK, Near1, Far, Ways
<1>2. TypeOK /\ Distinct /\ Alive /\ Step \in Ops /\ Step.obj \in Objects
      /\ Step = Op(Step.op, Step.obj)
  BY StepType DEF IInv
<1>3. life'[m] = "live" /\ life'[y] = "live"
  BY <1>1
<1>4. life[m] # "absent" /\ life[y] # "absent"
  BY <1>1, <1>2, WiringAssumption DEF Alive
<1>5. Mine(d) \in [Objects -> SUBSET Nodes] /\ Theirs(d) \in [Nodes -> SUBSET Nodes]
  BY <1>2, WayType
<1>6. ASSUME life[m] = "live", life[y] = "live", Op("update", o) \in Served
      PROVE  y \in Theirs(d)[m]
  <2>1. Clean(e)
    BY <1>1, <1>6 DEF Clean, Live
  <2> QED
    BY <1>6, <2>1 DEF IInv, Written
<1>7. CASE Made(n)
  <2>1. m # n /\ y # n /\ life[m] = "live" /\ life[y] = "live"
    BY <1>1, <1>2, <1>3, <1>4, <1>7 DEF Made, TypeOK
  <2>2. Theirs(d)' = Theirs(d) /\ Step # Op("update", o)
    BY <1>7 DEF Made, Theirs, Op
  <2> QED
    BY <1>6, <2>1, <2>2
<1>8. CASE Put(n, d)
  <2>1. Theirs(d)' = [Theirs(d) EXCEPT ![n] = Mine(d)[Step.obj]] /\ life' = life
        /\ Step.op = "update" /\ n = node[Step.obj]
    BY <1>8 DEF Put
  <2>2. CASE n = m
    <3>1. Contains(queue, Op("update", Step.obj))
      BY <1>2, <2>1, QueueType, StepType
    <3>2. Step.obj = o
      BY <1>1, <1>2, <2>1, <2>2, <3>1 DEF Sole
    <3> QED
      BY <1>1, <1>5, <2>1, <2>2, <3>2
  <2>3. CASE n # m
    <3>1. Op("update", o) \in Served
      BY <1>1, <1>2, <2>1, <2>3 DEF Op
    <3> QED
      BY <1>1, <1>3, <1>5, <1>6, <2>1, <2>3, <3>1
  <2> QED
    BY <2>2, <2>3
<1>9. CASE Step.op = "delete" /\ Parted(n, d)
  <2>1. m # n /\ y # n /\ life[m] = "live" /\ life[y] = "live"
    BY <1>1, <1>2, <1>3, <1>9 DEF Parted, TypeOK
  <2>2. y \in Theirs(d)[m]
    BY <1>6, <1>9, <2>1 DEF Op
  <2> QED
    BY <1>1, <1>9, <2>1, <2>2 DEF Parted
<1> QED
  BY <1>2, <1>7, <1>8, <1>9, ServeEffect

\* The answer of a request is laid over the object.
LEMMA HydrateEffect ==
  ASSUME IInv, pos # 0, NEW n \in Nodes, Serve(n), Hydrate(Step.obj, n)
  PROVE  /\ node' \in [Objects -> Nodes \cup {None}]
         /\ ins' \in [Objects -> SUBSET Nodes] /\ outs' \in [Objects -> SUBSET Nodes]
         /\ \A o \in Objects : node[o] # None => node'[o] = node[o]
         /\ \A o \in Objects : o # Step.obj => node'[o] = node[o]
         /\ Step.op = "add" => node[Step.obj] = None /\ node'[Step.obj] = n
         /\ \A d \in Ways, o \in Objects :
              \/ Mine(d)'[o] = Mine(d)[o]
              \/ o = Step.obj /\ Mine(d)'[o] = Theirs(d)'[n] /\ node'[o] = n
         /\ \A d \in Ways, o \in Objects : Step.op # "add" => Mine(d)'[o] = Mine(d)[o]
         /\ \A d \in Ways : Step.op = "add" => Mine(d)'[Step.obj] = Theirs(d)'[n]
         /\ Step.op # "add" => node' = node
<1>1. /\ TypeOK /\ Distinct /\ Step \in Ops /\ Step.obj \in Objects /\ Step \in Due
      /\ Step.op \in {"add", "update", "delete"}
  BY StepType DEF IInv, Ops
<1>2. /\ inOf' \in [Nodes -> SUBSET Nodes] /\ outOf' \in [Nodes -> SUBSET Nodes]
      /\ Step.op # "add" => n = node[Step.obj]
  BY <1>1, ServeType
<1>3. Step.op = "add" => node[Step.obj] = None
  BY <1>1, QueueType DEF IInv, Fresh
<1>4. CASE Step.op = "delete"
  BY <1>1, <1>4 DEF Hydrate, objects, TypeOK, Mine
<1>5. CASE Step.op # "delete"
  <2>1. /\ node' = [node EXCEPT ![Step.obj] = n]
        /\ ins' = [ins EXCEPT ![Step.obj] = inOf'[n]]
        /\ outs' = [outs EXCEPT ![Step.obj] = outOf'[n]]
    BY <1>5 DEF Hydrate
  <2>2. /\ node' \in [Objects -> Nodes \cup {None}]
        /\ ins' \in [Objects -> SUBSET Nodes] /\ outs' \in [Objects -> SUBSET Nodes]
    BY <1>1, <1>2, <2>1 DEF TypeOK
  <2>3. /\ \A o \in Objects : node[o] # None => node'[o] = node[o]
        /\ \A o \in Objects : o # Step.obj => node'[o] = node[o]
        /\ Step.op = "add" => node[Step.obj] = None /\ node'[Step.obj] = n
        /\ Step.op # "add" => node' = node
    BY <1>1, <1>2, <1>3, <2>1 DEF TypeOK
  <2>4. ASSUME NEW d \in Ways
        PROVE  Mine(d)' = [Mine(d) EXCEPT ![Step.obj] = Theirs(d)'[n]]
    BY <2>1 DEF Mine, Theirs, Ways
  <2>5. node'[Step.obj] = n
    BY <1>1, <2>1 DEF TypeOK
  <2>6. ASSUME NEW d \in Ways, NEW o \in Objects
        PROVE  \/ Mine(d)'[o] = Mine(d)[o]
               \/ o = Step.obj /\ Mine(d)'[o] = Theirs(d)'[n] /\ node'[o] = n
    BY <1>1, <2>4, <2>5, WayType
  <2>7. ASSUME NEW d \in Ways, NEW o \in Objects, Step.op # "add"
        PROVE  Mine(d)'[o] = Mine(d)[o]
    <3>1. Put(n, d)
      BY <1>1, <1>5, <2>7, ServeEffect DEF Made
    <3>2. Theirs(d)'[n] = Mine(d)[Step.obj]
      BY <1>1, <3>1, WayType DEF Put
    <3> QED
      BY <2>6, <3>2
  <2>8. \A d \in Ways : Mine(d)'[Step.obj] = Theirs(d)'[n]
    BY <1>1, <2>4, WayType
  <2> QED
    BY <2>2, <2>3, <2>6, <2>7, <2>8
<1> QED
  BY <1>4, <1>5

LEMMA SucceedsInv ==
  ASSUME IInv, Succeeds PROVE IInv'
<1>1. PICK n \in Nodes :
        /\ Serve(n)
        /\ Hydrate(Step.obj, n)
        /\ unsettled' = unsettled \cup IF Step.op = "delete" THEN Near(n) ELSE {}
  BY DEF Succeeds
<1>2. pos # 0 /\ TypeOK /\ Distinct /\ Alive
  BY DEF Succeeds, IInv
<1>3. /\ node' \in [Objects -> Nodes \cup {None}]
      /\ ins' \in [Objects -> SUBSET Nodes] /\ outs' \in [Objects -> SUBSET Nodes]
      /\ \A o \in Objects : node[o] # None => node'[o] = node[o]
      /\ \A o \in Objects : o # Step.obj => node'[o] = node[o]
      /\ Step.op = "add" => node[Step.obj] = None /\ node'[Step.obj] = n
      /\ \A d \in Ways, o \in Objects :
           \/ Mine(d)'[o] = Mine(d)[o]
           \/ o = Step.obj /\ Mine(d)'[o] = Theirs(d)'[n] /\ node'[o] = n
      /\ Step.op # "add" => node' = node
  BY <1>1, <1>2, HydrateEffect
<1>4. /\ life' \in [Nodes -> {"absent", "live", "gone"}]
      /\ inOf' \in [Nodes -> SUBSET Nodes] /\ outOf' \in [Nodes -> SUBSET Nodes]
      /\ others' \in 0..MaxOthers
      /\ Step.op = "add" => life'[n] = "live"
  BY <1>1, <1>2, ServeType
<1>5. unsettled' \subseteq Nodes
  BY <1>1, <1>2 DEF Near, TypeOK
<1>6. KnownThen
  BY <1>1, <1>2, ServeKnown
<1>7. \A d \in Ways : Mine(d) \in [Objects -> SUBSET Nodes] /\ Mine(d)' \in [Objects -> SUBSET Nodes]
  BY <1>2, <1>3, WayType DEF Mine
<1>8. Alive'
  <2>1. ASSUME NEW o \in Objects, node'[o] # None PROVE life'[node'[o]] # "absent"
    <3>1. CASE node'[o] = node[o]
      BY <1>2, <1>6, <2>1, <3>1 DEF Alive, KnownThen, TypeOK
    <3>2. CASE node'[o] # node[o]
      <4>1. o = Step.obj /\ Step.op = "add"
        BY <1>3, <3>2
      <4> QED
        BY <1>3, <1>4, <4>1
    <3> QED
      BY <3>1, <3>2
  <2>2. ASSUME NEW d \in Ways, NEW o \in Objects, NEW y \in Nodes, y \in Mine(d)'[o]
        PROVE  life'[y] # "absent"
    <3>1. CASE y \in Mine(d)[o]
      BY <1>2, <1>6, <3>1 DEF Alive, KnownThen
    <3>2. CASE y \in Theirs(d)'[n]
      BY <1>6, <3>2 DEF KnownThen
    <3> QED
      BY <1>3, <2>2, <3>1, <3>2
  <2> QED
    BY <1>6, <2>1, <2>2 DEF Alive, KnownThen
<1>9. CASE ~ (pos < Len(queue))
  <2>1. Leave
    BY <1>9 DEF Succeeds
  <2> QED
    BY <1>3, <1>4, <1>5, <1>8, <2>1, EmptyStep DEF Leave
<1>10. CASE pos < Len(queue)
  <2>1. pos' = pos + 1 /\ queue' = queue /\ wired' = wired /\ touched' = touched
    BY <1>10 DEF Succeeds
  <2>2. /\ queue' \in Seq(Ops) /\ pos' \in 0..Len(queue') /\ Distinct'
        /\ Given' = Given /\ Served' = Served \cup {Step} /\ Due' = Due \ {Step}
    BY <1>2, <1>10, <2>1, Advance
  <2>3. TypeOK'
    BY <1>2, <1>3, <1>4, <1>5, <2>1, <2>2 DEF TypeOK
  <2>4. /\ Given \subseteq Ops /\ Due \subseteq Given /\ Step \in Due /\ Step \in Ops
        /\ Step = Op(Step.op, Step.obj)
    BY <1>2, QueueType, StepType
  <2>5. Fresh'
    <3>1. ASSUME NEW p \in Given, p.op # "add" PROVE node'[p.obj] # None
      <4>1. p.obj \in Objects /\ node[p.obj] # None
        BY <2>4, <3>1 DEF IInv, Fresh, Ops
      <4> QED
        BY <1>3, <4>1
    <3>2. ASSUME NEW p \in Due, p # Step, p.op = "add" PROVE node'[p.obj] = None
      <4>1. p.obj \in Objects /\ node[p.obj] = None /\ p = Op("add", p.obj)
        BY <2>4, <3>2 DEF IInv, Fresh, Ops, Op
      <4>2. CASE p.obj = Step.obj
        <5>1. Step.op # "add"
          BY <2>4, <3>2, <4>1, <4>2 DEF Op
        <5> QED
          BY <1>3, <4>1, <5>1
      <4>3. CASE p.obj # Step.obj
        BY <1>3, <4>1, <4>3
      <4> QED
        BY <4>2, <4>3
    <3> QED
      BY <2>2, <3>1, <3>2 DEF Fresh
  <2>6. ASSUME NEW e \in wired, NEW d \in Ways
        PROVE  /\ node'[Near1(d, e)] = node[Near1(d, e)] /\ node[Near1(d, e)] # None
               /\ node'[Far(d, e)] = node[Far(d, e)] /\ node[Far(d, e)] # None
               /\ node[Far(d, e)] \in Mine(d)[Near1(d, e)]
               /\ Op("update", Near1(d, e)) \in Given
               /\ Near1(d, e) \in Objects /\ Far(d, e) \in Objects
    <3>1. Back(d) \in Ways /\ Near1(Back(d), e) = Far(d, e)
      BY <1>2, WayType, EndType
    <3>2. /\ node[Near1(d, e)] # None /\ node[Far(d, e)] # None
          /\ node[Far(d, e)] \in Mine(d)[Near1(d, e)]
          /\ Op("update", Near1(d, e)) \in Given
      BY <3>1 DEF IInv, WiredOK
    <3> QED
      BY <1>2, <1>3, <3>2, EndType
  <2>7. WiredOK'
    <3>1. ASSUME NEW e \in wired, NEW d \in Ways
          PROVE  node'[Far(d, e)] \in Mine(d)'[Near1(d, e)]
      <4>1. CASE Step.op = "add"
        <5>1. Near1(d, e) # Step.obj
          BY <1>3, <2>6, <4>1
        <5> QED
          BY <1>3, <2>6, <5>1
      <4>2. CASE Step.op # "add"
        BY <1>1, <1>2, <2>6, <4>2, HydrateEffect
      <4> QED
        BY <4>1, <4>2
    <3> QED
      BY <2>1, <2>2, <2>6, <3>1 DEF WiredOK, Op
  <2>8. Written'
    <3>1. ASSUME NEW e \in wired, NEW d \in Ways,
                 Op("update", Near1(d, e)) \in Served', Sole(Near1(d, e))', Clean(e)'
          PROVE  node'[Far(d, e)] \in Theirs(d)'[node'[Near1(d, e)]]
      <4>1. Near1("out", e) = e[1] /\ Near1("in", e) = e[2]
        BY DEF Near1
      <4>2. node'[e[1]] = node[e[1]] /\ node'[e[2]] = node[e[2]]
        BY <2>6, <4>1 DEF Ways
      <4>3. /\ life'[node[e[1]]] = "live" /\ life'[node[e[2]]] = "live"
            /\ touched \cap {node[e[1]], node[e[2]]} = {}
        BY <2>1, <3>1, <4>2 DEF Clean, Live
      <4>4. Sole(Near1(d, e))
        <5>1. ASSUME NEW p \in Objects, Contains(queue, Op("update", p)),
                     node[p] = node[Near1(d, e)]
              PROVE  p = Near1(d, e)
          <6>1. node'[p] = node'[Near1(d, e)]
            BY <1>3, <2>6, <5>1
          <6>2. Contains(queue, Op("update", p))'
            BY <2>1, <5>1 DEF Contains, Op
          <6> QED
            BY <3>1, <6>1, <6>2 DEF Sole
        <5> QED
          BY <5>1 DEF Sole
      <4>5. node[Far(d, e)] \in Theirs(d)'[node[Near1(d, e)]]
        BY <1>1, <1>2, <2>2, <3>1, <4>3, <4>4, ServeWritten
      <4> QED
        BY <2>6, <4>5
    <3> QED
      BY <2>1, <3>1 DEF Written, Op, Near1, Far
  <2> QED
    BY <1>8, <2>2, <2>3, <2>5, <2>7, <2>8 DEF IInv
<1> QED
  BY <1>9, <1>10

LEMMA FailsInv ==
  ASSUME IInv, Fails PROVE IInv'
<1>1. queue' = <<>> /\ pos' = 0 /\ wired' = {} /\ touched' = {} /\ UNCHANGED objects
  BY DEF Fails, Leave
<1>2. pos # 0 /\ TypeOK /\ Distinct /\ Alive
  BY DEF Fails, IInv
<1>3. /\ node' \in [Objects -> Nodes \cup {None}]
      /\ ins' \in [Objects -> SUBSET Nodes] /\ outs' \in [Objects -> SUBSET Nodes]
  BY <1>1, <1>2 DEF TypeOK, objects
<1>4. CASE UNCHANGED graph /\ unsettled' = Unsettled
  <2>1. Alive'
    BY <1>1, <1>2, <1>4 DEF Alive, Mine, Theirs, graph, objects
  <2> QED
    BY <1>1, <1>2, <1>3, <1>4, <2>1, EmptyStep, UnsettledType DEF TypeOK, graph
<1>5. CASE \E n \in Nodes :
             /\ Serve(n)
             /\ unsettled' = Unsettled \cup IF Step.op = "delete" THEN Near(n) ELSE {}
  <2>1. PICK n \in Nodes :
             /\ Serve(n)
             /\ unsettled' = Unsettled \cup IF Step.op = "delete" THEN Near(n) ELSE {}
    BY <1>5
  <2>2. unsettled' \subseteq Nodes
    BY <1>2, <2>1, UnsettledType DEF Near, TypeOK
  <2>3. KnownThen
    BY <1>2, <2>1, ServeKnown
  <2>4. \A d \in Ways : Mine(d)' = Mine(d)
    BY <1>1 DEF Mine, objects
  <2>5. Alive'
    <3>1. ASSUME NEW o \in Objects, node'[o] # None PROVE life'[node'[o]] # "absent"
      BY <1>1, <1>2, <2>3, <3>1 DEF Alive, KnownThen, TypeOK, objects
    <3> QED
      BY <1>2, <2>3, <2>4, <3>1 DEF Alive, KnownThen
  <2> QED
    BY <1>1, <1>2, <1>3, <2>1, <2>2, <2>5, EmptyStep, ServeType
<1> QED
  BY <1>4, <1>5 DEF Fails

-----------------------------------------------------------------------------
(* The invariant is kept: other clients                                    *)

\* What others do leaves the objects and the queue alone.
LEMMA OtherStep ==
  ASSUME IInv, UNCHANGED <<objects, queue, pos, wired>>,
         life' \in [Nodes -> {"absent", "live", "gone"}],
         inOf' \in [Nodes -> SUBSET Nodes], outOf' \in [Nodes -> SUBSET Nodes],
         others' \in 0..MaxOthers, touched' \subseteq Nodes, unsettled' \subseteq Nodes,
         KnownThen, Written'
  PROVE  IInv'
<1> USE DEF objects
<1>1. TypeOK'
  BY DEF IInv, TypeOK
<1>2. Given' = Given /\ Served' = Served /\ Due' = Due /\ Distinct'
  BY DEF Given, Served, Due, Distinct, IInv
<1>3. Fresh' /\ WiredOK'
  BY <1>2 DEF IInv, Fresh, WiredOK, Mine, Op
<1>4. \A o \in Objects : node'[o] # None => life'[node'[o]] # "absent"
  BY DEF IInv, TypeOK, Alive, KnownThen
<1>5. \A d \in Ways, o \in Objects, y \in Nodes : y \in Mine(d)'[o] => life'[y] # "absent"
  BY DEF IInv, Alive, KnownThen, Mine
<1>6. Alive'
  BY <1>4, <1>5 DEF Alive, KnownThen
<1> QED
  BY <1>1, <1>2, <1>3, <1>6 DEF IInv

LEMMA OtherDeleteInv ==
  ASSUME IInv, NEW n \in Nodes, OtherDelete(n) PROVE IInv'
<1>1. /\ TypeOK /\ Alive /\ Unlink(n) /\ life[n] = "live" /\ others' \in 0..MaxOthers
      /\ UNCHANGED <<objects, queue, pos, wired>> /\ touched' = touched
      /\ touched' \subseteq Nodes /\ unsettled' \subseteq Nodes
  BY WiringAssumption DEF IInv, OtherDelete, Live, TypeOK, Near
<1>2. \A d \in Ways : Parted(n, d)
  BY <1>1, UnlinkParts
<1>3. /\ inOf' \in [Nodes -> SUBSET Nodes] /\ outOf' \in [Nodes -> SUBSET Nodes]
      /\ life' \in [Nodes -> {"absent", "live", "gone"}]
  <2>1. Parted(n, "in") /\ Parted(n, "out")
    BY <1>2 DEF Ways
  <2> QED
    BY <1>1, <2>1 DEF Parted, Theirs, TypeOK
<1>4. KnownThen
  BY <1>1, UnlinkKnown
<1>5. Written'
  <2>1. ASSUME NEW e \in wired, NEW d \in Ways,
               Op("update", Near1(d, e)) \in Served, Sole(Near1(d, e))', Clean(e)'
        PROVE  node[Far(d, e)] \in Theirs(d)'[node[Near1(d, e)]]
    <3>1. node[e[1]] \in Nodes /\ node[e[2]] \in Nodes
          /\ life'[node[e[1]]] = "live" /\ life'[node[e[2]]] = "live"
          /\ touched \cap {node[e[1]], node[e[2]]} = {}
      BY <1>1, <2>1 DEF Clean, Live, objects
    <3>2. \A m \in Nodes : life'[m] = "live" => m # n /\ life[m] = "live"
      BY <1>1 DEF Unlink, TypeOK
    <3>3. Clean(e)
      BY <3>1, <3>2 DEF Clean, Live
    <3>4. Sole(Near1(d, e))
      BY <1>1, <2>1 DEF Sole, Contains, Op, objects
    <3>5. node[Far(d, e)] \in Theirs(d)[node[Near1(d, e)]]
      BY <1>1, <2>1, <3>3, <3>4 DEF IInv, Written
    <3>6. node[Far(d, e)] # n /\ node[Near1(d, e)] \in Nodes
      BY <3>1, <3>2 DEF Near1, Far
    <3> QED
      BY <1>2, <3>5, <3>6 DEF Parted
  <2>2. Served' = Served
    BY <1>1 DEF Served
  <2> QED
    BY <1>1, <2>1, <2>2 DEF Written, Op, Near1, Far, objects
<1> QED
  BY <1>1, <1>3, <1>4, <1>5, OtherStep

LEMMA OtherEdgeInv ==
  ASSUME IInv, NEW m \in Nodes, NEW n \in Nodes, OtherEdge(m, n) PROVE IInv'
<1>1. /\ TypeOK /\ Alive /\ life[m] = "live" /\ life[n] = "live" /\ others' \in 0..MaxOthers
      /\ UNCHANGED <<objects, queue, pos, wired>> /\ life' = life
      /\ life' \in [Nodes -> {"absent", "live", "gone"}]
      /\ touched' = IF pos = 0 THEN {} ELSE touched \cup {m, n}
      /\ touched' \subseteq Nodes /\ unsettled' \subseteq Nodes
  BY WiringAssumption DEF IInv, OtherEdge, Live, TypeOK
<1>2. /\ inOf' \in [Nodes -> SUBSET Nodes] /\ outOf' \in [Nodes -> SUBSET Nodes]
      /\ \A x \in Nodes : x \notin {m, n} => inOf'[x] = inOf[x] /\ outOf'[x] = outOf[x]
      /\ \A x \in Nodes : inOf'[x] \subseteq inOf[x] \cup {m} /\ outOf'[x] \subseteq outOf[x] \cup {n}
  <2>1. CASE /\ outOf' = [outOf EXCEPT ![m] = @ \cup {n}]
             /\ inOf' = [inOf EXCEPT ![n] = @ \cup {m}]
    BY <1>1, <2>1 DEF TypeOK
  <2>2. CASE /\ outOf' = [outOf EXCEPT ![m] = @ \ {n}]
             /\ inOf' = [inOf EXCEPT ![n] = @ \ {m}]
    BY <1>1, <2>2 DEF TypeOK
  <2> QED
    BY <2>1, <2>2 DEF OtherEdge
<1>3. ASSUME NEW d \in Ways, NEW x \in Nodes
      PROVE  /\ x \notin {m, n} => Theirs(d)'[x] = Theirs(d)[x]
             /\ Theirs(d)'[x] \subseteq Theirs(d)[x] \cup {m, n}
  BY <1>2 DEF Theirs
<1>4. KnownThen
  <2>1. ASSUME NEW d \in Ways, NEW x \in Nodes, NEW y \in Nodes, y \in Theirs(d)'[x]
        PROVE  life[x] # "absent" /\ life[y] # "absent"
    <3>1. CASE y \in Theirs(d)[x]
      BY <1>1, <3>1 DEF Alive
    <3>2. CASE y \notin Theirs(d)[x]
      BY <1>1, <1>3, <2>1, <3>2
    <3> QED
      BY <3>1, <3>2
  <2> QED
    BY <1>1, <2>1 DEF KnownThen
<1>5. Written'
  <2>1. ASSUME NEW e \in wired, NEW d \in Ways,
               Op("update", Near1(d, e)) \in Served, Sole(Near1(d, e))', Clean(e)'
        PROVE  node[Far(d, e)] \in Theirs(d)'[node[Near1(d, e)]]
    <3>1. pos # 0 /\ touched' = touched \cup {m, n}
      BY <1>1, <2>1, QueueType
    <3>2. node[e[1]] \in Nodes /\ node[e[2]] \in Nodes
          /\ life[node[e[1]]] = "live" /\ life[node[e[2]]] = "live"
          /\ touched' \cap {node[e[1]], node[e[2]]} = {}
      BY <1>1, <2>1 DEF Clean, Live, objects
    <3>3. Clean(e)
      BY <3>1, <3>2 DEF Clean, Live
    <3>4. Sole(Near1(d, e))
      BY <1>1, <2>1 DEF Sole, Contains, Op, objects
    <3>5. node[Far(d, e)] \in Theirs(d)[node[Near1(d, e)]]
      BY <1>1, <2>1, <3>3, <3>4 DEF IInv, Written
    <3>6. node[Near1(d, e)] \in Nodes /\ node[Near1(d, e)] \notin {m, n}
      BY <3>1, <3>2 DEF Near1
    <3> QED
      BY <1>3, <3>5, <3>6
  <2>2. Served' = Served
    BY <1>1 DEF Served
  <2> QED
    BY <1>1, <2>1, <2>2 DEF Written, Op, Near1, Far, objects
<1> QED
  BY <1>1, <1>2, <1>4, <1>5, OtherStep

LEMMA NextIInv ==
  ASSUME IInv, [Next]_vars PROVE IInv'
<1>1. CASE UNCHANGED vars
  <2>1. /\ UNCHANGED <<node, ins, outs, queue, pos, life, inOf, outOf, others, wired, touched,
                       unsettled>>
    BY <1>1 DEF vars, objects, graph, history
  <2>2. TypeOK' /\ Distinct'
    BY <2>1 DEF IInv, TypeOK, Distinct
  <2>3. Given' = Given /\ Served' = Served /\ Due' = Due
    BY <2>1 DEF Given, Served, Due
  <2>4. Fresh' /\ Alive' /\ WiredOK'
    BY <2>1, <2>3 DEF IInv, Fresh, Alive, WiredOK, Mine, Theirs, Op
  <2>5. Written'
    BY <2>1, <2>3 DEF IInv, Written, Clean, Live, Sole, Contains, Op, Theirs
  <2> QED
    BY <2>2, <2>4, <2>5 DEF IInv
<1>2. ASSUME NEW o \in Objects, AddNode(o) \/ UpdateNode(o) \/ DeleteNode(o) PROVE IInv'
  BY <1>2, AddNodeInv, UpdateNodeInv, DeleteNodeInv
<1>3. ASSUME NEW o \in Objects, NEW n \in Nodes, Load(o, n) PROVE IInv'
  BY <1>3, LoadInv
<1>4. ASSUME NEW e \in Wires, Wire(e[1], e[2]) PROVE IInv'
  BY <1>4, WireInv
<1>5. CASE Rollback \/ Commit \/ Succeeds \/ Fails
  BY <1>5, RollbackInv, CommitInv, SucceedsInv, FailsInv
<1>6. ASSUME NEW m \in Nodes, NEW n \in Nodes, OtherEdge(m, n) PROVE IInv'
  BY <1>6, OtherEdgeInv
<1>7. ASSUME NEW n \in Nodes, OtherDelete(n) PROVE IInv'
  BY <1>7, OtherDeleteInv
<1> QED
  BY <1>1, <1>2, <1>3, <1>4, <1>5, <1>6, <1>7 DEF Next

LEMMA Invariance == Spec => []IInv
<1>1. IInv /\ [Next]_vars => IInv'
  BY NextIInv
<1> QED
  BY InitIInv, <1>1, PTL DEF Spec

-----------------------------------------------------------------------------
(* Theorems                                                                *)

\* Every variable keeps its type; the lists of objects and server hold nodes only,
\* and commit() points at an operation of its batch (Session.commit).
THEOREM TypeCorrect == Spec => []TypeOK
<1>1. IInv => TypeOK
  BY DEF IInv
<1> QED
  BY <1>1, Invariance, PTL

\* When commit() returns, both halves of every edge that was wired are on the server,
\* unless its nodes were deleted, changed by others or updated through two objects.
THEOREM WiredIsWritten == Spec => BatchIsWhole
<1>1. ASSUME IInv, Succeeds, pos = Len(queue), NEW e \in wired,
             Sole(e[1]), Sole(e[2]),
             life'[node[e[1]]] = "live", life'[node[e[2]]] = "live",
             touched \cap {node[e[1]], node[e[2]]} = {}
      PROVE  /\ node[e[2]] \in outOf'[node[e[1]]]
             /\ node[e[1]] \in inOf'[node[e[2]]]
  <2>1. PICK n \in Nodes : Serve(n)
    BY <1>1 DEF Succeeds
  <2>2. pos # 0 /\ TypeOK /\ Distinct /\ Len(queue) \in Nat
    BY <1>1, QueueType DEF Succeeds, IInv
  <2>3. Given \subseteq Served \cup {Step}
    <3>1. ~ (pos < Len(queue))
      BY <1>1, <2>2
    <3> QED
      BY <2>2, <3>1, LastServed
  <2>4. ASSUME NEW d \in Ways, Sole(Near1(d, e))
        PROVE  node[Far(d, e)] \in Theirs(d)'[node[Near1(d, e)]]
    <3>1. Op("update", Near1(d, e)) \in Served \cup {Step}
      BY <1>1, <2>3 DEF IInv, WiredOK
    <3> QED
      BY <1>1, <2>1, <2>2, <2>4, <3>1, ServeWritten
  <2>5. "out" \in Ways /\ "in" \in Ways
    BY DEF Ways
  <2>6. node[e[2]] \in outOf'[node[e[1]]]
    BY <1>1, <2>4, <2>5 DEF Near1, Far, Theirs
  <2>7. node[e[1]] \in inOf'[node[e[2]]]
    BY <1>1, <2>4, <2>5 DEF Near1, Far, Theirs
  <2> QED
    BY <2>6, <2>7
<1>2. IInv => (Succeeds /\ pos = Len(queue) =>
       \A e \in wired :
         LET m == node[e[1]]
             n == node[e[2]] IN
         /\ Sole(e[1]) /\ Sole(e[2])
         /\ life'[m] = "live" /\ life'[n] = "live" /\ touched \cap {m, n} = {}
         => n \in outOf'[m] /\ m \in inOf'[n])
  BY <1>1
<1> QED
  BY <1>2, Invariance, PTL DEF BatchIsWhole

-----------------------------------------------------------------------------
(* Between commits no settled node has half an edge: the invariant that    *)
(* says where half an edge can be while a commit() is under way.           *)

Settled == Nodes \ unsettled

\* A settled node was not deleted or rewired by others, and has one object at most.
Unique == \A o, p \in Objects : node[o] = node[p] /\ node[o] \in Settled => o = p
Gone   == \A n \in Settled : life[n] # "gone"
Calm   == touched \subseteq unsettled

\* The lists of its object are those of the server, and what was wired since.
WiredTo(d, o, y) == \E e \in wired : Near1(d, e) = o /\ node[Far(d, e)] = y
Agree ==
  \A o \in Objects, d \in Ways, y \in Settled :
    node[o] \in Settled /\ life[y] = "live" =>
      (y \in Mine(d)[o] <=> y \in Theirs(d)[node[o]] \/ WiredTo(d, o, y))

\* Half an edge between settled nodes belongs to a wire of which one half was served.
Half(d, x, y) == y \in Theirs(d)[x] /\ x \notin Theirs(Back(d))[y]
HalfServed(d, x, y) ==
  \E e \in wired : /\ node[Near1(d, e)] = x /\ node[Far(d, e)] = y
                   /\ Op("update", Near1(d, e)) \in Served
                   /\ Op("update", Far(d, e)) \notin Served
Mid ==
  \A d \in Ways, x, y \in Settled :
    life[x] = "live" /\ life[y] = "live" /\ Half(d, x, y) => HalfServed(d, x, y)

HInv == Unique /\ Gone /\ Calm /\ Agree /\ Mid

-----------------------------------------------------------------------------
(* The requests of commit()                                                *)

\* The nodes that a request does not unsettle.
Kept(n) == Settled \ (IF Step.op = "delete" THEN Near(n) ELSE {})

LEMMA EndsType ==
  ASSUME IInv, NEW d \in Ways, NEW e \in wired
  PROVE  /\ Near1(d, e) \in Objects /\ Far(d, e) \in Objects /\ Back(d) \in Ways
         /\ Near1(Back(d), e) = Far(d, e) /\ Far(Back(d), e) = Near1(d, e)
         /\ node[Near1(d, e)] \in Nodes /\ node[Far(d, e)] \in Nodes
         /\ node[Far(d, e)] \in Mine(d)[Near1(d, e)]
         /\ Op("update", Near1(d, e)) \in Given /\ Op("update", Far(d, e)) \in Given
         /\ life[node[Near1(d, e)]] # "absent" /\ life[node[Far(d, e)]] # "absent"
         /\ node[Near1(d, e)] \in Unsettled /\ node[Far(d, e)] \in Unsettled
<1>1. /\ Near1(d, e) \in Objects /\ Far(d, e) \in Objects /\ Back(d) \in Ways
      /\ Near1(Back(d), e) = Far(d, e) /\ Far(Back(d), e) = Near1(d, e)
  BY EndType, WayType DEF IInv
<1>2. /\ node[Near1(d, e)] # None /\ node[Far(d, e)] # None
      /\ node[Far(d, e)] \in Mine(d)[Near1(d, e)]
      /\ Op("update", Near1(d, e)) \in Given /\ Op("update", Far(d, e)) \in Given
  BY <1>1 DEF IInv, WiredOK
<1>3. node[Near1(d, e)] \in Nodes /\ node[Far(d, e)] \in Nodes
  BY <1>1, <1>2 DEF IInv, TypeOK
<1>4. life[node[Near1(d, e)]] # "absent" /\ life[node[Far(d, e)]] # "absent"
  BY <1>1, <1>2 DEF IInv, Alive
<1>5. node[Near1(d, e)] \in Unsettled /\ node[Far(d, e)] \in Unsettled
  BY DEF Near1, Far, Unsettled
<1> QED
  BY <1>1, <1>2, <1>3, <1>4, <1>5

\* A node that a deletion leaves settled keeps its lists.
LEMMA KeptLists ==
  ASSUME IInv, NEW n \in Nodes, NEW d \in Ways, Parted(n, d),
         NEW x \in Nodes \ Near(n), NEW y \in Nodes \ Near(n)
  PROVE  y \in Theirs(d)'[x] <=> y \in Theirs(d)[x]
<1>1. x \notin Theirs(Back(d))[n] /\ y # n
  BY DEF Near, Theirs
<1> QED
  BY <1>1 DEF Parted

\* What is settled and alive after a request was so before, but for a new node.
LEMMA KeptLife ==
  ASSUME IInv, pos # 0, NEW n \in Nodes, Serve(n), NEW y \in Kept(n), life'[y] = "live"
  PROVE  /\ y \in Settled /\ y \in Nodes
         /\ (y = n /\ Step.op = "add") \/ life[y] = "live"
<1>1. TypeOK /\ Distinct
  BY DEF IInv
<1>2. y \in Settled /\ y \in Nodes /\ (Step.op = "delete" => y # n)
  BY DEF Kept, Settled, Near
<1>3. CASE Made(n)
  BY <1>1, <1>2, <1>3 DEF Made, TypeOK
<1>4. CASE Put(n, "out")
  BY <1>2, <1>4 DEF Put
<1>5. CASE Step.op = "delete" /\ Parted(n, "out")
  BY <1>1, <1>2, <1>5 DEF Parted, TypeOK
<1> QED
  BY <1>1, <1>2, <1>3, <1>4, <1>5, ServeEffect DEF Ways

LEMMA ServeAgree ==
  ASSUME IInv, HInv, pos # 0, NEW n \in Nodes, Serve(n), NEW d \in Ways,
         NEW o \in Objects, node[o] \in Kept(n), NEW y \in Kept(n), life'[y] = "live"
  PROVE  y \in Mine(d)[o] <=> y \in Theirs(d)'[node[o]] \/ WiredTo(d, o, y)
<1> DEFINE x == node[o]
<1>1. /\ TypeOK /\ Distinct /\ Alive /\ Step.obj \in Objects
      /\ Theirs(d) \in [Nodes -> SUBSET Nodes] /\ Mine(d) \in [Objects -> SUBSET Nodes]
  BY StepType, WayType DEF IInv
<1>2. /\ x \in Settled /\ y \in Settled /\ x \in Nodes /\ y \in Nodes
      /\ (y = n /\ Step.op = "add") \/ life[y] = "live"
  BY KeptLife DEF Kept, Settled
<1>3. ASSUME life[y] = "live"
      PROVE  y \in Mine(d)[o] <=> y \in Theirs(d)[x] \/ WiredTo(d, o, y)
  BY <1>2, <1>3 DEF HInv, Agree
<1>4. CASE Made(n)
  <2>1. Theirs(d)' = Theirs(d)
    BY <1>4 DEF Made, Theirs
  <2>2. CASE y = n
    <3>1. life[y] = "absent"
      BY <1>4, <2>2 DEF Made
    <3>2. y \notin Mine(d)[o] /\ y \notin Theirs(d)[x]
      BY <1>1, <1>2, <3>1 DEF Alive
    <3>3. ~ WiredTo(d, o, y)
      BY <3>1, EndsType DEF WiredTo
    <3> QED
      BY <2>1, <3>2, <3>3
  <2>3. CASE y # n
    BY <1>2, <1>3, <2>1, <2>3
  <2> QED
    BY <2>2, <2>3
<1>5. CASE Put(n, d)
  <2>1. /\ n = node[Step.obj] /\ life[y] = "live"
        /\ Theirs(d)' = [Theirs(d) EXCEPT ![n] = Mine(d)[Step.obj]]
    BY <1>5 DEF Put
  <2>2. CASE x = n
    <3>1. o = Step.obj
      BY <1>1, <1>2, <2>1, <2>2 DEF HInv, Unique
    <3>2. Theirs(d)'[x] = Mine(d)[o]
      BY <1>1, <2>1, <2>2, <3>1
    <3>3. WiredTo(d, o, y) => y \in Mine(d)[o]
      BY EndsType DEF WiredTo
    <3> QED
      BY <3>2, <3>3
  <2>3. CASE x # n
    BY <1>1, <1>2, <1>3, <2>1, <2>3
  <2> QED
    BY <2>2, <2>3
<1>6. CASE Step.op = "delete" /\ Parted(n, d)
  <2>1. x \in Nodes \ Near(n) /\ y \in Nodes \ Near(n)
    BY <1>2, <1>6 DEF Kept
  <2>2. y \in Theirs(d)'[x] <=> y \in Theirs(d)[x]
    BY <1>6, <2>1, KeptLists
  <2>3. life[y] = "live"
    BY <1>2, <1>6
  <2> QED
    BY <1>3, <2>2, <2>3
<1> QED
  BY <1>1, <1>4, <1>5, <1>6, ServeEffect

LEMMA SoleOne ==
  ASSUME IInv, HInv, NEW o \in Objects, node[o] \in Settled
  PROVE  Sole(o)
BY DEF Sole, HInv, Unique

\* A half is left by a request when its wire's other half is still to come.
LEMMA ServeMid ==
  ASSUME IInv, HInv, pos # 0, NEW n \in Nodes, Serve(n), NEW d \in Ways,
         NEW x \in Kept(n), NEW y \in Kept(n), life'[x] = "live", life'[y] = "live",
         y \in Theirs(d)'[x], x \notin Theirs(Back(d))'[y]
  PROVE  \E e \in wired : /\ node[Near1(d, e)] = x /\ node[Far(d, e)] = y
                          /\ Op("update", Near1(d, e)) \in Served \cup {Step}
                          /\ Op("update", Far(d, e)) \notin Served \cup {Step}
<1> DEFINE o == Step.obj
           b == Back(d)
<1>1. /\ TypeOK /\ Distinct /\ Alive /\ o \in Objects /\ Step = Op(Step.op, o)
      /\ b \in Ways /\ Back(b) = d
      /\ Theirs(d) \in [Nodes -> SUBSET Nodes] /\ Mine(d) \in [Objects -> SUBSET Nodes]
      /\ Theirs(b) \in [Nodes -> SUBSET Nodes] /\ Mine(b) \in [Objects -> SUBSET Nodes]
  BY StepType, WayType DEF IInv
<1>2. /\ x \in Settled /\ y \in Settled /\ x \in Nodes /\ y \in Nodes
      /\ (x = n /\ Step.op = "add") \/ life[x] = "live"
      /\ (y = n /\ Step.op = "add") \/ life[y] = "live"
  BY KeptLife
<1>3. ASSUME life[x] = "live", life[y] = "live", y \in Theirs(d)[x], x \notin Theirs(b)[y]
      PROVE  \E e \in wired : /\ node[Near1(d, e)] = x /\ node[Far(d, e)] = y
                              /\ Op("update", Near1(d, e)) \in Served
                              /\ Op("update", Far(d, e)) \notin Served
  BY <1>2, <1>3 DEF HInv, Mid, HalfServed, Half
<1>4. CASE Made(n)
  <2>1. Theirs(d)' = Theirs(d) /\ Theirs(b)' = Theirs(b)
    BY <1>4 DEF Made, Theirs
  <2>2. life[x] # "absent" /\ life[y] # "absent"
    BY <1>1, <1>2, <2>1 DEF Alive
  <2>3. life[x] = "live" /\ life[y] = "live"
    BY <1>2, <1>4, <2>2 DEF Made
  <2>4. \A p : Op("update", p) # Step
    BY <1>4 DEF Made, Op
  <2> QED
    BY <1>3, <2>1, <2>3, <2>4
<1>5. CASE Put(n, d)
  <2>1. /\ Step.op = "update" /\ n = node[o] /\ life[x] = "live" /\ life[y] = "live"
        /\ Theirs(d)' = [Theirs(d) EXCEPT ![n] = Mine(d)[o]]
    BY <1>5 DEF Put
  <2>2. Theirs(b)' = [Theirs(b) EXCEPT ![n] = Mine(b)[o]]
    <3>1. Put(n, b)
      BY <1>1, <2>1, ServeEffect DEF Made
    <3> QED
      BY <3>1 DEF Put
  <2>3. ASSUME NEW p \in Objects, node[p] = n, n \in Settled PROVE p = o
    BY <1>1, <2>1, <2>3 DEF HInv, Unique
  <2>4. CASE x = n
    <3>1. y \in Mine(d)[o]
      BY <1>1, <1>2, <2>1, <2>4
    <3>2. y \in Theirs(d)[n] \/ WiredTo(d, o, y)
      BY <1>1, <1>2, <2>1, <2>4, <3>1 DEF HInv, Agree
    <3>3. CASE WiredTo(d, o, y)
      <4>1. PICK e \in wired : Near1(d, e) = o /\ node[Far(d, e)] = y
        BY <3>3 DEF WiredTo
      <4>2. /\ Far(d, e) \in Objects /\ Near1(b, e) = Far(d, e) /\ Far(b, e) = Near1(d, e)
            /\ {node[e[1]], node[e[2]]} = {x, y}
        BY <2>1, <2>4, <4>1, EndsType DEF Near1, Far, Ways
      <4>3. ASSUME Op("update", Far(d, e)) \in Served \cup {Step} PROVE FALSE
        <5>1. Sole(Near1(b, e))
          BY <1>2, <4>1, <4>2, SoleOne
        <5>2. touched \cap {node[e[1]], node[e[2]]} = {}
          BY <1>2, <4>2 DEF HInv, Calm, Settled
        <5>3. life'[node[e[1]]] = "live" /\ life'[node[e[2]]] = "live"
          BY <4>2
        <5>4. node[Far(b, e)] \in Theirs(b)'[node[Near1(b, e)]]
          BY <1>1, <4>2, <4>3, <5>1, <5>2, <5>3, ServeWritten
        <5> QED
          BY <2>1, <2>4, <4>1, <4>2, <5>4
      <4>4. Op("update", Near1(d, e)) = Step
        BY <1>1, <2>1, <4>1
      <4> QED
        BY <2>1, <2>4, <4>1, <4>3, <4>4
    <3>4. CASE ~ WiredTo(d, o, y) /\ y \in Theirs(d)[n]
      <4>1. x \notin Theirs(b)[y]
        <5>1. CASE y = n
          <6>1. x \notin Mine(b)[o]
            BY <1>1, <1>2, <2>2, <5>1
          <6> QED
            BY <1>1, <1>2, <2>1, <2>4, <5>1, <6>1 DEF HInv, Agree
        <5>2. CASE y # n
          BY <1>1, <1>2, <2>2, <5>2
        <5> QED
          BY <5>1, <5>2
      <4>2. PICK e \in wired : node[Near1(d, e)] = x /\ node[Far(d, e)] = y
        BY <1>3, <2>1, <2>4, <3>4, <4>1
      <4>3. Near1(d, e) = o
        BY <1>2, <2>3, <2>4, <4>2, EndsType
      <4> QED
        BY <3>4, <4>2, <4>3 DEF WiredTo
    <3> QED
      BY <3>2, <3>3, <3>4
  <2>5. CASE x # n
    <3>1. y \in Theirs(d)[x]
      BY <1>1, <1>2, <2>1, <2>5
    <3>2. CASE y = n
      <4>1. x \notin Mine(b)[o]
        BY <1>1, <1>2, <2>2, <3>2
      <4>2. x \notin Theirs(b)[n] /\ ~ WiredTo(b, o, x)
        BY <1>1, <1>2, <2>1, <3>2, <4>1 DEF HInv, Agree
      <4>3. PICK e \in wired : node[Near1(d, e)] = x /\ node[Far(d, e)] = y
        BY <1>3, <2>1, <3>1, <3>2, <4>2
      <4>4. Far(d, e) = o
        BY <1>2, <2>3, <3>2, <4>3, EndsType
      <4>5. Near1(b, e) = o /\ node[Far(b, e)] = x
        BY <4>3, <4>4, EndsType
      <4> QED
        BY <4>2, <4>5 DEF WiredTo
    <3>3. CASE y # n
      <4>1. x \notin Theirs(b)[y]
        BY <1>1, <1>2, <2>2, <3>3
      <4>2. PICK e \in wired : /\ node[Near1(d, e)] = x /\ node[Far(d, e)] = y
                               /\ Op("update", Near1(d, e)) \in Served
                               /\ Op("update", Far(d, e)) \notin Served
        BY <1>3, <2>1, <3>1, <4>1
      <4>3. Op("update", Far(d, e)) # Step
        BY <2>1, <3>3, <4>2 DEF Op
      <4> QED
        BY <4>2, <4>3
    <3> QED
      BY <3>2, <3>3
  <2> QED
    BY <2>4, <2>5
<1>6. CASE Step.op = "delete" /\ Unlink(n) /\ Parted(n, d)
  <2>1. x \in Nodes \ Near(n) /\ y \in Nodes \ Near(n)
    BY <1>2, <1>6 DEF Kept
  <2>2. Parted(n, b)
    BY <1>1, <1>6, UnlinkParts
  <2>3. y \in Theirs(d)[x]
    BY <1>6, <2>1, KeptLists
  <2>4. x \notin Theirs(b)[y]
    BY <1>1, <2>1, <2>2, KeptLists
  <2>5. \A p : Op("update", p) # Step
    BY <1>6 DEF Op
  <2> QED
    BY <1>2, <1>3, <1>6, <2>3, <2>4, <2>5
<1> QED
  BY <1>1, <1>4, <1>5, <1>6, ServeEffect

\* The request that fails ends the commit(); whatever was wired is unsettled.
LEMMA FailsHInv ==
  ASSUME IInv, IInv', HInv, Fails PROVE HInv'
<1>1. /\ pos # 0 /\ UNCHANGED objects /\ wired' = {} /\ touched' = {}
      /\ Unsettled \subseteq unsettled' /\ unsettled \subseteq unsettled'
      /\ \/ UNCHANGED graph
         \/ \E n \in Nodes : /\ Serve(n)
                             /\ Step.op = "delete" => Near(n) \subseteq unsettled'
  BY UnsettledType DEF Fails, Leave
<1>2. /\ Settled' \subseteq Settled
      /\ \A y \in Settled' : y \in Nodes /\ y \notin Unsettled
      /\ node' = node /\ \A d \in Ways : Mine(d)' = Mine(d)
  BY <1>1 DEF Settled, Mine, objects
<1>3. Unique' /\ Calm'
  BY <1>1, <1>2 DEF HInv, Unique, Calm
<1>4. \A d \in Ways, o \in Objects, y \in Settled' : node[o] \in Settled' => ~ WiredTo(d, o, y)
  BY <1>2, EndsType DEF WiredTo
<1>5. \A d \in Ways : \A o, y : ~ WiredTo(d, o, y)'
  BY <1>1 DEF WiredTo
<1>6. CASE UNCHANGED graph
  <2>1. life' = life /\ \A d \in Ways : Theirs(d)' = Theirs(d)
    BY <1>6 DEF graph, Theirs
  <2>2. Gone'
    BY <1>2, <2>1 DEF HInv, Gone
  <2>3. Agree'
    BY <1>2, <1>4, <1>5, <2>1 DEF HInv, Agree
  <2>4. ASSUME NEW d \in Ways, NEW x \in Settled', NEW y \in Settled',
               life'[x] = "live", life'[y] = "live", Half(d, x, y)'
        PROVE  FALSE
    <3>1. Half(d, x, y)
      BY <2>1, <2>4, WayType DEF IInv, Half
    <3>2. PICK e \in wired : node[Near1(d, e)] = x
      BY <1>2, <2>1, <2>4, <3>1 DEF HInv, Mid, HalfServed
    <3> QED
      BY <1>2, <3>2, EndsType
  <2>5. Mid'
    BY <2>4 DEF Mid
  <2> QED
    BY <1>3, <2>2, <2>3, <2>5 DEF HInv
<1>7. ASSUME NEW n \in Nodes, Serve(n), Step.op = "delete" => Near(n) \subseteq unsettled'
      PROVE  HInv'
  <2>1. Settled' \subseteq Kept(n)
    BY <1>2, <1>7 DEF Kept, Settled
  <2>2. Gone'
    <3>1. ASSUME NEW y \in Settled' PROVE life'[y] # "gone"
      <4>1. y \in Nodes /\ y \in Kept(n) /\ life[y] # "gone" /\ TypeOK
        BY <1>2, <2>1 DEF HInv, Gone, IInv
      <4>2. CASE Made(n)
        BY <4>1, <4>2 DEF Made, TypeOK
      <4>3. CASE Put(n, "out")
        BY <4>1, <4>3 DEF Put
      <4>4. CASE Step.op = "delete" /\ Parted(n, "out")
        BY <4>1, <4>4 DEF Parted, TypeOK, Kept, Near
      <4> QED
        BY <1>7, <4>1, <4>2, <4>3, <4>4, ServeEffect DEF Ways
    <3> QED
      BY <3>1 DEF Gone
  <2>3. Agree'
    <3>1. ASSUME NEW d \in Ways, NEW o \in Objects, NEW y \in Settled',
                 node[o] \in Settled', life'[y] = "live"
          PROVE  y \in Mine(d)[o] <=> y \in Theirs(d)'[node[o]]
      BY <1>1, <1>4, <1>7, <2>1, <3>1, ServeAgree
    <3> QED
      BY <1>2, <1>5, <3>1 DEF Agree
  <2>4. ASSUME NEW d \in Ways, NEW x \in Settled', NEW y \in Settled',
               life'[x] = "live", life'[y] = "live", Half(d, x, y)'
        PROVE  FALSE
    <3>1. y \in Theirs(d)'[x] /\ x \notin Theirs(Back(d))'[y]
      BY <2>4 DEF Half, Back
    <3>2. PICK e \in wired : node[Near1(d, e)] = x
      BY <1>1, <1>7, <2>1, <2>4, <3>1, ServeMid
    <3> QED
      BY <1>2, <3>2, EndsType
  <2>5. Mid'
    BY <2>4 DEF Mid
  <2> QED
    BY <1>3, <2>2, <2>3, <2>5 DEF HInv
<1> QED
  BY <1>1, <1>6, <1>7

LEMMA SucceedsHInv ==
  ASSUME IInv, IInv', HInv, Succeeds PROVE HInv'
<1>1. PICK n \in Nodes :
        /\ Serve(n)
        /\ Hydrate(Step.obj, n)
        /\ unsettled' = unsettled \cup IF Step.op = "delete" THEN Near(n) ELSE {}
  BY DEF Succeeds
<1>2. pos # 0 /\ TypeOK /\ Distinct /\ Alive /\ Len(queue) \in Nat /\ pos \in Nat
  BY QueueType DEF Succeeds, IInv
<1>3. /\ \A o \in Objects : node[o] # None => node'[o] = node[o]
      /\ \A o \in Objects : o # Step.obj => node'[o] = node[o]
      /\ Step.op = "add" => node[Step.obj] = None /\ node'[Step.obj] = n
      /\ \A d \in Ways, o \in Objects :
           \/ Mine(d)'[o] = Mine(d)[o]
           \/ o = Step.obj /\ Mine(d)'[o] = Theirs(d)'[n] /\ node'[o] = n
      /\ \A d \in Ways, o \in Objects : Step.op # "add" => Mine(d)'[o] = Mine(d)[o]
      /\ \A d \in Ways : Step.op = "add" => Mine(d)'[Step.obj] = Theirs(d)'[n]
      /\ Step.op # "add" => node' = node
  BY <1>1, <1>2, HydrateEffect
<1>4. /\ Settled' = Kept(n)
      /\ \A y \in Settled' : y \in Nodes /\ y \in Settled
      /\ unsettled \subseteq unsettled'
  BY <1>1 DEF Kept, Settled
<1>5. \/ /\ wired' = wired /\ touched' = touched
         /\ Served' = Served \cup {Step}
      \/ /\ wired' = {} /\ touched' = {}
         /\ Given \subseteq Served \cup {Step}
  <2>1. CASE pos < Len(queue)
    BY <1>2, <2>1, Advance DEF Succeeds
  <2>2. CASE ~ (pos < Len(queue))
    BY <1>2, <2>2, LastServed DEF Succeeds, Leave
  <2> QED
    BY <2>1, <2>2
<1>6. Unique'
  <2>1. ASSUME NEW o \in Objects, NEW p \in Objects, node'[o] = node'[p], node'[o] \in Settled'
        PROVE  o = p
    <3>1. CASE Step.op = "add" /\ (o = Step.obj \/ p = Step.obj)
      <4>1. life[n] = "absent" /\ node'[Step.obj] = n
        BY <1>1, <1>2, <1>3, <3>1, ServeType
      <4>2. \A q \in Objects : q # Step.obj => node'[q] # n
        BY <1>2, <1>3, <4>1, WiringAssumption DEF Alive
      <4> QED
        BY <2>1, <3>1, <4>1, <4>2
    <3>2. CASE ~ (Step.op = "add" /\ (o = Step.obj \/ p = Step.obj))
      <4>1. node'[o] = node[o] /\ node'[p] = node[p]
        BY <1>3, <3>2
      <4> QED
        BY <1>4, <2>1, <4>1 DEF HInv, Unique
    <3> QED
      BY <3>1, <3>2
  <2> QED
    BY <2>1 DEF Unique
<1>7. Gone'
  <2>1. ASSUME NEW y \in Settled' PROVE life'[y] # "gone"
    <3>1. y \in Nodes /\ y \in Kept(n) /\ life[y] # "gone"
      BY <1>4 DEF HInv, Gone
    <3>2. CASE Made(n)
      BY <1>2, <3>1, <3>2 DEF Made, TypeOK
    <3>3. CASE Put(n, "out")
      BY <3>1, <3>3 DEF Put
    <3>4. CASE Step.op = "delete" /\ Parted(n, "out")
      BY <1>2, <3>1, <3>4 DEF Parted, TypeOK, Kept, Near
    <3> QED
      BY <1>1, <1>2, <3>2, <3>3, <3>4, ServeEffect DEF Ways
  <2> QED
    BY <2>1 DEF Gone
<1>8. Calm'
  BY <1>4, <1>5 DEF HInv, Calm
<1>9. ASSUME NEW e \in wired, NEW d \in Ways
      PROVE  /\ node'[Near1(d, e)] = node[Near1(d, e)]
             /\ node'[Far(d, e)] = node[Far(d, e)]
             /\ node[Near1(d, e)] # None /\ node[Far(d, e)] # None
  BY <1>3, EndsType, WiringAssumption
<1>10. ASSUME NEW d \in Ways, NEW o \in Objects, NEW y \in Settled',
              node[o] \in Settled', life'[y] = "live", WiredTo(d, o, y), wired' = {}
       PROVE  y \in Theirs(d)'[node[o]]
  <2>1. PICK e \in wired : Near1(d, e) = o /\ node[Far(d, e)] = y
    BY <1>10 DEF WiredTo
  <2>2. Op("update", o) \in Served \cup {Step}
    <3>1. Given \subseteq Served \cup {Step}
      BY <1>5, <1>10, <2>1
    <3> QED
      BY <2>1, <3>1, EndsType
  <2>3. life'[node[o]] = "live"
    <3>1. life'[node[o]] # "gone" /\ node[o] \in Nodes
      BY <1>4, <1>7, <1>10 DEF Gone
    <3>2. life'[node[o]] # "absent"
      BY <1>2, <1>3, <3>1, WiringAssumption DEF IInv, Alive
    <3> QED
      BY <3>1, <3>2 DEF IInv, TypeOK
  <2>4. {node[e[1]], node[e[2]]} = {node[o], y}
    BY <2>1 DEF Near1, Far
  <2>5. touched \cap {node[e[1]], node[e[2]]} = {}
    BY <1>4, <1>10, <2>4 DEF HInv, Calm, Settled
  <2>6. life'[node[e[1]]] = "live" /\ life'[node[e[2]]] = "live"
    BY <1>10, <2>3, <2>4
  <2>7. Sole(Near1(d, e))
    BY <1>4, <1>10, <2>1, SoleOne
  <2> QED
    BY <1>1, <1>2, <2>1, <2>2, <2>5, <2>6, <2>7, ServeWritten
<1>11. Agree'
  <2>1. ASSUME NEW d \in Ways, NEW o \in Objects, NEW y \in Settled',
               node'[o] \in Settled', life'[y] = "live"
        PROVE  y \in Mine(d)'[o] <=> y \in Theirs(d)'[node'[o]] \/ WiredTo(d, o, y)'
    <3>1. CASE Step.op = "add" /\ o = Step.obj
      <4>1. ~ WiredTo(d, o, y)'
        BY <1>3, <1>5, <1>9, <3>1 DEF WiredTo, Near1, Far
      <4> QED
        BY <1>3, <3>1, <4>1
    <3>2. CASE ~ (Step.op = "add" /\ o = Step.obj)
      <4>1. node'[o] = node[o] /\ Mine(d)'[o] = Mine(d)[o]
        BY <1>3, <3>2
      <4>2. y \in Mine(d)[o] <=> y \in Theirs(d)'[node[o]] \/ WiredTo(d, o, y)
        BY <1>1, <1>2, <1>4, <2>1, <4>1, ServeAgree
      <4>3. CASE wired' = wired
        <5>1. WiredTo(d, o, y)' <=> WiredTo(d, o, y)
          BY <1>9, <4>3 DEF WiredTo, Near1, Far
        <5> QED
          BY <4>1, <4>2, <5>1
      <4>4. CASE wired' = {}
        <5>1. ~ WiredTo(d, o, y)'
          BY <4>4 DEF WiredTo
        <5> QED
          BY <1>10, <2>1, <4>1, <4>2, <4>4, <5>1
      <4> QED
        BY <1>5, <4>3, <4>4
    <3> QED
      BY <3>1, <3>2
  <2> QED
    BY <2>1 DEF Agree
<1>12. Mid'
  <2>1. ASSUME NEW d \in Ways, NEW x \in Settled', NEW y \in Settled',
               life'[x] = "live", life'[y] = "live", Half(d, x, y)'
        PROVE  HalfServed(d, x, y)'
    <3>1. y \in Theirs(d)'[x] /\ x \notin Theirs(Back(d))'[y]
      BY <2>1 DEF Half, Back
    <3>2. PICK e \in wired : /\ node[Near1(d, e)] = x /\ node[Far(d, e)] = y
                             /\ Op("update", Near1(d, e)) \in Served \cup {Step}
                             /\ Op("update", Far(d, e)) \notin Served \cup {Step}
      BY <1>1, <1>2, <1>4, <2>1, <3>1, ServeMid
    <3>3. wired' = wired /\ Served' = Served \cup {Step}
      BY <1>5, <3>2, EndsType
    <3> QED
      BY <1>9, <3>2, <3>3 DEF HalfServed, Op, Near1, Far
  <2> QED
    BY <2>1 DEF Mid
<1> QED
  BY <1>6, <1>7, <1>8, <1>11, <1>12 DEF HInv

-----------------------------------------------------------------------------
(* Calls of the program and other clients                                  *)

\* Between commits nothing is served, so that no settled node has half an edge.
LEMMA NoHalf ==
  ASSUME IInv, HInv, pos = 0, NEW d \in Ways, NEW x \in Settled, NEW y \in Settled,
         life[x] = "live", life[y] = "live"
  PROVE  ~ Half(d, x, y)
BY QueueType DEF IInv, HInv, Mid, HalfServed

\* Calls that leave the server alone.
LEMMA CallHInv ==
  ASSUME IInv, HInv, pos = 0, UNCHANGED <<graph, touched>>, unsettled \subseteq unsettled',
         Unique', Agree'
  PROVE  HInv'
<1>1. /\ Settled' \subseteq Settled /\ life' = life /\ \A d \in Ways : Theirs(d)' = Theirs(d)
  BY DEF Settled, graph, Theirs
<1>2. Gone' /\ Calm'
  BY <1>1 DEF HInv, Gone, Calm
<1>3. ASSUME NEW d \in Ways, NEW x \in Settled', NEW y \in Settled',
             life'[x] = "live", life'[y] = "live", Half(d, x, y)'
      PROVE  FALSE
  <2>1. Half(d, x, y)
    BY <1>1, <1>3, WayType DEF IInv, Half, Back
  <2> QED
    BY <1>1, <1>3, <2>1, NoHalf
<1>4. Mid'
  BY <1>3 DEF Mid
<1> QED
  BY <1>2, <1>4 DEF HInv

LEMMA StageHInv ==
  ASSUME IInv, HInv, pos = 0, UNCHANGED <<objects, graph, wired, touched, unsettled>>
  PROVE  HInv'
<1>1. Unique'
  BY DEF HInv, Unique, Settled, objects
<1>2. Agree'
  BY DEF HInv, Agree, Settled, objects, graph, WiredTo, Mine, Theirs, Near1, Far
<1> QED
  BY <1>1, <1>2, CallHInv

LEMMA RollbackHInv ==
  ASSUME IInv, HInv, Rollback PROVE HInv'
<1>1. /\ pos = 0 /\ UNCHANGED <<objects, graph, touched>> /\ wired' = {}
      /\ unsettled' = Unsettled /\ unsettled \subseteq unsettled'
  BY UnsettledType DEF Rollback, Between
<1>2. /\ Settled' \subseteq Settled /\ \A y \in Settled' : y \notin Unsettled
      /\ node' = node /\ life' = life
      /\ \A d \in Ways : Mine(d)' = Mine(d) /\ Theirs(d)' = Theirs(d)
  BY <1>1 DEF Settled, objects, graph, Mine, Theirs
<1>3. Unique'
  BY <1>2 DEF HInv, Unique
<1>4. \A d \in Ways, o \in Objects : \A y : node[o] \in Settled' => ~ WiredTo(d, o, y)
  BY <1>2, EndsType DEF WiredTo
<1>5. Agree'
  BY <1>1, <1>2, <1>4 DEF HInv, Agree, WiredTo
<1> QED
  BY <1>1, <1>3, <1>5, CallHInv

LEMMA LoadHInv ==
  ASSUME IInv, HInv, NEW o \in Objects, NEW n \in Nodes, Load(o, n) PROVE HInv'
<1>1. /\ pos = 0 /\ node[o] = None
      /\ node' = [node EXCEPT ![o] = n]
      /\ ins' = [ins EXCEPT ![o] = inOf[n]] /\ outs' = [outs EXCEPT ![o] = outOf[n]]
      /\ UNCHANGED <<graph, wired, touched>> /\ unsettled \subseteq unsettled'
      /\ \A p \in Objects : node[p] = n => n \in unsettled'
  BY DEF Load, Between
<1>2. /\ Settled' \subseteq Settled /\ life' = life /\ \A d \in Ways : Theirs(d)' = Theirs(d)
      /\ \A p \in Objects : node'[p] = IF p = o THEN n ELSE node[p]
  BY <1>1 DEF Settled, graph, Theirs, IInv, TypeOK
<1>3. Unique'
  <2>1. ASSUME NEW p \in Objects, NEW q \in Objects, node'[p] = node'[q], node'[p] \in Settled'
        PROVE  p = q
    <3>1. CASE p # o /\ q # o
      BY <1>2, <2>1, <3>1 DEF HInv, Unique
    <3>2. CASE p = o \/ q = o
      BY <1>1, <1>2, <2>1, <3>2 DEF Settled
    <3> QED
      BY <3>1, <3>2
  <2> QED
    BY <2>1 DEF Unique
<1>4. ASSUME NEW d \in Ways, NEW p \in Objects
      PROVE  Mine(d)'[p] = IF p = o THEN Theirs(d)[n] ELSE Mine(d)[p]
  <2>1. Mine(d)' = [Mine(d) EXCEPT ![o] = Theirs(d)[n]]
    BY <1>1 DEF Mine, Theirs, Ways
  <2> QED
    BY <2>1, WayType DEF IInv
<1>5. ASSUME NEW d \in Ways, NEW e \in wired
      PROVE  /\ Near1(d, e) # o /\ Far(d, e) # o /\ Near1(d, e) \in Objects
             /\ node'[Far(d, e)] = node[Far(d, e)]
  BY <1>1, <1>2, EndsType, WiringAssumption
<1>6. ASSUME NEW d \in Ways, NEW p \in Objects, NEW y
      PROVE  WiredTo(d, p, y)' <=> (p # o /\ WiredTo(d, p, y))
  BY <1>1, <1>5 DEF WiredTo, Near1, Far
<1>7. Agree'
  <2>1. ASSUME NEW p \in Objects, NEW d \in Ways, NEW y \in Settled',
               node'[p] \in Settled', life'[y] = "live"
        PROVE  y \in Mine(d)'[p] <=> y \in Theirs(d)'[node'[p]] \/ WiredTo(d, p, y)'
    <3>1. CASE p = o
      BY <1>2, <1>4, <1>6, <3>1
    <3>2. CASE p # o
      BY <1>2, <1>4, <1>6, <2>1, <3>2 DEF HInv, Agree
    <3> QED
      BY <3>1, <3>2
  <2> QED
    BY <2>1 DEF Agree
<1> QED
  BY <1>1, <1>3, <1>7, CallHInv

LEMMA WireHInv ==
  ASSUME IInv, HInv, NEW e \in Wires, Wire(e[1], e[2]) PROVE HInv'
<1>1. /\ pos = 0 /\ e[1] \in Objects /\ e[2] \in Objects
      /\ outs' = [outs EXCEPT ![e[1]] = @ \cup {node[e[2]]}]
      /\ ins' = [ins EXCEPT ![e[2]] = @ \cup {node[e[1]]}]
      /\ wired' = wired \cup {<<e[1], e[2]>>} /\ e = <<e[1], e[2]>>
      /\ UNCHANGED <<node, graph, touched, unsettled>>
  BY WiringAssumption DEF Wire, Between
<1>2. /\ Settled' = Settled /\ life' = life /\ \A d \in Ways : Theirs(d)' = Theirs(d)
      /\ wired' = wired \cup {e}
  BY <1>1 DEF Settled, graph, Theirs
<1>3. Unique'
  BY <1>1, <1>2 DEF HInv, Unique
<1>4. ASSUME NEW d \in Ways, NEW p \in Objects
      PROVE  Mine(d)'[p] = Mine(d)[p] \cup IF p = Near1(d, e) THEN {node[Far(d, e)]} ELSE {}
  <2>1. Mine(d)' = [Mine(d) EXCEPT ![Near1(d, e)] = @ \cup {node[Far(d, e)]}]
    BY <1>1 DEF Mine, Near1, Far, Ways
  <2> QED
    BY <2>1, WayType DEF IInv
<1>5. ASSUME NEW d \in Ways, NEW p \in Objects, NEW y
      PROVE  WiredTo(d, p, y)' <=> WiredTo(d, p, y) \/ (p = Near1(d, e) /\ y = node[Far(d, e)])
  BY <1>1, <1>2 DEF WiredTo, Near1, Far
<1>6. Agree'
  <2>1. ASSUME NEW p \in Objects, NEW d \in Ways, NEW y \in Settled,
               node[p] \in Settled, life[y] = "live"
        PROVE  y \in Mine(d)'[p] <=> y \in Theirs(d)[node[p]] \/ WiredTo(d, p, y)'
    <3>1. y \in Mine(d)[p] <=> y \in Theirs(d)[node[p]] \/ WiredTo(d, p, y)
      BY <2>1 DEF HInv, Agree
    <3> QED
      BY <1>4, <1>5, <3>1
  <2> QED
    BY <1>1, <1>2, <2>1 DEF Agree
<1> QED
  BY <1>1, <1>3, <1>6, CallHInv

\* What others do unsettles the nodes that they touch.
LEMMA OtherHInv ==
  ASSUME IInv, HInv, UNCHANGED <<objects, queue, pos, wired>>, unsettled \subseteq unsettled',
         touched' \subseteq unsettled',
         \A x \in Settled' : life'[x] = life[x],
         \A d \in Ways, x, y \in Settled' : y \in Theirs(d)'[x] <=> y \in Theirs(d)[x]
  PROVE  HInv'
<1>1. /\ Settled' \subseteq Settled /\ node' = node /\ wired' = wired
      /\ Served' = Served /\ \A d \in Ways : Mine(d)' = Mine(d)
  BY DEF Settled, objects, Served, Mine
<1>2. Unique' /\ Gone' /\ Calm'
  BY <1>1 DEF HInv, Unique, Gone, Calm
<1>3. \A d \in Ways, o \in Objects : \A y : WiredTo(d, o, y)' <=> WiredTo(d, o, y)
  BY <1>1 DEF WiredTo, Near1, Far
<1>4. Agree'
  BY <1>1, <1>3 DEF HInv, Agree
<1>5. ASSUME NEW d \in Ways, NEW x \in Settled', NEW y \in Settled',
             life'[x] = "live", life'[y] = "live", Half(d, x, y)'
      PROVE  HalfServed(d, x, y)'
  <2>1. Back(d) \in Ways /\ y \in Theirs(d)'[x] /\ x \notin Theirs(Back(d))'[y]
    BY <1>5, WayType DEF IInv, Half, Back
  <2>2. Half(d, x, y)
    BY <2>1 DEF Half
  <2>3. HalfServed(d, x, y)
    BY <1>1, <1>5, <2>2 DEF HInv, Mid
  <2> QED
    BY <1>1, <2>3 DEF HalfServed, Op, Near1, Far
<1>6. Mid'
  BY <1>5 DEF Mid
<1> QED
  BY <1>2, <1>4, <1>6 DEF HInv

LEMMA OtherDeleteHInv ==
  ASSUME IInv, HInv, NEW n \in Nodes, OtherDelete(n) PROVE HInv'
<1>1. /\ TypeOK /\ Unlink(n) /\ UNCHANGED <<objects, queue, pos, wired>> /\ touched' = touched
      /\ unsettled' = unsettled \cup Near(n)
  BY DEF IInv, OtherDelete
<1>2. Settled' = Settled \ Near(n) /\ n \notin Settled' /\ Settled' \subseteq Nodes \ Near(n)
  BY <1>1 DEF Settled, Near
<1>3. \A d \in Ways : Parted(n, d)
  BY <1>1, UnlinkParts
<1>4. \A x \in Settled' : life'[x] = life[x]
  BY <1>1, <1>2 DEF Unlink, TypeOK
<1>5. \A d \in Ways, x, y \in Settled' : y \in Theirs(d)'[x] <=> y \in Theirs(d)[x]
  BY <1>2, <1>3, KeptLists
<1>6. touched' \subseteq unsettled' /\ unsettled \subseteq unsettled'
  BY <1>1 DEF HInv, Calm
<1> QED
  BY <1>1, <1>4, <1>5, <1>6, OtherHInv

LEMMA OtherEdgeHInv ==
  ASSUME IInv, HInv, NEW m \in Nodes, NEW n \in Nodes, OtherEdge(m, n) PROVE HInv'
<1>1. /\ TypeOK /\ UNCHANGED <<objects, queue, pos, wired>> /\ life' = life
      /\ touched' = IF pos = 0 THEN {} ELSE touched \cup {m, n}
      /\ unsettled' = unsettled \cup {m, n}
  BY DEF IInv, OtherEdge
<1>2. \A x \in Nodes : x \notin {m, n} => inOf'[x] = inOf[x] /\ outOf'[x] = outOf[x]
  <2>1. CASE /\ outOf' = [outOf EXCEPT ![m] = @ \cup {n}]
             /\ inOf' = [inOf EXCEPT ![n] = @ \cup {m}]
    BY <1>1, <2>1 DEF TypeOK
  <2>2. CASE /\ outOf' = [outOf EXCEPT ![m] = @ \ {n}]
             /\ inOf' = [inOf EXCEPT ![n] = @ \ {m}]
    BY <1>1, <2>2 DEF TypeOK
  <2> QED
    BY <2>1, <2>2 DEF OtherEdge
<1>3. \A x \in Settled' : x \in Nodes /\ x \notin {m, n}
  BY <1>1 DEF Settled
<1>4. \A d \in Ways, x, y \in Settled' : y \in Theirs(d)'[x] <=> y \in Theirs(d)[x]
  BY <1>2, <1>3 DEF Theirs
<1>5. touched' \subseteq unsettled' /\ unsettled \subseteq unsettled'
  BY <1>1 DEF HInv, Calm
<1> QED
  BY <1>1, <1>4, <1>5, OtherHInv

-----------------------------------------------------------------------------
(* The theorem                                                             *)

LEMMA InitHInv == Init => HInv
<1> SUFFICES ASSUME Init PROVE HInv
  OBVIOUS
<1>1. \A d \in Ways : /\ \A o \in Objects : Mine(d)[o] = {} /\ node[o] = None
                      /\ \A n \in Nodes : Theirs(d)[n] = {}
  BY DEF Init, Mine, Theirs
<1>2. None \notin Settled /\ Settled \subseteq Nodes
  BY WiringAssumption DEF Settled
<1>3. Unique /\ Gone /\ Calm
  BY <1>2 DEF Init, Unique, Gone, Calm
<1>4. Agree /\ Mid
  BY <1>1, <1>2 DEF Agree, Mid, HalfServed, Half
<1> QED
  BY <1>3, <1>4 DEF HInv

LEMMA NextHInv ==
  ASSUME IInv, IInv', HInv, [Next]_vars PROVE HInv'
<1>1. CASE UNCHANGED vars
  <2>1. /\ UNCHANGED <<objects, queue, pos, wired>> /\ unsettled' = unsettled
        /\ touched' = touched /\ life' = life /\ \A d \in Ways : Theirs(d)' = Theirs(d)
    BY <1>1 DEF vars, objects, graph, history, Theirs
  <2> QED
    BY <2>1, OtherHInv DEF HInv, Calm
<1>2. ASSUME NEW o \in Objects, AddNode(o) \/ UpdateNode(o) \/ DeleteNode(o) PROVE HInv'
  BY <1>2, StageHInv DEF AddNode, UpdateNode, DeleteNode, Between
<1>3. ASSUME NEW o \in Objects, NEW n \in Nodes, Load(o, n) PROVE HInv'
  BY <1>3, LoadHInv
<1>4. ASSUME NEW e \in Wires, Wire(e[1], e[2]) PROVE HInv'
  BY <1>4, WireHInv
<1>5. CASE Rollback
  BY <1>5, RollbackHInv
<1>6. CASE Commit
  BY <1>6, StageHInv DEF Commit, Between, history
<1>7. CASE Succeeds
  BY <1>7, SucceedsHInv
<1>8. CASE Fails
  BY <1>8, FailsHInv
<1>9. ASSUME NEW m \in Nodes, NEW n \in Nodes, OtherEdge(m, n) PROVE HInv'
  BY <1>9, OtherEdgeHInv
<1>10. ASSUME NEW n \in Nodes, OtherDelete(n) PROVE HInv'
  BY <1>10, OtherDeleteHInv
<1> QED
  BY <1>1, <1>2, <1>3, <1>4, <1>5, <1>6, <1>7, <1>8, <1>9, <1>10 DEF Next

\* Between commits no edge is on one of its nodes only, but where it must be expected:
\* where the last attempt to write it failed or was rolled back, another client or a
\* deletion changed the node, or the program holds two objects for it.
THEOREM NoHalfIsLeft == Spec => []HalvesMeet
<1>1. IInv /\ HInv => HalvesMeet
  <2> SUFFICES ASSUME IInv, HInv, pos = 0, NEW m \in Settled, NEW n \in Settled,
                      life[m] = "live", life[n] = "live"
               PROVE  n \in outOf[m] <=> m \in inOf[n]
    BY DEF HalvesMeet, Live, Settled
  <2>1. ~ Half("out", m, n) /\ ~ Half("in", n, m)
    BY NoHalf DEF Ways
  <2> QED
    BY <2>1 DEF Half, Theirs, Back
<1>2. IInv /\ IInv' /\ HInv /\ [Next]_vars => HInv'
  BY NextHInv
<1> QED
  BY <1>1, <1>2, InitHInv, Invariance, PTL DEF Spec
-----------------------------------------------------------------------------
(* Conditions.  The compiler, what conditions mean and what trees hold are   *)
(* defined by recursion on the depth: the three at one depth are a level,    *)
(* and each level is made of the one below.                                  *)

Ground   == <<[c \in Scalars |-> Refused], [c \in {} |-> {}], [t \in Leaves |-> HoldsLeaf(t)]>>
Above(l) == <<CompileAbove(l[1]), MeansAbove(l[2]), HoldsAbove(l[3])>>

\* The levels up to m.
Levels(g, m) == g = [k \in 0..m |-> IF k = 0 THEN Ground ELSE Above(g[k - 1])]

\* Each of the levels is made of the one below.
LEMMA LevelsAre ==
  ASSUME NEW m \in Nat, NEW g, Levels(g, m), NEW k \in 0..m
  PROVE  g[k] = IF k = 0 THEN Ground ELSE Above(g[k - 1])
BY DEF Levels

\* Levels are the same, however many there are.
LEMMA LevelsAgree ==
  ASSUME NEW m \in Nat, NEW n \in Nat, NEW g, NEW h, Levels(g, m), Levels(h, n), m <= n
  PROVE  g[m] = h[m]
<1> DEFINE T == {k \in 0..m : g[k] # h[k]}
<1>1. SUFFICES ASSUME T # {} PROVE FALSE
  <2>1. m \in 0..m
    OBVIOUS
  <2> QED
    BY <2>1
<1>2. T \in SUBSET Nat
  OBVIOUS
<1>3. PICK k \in T : \A j \in T : k <= j
  <2> HIDE DEF T
  <2> QED
    BY <1>1, <1>2, LeastOf
<1>4. k \in 0..m /\ k \in 0..n /\ g[k] # h[k]
  OBVIOUS
<1>5. /\ g[k] = IF k = 0 THEN Ground ELSE Above(g[k - 1])
      /\ h[k] = IF k = 0 THEN Ground ELSE Above(h[k - 1])
  BY <1>4, LevelsAre
<1>6. CASE k = 0
  BY <1>4, <1>5, <1>6
<1>7. CASE k # 0
  <2>1. k - 1 \in 0..m /\ ~ (k <= k - 1)
    BY <1>4, <1>7
  <2>2. g[k - 1] = h[k - 1]
    BY <1>3, <2>1
  <2> QED
    BY <1>4, <1>5, <1>7, <2>2
<1> QED
  BY <1>6, <1>7

\* There are levels up to any depth.  (By a least depth that has none: the
\* induction theorems take the statement as an operator.)
LEMMA LevelsExist ==
  ASSUME NEW m \in Nat
  PROVE  \E g : Levels(g, m)
<1> DEFINE T == {k \in Nat : ~ \E g : Levels(g, k)}
<1>1. SUFFICES ASSUME T # {} PROVE FALSE
  OBVIOUS
<1>2. PICK k \in T : \A j \in T : k <= j
  <2>1. T \in SUBSET Nat
    OBVIOUS
  <2> HIDE DEF T
  <2> QED
    BY <1>1, <2>1, LeastOf
<1>3. k \in Nat /\ ~ \E g : Levels(g, k)
  OBVIOUS
<1>4. CASE k = 0
  <2>1. PICK g : g = [j \in 0..0 |-> Ground]
    OBVIOUS
  <2>2. g = [j \in 0..0 |-> IF j = 0 THEN Ground ELSE Above(g[j - 1])]
    BY <2>1
  <2> QED
    BY <1>3, <1>4, <2>2 DEF Levels
<1>5. CASE k # 0
  <2>1. k - 1 \in Nat /\ ~ (k <= k - 1)
    BY <1>3, <1>5
  <2>2. PICK h : Levels(h, k - 1)
    BY <1>2, <2>1
  <2>3. PICK g : g = [j \in 0..k |-> IF j = k THEN Above(h[k - 1]) ELSE h[j]]
    OBVIOUS
  <2>4. \A j \in 0..(k - 1) : g[j] = h[j]
    BY <1>3, <2>3
  <2>5. ASSUME NEW j \in 0..k
        PROVE  g[j] = IF j = 0 THEN Ground ELSE Above(g[j - 1])
    <3>1. CASE j = k
      <4>1. k - 1 \in 0..(k - 1) /\ k \in 0..k
        BY <1>3, <2>1
      <4> QED
        BY <1>5, <2>3, <2>4, <3>1, <4>1
    <3>2. CASE j # k
      <4>1. j \in 0..(k - 1) /\ (j # 0 => j - 1 \in 0..(k - 1))
        BY <1>3, <3>2
      <4>2. h[j] = IF j = 0 THEN Ground ELSE Above(h[j - 1])
        BY <2>1, <2>2, <4>1, LevelsAre
      <4> QED
        BY <2>4, <4>1, <4>2
    <3> QED
      BY <3>1, <3>2
  <2>6. g = [j \in 0..k |-> IF j = 0 THEN Ground ELSE Above(g[j - 1])]
    BY <2>3, <2>5
  <2> QED
    BY <1>3, <2>6 DEF Levels
<1> QED
  BY <1>4, <1>5

\* So there is a function of every depth that each recursive definition is a part of.
LEMMA LevelsOfAll ==
  \E L : L = [n \in Nat |-> IF n = 0 THEN Ground ELSE Above(L[n - 1])]
<1> DEFINE G(n) == CHOOSE g : Levels(g, n)
           L == [n \in Nat |-> G(n)[n]]
<1>1. \A n \in Nat : Levels(G(n), n)
  BY LevelsExist
<1> HIDE DEF G
<1>2. ASSUME NEW n \in Nat
      PROVE  G(n)[n] = IF n = 0 THEN Ground ELSE Above(L[n - 1])
  <2>1. n \in 0..n
    OBVIOUS
  <2>2. G(n)[n] = IF n = 0 THEN Ground ELSE Above(G(n)[n - 1])
    BY <1>1, <2>1, LevelsAre
  <2>3. ASSUME n # 0 PROVE G(n)[n - 1] = L[n - 1]
    <3>1. n - 1 \in Nat /\ n - 1 <= n
      BY <2>3
    <3>2. G(n - 1)[n - 1] = G(n)[n - 1]
      BY <1>1, <3>1, LevelsAgree
    <3> QED
      BY <3>1, <3>2
  <2> QED
    BY <2>2, <2>3
<1>3. \A n \in Nat : L[n] = IF n = 0 THEN Ground ELSE Above(L[n - 1])
  BY <1>2
<1>4. L = [n \in Nat |-> IF n = 0 THEN Ground ELSE Above(L[n - 1])]
  BY <1>3
<1> QED
  BY <1>4

\* The compiler of one depth is that of the depth below, one level higher.
LEMMA CompileLevels ==
  /\ CompileTo[0] = [c \in Scalars |-> Refused]
  /\ \A n \in Nat : CompileTo[n + 1] = CompileAbove(CompileTo[n])
<1>1. PICK L : L = [n \in Nat |-> IF n = 0 THEN Ground ELSE Above(L[n - 1])]
  BY LevelsOfAll
<1>2. PICK f : f = [n \in Nat |-> L[n][1]]
  OBVIOUS
<1>3. ASSUME NEW n \in Nat
      PROVE  f[n] = IF n = 0 THEN [c \in Scalars |-> Refused] ELSE CompileAbove(f[n - 1])
  <2>1. L[n] = IF n = 0 THEN Ground ELSE Above(L[n - 1])
    BY <1>1
  <2>2. n # 0 => n - 1 \in Nat
    OBVIOUS
  <2> QED
    BY <1>2, <2>1, <2>2 DEF Ground, Above
<1>4. f = [n \in Nat |-> IF n = 0 THEN [c \in Scalars |-> Refused] ELSE CompileAbove(f[n - 1])]
  BY <1>2, <1>3
<1>5. CompileTo = [n \in Nat |-> IF n = 0 THEN [c \in Scalars |-> Refused] ELSE CompileAbove(CompileTo[n - 1])]
  BY <1>4 DEF CompileTo
<1>6. \A n \in Nat : n + 1 \in Nat /\ n + 1 # 0 /\ (n + 1) - 1 = n
  OBVIOUS
<1> QED
  BY <1>5, <1>6

\* So are the meanings.
LEMMA MeansLevels ==
  /\ MeansTo[0] = [c \in {} |-> {}]
  /\ \A n \in Nat : MeansTo[n + 1] = MeansAbove(MeansTo[n])
<1>1. PICK L : L = [n \in Nat |-> IF n = 0 THEN Ground ELSE Above(L[n - 1])]
  BY LevelsOfAll
<1>2. PICK f : f = [n \in Nat |-> L[n][2]]
  OBVIOUS
<1>3. ASSUME NEW n \in Nat
      PROVE  f[n] = IF n = 0 THEN [c \in {} |-> {}] ELSE MeansAbove(f[n - 1])
  <2>1. L[n] = IF n = 0 THEN Ground ELSE Above(L[n - 1])
    BY <1>1
  <2>2. n # 0 => n - 1 \in Nat
    OBVIOUS
  <2> QED
    BY <1>2, <2>1, <2>2 DEF Ground, Above
<1>4. f = [n \in Nat |-> IF n = 0 THEN [c \in {} |-> {}] ELSE MeansAbove(f[n - 1])]
  BY <1>2, <1>3
<1>5. MeansTo = [n \in Nat |-> IF n = 0 THEN [c \in {} |-> {}] ELSE MeansAbove(MeansTo[n - 1])]
  BY <1>4 DEF MeansTo
<1>6. \A n \in Nat : n + 1 \in Nat /\ n + 1 # 0 /\ (n + 1) - 1 = n
  OBVIOUS
<1> QED
  BY <1>5, <1>6

\* So are the trees.
LEMMA HoldsLevels ==
  /\ HoldsTo[0] = [t \in Leaves |-> HoldsLeaf(t)]
  /\ \A n \in Nat : HoldsTo[n + 1] = HoldsAbove(HoldsTo[n])
<1>1. PICK L : L = [n \in Nat |-> IF n = 0 THEN Ground ELSE Above(L[n - 1])]
  BY LevelsOfAll
<1>2. PICK f : f = [n \in Nat |-> L[n][3]]
  OBVIOUS
<1>3. ASSUME NEW n \in Nat
      PROVE  f[n] = IF n = 0 THEN [t \in Leaves |-> HoldsLeaf(t)] ELSE HoldsAbove(f[n - 1])
  <2>1. L[n] = IF n = 0 THEN Ground ELSE Above(L[n - 1])
    BY <1>1
  <2>2. n # 0 => n - 1 \in Nat
    OBVIOUS
  <2> QED
    BY <1>2, <2>1, <2>2 DEF Ground, Above
<1>4. f = [n \in Nat |-> IF n = 0 THEN [t \in Leaves |-> HoldsLeaf(t)] ELSE HoldsAbove(f[n - 1])]
  BY <1>2, <1>3
<1>5. HoldsTo = [n \in Nat |-> IF n = 0 THEN [t \in Leaves |-> HoldsLeaf(t)] ELSE HoldsAbove(HoldsTo[n - 1])]
  BY <1>4 DEF HoldsTo
<1>6. \A n \in Nat : n + 1 \in Nat /\ n + 1 # 0 /\ (n + 1) - 1 = n
  OBVIOUS
<1> QED
  BY <1>5, <1>6

-----------------------------------------------------------------------------
\* What is nested up to n levels: values, conditions of the dialect, trees.
V(n) == DOMAIN CompileTo[n]
W(n) == DOMAIN MeansTo[n]
T(n) == DOMAIN HoldsTo[n]

\* What is nested one level deeper is made of what is nested so far.
LEMMA DomainsAre ==
  /\ V(0) = Scalars /\ W(0) = {} /\ T(0) = Leaves
  /\ \A n \in Nat : /\ V(n + 1) = ValuesOver(V(n))
                    /\ W(n + 1) = WellFormedOver(W(n))
                    /\ T(n + 1) = Leaves \cup NodesOf(T(n))
<1>1. V(0) = Scalars /\ W(0) = {} /\ T(0) = Leaves
  BY CompileLevels, MeansLevels, HoldsLevels DEF V, W, T
<1>2. \A n \in Nat : V(n + 1) = ValuesOver(V(n))
  BY CompileLevels DEF CompileAbove, V
<1>3. \A n \in Nat : W(n + 1) = WellFormedOver(W(n))
  BY MeansLevels DEF MeansAbove, W
<1>4. \A n \in Nat : T(n + 1) = Leaves \cup NodesOf(T(n))
  BY HoldsLevels DEF HoldsAbove, T
<1> QED
  BY <1>1, <1>2, <1>3, <1>4

\* What is made of more is more.
LEMMA OverGrows ==
  ASSUME NEW A, NEW B, A \subseteq B
  PROVE  ValuesOver(A) \subseteq ValuesOver(B) /\ NodesOf(A) \subseteq NodesOf(B)
<1>1. Seq(A) \subseteq Seq(B)
  OBVIOUS
<1>2. ListsOf(A) \subseteq ListsOf(B)
  BY <1>1 DEF ListsOf
<1>3. EntriesOf(A) \subseteq EntriesOf(B)
  BY DEF EntriesOf
<1>4. Seq(EntriesOf(A)) \subseteq Seq(EntriesOf(B))
  BY <1>3
<1>5. MapsOf(A) \subseteq MapsOf(B)
  BY <1>4 DEF MapsOf
<1>6. NonEmpty(A) \subseteq NonEmpty(B)
  BY <1>1 DEF NonEmpty
<1> QED
  BY <1>2, <1>5, <1>6 DEF ValuesOver, NodesOf

\* A value nested up to n levels is one nested up to n + 1.
LEMMA ValuesGrow ==
  ASSUME NEW n \in Nat
  PROVE  V(n) \subseteq V(n + 1)
<1> DEFINE Bad == {k \in Nat : ~ (V(k) \subseteq V(k + 1))}
<1>1. SUFFICES ASSUME Bad # {} PROVE FALSE
  OBVIOUS
<1>2. PICK k \in Bad : \A j \in Bad : k <= j
  <2>1. Bad \in SUBSET Nat
    OBVIOUS
  <2> HIDE DEF Bad
  <2> QED
    BY <1>1, <2>1, LeastOf
<1>3. k \in Nat /\ ~ (V(k) \subseteq V(k + 1))
  OBVIOUS
<1>4. CASE k = 0
  BY <1>3, <1>4, DomainsAre DEF ValuesOver
<1>5. CASE k # 0
  <2>1. PICK j \in Nat : k = j + 1 /\ ~ (k <= j)
    <3>1. k - 1 \in Nat /\ k = (k - 1) + 1 /\ ~ (k <= k - 1)
      BY <1>3, <1>5
    <3> QED
      BY <3>1
  <2>2. V(j) \subseteq V(k)
    BY <1>2, <2>1
  <2>3. V(k) = ValuesOver(V(j)) /\ V(k + 1) = ValuesOver(V(k))
    BY <1>3, <2>1, DomainsAre
  <2> QED
    BY <1>3, <2>2, <2>3, OverGrows
<1> QED
  BY <1>4, <1>5

\* A value is a scalar, or a list or a mapping of values that are nested no deeper.
LEMMA ValueKinds ==
  ASSUME NEW n \in Nat, NEW x \in V(n)
  PROVE  \/ x \in Scalars /\ x.t \in {"num", "str"}
         \/ x \in ListsOf(V(n)) /\ x.t = "list" /\ x.items \in Seq(V(n))
         \/ x \in MapsOf(V(n)) /\ x.t = "map" /\ x.items \in Seq(EntriesOf(V(n)))
<1>1. x \in ValuesOver(V(n))
  <2>1. V(n) \subseteq V(n + 1) /\ V(n + 1) = ValuesOver(V(n))
    BY ValuesGrow, DomainsAre
  <2> QED
    BY <2>1
<1>2. CASE x \in Scalars
  BY <1>2 DEF Scalars
<1>3. CASE x \in ListsOf(V(n))
  BY <1>3 DEF ListsOf
<1>4. CASE x \in MapsOf(V(n))
  BY <1>4 DEF MapsOf
<1> QED
  BY <1>1, <1>2, <1>3, <1>4 DEF ValuesOver

\* The tag of a value tells what it is.
LEMMA ScalarIs ==
  ASSUME NEW n \in Nat, NEW x \in V(n)
  PROVE  /\ x \in Scalars <=> IsScalar(x)
         /\ x.t = "map" => x \in MapsOf(V(n)) /\ x.items \in Seq(EntriesOf(V(n)))
         /\ x.t = "list" => x \in ListsOf(V(n)) /\ x.items \in Seq(V(n))
<1>1. \A y \in Scalars : y.t \in {"num", "str"}
  BY DEF Scalars
<1> QED
  BY <1>1, ValueKinds DEF IsScalar

\* What a tree of some depth holds: a leaf at any, a node one level up.
LEMMA HoldsIs ==
  ASSUME NEW n \in Nat
  PROVE  /\ \A t \in Leaves : t \in T(n) /\ HoldsTo[n][t] = HoldsLeaf(t)
         /\ \A t \in NodesOf(T(n)) : /\ t \in T(n + 1)
                                     /\ HoldsTo[n + 1][t] = HoldsNode(HoldsTo[n], t)
<1>1. ASSUME NEW j \in Nat
      PROVE  /\ \A t \in Leaves : t \in T(j + 1) /\ HoldsTo[j + 1][t] = HoldsLeaf(t)
             /\ \A t \in NodesOf(T(j)) : /\ t \in T(j + 1)
                                         /\ HoldsTo[j + 1][t] = HoldsNode(HoldsTo[j], t)
  <2>1. PICK g, h : g = HoldsTo[j] /\ h = HoldsTo[j + 1]
    OBVIOUS
  <2>2. h = [t \in Leaves \cup NodesOf(DOMAIN g) |->
               IF t.type = "logical" THEN HoldsNode(g, t) ELSE HoldsLeaf(t)]
    BY <2>1, HoldsLevels DEF HoldsAbove
  <2>3. \A t \in Leaves : t.type # "logical"
    BY DEF Leaves
  <2>4. \A t \in NodesOf(DOMAIN g) : t.type = "logical"
    BY DEF NodesOf
  <2> QED
    BY <2>1, <2>2, <2>3, <2>4 DEF T
<1>2. \A t \in Leaves : t \in T(0) /\ HoldsTo[0][t] = HoldsLeaf(t)
  BY HoldsLevels DEF T
<1>3. \A t \in Leaves : t \in T(n) /\ HoldsTo[n][t] = HoldsLeaf(t)
  <2>1. CASE n = 0
    BY <1>2, <2>1
  <2>2. CASE n # 0
    <3>1. PICK j \in Nat : n = j + 1
      <4>1. n - 1 \in Nat /\ n = (n - 1) + 1
        BY <2>2
      <4> QED
        BY <4>1
    <3> QED
      BY <1>1, <3>1
  <2> QED
    BY <2>1, <2>2
<1> QED
  BY <1>1, <1>3

\* What a tree holds does not depend on the depth up to which trees are taken.
LEMMA TreesGrow ==
  ASSUME NEW n \in Nat, NEW t \in T(n)
  PROVE  t \in T(n + 1) /\ HoldsTo[n + 1][t] = HoldsTo[n][t]
<1> DEFINE Stays(k) == \A u \in T(k) : u \in T(k + 1) /\ HoldsTo[k + 1][u] = HoldsTo[k][u]
           Bad == {k \in Nat : ~ Stays(k)}
<1>1. SUFFICES ASSUME Bad # {} PROVE FALSE
  OBVIOUS
<1>2. PICK k \in Bad : \A j \in Bad : k <= j
  <2>1. Bad \in SUBSET Nat
    OBVIOUS
  <2> HIDE DEF Bad
  <2> QED
    BY <1>1, <2>1, LeastOf
<1>3. k \in Nat
  OBVIOUS
<1>4. SUFFICES ASSUME NEW u \in T(k)
               PROVE  u \in T(k + 1) /\ HoldsTo[k + 1][u] = HoldsTo[k][u]
  OBVIOUS
<1>5. CASE u \in Leaves
  BY <1>3, <1>5, HoldsIs
<1>6. CASE u \notin Leaves
  <2>1. k # 0
    BY <1>6, DomainsAre
  <2>2. PICK j \in Nat : k = j + 1 /\ ~ (k <= j)
    <3>1. k - 1 \in Nat /\ k = (k - 1) + 1 /\ ~ (k <= k - 1)
      BY <1>3, <2>1
    <3> QED
      BY <3>1
  <2>3. Stays(j)
    BY <1>2, <2>2
  <2>4. u \in NodesOf(T(j))
    BY <1>6, <2>2, DomainsAre
  <2>5. T(j) \subseteq T(k)
    BY <2>2, <2>3
  <2>6. u \in NodesOf(T(k))
    BY <2>4, <2>5, OverGrows
  <2>7. /\ u.conditions \in Seq(T(j)) /\ u.conditions # <<>>
        /\ u.operator \in {"AND", "OR", "NOT"}
    BY <2>4 DEF NodesOf, NonEmpty
  <2>8. \A i \in DOMAIN u.conditions : HoldsTo[k][u.conditions[i]] = HoldsTo[j][u.conditions[i]]
    BY <2>2, <2>3, <2>7
  <2>9. 1 \in DOMAIN u.conditions
    BY <2>7
  <2>10. HoldsNode(HoldsTo[k], u) = HoldsNode(HoldsTo[j], u)
    BY <2>7, <2>8, <2>9 DEF HoldsNode
  <2>11. u \in T(k + 1) /\ HoldsTo[k + 1][u] = HoldsNode(HoldsTo[k], u)
    BY <1>3, <2>6, HoldsIs
  <2>12. HoldsTo[k][u] = HoldsNode(HoldsTo[j], u)
    BY <2>2, <2>4, HoldsIs
  <2> QED
    BY <2>10, <2>11, <2>12
<1> QED
  BY <1>5, <1>6
-----------------------------------------------------------------------------
(* One operator of a field.                                                *)

\* The operators of the dialect, and that each has one of the server's symbols.
LEMMA ServerIs ==
  /\ DOMAIN ServerOf = {"$eq", "$ne", "$gt", "$lt", "$gte", "$lte", "$matches"}
  /\ DOMAIN ListOp = {"$count", "$contains", "$min", "$max"}
  /\ \A d \in DOMAIN ServerOf : ServerOf[d] \in Comparisons
  /\ \A o \in DOMAIN ListOp : ListOp[o] \in ListOperations
  /\ ListOp["$count"] = "count" /\ ListOp["$contains"] = "contains"
  /\ ListOp["$min"] = "min" /\ ListOp["$max"] = "max"
BY DEF ServerOf, ListOp, Comparisons, ListOperations

\* A comparison by the server's name of an operator is that of the dialect.
LEMMA ComparesIs ==
  ASSUME NEW d \in DOMAIN ServerOf, NEW a, NEW b
  PROVE  Compares(ServerOf[d], a, b) <=> Satisfies(d, a, b)
BY DEF Compares, Satisfies, ServerOf

\* A comparison is accepted where the dialect has it, and means the same.
LEMMA ComparisonIs ==
  ASSUME NEW n \in Nat, NEW f \in Keys, NEW op \in DOMAIN ServerOf, NEW x \in V(n),
         NEW r, r = FieldComparison(f, op, x)
  PROVE  /\ r # Refused <=> [k |-> op, v |-> x] \in WellFormedOps
         /\ r # Refused => r \in Leaves /\ HoldsLeaf(r) = MeansOp(f, op, x)
<1>1. x \in Scalars <=> IsScalar(x)
  BY ScalarIs
<1>2. [k |-> op, v |-> x] \in WellFormedOps
        <=> x \in Scalars /\ (op = "$matches" => x.t = "str")
  BY ServerIs DEF WellFormedOps, Orders
<1>3. PICK l : l = [type |-> "field_comparison", field |-> f, operator |-> ServerOf[op], value |-> x]
  OBVIOUS
<1>4. l # Refused
  BY <1>3 DEF Refused
<1>5. r = IF x \in Scalars /\ (op = "$matches" => x.t = "str") THEN l ELSE Refused
  BY <1>1, <1>3 DEF FieldComparison
<1>6. x \in Scalars => l \in Leaves
  BY <1>3, ServerIs DEF Leaves
<1>7. HoldsLeaf(l) = {ctx \in Contexts : Compares(ServerOf[op], ctx.one[f], x)}
  BY <1>3 DEF HoldsLeaf
<1>8. MeansOp(f, op, x) = {ctx \in Contexts : Satisfies(op, ctx.one[f], x)}
  <2>1. op \notin {"$contains", "$count", "$min", "$max"}
    BY ServerIs
  <2>2. \A ctx : (CASE op \in DOMAIN ServerOf -> Satisfies(op, ctx.one[f], x)
                    [] op = "$contains" -> \E i \in DOMAIN ctx.all[f] : Same(Num(ctx.all[f][i]), x)
                    [] op = "$count" -> Satisfies(x.items[1].k, Num(Len(ctx.all[f])), x.items[1].v)
                    [] op = "$min" -> Satisfies(x.items[1].k, Num(Least(ctx.all[f])), x.items[1].v)
                    [] op = "$max" -> Satisfies(x.items[1].k, Num(Greatest(ctx.all[f])), x.items[1].v))
                  <=> Satisfies(op, ctx.one[f], x)
    BY <2>1
  <2> QED
    BY <2>2 DEF MeansOp
<1>9. HoldsLeaf(l) = MeansOp(f, op, x)
  BY <1>7, <1>8, ComparesIs
<1> QED
  BY <1>2, <1>4, <1>5, <1>6, <1>9

\* So is a list operation: one that asks for a member,
LEMMA ContainsIs ==
  ASSUME NEW n \in Nat, NEW f \in Keys, NEW x \in V(n),
         NEW r, r = ListOperation(f, "$contains", x)
  PROVE  /\ r # Refused <=> [k |-> "$contains", v |-> x] \in WellFormedOps
         /\ r # Refused => r \in Leaves /\ HoldsLeaf(r) = MeansOp(f, "$contains", x)
<1>1. x \in Scalars <=> IsScalar(x)
  BY ScalarIs
<1>2. [k |-> "$contains", v |-> x] \in WellFormedOps <=> x \in Scalars
  BY ServerIs DEF WellFormedOps, Orders
<1>3. PICK l : l = [type |-> "list_operation", field |-> f, operator |-> ListOp["$contains"],
                    value |-> x, comparison |-> "None"]
  OBVIOUS
<1>4. l # Refused
  BY <1>3 DEF Refused
<1>5. r = IF x \in Scalars THEN l ELSE Refused
  BY <1>1, <1>3 DEF ListOperation
<1>6. x \in Scalars => l \in Leaves
  BY <1>3, ServerIs DEF Leaves
<1>7. HoldsLeaf(l) = {ctx \in Contexts : \E i \in DOMAIN ctx.all[f] : Same(Num(ctx.all[f][i]), x)}
  BY <1>3, ServerIs DEF HoldsLeaf, HoldsOfList
<1>8. MeansOp(f, "$contains", x)
        = {ctx \in Contexts : \E i \in DOMAIN ctx.all[f] : Same(Num(ctx.all[f][i]), x)}
  BY ServerIs DEF MeansOp
<1> QED
  BY <1>2, <1>4, <1>5, <1>6, <1>7, <1>8

\* and one that compares a number taken of the list.
LEMMA AggregateIs ==
  ASSUME NEW n \in Nat, NEW f \in Keys, NEW op \in {"$count", "$min", "$max"}, NEW x \in V(n),
         NEW r, r = ListOperation(f, op, x)
  PROVE  /\ r # Refused <=> [k |-> op, v |-> x] \in WellFormedOps
         /\ r # Refused => r \in Leaves /\ HoldsLeaf(r) = MeansOp(f, op, x)
<1> DEFINE Ordered == DOMAIN ServerOf \ {"$matches"}
           Fits == /\ x.t = "map" /\ Len(x.items) = 1
                   /\ x.items[1].k \in Ordered /\ x.items[1].v \in Scalars
<1>1. x.t = "map" => x \in MapsOf(V(n)) /\ x.items \in Seq(EntriesOf(V(n)))
  BY ScalarIs
<1>2. [k |-> op, v |-> x] \in WellFormedOps
        <=> x \in [t : {"map"}, items : {s \in Seq(Orders) : Len(s) = 1}]
  BY ServerIs DEF WellFormedOps, Orders
<1>3. ASSUME x.t = "map", Len(x.items) = 1
      PROVE  /\ x.items[1] \in EntriesOf(V(n))
             /\ x.items[1].v \in Scalars <=> IsScalar(x.items[1].v)
             /\ x.items \in Seq(Orders) <=> x.items[1] \in Orders
             /\ x \in [t : {"map"}, items : {x.items}]
  <2>1. x.items \in Seq(EntriesOf(V(n))) /\ x \in [t : {"map"}, items : Seq(EntriesOf(V(n)))]
    BY <1>1, <1>3 DEF MapsOf
  <2>2. x.items[1] \in EntriesOf(V(n)) /\ DOMAIN x.items = {1}
    BY <1>3, <2>1
  <2>3. x.items[1].v \in V(n)
    BY <2>2 DEF EntriesOf
  <2>4. x.items[1].v \in Scalars <=> IsScalar(x.items[1].v)
    BY <2>3, ScalarIs
  <2>5. x.items \in Seq(Orders) <=> x.items[1] \in Orders
    <3>1. PICK q : q = x.items
      OBVIOUS
    <3>2. q \in Seq(EntriesOf(V(n))) /\ Len(q) = 1
      BY <1>3, <2>1, <3>1
    <3>3. ASSUME q \in Seq(Orders) PROVE q[1] \in Orders
      <4>1. 1 \in 1..Len(q)
        BY <3>2
      <4> QED
        BY <3>3, <4>1, ElementOfSeq
    <3>4. ASSUME q[1] \in Orders PROVE q \in Seq(Orders)
      <4>1. q = <<q[1]>>
        BY <3>2
      <4>2. <<q[1]>> \in Seq(Orders)
        BY <3>4
      <4> QED
        BY <4>1, <4>2
    <3> QED
      BY <3>1, <3>3, <3>4
  <2>6. x \in [t : {"map"}, items : {x.items}]
    BY <2>1
  <2> QED
    BY <2>2, <2>4, <2>5, <2>6
<1>4. x \in [t : {"map"}, items : {s \in Seq(Orders) : Len(s) = 1}] <=> Fits
  <2>1. ASSUME x \in [t : {"map"}, items : {s \in Seq(Orders) : Len(s) = 1}] PROVE Fits
    <3>1. x.t = "map" /\ x.items \in Seq(Orders) /\ Len(x.items) = 1
      BY <2>1
    <3>2. x.items[1] \in Orders
      BY <1>3, <3>1
    <3> QED
      BY <3>1, <3>2 DEF Orders
  <2>2. ASSUME Fits PROVE x \in [t : {"map"}, items : {s \in Seq(Orders) : Len(s) = 1}]
    <3>1. x.t = "map" /\ Len(x.items) = 1
      BY <2>2
    <3>2. x.items[1] \in EntriesOf(V(n))
      BY <1>3, <3>1
    <3>3. x.items[1] \in Orders
      BY <2>2, <3>2 DEF Orders, EntriesOf
    <3>4. x.items \in {s \in Seq(Orders) : Len(s) = 1}
      BY <1>3, <3>1, <3>3
    <3> QED
      BY <1>3, <3>1, <3>4
  <2> QED
    BY <2>1, <2>2
<1>5. PICK y, d : y = x.items[1].v /\ d = x.items[1].k
  OBVIOUS
<1>6. PICK l : l = [type |-> "list_operation", field |-> f, operator |-> ListOp[op],
                    value |-> y, comparison |-> ServerOf[d]]
  OBVIOUS
<1>7. l # Refused
  BY <1>6 DEF Refused
<1>8. r = IF Fits THEN l ELSE Refused
  <2>1. op # "$contains"
    OBVIOUS
  <2>2. CASE x.t = "map" /\ Len(x.items) = 1
    BY <1>3, <1>5, <1>6, <2>1, <2>2 DEF ListOperation
  <2>3. CASE ~ (x.t = "map" /\ Len(x.items) = 1)
    BY <2>1, <2>3 DEF ListOperation
  <2> QED
    BY <2>2, <2>3
<1>9. ASSUME Fits PROVE l \in Leaves /\ HoldsLeaf(l) = MeansOp(f, op, x)
  <2>1. d \in DOMAIN ServerOf /\ y \in Scalars
    BY <1>5, <1>9
  <2>2. ListOp[op] \in ListOperations /\ ServerOf[d] \in Comparisons
    BY <2>1, ServerIs
  <2>3. l \in Leaves
    BY <1>6, <2>1, <2>2 DEF Leaves
  <2>4. HoldsLeaf(l) = {ctx \in Contexts : HoldsOfList(l, ctx.all[f])}
    BY <1>6 DEF HoldsLeaf
  <2>5. \A z : Compares(ServerOf[d], z, y) <=> Satisfies(d, z, y)
    BY <2>1, ComparesIs
  <2>6. CASE op = "$count"
    <3>1. MeansOp(f, op, x) = {ctx \in Contexts : Satisfies(d, Num(Len(ctx.all[f])), y)}
      BY <1>5, <2>6, ServerIs DEF MeansOp
    <3>2. \A s : HoldsOfList(l, s) <=> Satisfies(d, Num(Len(s)), y)
      BY <1>6, <2>5, <2>6, ServerIs DEF HoldsOfList
    <3> QED
      BY <2>3, <2>4, <3>1, <3>2
  <2>7. CASE op = "$min"
    <3>1. MeansOp(f, op, x) = {ctx \in Contexts : Satisfies(d, Num(Least(ctx.all[f])), y)}
      BY <1>5, <2>7, ServerIs DEF MeansOp
    <3>2. \A s : HoldsOfList(l, s) <=> Satisfies(d, Num(Least(s)), y)
      BY <1>6, <2>5, <2>7, ServerIs DEF HoldsOfList
    <3> QED
      BY <2>3, <2>4, <3>1, <3>2
  <2>8. CASE op = "$max"
    <3>1. MeansOp(f, op, x) = {ctx \in Contexts : Satisfies(d, Num(Greatest(ctx.all[f])), y)}
      BY <1>5, <2>8, ServerIs DEF MeansOp
    <3>2. \A s : HoldsOfList(l, s) <=> Satisfies(d, Num(Greatest(s)), y)
      BY <1>6, <2>5, <2>8, ServerIs DEF HoldsOfList
    <3> QED
      BY <2>3, <2>4, <3>1, <3>2
  <2> QED
    BY <2>6, <2>7, <2>8
<1> HIDE DEF Fits
<1> QED
  BY <1>2, <1>4, <1>7, <1>8, <1>9

\* One operator of a field is accepted where the dialect has it, and means the same.
LEMMA OpIs ==
  ASSUME NEW n \in Nat, NEW f \in Keys, NEW e \in EntriesOf(V(n)),
         NEW r, r = CompileOp(f, e.k, e.v)
  PROVE  /\ r # Refused <=> e \in WellFormedOps
         /\ r # Refused => r \in Leaves /\ HoldsLeaf(r) = MeansOp(f, e.k, e.v)
<1>1. e.v \in V(n) /\ e = [k |-> e.k, v |-> e.v]
  BY DEF EntriesOf
<1>2. CASE e.k \in DOMAIN ServerOf
  <2>1. r = FieldComparison(f, e.k, e.v)
    BY <1>2 DEF CompileOp
  <2> QED
    BY <1>1, <1>2, <2>1, ComparisonIs
<1>3. CASE e.k = "$contains"
  <2>1. r = ListOperation(f, "$contains", e.v)
    BY <1>3, ServerIs DEF CompileOp
  <2>2. e = [k |-> "$contains", v |-> e.v]
    BY <1>1, <1>3
  <2> QED
    BY <1>1, <1>3, <2>1, <2>2, ContainsIs
<1>4. CASE e.k \in {"$count", "$min", "$max"}
  <2>1. r = ListOperation(f, e.k, e.v)
    BY <1>4, ServerIs DEF CompileOp
  <2> QED
    BY <1>1, <1>4, <2>1, AggregateIs
<1>5. CASE e.k \notin DOMAIN ServerOf \cup DOMAIN ListOp
  <2>1. r = Refused
    BY <1>5 DEF CompileOp
  <2>2. e \notin WellFormedOps
    BY <1>5, ServerIs DEF WellFormedOps, Orders
  <2> QED
    BY <2>1, <2>2
<1> QED
  BY <1>2, <1>3, <1>4, <1>5, ServerIs
-----------------------------------------------------------------------------
(* Nodes of trees.                                                         *)

\* What is accepted is a tree of m levels that holds in M.
Says(r, m, M) == r # Refused => r \in T(m) /\ HoldsTo[m][r] = M /\ M \subseteq Contexts

\* A tree of m levels is one of m + 1.
LEMMA SaysMore ==
  ASSUME NEW m \in Nat, NEW r, NEW M, Says(r, m, M)
  PROVE  Says(r, m + 1, M)
BY TreesGrow DEF Says

\* The same of the trees of the parts of a condition.
AllSay(l, s, m, M, A) ==
  /\ s = [i \in 1..l |-> s[i]]
  /\ \A i \in 1..l : Says(s[i], m, M[i])
  /\ A = {M[i] : i \in 1..l}
NoneRefused(l, s) == \A i \in 1..l : s[i] # Refused

\* A node over trees.
LEMMA LogicalIs ==
  ASSUME NEW m \in Nat, NEW op \in {"AND", "OR", "NOT"}, NEW l \in Nat \ {0},
         NEW s, DOMAIN s = 1..l, s = [i \in 1..l |-> s[i]],
         \A i \in 1..l : s[i] # Refused => s[i] \in T(m),
         NEW r, r = Logical(op, s)
  PROVE  /\ r # Refused <=> \A i \in 1..l : s[i] # Refused
         /\ r # Refused =>
              /\ r \in T(m + 1) /\ HoldsTo[m + 1][r] = HoldsNode(HoldsTo[m], r)
              /\ r.operator = op /\ r.conditions = s
<1>1. PICK t : t = [type |-> "logical", operator |-> op, conditions |-> s]
  OBVIOUS
<1>2. t # Refused /\ t.operator = op /\ t.conditions = s
  BY <1>1 DEF Refused
<1>3. r = IF \E i \in 1..l : s[i] = Refused THEN Refused ELSE t
  BY <1>1 DEF Logical
<1>4. ASSUME \A i \in 1..l : s[i] # Refused
      PROVE  t \in T(m + 1) /\ HoldsTo[m + 1][t] = HoldsNode(HoldsTo[m], t)
  <2>1. s \in [1..l -> T(m)]
    BY <1>4
  <2>2. s \in Seq(T(m)) /\ s # <<>>
    BY <2>1
  <2>3. t \in NodesOf(T(m))
    BY <1>1, <2>2 DEF NodesOf, NonEmpty
  <2> QED
    BY <2>3, HoldsIs
<1> QED
  BY <1>2, <1>3, <1>4

\* The conjunction of the trees of the entries of a mapping.
LEMMA ConjunctionIs ==
  ASSUME NEW m \in Nat, NEW l \in Nat \ {0},
         NEW s, NEW M, NEW A, AllSay(l, s, m, M, A),
         NEW r, r = Conjunction(s)
  PROVE  /\ r # Refused <=> NoneRefused(l, s)
         /\ Says(r, m + 1, InAll(A))
<1>0. /\ s = [i \in 1..l |-> s[i]]
      /\ \A i \in 1..l : Says(s[i], m, M[i])
      /\ A = {M[i] : i \in 1..l}
  BY DEF AllSay
<1>1. DOMAIN s = 1..l /\ Len(s) = l
  <2>1. DOMAIN s = 1..l
    BY <1>0
  <2> QED
    BY <2>1
<1>2. CASE l = 1
  <2>1. r = s[1]
    BY <1>1, <1>2 DEF Conjunction
  <2>2. 1 \in 1..l /\ (\A i \in 1..l : i = 1) /\ Says(s[1], m, M[1])
    <3>1. 1 \in 1..l /\ \A i \in 1..l : i = 1
      BY <1>2
    <3> QED
      BY <1>0, <3>1
  <2>3. r # Refused => InAll(A) = M[1]
    <3>1. A = {M[1]} /\ (r # Refused => M[1] \subseteq Contexts)
      BY <1>0, <2>1, <2>2 DEF Says
    <3> QED
      BY <3>1 DEF InAll
  <2>4. Says(s[1], m + 1, M[1])
    BY <2>2, SaysMore
  <2> QED
    BY <2>1, <2>2, <2>3, <2>4 DEF Says, NoneRefused
<1>3. CASE l # 1
  <2>1. r = Logical("AND", s)
    BY <1>1, <1>3 DEF Conjunction
  <2>2. \A i \in 1..l : s[i] # Refused => s[i] \in T(m) /\ HoldsTo[m][s[i]] = M[i]
    BY <1>0 DEF Says
  <2>4. /\ r # Refused <=> \A i \in 1..l : s[i] # Refused
        /\ r # Refused =>
             /\ r \in T(m + 1) /\ HoldsTo[m + 1][r] = HoldsNode(HoldsTo[m], r)
             /\ r.operator = "AND" /\ r.conditions = s
    BY <1>0, <1>1, <2>1, <2>2, LogicalIs
  <2>5. ASSUME r # Refused
        PROVE  r \in T(m + 1) /\ HoldsTo[m + 1][r] = InAll(A)
    <3>1. HoldsNode(HoldsTo[m], r) = InAll({HoldsTo[m][s[i]] : i \in 1..l})
      BY <1>1, <2>4, <2>5 DEF HoldsNode
    <3>2. {HoldsTo[m][s[i]] : i \in 1..l} = A
      BY <1>0, <2>2, <2>4, <2>5
    <3> QED
      BY <2>4, <2>5, <3>1, <3>2
  <2>6. InAll(A) \subseteq Contexts
    BY DEF InAll
  <2> QED
    BY <2>4, <2>5, <2>6 DEF Says, NoneRefused
<1> QED
  BY <1>2, <1>3

\* Meanings are sets of contexts.
LEMMA MeansInContexts ==
  /\ \A f, op, x : MeansOp(f, op, x) \subseteq Contexts
  /\ \A S : InAll(S) \subseteq Contexts
BY DEF MeansOp, InAll

\* A sequence's members tell what it is a sequence of.
LEMMA MembersIn ==
  ASSUME NEW A, NEW B, NEW q \in Seq(A), NEW l, l = Len(q)
  PROVE  q \in Seq(B) <=> \A i \in 1..l : q[i] \in B
<1>1. l \in Nat /\ q = [i \in 1..l |-> q[i]]
  OBVIOUS
<1>2. ASSUME \A i \in 1..l : q[i] \in B PROVE q \in Seq(B)
  <2>1. q \in [1..l -> B]
    BY <1>1, <1>2
  <2> QED
    BY <1>1, <2>1
<1>3. ASSUME q \in Seq(B) PROVE \A i \in 1..l : q[i] \in B
  BY <1>3, ElementOfSeq
<1> QED
  BY <1>2, <1>3

\* A field and its operators.
LEMMA FieldIs ==
  ASSUME NEW n \in Nat, NEW m \in Nat, NEW f \in Keys, NEW x \in V(n),
         NEW r, r = CompileField(f, x)
  PROVE  /\ r # Refused <=> x \in [t : {"map"}, items : NonEmpty(WellFormedOps)]
         /\ Says(r, m + 1, InAll({MeansOp(f, x.items[i].k, x.items[i].v) : i \in DOMAIN x.items}))
<1>1. CASE x.t # "map"
  <2>1. r = Refused
    BY <1>1 DEF CompileField
  <2>2. x \notin [t : {"map"}, items : NonEmpty(WellFormedOps)]
    BY <1>1
  <2> QED
    BY <2>1, <2>2 DEF Says
<1>2. CASE x.t = "map" /\ x.items = <<>>
  <2>1. r = Refused
    BY <1>2 DEF CompileField
  <2>2. x \notin [t : {"map"}, items : NonEmpty(WellFormedOps)]
    BY <1>2 DEF NonEmpty
  <2> QED
    BY <2>1, <2>2 DEF Says
<1>3. CASE x.t = "map" /\ x.items # <<>>
  <2>1. PICK q : q = x.items
    OBVIOUS
  <2>2. x \in MapsOf(V(n)) /\ q \in Seq(EntriesOf(V(n))) /\ q # <<>>
    BY <1>3, <2>1, ScalarIs
  <2>3. PICK l \in Nat \ {0} : l = Len(q) /\ DOMAIN q = 1..l
    BY <2>2
  <2>4. PICK s : s = [i \in 1..l |-> CompileOp(f, q[i].k, q[i].v)]
    OBVIOUS
  <2>5. PICK M : M = [i \in 1..l |-> MeansOp(f, q[i].k, q[i].v)]
    OBVIOUS
  <2>6. ASSUME NEW i \in 1..l
        PROVE  /\ s[i] # Refused <=> q[i] \in WellFormedOps
               /\ Says(s[i], m, M[i])
    <3>1. q[i] \in EntriesOf(V(n))
      BY <2>2, <2>3, ElementOfSeq
    <3>2. s[i] = CompileOp(f, q[i].k, q[i].v)
      BY <2>4
    <3>3. /\ s[i] # Refused <=> q[i] \in WellFormedOps
          /\ s[i] # Refused => s[i] \in Leaves /\ HoldsLeaf(s[i]) = MeansOp(f, q[i].k, q[i].v)
      BY <3>1, <3>2, OpIs
    <3>4. s[i] # Refused => s[i] \in T(m) /\ HoldsTo[m][s[i]] = M[i]
      BY <2>5, <3>3, HoldsIs
    <3> QED
      BY <2>5, <3>3, <3>4, MeansInContexts DEF Says
  <2>7. r = Conjunction(s)
    BY <1>3, <2>1, <2>3, <2>4 DEF CompileField
  <2>8. s = [i \in 1..l |-> s[i]]
    BY <2>4
  <2>9. PICK A : A = {M[i] : i \in 1..l}
    OBVIOUS
  <2>10. (r # Refused <=> NoneRefused(l, s)) /\ Says(r, m + 1, InAll(A))
    <3>1. AllSay(l, s, m, M, A)
      BY <2>6, <2>8, <2>9 DEF AllSay
    <3> QED
      BY <2>7, <3>1, ConjunctionIs
  <2>11. (\A i \in 1..l : s[i] # Refused) <=> x \in [t : {"map"}, items : NonEmpty(WellFormedOps)]
    <3>1. (\A i \in 1..l : s[i] # Refused) <=> q \in Seq(WellFormedOps)
      <4>1. (\A i \in 1..l : s[i] # Refused) <=> \A i \in 1..l : q[i] \in WellFormedOps
        BY <2>6
      <4>2. q \in Seq(WellFormedOps) <=> \A i \in 1..l : q[i] \in WellFormedOps
        BY <2>2, <2>3, MembersIn
      <4> QED
        BY <4>1, <4>2
    <3>2. x \in [t : {"map"}, items : {q}]
      BY <2>1, <2>2 DEF MapsOf
    <3>3. x \in [t : {"map"}, items : NonEmpty(WellFormedOps)] <=> q \in Seq(WellFormedOps)
      BY <2>1, <2>2, <3>2 DEF NonEmpty
    <3> QED
      BY <3>1, <3>3
  <2>12. A = {MeansOp(f, x.items[i].k, x.items[i].v) : i \in DOMAIN x.items}
    BY <2>1, <2>3, <2>5, <2>9
  <2> QED
    BY <2>10, <2>11, <2>12 DEF NoneRefused
<1> QED
  BY <1>1, <1>2, <1>3
-----------------------------------------------------------------------------
(* Entries and conditions.                                                 *)

\* Conditions up to n levels are compiled to trees of m that mean the same.
CompiledTo(n, m) ==
  \A c \in V(n) : /\ CompileTo[n][c] # Refused <=> c \in W(n)
                  /\ Says(CompileTo[n][c], m, MeansTo[n][c])

\* A condition of the dialect is a mapping.
LEMMA DialectIsMaps ==
  ASSUME NEW n \in Nat, NEW c \in W(n)
  PROVE  c.t = "map"
<1>1. n # 0
  BY DomainsAre
<1>2. PICK j \in Nat : n = j + 1
  <2>1. n - 1 \in Nat /\ n = (n - 1) + 1
    BY <1>1
  <2> QED
    BY <2>1
<1>3. c \in WellFormedOver(W(j))
  BY <1>2, DomainsAre
<1> QED
  BY <1>3 DEF WellFormedOver

\* The negation of a condition,
LEMMA NotIs ==
  ASSUME NEW n \in Nat, NEW m \in Nat, CompiledTo(n, m), NEW x \in V(n),
         NEW r, r = CompileLogical(CompileTo[n], "$not", x)
  PROVE  /\ r # Refused <=> x \in W(n)
         /\ Says(r, m + 1, Contexts \ MeansTo[n][x])
<1>1. CASE x.t = "list"
  BY <1>1, DialectIsMaps DEF CompileLogical, Says
<1>2. CASE x.t # "list"
  <2>1. PICK y : y = CompileTo[n][x]
    OBVIOUS
  <2>2. PICK s : s = <<y>>
    OBVIOUS
  <2>3. r = Logical("NOT", s)
    BY <1>2, <2>1, <2>2 DEF CompileLogical
  <2>4. /\ y # Refused <=> x \in W(n)
        /\ y # Refused => y \in T(m) /\ HoldsTo[m][y] = MeansTo[n][x]
    BY <2>1 DEF CompiledTo, Says
  <2>5. PICK l \in Nat \ {0} : l = 1
    OBVIOUS
  <2>6. DOMAIN s = 1..l /\ s = [i \in 1..l |-> s[i]] /\ \A i \in 1..l : s[i] = y
    BY <2>2, <2>5
  <2>7. \A i \in 1..l : s[i] # Refused => s[i] \in T(m)
    BY <2>4, <2>6
  <2>8. /\ r # Refused <=> \A i \in 1..l : s[i] # Refused
        /\ r # Refused =>
             /\ r \in T(m + 1) /\ HoldsTo[m + 1][r] = HoldsNode(HoldsTo[m], r)
             /\ r.operator = "NOT" /\ r.conditions = s
    BY <2>3, <2>6, <2>7, LogicalIs
  <2>9. r # Refused <=> y # Refused
    BY <2>5, <2>6, <2>8
  <2>10. r # Refused => HoldsNode(HoldsTo[m], r) = Contexts \ HoldsTo[m][y]
    BY <2>2, <2>8 DEF HoldsNode
  <2> QED
    BY <2>4, <2>8, <2>9, <2>10 DEF Says
<1> QED
  BY <1>1, <1>2

\* What all of a list of conditions mean, or any of them.
MeansMany(k, sets) == IF k = "$and" THEN InAll(sets) ELSE UNION sets

\* the conjunction or disjunction of a list of conditions,
LEMMA ManyIs ==
  ASSUME NEW n \in Nat, NEW m \in Nat, CompiledTo(n, m), NEW k \in {"$and", "$or"}, NEW x \in V(n),
         NEW r, r = CompileLogical(CompileTo[n], k, x),
         NEW A, A = {MeansTo[n][x.items[i]] : i \in DOMAIN x.items}
  PROVE  /\ r # Refused <=> x \in [t : {"list"}, items : NonEmpty(W(n))]
         /\ Says(r, m + 1, MeansMany(k, A))
<1>1. CASE x.t # "list"
  <2>1. r = Refused
    BY <1>1 DEF CompileLogical
  <2> QED
    BY <1>1, <2>1 DEF Says
<1>2. CASE x.t = "list" /\ x.items = <<>>
  <2>1. r = Refused
    BY <1>2 DEF CompileLogical
  <2> QED
    BY <1>2, <2>1 DEF Says, NonEmpty
<1>3. CASE x.t = "list" /\ x.items # <<>>
  <2>1. PICK q : q = x.items
    OBVIOUS
  <2>2. x \in ListsOf(V(n)) /\ q \in Seq(V(n)) /\ q # <<>>
    BY <1>3, <2>1, ScalarIs
  <2>3. PICK l \in Nat \ {0} : l = Len(q) /\ DOMAIN q = 1..l
    BY <2>2
  <2>4. PICK s : s = [i \in 1..l |-> CompileTo[n][q[i]]]
    OBVIOUS
  <2>5. PICK op \in {"AND", "OR", "NOT"} : op = LogicalOp[k] /\ op = IF k = "$and" THEN "AND" ELSE "OR"
    BY DEF LogicalOp
  <2>6. r = Logical(op, s)
    BY <1>3, <2>1, <2>3, <2>4, <2>5 DEF CompileLogical
  <2>7. ASSUME NEW i \in 1..l
        PROVE  /\ s[i] # Refused <=> q[i] \in W(n)
               /\ s[i] # Refused => /\ s[i] \in T(m) /\ HoldsTo[m][s[i]] = MeansTo[n][q[i]]
                                    /\ MeansTo[n][q[i]] \subseteq Contexts
    <3>1. q[i] \in V(n)
      BY <2>2, <2>3, ElementOfSeq
    <3> QED
      BY <2>4, <3>1 DEF CompiledTo, Says
  <2>8. DOMAIN s = 1..l /\ s = [i \in 1..l |-> s[i]]
    BY <2>4
  <2>9. /\ r # Refused <=> \A i \in 1..l : s[i] # Refused
        /\ r # Refused =>
             /\ r \in T(m + 1) /\ HoldsTo[m + 1][r] = HoldsNode(HoldsTo[m], r)
             /\ r.operator = op /\ r.conditions = s
    <3>1. \A i \in 1..l : s[i] # Refused => s[i] \in T(m)
      BY <2>7
    <3> QED
      BY <2>6, <2>8, <3>1, LogicalIs
  <2>10. r # Refused <=> x \in [t : {"list"}, items : NonEmpty(W(n))]
    <3>1. r # Refused <=> \A i \in 1..l : q[i] \in W(n)
      BY <2>7, <2>9
    <3>2. q \in Seq(W(n)) <=> \A i \in 1..l : q[i] \in W(n)
      BY <2>2, <2>3, MembersIn
    <3>3. x \in [t : {"list"}, items : {q}]
      BY <2>1, <2>2 DEF ListsOf
    <3>4. x \in [t : {"list"}, items : NonEmpty(W(n))] <=> q \in Seq(W(n))
      BY <2>1, <2>2, <3>3 DEF NonEmpty
    <3> QED
      BY <3>1, <3>2, <3>4
  <2>11. ASSUME r # Refused
         PROVE  HoldsNode(HoldsTo[m], r) = MeansMany(k, A) /\ MeansMany(k, A) \subseteq Contexts
    <3>1. PICK B : B = {HoldsTo[m][s[i]] : i \in 1..l}
      OBVIOUS
    <3>2. B = A
      BY <2>1, <2>3, <2>7, <2>9, <2>11, <3>1
    <3>3. HoldsNode(HoldsTo[m], r) = IF op = "AND" THEN InAll(B) ELSE UNION B
      <4>1. CASE op = "AND"
        BY <2>8, <2>9, <2>11, <3>1, <4>1 DEF HoldsNode
      <4>2. CASE op = "OR"
        BY <2>8, <2>9, <2>11, <3>1, <4>2 DEF HoldsNode
      <4> QED
        BY <2>5, <4>1, <4>2
    <3>4. \A M \in A : M \subseteq Contexts
      BY <2>1, <2>3, <2>7, <2>9, <2>11
    <3> QED
      BY <2>5, <3>2, <3>3, <3>4, MeansInContexts DEF MeansMany
  <2> QED
    BY <2>9, <2>10, <2>11 DEF Says
<1> QED
  BY <1>1, <1>2, <1>3

\* and so any entry of a mapping, is accepted where the dialect has it, and means
\* the same one level up.
LEMMA EntryIs ==
  ASSUME NEW n \in Nat, NEW m \in Nat, CompiledTo(n, m), NEW e \in EntriesOf(V(n)),
         NEW r, r = CompileEntry(CompileTo[n], e.k, e.v)
  PROVE  /\ r # Refused <=> e \in WellFormedEntries(W(n))
         /\ Says(r, m + 1, MeansEntry(MeansTo[n], e.k, e.v))
<1>1. PICK k, x : k = e.k /\ x = e.v
  OBVIOUS
<1>2. k \in Keys /\ x \in V(n) /\ e = [k |-> k, v |-> x]
  BY <1>1 DEF EntriesOf
<1>3. DOMAIN LogicalOp = {"$and", "$or", "$not"} /\ (k \in Fields => k \notin {"$and", "$or", "$not"})
  BY FieldsAreKeys DEF LogicalOp
<1>4. e \in WellFormedEntries(W(n)) <=>
        \/ k = "$not" /\ x \in W(n)
        \/ k \in {"$and", "$or"} /\ x \in [t : {"list"}, items : NonEmpty(W(n))]
        \/ k \in Fields /\ x \in [t : {"map"}, items : NonEmpty(WellFormedOps)]
  BY <1>2 DEF WellFormedEntries
<1>5. CASE k = "$not"
  <2>1. r = CompileLogical(CompileTo[n], "$not", x)
    BY <1>1, <1>3, <1>5 DEF CompileEntry
  <2>2. MeansEntry(MeansTo[n], e.k, e.v) = Contexts \ MeansTo[n][x]
    BY <1>1, <1>5 DEF MeansEntry
  <2>3. (r # Refused <=> x \in W(n)) /\ Says(r, m + 1, Contexts \ MeansTo[n][x])
    BY <1>2, <2>1, NotIs
  <2> QED
    BY <1>3, <1>4, <1>5, <2>2, <2>3
<1>6. CASE k \in {"$and", "$or"}
  <2>1. r = CompileLogical(CompileTo[n], k, x)
    BY <1>1, <1>3, <1>6 DEF CompileEntry
  <2>2. PICK A : A = {MeansTo[n][x.items[i]] : i \in DOMAIN x.items}
    OBVIOUS
  <2>3. MeansEntry(MeansTo[n], e.k, e.v) = MeansMany(k, A)
    BY <1>1, <1>6, <2>2 DEF MeansEntry, MeansMany
  <2>4. /\ r # Refused <=> x \in [t : {"list"}, items : NonEmpty(W(n))]
        /\ Says(r, m + 1, MeansMany(k, A))
    BY <1>2, <1>6, <2>1, <2>2, ManyIs
  <2> QED
    BY <1>3, <1>4, <1>6, <2>3, <2>4
<1>7. CASE k \in Fields
  <2>1. r = CompileField(k, x)
    BY <1>1, <1>3, <1>7 DEF CompileEntry
  <2>2. PICK M : M = InAll({MeansOp(k, x.items[i].k, x.items[i].v) : i \in DOMAIN x.items})
    OBVIOUS
  <2>3. MeansEntry(MeansTo[n], e.k, e.v) = M
    BY <1>1, <1>3, <1>7, <2>2 DEF MeansEntry
  <2>4. /\ r # Refused <=> x \in [t : {"map"}, items : NonEmpty(WellFormedOps)]
        /\ Says(r, m + 1, M)
    BY <1>2, <2>1, <2>2, FieldIs
  <2> QED
    BY <1>3, <1>4, <1>7, <2>3, <2>4
<1>8. CASE k \notin {"$and", "$or", "$not"} /\ k \notin Fields
  <2>1. r = Refused
    BY <1>1, <1>3, <1>8 DEF CompileEntry
  <2> QED
    BY <1>4, <1>8, <2>1 DEF Says
<1> QED
  BY <1>5, <1>6, <1>7, <1>8

\* One level more of conditions is two levels more of trees.
LEMMA ConditionIs ==
  ASSUME NEW n \in Nat, NEW m \in Nat, CompiledTo(n, m)
  PROVE  CompiledTo(n + 1, m + 2)
<1>1. SUFFICES ASSUME NEW c \in V(n + 1), NEW r, r = CompileTo[n + 1][c]
               PROVE  /\ r # Refused <=> c \in W(n + 1)
                      /\ Says(r, m + 2, MeansTo[n + 1][c])
  BY DEF CompiledTo
<1>2. PICK C : C = CompileTo[n]
  OBVIOUS
<1>3. c \in ValuesOver(V(n)) /\ r = CompileMapping(C, c)
  <2>1. CompileTo[n + 1] = CompileAbove(C)
    BY <1>2, CompileLevels
  <2> QED
    BY <1>1, <1>2, <2>1, DomainsAre DEF CompileAbove, V
<1>4. W(n + 1) = WellFormedOver(W(n))
  BY DomainsAre
<1>5. CASE c.t # "map"
  <2>1. r = Refused
    BY <1>3, <1>5 DEF CompileMapping
  <2>2. c \notin WellFormedOver(W(n))
    BY <1>5 DEF WellFormedOver
  <2> QED
    BY <1>1, <1>4, <2>1, <2>2 DEF Says
<1>6. CASE c.t = "map" /\ c.items = <<>>
  <2>1. r = Refused
    BY <1>3, <1>6 DEF CompileMapping
  <2>2. c \notin WellFormedOver(W(n))
    BY <1>6 DEF WellFormedOver, NonEmpty
  <2> QED
    BY <1>1, <1>4, <2>1, <2>2 DEF Says
<1>7. CASE c.t = "map" /\ c.items # <<>>
  <2>1. PICK q : q = c.items
    OBVIOUS
  <2>2. c \in MapsOf(V(n)) /\ q \in Seq(EntriesOf(V(n))) /\ q # <<>>
    <3>1. c \in MapsOf(V(n))
      BY <1>3, <1>7 DEF ValuesOver, Scalars, ListsOf
    <3> QED
      BY <1>7, <2>1, <3>1 DEF MapsOf
  <2>3. PICK l \in Nat \ {0} : l = Len(q) /\ DOMAIN q = 1..l
    BY <2>2
  <2>4. PICK s : s = [i \in 1..l |-> CompileEntry(C, q[i].k, q[i].v)]
    OBVIOUS
  <2>5. PICK M : M = [i \in 1..l |-> MeansEntry(MeansTo[n], q[i].k, q[i].v)]
    OBVIOUS
  <2>6. ASSUME NEW i \in 1..l
        PROVE  /\ s[i] # Refused <=> q[i] \in WellFormedEntries(W(n))
               /\ Says(s[i], m + 1, M[i])
    <3>1. q[i] \in EntriesOf(V(n))
      BY <2>2, <2>3, ElementOfSeq
    <3>2. s[i] = CompileEntry(CompileTo[n], q[i].k, q[i].v)
      BY <1>2, <2>4
    <3>3. M[i] = MeansEntry(MeansTo[n], q[i].k, q[i].v)
      BY <2>5
    <3> QED
      BY <3>1, <3>2, <3>3, EntryIs
  <2>7. r = Conjunction(s) /\ s = [i \in 1..l |-> s[i]]
    <3>1. r = Conjunction([i \in 1..l |-> CompileEntry(C, q[i].k, q[i].v)])
      BY <1>3, <1>7, <2>1, <2>3 DEF CompileMapping
    <3> QED
      BY <2>4, <3>1
  <2>8. PICK A : A = {M[i] : i \in 1..l}
    OBVIOUS
  <2>9. (r # Refused <=> NoneRefused(l, s)) /\ Says(r, m + 2, InAll(A))
    <3>1. PICK k \in Nat : k = m + 1
      OBVIOUS
    <3>2. AllSay(l, s, k, M, A)
      BY <2>6, <2>7, <2>8, <3>1 DEF AllSay
    <3>3. (r # Refused <=> NoneRefused(l, s)) /\ Says(r, k + 1, InAll(A))
      BY <2>7, <3>2, ConjunctionIs
    <3>4. k + 1 = m + 2
      BY <3>1
    <3> QED
      BY <3>3, <3>4
  <2>10. (\A i \in 1..l : s[i] # Refused) <=> c \in W(n + 1)
    <3>1. (\A i \in 1..l : s[i] # Refused) <=> \A i \in 1..l : q[i] \in WellFormedEntries(W(n))
      BY <2>6
    <3>2. q \in Seq(WellFormedEntries(W(n))) <=> \A i \in 1..l : q[i] \in WellFormedEntries(W(n))
      BY <2>2, <2>3, MembersIn
    <3>3. c \in [t : {"map"}, items : {q}]
      BY <2>1, <2>2 DEF MapsOf
    <3>4. c \in WellFormedOver(W(n)) <=> q \in Seq(WellFormedEntries(W(n)))
      BY <2>1, <2>2, <3>3 DEF WellFormedOver, NonEmpty
    <3> QED
      BY <1>4, <3>1, <3>2, <3>4
  <2>11. ASSUME c \in W(n + 1) PROVE MeansTo[n + 1][c] = InAll(A)
    <3>1. PICK Me : Me = MeansTo[n]
      OBVIOUS
    <3>2. MeansTo[n + 1] = MeansAbove(Me) /\ c \in WellFormedOver(DOMAIN Me)
      BY <1>4, <2>11, <3>1, MeansLevels DEF W
    <3>3. MeansTo[n + 1][c] = InAll({MeansEntry(Me, c.items[i].k, c.items[i].v) : i \in DOMAIN c.items})
      BY <3>2 DEF MeansAbove
    <3>4. A = {MeansEntry(Me, c.items[i].k, c.items[i].v) : i \in DOMAIN c.items}
      BY <2>1, <2>3, <2>5, <2>8, <3>1
    <3> QED
      BY <3>3, <3>4
  <2>12. r # Refused <=> c \in W(n + 1)
    BY <2>9, <2>10 DEF NoneRefused
  <2>13. Says(r, m + 2, MeansTo[n + 1][c])
    BY <2>9, <2>11, <2>12 DEF Says
  <2> QED
    BY <2>12, <2>13
<1> QED
  BY <1>5, <1>6, <1>7

\* So conditions of any depth are, with two levels of trees to each of theirs.
LEMMA ConditionsAre ==
  ASSUME NEW n \in Nat
  PROVE  CompiledTo(n, 2 * n)
<1> DEFINE Bad == {k \in Nat : ~ CompiledTo(k, 2 * k)}
<1>1. SUFFICES ASSUME Bad # {} PROVE FALSE
  OBVIOUS
<1>2. PICK k \in Bad : \A j \in Bad : k <= j
  <2>1. Bad \in SUBSET Nat
    OBVIOUS
  <2> HIDE DEF Bad
  <2> QED
    BY <1>1, <2>1, LeastOf
<1>3. k \in Nat /\ ~ CompiledTo(k, 2 * k)
  OBVIOUS
<1>4. CASE k = 0
  <2>1. \A c \in Scalars : CompileTo[0][c] = Refused
    BY CompileLevels
  <2>2. V(0) = Scalars /\ W(0) = {}
    BY DomainsAre
  <2>3. CompiledTo(0, 2 * 0)
    BY <2>1, <2>2 DEF CompiledTo, Says
  <2> QED
    BY <1>3, <1>4, <2>3
<1>5. CASE k # 0
  <2>1. PICK j \in Nat : k = j + 1 /\ ~ (k <= j)
    <3>1. k - 1 \in Nat /\ k = (k - 1) + 1 /\ ~ (k <= k - 1)
      BY <1>3, <1>5
    <3> QED
      BY <3>1
  <2>2. CompiledTo(j, 2 * j)
    BY <1>2, <2>1
  <2>3. PICK m \in Nat : m = 2 * j /\ m + 2 = 2 * k
    BY <2>1
  <2>4. CompiledTo(j + 1, m + 2)
    BY <2>2, <2>3, ConditionIs
  <2> QED
    BY <1>3, <2>1, <2>3, <2>4
<1> QED
  BY <1>4, <1>5

-----------------------------------------------------------------------------
\* What a condition is compiled to is what compile_condition() makes of it.
ConditionInv ==
  /\ condition \in Conditions
  /\ compiled # NotCompiled => compiled = Compile[condition]

(* Whatever condition is compiled, of any depth and over any fields: it is  *)
(* refused when it is none of the dialect, and else the tree that           *)
(* compile_condition() returns holds in the contexts in which the condition *)
(* as written does.                                                         *)
THEOREM ConditionsMeanTheSame == ConditionSpec => []CompiledMeansSame
<1>1. ConditionInit => ConditionInv
  BY DEF ConditionInit, ConditionInv
<1>2. ConditionInv /\ [CompileCondition]_conditionVars => ConditionInv'
  BY DEF ConditionInv, CompileCondition, conditionVars
<1>3. ConditionInv => CompiledMeansSame
  <2>1. SUFFICES ASSUME ConditionInv, compiled # NotCompiled
                 PROVE  /\ (compiled # Refused) <=> (condition \in DOMAIN Means)
                        /\ compiled # Refused =>
                             compiled \in DOMAIN Holds /\ Holds[compiled] = Means[condition]
    BY DEF CompiledMeansSame
  <2>2. MaxDepth \in Nat /\ condition \in V(MaxDepth) /\ compiled = CompileTo[MaxDepth][condition]
    BY <2>1, ConditionsAreValues DEF ConditionInv, Compile, V
  <2>3. CompiledTo(MaxDepth, 2 * MaxDepth)
    BY <2>2, ConditionsAre
  <2>4. /\ compiled # Refused <=> condition \in W(MaxDepth)
        /\ Says(compiled, 2 * MaxDepth, MeansTo[MaxDepth][condition])
    BY <2>2, <2>3 DEF CompiledTo
  <2> QED
    BY <2>4 DEF Says, W, T, Means, Holds
<1> QED
  BY <1>1, <1>2, <1>3, PTL DEF ConditionSpec
=============================================================================
