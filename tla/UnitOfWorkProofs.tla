-------------------------- MODULE UnitOfWorkProofs --------------------------
(***************************************************************************)
(* What holds of the unit of work for any number of sessions, objects,     *)
(* values and records, whatever the environment does.                      *)
(***************************************************************************)
EXTENDS UnitOfWork, QueueTheorems

\* The objects of a sequence of operations are a sequence of objects.
LEMMA ObjectsOfType ==
  ASSUME NEW q \in Seq(Ops)
  PROVE  /\ ObjectsOf(q) \in Seq(Objects)
         /\ Len(ObjectsOf(q)) = Len(q)
         /\ \A k \in 1..Len(q) : ObjectsOf(q)[k] = q[k].obj
<1>1. DOMAIN q = 1..Len(q) /\ Len(q) \in Nat
  OBVIOUS
<1>2. \A k \in 1..Len(q) : q[k].obj \in Objects
  <2>1. \A k \in 1..Len(q) : q[k] \in Ops
    BY ElementOfSeq
  <2> QED
    BY <2>1 DEF Ops
<1>3. ObjectsOf(q) = [k \in 1..Len(q) |-> q[k].obj]
  BY <1>1 DEF ObjectsOf
<1>4. ObjectsOf(q) \in Seq(Objects)
  BY <1>1, <1>2, <1>3, SeqDef
<1> QED
  BY <1>1, <1>3, <1>4, LenProperties

-----------------------------------------------------------------------------
(* Types and the loop invariant of commit()                                *)

IInv == TypeOK /\ StagedOnce /\ FlushInvariant

LEMMA InitIInv == Init => IInv
<1> SUFFICES ASSUME Init PROVE IInv
  OBVIOUS
<1> USE UnitOfWorkAssumption, ValsAssumption
<1>1. PICK n \in 0..MaxId, w \in Vals :
        /\ nextId = n + 1
        /\ server = [i \in Ids |-> IF i <= n THEN w ELSE Absent]
        /\ id \in [Objects -> 0..n]
  BY DEF Init
<1>2. /\ id \in [Objects -> Ids \cup {NoId}]
      /\ server \in [Ids -> Vals \cup {Absent, Deleted}]
      /\ nextId \in 1..(MaxId + 1)
  BY <1>1 DEF Ids, NoId
<1>3. (CHOOSE v \in Vals : TRUE) \in Vals
  OBVIOUS
<1>4. ASSUME NEW o \in Objects
      PROVE  (IF id[o] = NoId THEN CHOOSE v \in Vals : TRUE
                              ELSE server[id[o]]) \in Vals
  BY <1>1, <1>3 DEF Ids, NoId
<1>5. val \in [Objects -> Vals]
  BY <1>4 DEF Init
<1>6. report \in Reports
  BY EmptySeq DEF Init, NoReport, Reports
<1>7. TypeOK
  <2>1. reply \in [id : Ids \cup {NoId}, val : Vals \cup {Absent}]
    BY DEF Init, NoReply
  <2>2. staged \in [Sessions -> Seq(Ops)]
    BY EmptySeq DEF Init
  <2>3. batch \in Seq(Ops) /\ wire \in Seq(Ops) /\ committed \in Seq(Objects)
    BY EmptySeq DEF Init
  <2> QED
    BY <1>2, <1>5, <1>6, <2>1, <2>2, <2>3 DEF Init, TypeOK
<1>8. FlushInvariant
  BY DEF Init, FlushInvariant
<1>9. StagedOnce
  BY DEF Init, StagedOnce, NoRepeat
<1> QED
  BY <1>7, <1>8, <1>9 DEF IInv

\* While commit() runs, its index points at an operation of its batch.
LEMMA StepType ==
  ASSUME IInv, phase # "idle"
  PROVE  /\ pos \in 1..Len(batch)
         /\ Len(batch) \in Nat
         /\ Step \in Ops
         /\ Step.obj \in Objects
         /\ Target \in Ids \cup {NoId}
         /\ batch = staged[owner]
<1>1. batch \in Seq(Ops) /\ pos \in 1..Len(batch) /\ batch = staged[owner]
  BY DEF IInv, TypeOK, FlushInvariant
<1>2. Len(batch) \in Nat
  BY <1>1, LenProperties
<1>3. Step \in Ops
  BY <1>1, ElementOfSeq DEF Step
<1>4. Step.obj \in Objects
  BY <1>3 DEF Ops
<1> QED
  BY <1>1, <1>2, <1>3, <1>4 DEF Target, IInv, TypeOK

\* Appending an operation keeps a queue a queue.
LEMMA AppendOps ==
  ASSUME NEW q \in Seq(Ops), NEW o \in Objects, NEW op \in {"add", "update", "delete"}
  PROVE  Append(q, Op(op, o)) \in Seq(Ops)
BY DEF Ops, Op

\* The operation that Delete cancels is in the queue.
LEMMA FirstAddIndex ==
  ASSUME NEW q \in Seq(Ops), NEW o, Has(q, "add", o), NoRepeat(q)
  PROVE  FirstAdd(q, o) \in 1..Len(q) /\ q[FirstAdd(q, o)] = Op("add", o)
<1>1. DOMAIN q = 1..Len(q) /\ Len(q) \in Nat
  BY LenProperties
<1>2. PICK k \in 1..Len(q) : q[k] = Op("add", o)
  BY DEF Has, Contains
<1>3. \A j \in 1..(k - 1) : q[j] # Op("add", o)
  BY <1>1, <1>2 DEF NoRepeat
<1>4. \E m \in DOMAIN q : /\ q[m] = Op("add", o)
                          /\ \A j \in 1..(m - 1) : q[j] # Op("add", o)
  BY <1>1, <1>2, <1>3
<1> QED
  BY <1>1, <1>4 DEF FirstAdd

\* Staging an operation that is not staged, and cancelling one, repeat nothing.
LEMMA AppendNoRepeat ==
  ASSUME NEW q \in Seq(Ops), NoRepeat(q), NEW e \in Ops, ~ Contains(q, e)
  PROVE  NoRepeat(Append(q, e))
<1>1. DOMAIN q = 1..Len(q)
  OBVIOUS
<1>2. e \notin ToSet(q)
  BY <1>1 DEF Contains, ToSet
<1> QED
  BY <1>2, AppendMembers DEF NoRepeat, IsInjective

LEMMA RemoveNoRepeat ==
  ASSUME NEW q \in Seq(Ops), NoRepeat(q), NEW n \in 1..Len(q)
  PROVE  NoRepeat(RemoveAt(q, n))
BY RemoveMembers DEF NoRepeat, IsInjective

-----------------------------------------------------------------------------
(* Every action keeps the invariant                                        *)

LEMMA NoReportType == NoReport \in Reports
BY EmptySeq DEF NoReport, Reports

\* A call that only changes one session's queue.
LEMMA StagingStep ==
  ASSUME IInv, NewCall, UNCHANGED <<caller, flush, remote, history>>,
         NEW s \in Sessions, NEW q \in Seq(Ops), NoRepeat(q),
         staged' = [staged EXCEPT ![s] = q]
  PROVE  IInv'
<1>1. TypeOK'
  BY NoReportType
     DEF IInv, TypeOK, NewCall, caller, flush, remote, history
<1>2. StagedOnce'
  BY DEF IInv, StagedOnce, TypeOK
<1>3. FlushInvariant'
  BY DEF IInv, FlushInvariant, NewCall, flush, history
<1> QED
  BY <1>1, <1>2, <1>3 DEF IInv

\* A call that only reads from the server or edits an object.
LEMMA ReadStep ==
  ASSUME IInv, NewCall, UNCHANGED <<staged, flush, remote, history>>,
         id' \in [Objects -> Ids \cup {NoId}], val' \in [Objects -> Vals],
         ready' \in [Objects -> BOOLEAN]
  PROVE  IInv'
<1>1. TypeOK'
  BY NoReportType DEF IInv, TypeOK, NewCall, flush, remote, history
<1>2. StagedOnce'
  BY DEF IInv, StagedOnce
<1>3. FlushInvariant'
  BY DEF IInv, FlushInvariant, NewCall, flush, history
<1> QED
  BY <1>1, <1>2, <1>3 DEF IInv

\* What leaving commit() establishes, whatever is reported and staged.
LEMMA LeaveStep ==
  ASSUME IInv, Leave, UNCHANGED remote, report' \in Reports,
         staged' = staged \/ staged' = [staged EXCEPT ![owner] = <<>>],
         id' \in [Objects -> Ids \cup {NoId}], val' \in [Objects -> Vals],
         ready' \in [Objects -> BOOLEAN]
  PROVE  IInv'
<1>1. staged' \in [Sessions -> Seq(Ops)]
  BY EmptySeq DEF IInv, TypeOK
<1>2. reply' \in [id : Ids \cup {NoId}, val : Vals \cup {Absent}]
  BY DEF Leave, NoReply
<1>3. TypeOK'
  BY <1>1, <1>2, EmptySeq DEF IInv, TypeOK, Leave, remote
<1>4. StagedOnce'
  BY DEF IInv, StagedOnce, TypeOK, NoRepeat
<1>5. FlushInvariant'
  BY DEF FlushInvariant, Leave
<1> QED
  BY <1>3, <1>4, <1>5 DEF IInv

LEMMA QueueType ==
  ASSUME IInv, NEW s \in Sessions
  PROVE  staged[s] \in Seq(Ops) /\ NoRepeat(staged[s])
BY DEF IInv, TypeOK, StagedOnce

LEMMA AppendFresh ==
  ASSUME IInv, NEW s \in Sessions, NEW o \in Objects,
         NEW op \in {"add", "update", "delete"}, ~ Has(staged[s], op, o)
  PROVE  /\ Append(staged[s], Op(op, o)) \in Seq(Ops)
         /\ NoRepeat(Append(staged[s], Op(op, o)))
<1>1. staged[s] \in Seq(Ops) /\ NoRepeat(staged[s])
  BY QueueType
<1>2. Op(op, o) \in Ops
  BY DEF Op, Ops
<1>3. ~ Contains(staged[s], Op(op, o))
  BY DEF Has
<1> QED
  BY <1>1, <1>2, <1>3, AppendOps, AppendNoRepeat

LEMMA AddInv ==
  ASSUME IInv, NEW s \in Sessions, NEW o \in Objects, Add(s, o)
  PROVE  IInv'
<1> DEFINE q == Append(staged[s], Op("add", o))
<1>1. q \in Seq(Ops) /\ NoRepeat(q)
  BY AppendFresh DEF Add
<1> QED
  BY <1>1, StagingStep DEF Add

LEMMA UpdateInv ==
  ASSUME IInv, NEW s \in Sessions, NEW o \in Objects, Update(s, o)
  PROVE  IInv'
<1> DEFINE q == Append(staged[s], Op("update", o))
<1>1. q \in Seq(Ops) /\ NoRepeat(q)
  BY AppendFresh DEF Update
<1> QED
  BY <1>1, StagingStep DEF Update

LEMMA DeleteInv ==
  ASSUME IInv, NEW s \in Sessions, NEW o \in Objects, Delete(s, o)
  PROVE  IInv'
<1>1. CASE Has(staged[s], "add", o)
  <2> DEFINE q == RemoveAt(staged[s], FirstAdd(staged[s], o))
  <2>1. FirstAdd(staged[s], o) \in 1..Len(staged[s])
    BY <1>1, QueueType, FirstAddIndex
  <2>2. q \in Seq(Ops) /\ NoRepeat(q)
    BY <2>1, QueueType, RemoveAtType, RemoveNoRepeat
  <2> QED
    BY <1>1, <2>2, StagingStep DEF Delete
<1>2. CASE ~ Has(staged[s], "add", o)
  <2> DEFINE q == Append(staged[s], Op("delete", o))
  <2>1. q \in Seq(Ops) /\ NoRepeat(q)
    BY <1>2, AppendFresh DEF Delete
  <2> QED
    BY <1>2, <2>1, StagingStep DEF Delete
<1> QED
  BY <1>1, <1>2

LEMMA DiscardInv ==
  ASSUME IInv, NEW s \in Sessions, Rollback(s) \/ Exit(s)
  PROVE  IInv'
<1>1. << >> \in Seq(Ops) /\ NoRepeat(<< >>)
  BY EmptySeq DEF NoRepeat
<1> QED
  BY <1>1, StagingStep DEF Rollback, Exit

LEMMA ReadInv ==
  ASSUME IInv, NEW o \in Objects,
         Refresh(o) \/ Edit(o) \/ \E i \in Ids : Get(o, i)
  PROVE  IInv'
<1> USE DEF caller
<1>1. CASE Refresh(o)
  BY <1>1, ReadStep DEF Refresh, Live, IInv, TypeOK
<1>2. CASE Edit(o)
  BY <1>2, ReadStep DEF Edit, IInv, TypeOK
<1>3. CASE \E i \in Ids : Get(o, i)
  BY <1>3, ReadStep DEF Get, Live, IInv, TypeOK
<1> QED
  BY <1>1, <1>2, <1>3

LEMMA RefusedInv ==
  ASSUME IInv, NEW s \in Sessions, CommitRefused(s)
  PROVE  IInv'
<1>1. report' \in Reports
  <2>1. staged[s] \in Seq(Ops)
    BY QueueType
  <2> QED
    BY <2>1, EmptySeq DEF CommitRefused, Reports
<1>2. TypeOK'
  BY <1>1 DEF CommitRefused, IInv, TypeOK, caller, flush, remote, history
<1>3. StagedOnce' /\ FlushInvariant'
  BY DEF CommitRefused, IInv, StagedOnce, FlushInvariant, Step,
         flush, history
<1> QED
  BY <1>2, <1>3 DEF IInv

LEMMA BeginInv ==
  ASSUME IInv, NEW s \in Sessions, CommitBegin(s)
  PROVE  IInv'
<1>1. /\ staged[s] \in Seq(Ops) /\ staged[s] # << >>
      /\ Len(staged[s]) \in Nat \ {0}
  BY QueueType, EmptySeq DEF CommitBegin
<1>2. TypeOK'
  BY <1>1, EmptySeq, NoReportType
     DEF CommitBegin, IInv, TypeOK, caller, remote
<1>3. StagedOnce'
  BY DEF CommitBegin, IInv, StagedOnce
<1>4. FlushInvariant'
  <2>1. /\ phase' = "send" /\ owner' = s /\ batch' = staged[s] /\ pos' = 1
        /\ committed' = << >> /\ wire' = << >> /\ staged' = staged
    BY DEF CommitBegin
  <2>2. Len(<< >>) = 0
    OBVIOUS
  <2> QED
    BY <1>1, <2>1, <2>2 DEF FlushInvariant
<1> QED
  BY <1>2, <1>3, <1>4 DEF IInv

\* Any failure of an operation leaves commit() through Abort.
LEMMA AbortInv ==
  ASSUME IInv, phase # "idle", Abort, UNCHANGED <<caller, remote>>
  PROVE  IInv'
<1>1. /\ batch \in Seq(Ops) /\ wire \in Seq(Ops) /\ committed \in Seq(Objects)
      /\ pos \in 1..Len(batch)
  BY StepType DEF IInv, TypeOK
<1>2. SubSeq(batch, pos, Len(batch)) \in Seq(Ops)
  BY <1>1, ElementOfSeq, SubSeqProperties
<1>3. report' \in Reports
  <2>1. ObjectsOf(SubSeq(batch, pos, Len(batch))) \in Seq(Objects)
    BY <1>2, ObjectsOfType
  <2> QED
    BY <1>1, <2>1 DEF Abort, Report, Reports
<1> QED
  BY <1>3, LeaveStep DEF Abort, Clear, IInv, TypeOK, caller

\* The server carried out the operation at pos: its answer is now due.
LEMMA ServerStepInv ==
  ASSUME IInv, phase = "send", phase' = "reply", wire' = Append(wire, Step),
         UNCHANGED <<caller, staged, owner, batch, pos, committed, report, touched>>,
         server' \in [Ids -> Vals \cup {Absent, Deleted}],
         nextId' \in 1..(MaxId + 1), created' \subseteq Ids,
         reply' \in [id : Ids \cup {NoId}, val : Vals \cup {Absent}],
         Step.op # "delete" => reply'.id \in Ids /\ reply'.val \in Vals
  PROVE  IInv'
<1>1. /\ pos \in 1..Len(batch) /\ Len(batch) \in Nat /\ Step \in Ops
      /\ batch \in Seq(Ops) /\ wire \in Seq(Ops)
  BY StepType DEF IInv, TypeOK
<1>2. wire' \in Seq(Ops)
  BY <1>1
<1>3. TypeOK'
  BY <1>2 DEF IInv, TypeOK, caller
<1>4. StagedOnce'
  BY DEF IInv, StagedOnce
<1>5. FlushInvariant'
  <2>1. /\ batch = staged[owner] /\ Len(committed) = pos - 1
        /\ \A k \in 1..(pos - 1) : committed[k] = batch[k].obj
        /\ Len(wire) = pos - 1
        /\ \A k \in 1..Len(wire) : wire[k] = batch[k]
    BY DEF IInv, FlushInvariant
  <2>2. /\ Len(wire') = pos
        /\ \A k \in 1..(pos - 1) : wire'[k] = wire[k]
        /\ wire'[pos] = batch[pos]
    BY <1>1, <2>1 DEF Step
  <2>3. \A k \in 1..pos : wire'[k] = batch[k]
    BY <1>1, <2>1, <2>2
  <2>4. Step' = Step
    BY DEF Step
  <2> QED
    BY <1>1, <2>1, <2>2, <2>3, <2>4 DEF FlushInvariant
<1> QED
  BY <1>3, <1>4, <1>5 DEF IInv

LEMMA ServerCreateInv ==
  ASSUME IInv, ServerCreate
  PROVE  IInv'
<1>1. val[Step.obj] \in Vals /\ nextId \in Ids
  BY StepType DEF ServerCreate, IInv, TypeOK
<1>2. /\ server' \in [Ids -> Vals \cup {Absent, Deleted}]
      /\ nextId' \in 1..(MaxId + 1) /\ created' \subseteq Ids
      /\ reply' \in [id : Ids \cup {NoId}, val : Vals \cup {Absent}]
      /\ reply'.id \in Ids /\ reply'.val \in Vals
  BY <1>1, UnitOfWorkAssumption DEF ServerCreate, IInv, TypeOK, Ids
<1> QED
  BY <1>2, ServerStepInv DEF ServerCreate

LEMMA ServerUpdateInv ==
  ASSUME IInv, ServerUpdate
  PROVE  IInv'
<1>1. PICK v \in {val[Step.obj], server[Target]} :
        /\ server' = [server EXCEPT ![Target] = v]
        /\ reply' = [id |-> Target, val |-> v]
  BY DEF ServerUpdate
<1>2. v \in Vals
  BY StepType DEF ServerUpdate, Live, IInv, TypeOK
<1>3. Target \in Ids
  BY DEF ServerUpdate, Live
<1>4. /\ server' \in [Ids -> Vals \cup {Absent, Deleted}]
      /\ reply' \in [id : Ids \cup {NoId}, val : Vals \cup {Absent}]
      /\ reply'.id \in Ids /\ reply'.val \in Vals
  BY <1>1, <1>2, <1>3 DEF IInv, TypeOK
<1> QED
  BY <1>4, ServerStepInv DEF ServerUpdate, IInv, TypeOK

LEMMA ServerDeleteInv ==
  ASSUME IInv, ServerDelete
  PROVE  IInv'
<1>1. /\ server' \in [Ids -> Vals \cup {Absent, Deleted}]
      /\ reply' \in [id : Ids \cup {NoId}, val : Vals \cup {Absent}]
  BY DEF ServerDelete, IInv, TypeOK, NoReply
<1> QED
  BY <1>1, ServerStepInv DEF ServerDelete, IInv, TypeOK

\* Taking the answer over keeps the objects well typed.
LEMMA HydrateType ==
  ASSUME IInv, phase = "reply", Hydrate(Step.obj)
  PROVE  /\ id' \in [Objects -> Ids \cup {NoId}] /\ val' \in [Objects -> Vals]
         /\ ready' \in [Objects -> BOOLEAN]
<1>1. CASE Step.op = "delete"
  BY <1>1 DEF Hydrate, caller, IInv, TypeOK
<1>2. CASE Step.op # "delete"
  <2>1. reply.id \in Ids /\ reply.val \in Vals
    BY <1>2 DEF IInv, FlushInvariant
  <2> QED
    BY <1>2, <2>1 DEF Hydrate, IInv, TypeOK
<1> QED
  BY <1>1, <1>2

LEMMA ReplyNextInv ==
  ASSUME IInv, ReplyNext
  PROVE  IInv'
<1>1. /\ pos \in 1..Len(batch) /\ Len(batch) \in Nat /\ Step.obj \in Objects
      /\ committed \in Seq(Objects)
  BY StepType DEF ReplyNext, IInv, TypeOK
<1>2. /\ id' \in [Objects -> Ids \cup {NoId}] /\ val' \in [Objects -> Vals]
      /\ ready' \in [Objects -> BOOLEAN]
  BY HydrateType DEF ReplyNext
<1>3. reply' \in [id : Ids \cup {NoId}, val : Vals \cup {Absent}]
  BY DEF ReplyNext, NoReply
<1>4. committed' \in Seq(Objects) /\ pos' \in Nat \ {0}
  BY <1>1 DEF ReplyNext
<1>5. TypeOK'
  BY <1>2, <1>3, <1>4 DEF ReplyNext, IInv, TypeOK, remote, history
<1>6. StagedOnce'
  BY DEF ReplyNext, IInv, StagedOnce
<1>7. FlushInvariant'
  <2>1. /\ batch = staged[owner] /\ Len(committed) = pos - 1
        /\ \A k \in 1..(pos - 1) : committed[k] = batch[k].obj
        /\ Len(wire) = pos
        /\ \A k \in 1..Len(wire) : wire[k] = batch[k]
    BY DEF ReplyNext, IInv, FlushInvariant
  <2>2. /\ Len(committed') = pos
        /\ \A k \in 1..(pos - 1) : committed'[k] = committed[k]
        /\ committed'[pos] = batch[pos].obj
    BY <1>1, <2>1 DEF ReplyNext, Step
  <2>3. \A k \in 1..pos : committed'[k] = batch[k].obj
    BY <1>1, <2>1, <2>2
  <2>4. /\ phase' = "send" /\ pos' = pos + 1 /\ pos < Len(batch)
        /\ UNCHANGED <<staged, owner, batch, wire>>
    BY DEF ReplyNext, history
  <2> QED
    BY <1>1, <2>1, <2>2, <2>3, <2>4 DEF FlushInvariant
<1> QED
  BY <1>5, <1>6, <1>7 DEF IInv

LEMMA ReplyLastInv ==
  ASSUME IInv, ReplyLast
  PROVE  IInv'
<1>1. Append(committed, Step.obj) \in Seq(Objects)
  BY StepType DEF ReplyLast, IInv, TypeOK
<1>2. report' \in Reports
  BY <1>1, EmptySeq DEF ReplyLast, Report, Reports, IInv, TypeOK
<1> QED
  BY <1>2, HydrateType, LeaveStep DEF ReplyLast, Clear

LEMMA InterruptInv ==
  ASSUME IInv, Interrupt
  PROVE  IInv'
<1>1. report' \in Reports
  BY EmptySeq DEF Interrupt, Report, Reports, IInv, TypeOK
<1>2. /\ id' \in [Objects -> Ids \cup {NoId}] /\ val' \in [Objects -> Vals]
      /\ ready' \in [Objects -> BOOLEAN]
  BY HydrateType DEF Interrupt, caller, IInv, TypeOK
<1> QED
  BY <1>1, <1>2, LeaveStep DEF Interrupt

LEMMA OtherInv ==
  ASSUME IInv, NEW i \in Ids, OtherUpdate(i) \/ OtherDelete(i)
  PROVE  IInv'
<1> USE DEF OtherUpdate, OtherDelete, caller, flush
<1>1. TypeOK'
  BY DEF IInv, TypeOK
<1>2. StagedOnce' /\ FlushInvariant'
  BY DEF IInv, StagedOnce, FlushInvariant, Step
<1> QED
  BY <1>1, <1>2 DEF IInv

LEMMA NextIInv == IInv /\ [Next]_vars => IInv'
<1> SUFFICES ASSUME IInv, [Next]_vars PROVE IInv'
  OBVIOUS
<1>1. ASSUME NEW s \in Sessions, NEW o \in Objects,
             Add(s, o) \/ Update(s, o) \/ Delete(s, o)
      PROVE  IInv'
  BY <1>1, AddInv, UpdateInv, DeleteInv
<1>2. ASSUME NEW s \in Sessions,
             Rollback(s) \/ Exit(s) \/ CommitRefused(s) \/ CommitBegin(s)
      PROVE  IInv'
  BY <1>2, DiscardInv, RefusedInv, BeginInv
<1>3. ASSUME NEW o \in Objects,
             Refresh(o) \/ Edit(o) \/ \E i \in Ids : Get(o, i)
      PROVE  IInv'
  BY <1>3, ReadInv
<1>4. CASE CreateInvalid \/ RequestFails \/ ReplyLost
  BY <1>4, AbortInv DEF CreateInvalid, RequestFails, ReplyLost
<1>5. CASE ServerCreate \/ ServerUpdate \/ ServerDelete
  BY <1>5, ServerCreateInv, ServerUpdateInv, ServerDeleteInv
<1>6. CASE ReplyNext \/ ReplyLast
  BY <1>6, ReplyNextInv, ReplyLastInv
<1>7. CASE Interrupt
  BY <1>7, InterruptInv
<1>8. ASSUME NEW i \in Ids, OtherUpdate(i) \/ OtherDelete(i)
      PROVE  IInv'
  BY <1>8, OtherInv
<1>9. CASE UNCHANGED vars
  BY <1>9 DEF vars, caller, flush, remote, history, IInv, TypeOK, StagedOnce,
              FlushInvariant, Step
<1> QED
  BY <1>1, <1>2, <1>3, <1>4, <1>5, <1>6, <1>7, <1>8, <1>9 DEF Next, Flush

LEMMA SpecIInv == Spec => []IInv
BY InitIInv, NextIInv, PTL DEF Spec

\* Every state of every run is well typed.
THEOREM TypeCorrect == Spec => []TypeOK
<1>1. IInv => TypeOK
  BY DEF IInv
<1> QED
  BY <1>1, SpecIInv, PTL

\* No session ever stages the same operation on the same object twice.
THEOREM StagingIsIdempotent == Spec => []StagedOnce
<1>1. IInv => StagedOnce
  BY DEF IInv
<1> QED
  BY <1>1, SpecIInv, PTL

-----------------------------------------------------------------------------
(* What CommitError reports                                                *)

\* A sequence that agrees with another, place by place, is its prefix.
LEMMA PrefixPointwise ==
  ASSUME NEW S, NEW q \in Seq(S), NEW r \in Seq(S), Len(q) <= Len(r),
         \A k \in 1..Len(q) : q[k] = r[k]
  PROVE  q = SubSeq(r, 1, Len(q)) /\ IsPrefix(q, r)
<1>1. Len(q) \in Nat /\ Len(r) \in Nat
  BY LenProperties
<1>2. \A k \in 1..Len(q) : r[k] \in S
  BY <1>1, ElementOfSeq
<1>3. /\ SubSeq(r, 1, Len(q)) \in Seq(S)
      /\ Len(SubSeq(r, 1, Len(q))) = Len(q)
      /\ \A k \in 1..Len(q) : SubSeq(r, 1, Len(q))[k] = r[k]
  BY <1>1, <1>2
<1>4. q = SubSeq(r, 1, Len(q))
  BY <1>3, SeqEqual
<1>5. SubSeq(q, 1, Len(q)) = q
  BY SubSeqFull
<1> QED
  BY <1>4, <1>5 DEF IsPrefix

\* A sequence that starts like p and goes on like q is p followed by q.
LEMMA ConcatPointwise ==
  ASSUME NEW S, NEW p \in Seq(S), NEW q \in Seq(S), NEW r \in Seq(S),
         Len(r) = Len(p) + Len(q),
         \A k \in 1..Len(p) : r[k] = p[k],
         \A k \in 1..Len(q) : r[Len(p) + k] = q[k]
  PROVE  p \o q = r
<1> DEFINE c == p \o q
<1>1. /\ c \in Seq(S) /\ Len(c) = Len(p) + Len(q)
      /\ \A k \in 1 .. Len(p) + Len(q) :
           c[k] = IF k <= Len(p) THEN p[k] ELSE q[k - Len(p)]
  BY ConcatProperties
<1>2. Len(p) \in Nat /\ Len(q) \in Nat
  BY LenProperties
<1> HIDE DEF c
<1>3. ASSUME NEW k \in 1..Len(c)
      PROVE  c[k] = r[k]
  <2>1. CASE k <= Len(p)
    BY <1>1, <1>2, <2>1
  <2>2. CASE k > Len(p)
    <3>1. k - Len(p) \in 1..Len(q) /\ Len(p) + (k - Len(p)) = k
      BY <1>1, <1>2, <2>2
    <3>2. c[k] = q[k - Len(p)]
      BY <1>1, <1>2, <2>2
    <3>3. r[Len(p) + (k - Len(p))] = q[k - Len(p)]
      BY <3>1
    <3> QED
      BY <3>1, <3>2, <3>3
  <2> QED
    BY <1>1, <1>2, <2>1, <2>2
<1>4. c = r
  BY <1>1, <1>3, SeqEqual
<1> QED
  BY <1>4 DEF c

\* While commit() runs, its locals split the staged queue exactly.
LEMMA FlushSplit ==
  ASSUME IInv, phase # "idle"
  PROVE  /\ wire = SubSeq(batch, 1, Len(wire))
         /\ IsPrefix(wire, batch)
         /\ Len(wire) = IF phase = "send" THEN pos - 1 ELSE pos
         /\ Len(committed) = pos - 1
         /\ committed = ObjectsOf(SubSeq(batch, 1, pos - 1))
         /\ ObjectsOf(SubSeq(batch, pos, Len(batch))) \in Seq(Objects)
         /\ Len(ObjectsOf(SubSeq(batch, pos, Len(batch)))) = Len(batch) - pos + 1
         /\ committed \o ObjectsOf(SubSeq(batch, pos, Len(batch))) = ObjectsOf(batch)
<1>1. /\ batch \in Seq(Ops) /\ wire \in Seq(Ops) /\ committed \in Seq(Objects)
      /\ pos \in 1..Len(batch) /\ Len(batch) \in Nat
  BY StepType DEF IInv, TypeOK
<1>2. /\ Len(committed) = pos - 1
      /\ \A k \in 1..(pos - 1) : committed[k] = batch[k].obj
      /\ Len(wire) = IF phase = "send" THEN pos - 1 ELSE pos
      /\ \A k \in 1..Len(wire) : wire[k] = batch[k]
  BY DEF IInv, FlushInvariant
<1>3. wire = SubSeq(batch, 1, Len(wire)) /\ IsPrefix(wire, batch)
  BY <1>1, <1>2, PrefixPointwise
<1> DEFINE a == SubSeq(batch, 1, pos - 1)
           b == SubSeq(batch, pos, Len(batch))
<1>4. \A k \in 1..Len(batch) : batch[k] \in Ops
  BY <1>1, ElementOfSeq
<1>5. /\ a \in Seq(Ops) /\ Len(a) = pos - 1
      /\ \A k \in 1..(pos - 1) : a[k] = batch[k]
  BY <1>1, <1>4
<1>6. /\ b \in Seq(Ops) /\ Len(b) = Len(batch) - pos + 1
      /\ \A k \in 1..(Len(batch) - pos + 1) : b[k] = batch[pos + k - 1]
  BY <1>1, <1>4, SubSeqProperties
<1> HIDE DEF a, b
<1>7. /\ ObjectsOf(a) \in Seq(Objects) /\ Len(ObjectsOf(a)) = Len(a)
      /\ \A k \in 1..Len(a) : ObjectsOf(a)[k] = a[k].obj
      /\ ObjectsOf(b) \in Seq(Objects) /\ Len(ObjectsOf(b)) = Len(b)
      /\ \A k \in 1..Len(b) : ObjectsOf(b)[k] = b[k].obj
      /\ ObjectsOf(batch) \in Seq(Objects) /\ Len(ObjectsOf(batch)) = Len(batch)
      /\ \A k \in 1..Len(batch) : ObjectsOf(batch)[k] = batch[k].obj
  BY <1>1, <1>5, <1>6, ObjectsOfType
<1>8. committed = ObjectsOf(a)
  <2>1. \A k \in 1..Len(committed) : committed[k] = ObjectsOf(a)[k]
    BY <1>1, <1>2, <1>5, <1>7
  <2> QED
    BY <2>1, <1>1, <1>2, <1>5, <1>7, SeqEqual
<1>9. committed \o ObjectsOf(b) = ObjectsOf(batch)
  <2>1. Len(ObjectsOf(batch)) = Len(committed) + Len(ObjectsOf(b))
    BY <1>1, <1>2, <1>6, <1>7
  <2>2. \A k \in 1..Len(committed) : ObjectsOf(batch)[k] = committed[k]
    BY <1>1, <1>2, <1>7
  <2>3. ASSUME NEW k \in 1..Len(ObjectsOf(b))
        PROVE  ObjectsOf(batch)[Len(committed) + k] = ObjectsOf(b)[k]
    <3>1. k \in 1..(Len(batch) - pos + 1) /\ pos + k - 1 \in 1..Len(batch)
      BY <1>1, <1>6, <1>7
    <3>2. b[k] = batch[pos + k - 1] /\ ObjectsOf(b)[k] = b[k].obj
      BY <3>1, <1>6, <1>7
    <3>3. Len(committed) + k = pos + k - 1
      BY <1>1, <1>2, <3>1
    <3> QED
      BY <3>1, <3>2, <3>3, <1>7
  <2> QED
    BY <1>1, <1>7, <2>1, <2>2, <2>3, ConcatPointwise
<1> QED
  BY <1>2, <1>3, <1>6, <1>7, <1>8, <1>9 DEF a, b

LEMMA ReplyLastSplit ==
  ASSUME IInv, ReplyLast
  PROVE  /\ wire = batch
         /\ Append(committed, Step.obj) = ObjectsOf(batch)
<1>1. /\ pos = Len(batch) /\ phase = "reply" /\ Len(batch) \in Nat
      /\ batch \in Seq(Ops) /\ committed \in Seq(Objects) /\ Step.obj \in Objects
      /\ pos \in 1..Len(batch)
  BY StepType DEF ReplyLast, IInv, TypeOK
<1>2. wire = SubSeq(batch, 1, Len(batch)) /\ Len(committed) = Len(batch) - 1
  BY <1>1, FlushSplit
<1>3. wire = batch
  BY <1>1, <1>2, SubSeqFull
<1>4. \A k \in 1..(pos - 1) : committed[k] = batch[k].obj
  BY <1>1 DEF IInv, FlushInvariant
<1> DEFINE c == Append(committed, Step.obj)
<1>5. /\ c \in Seq(Objects) /\ Len(c) = Len(batch)
      /\ \A k \in 1..(Len(batch) - 1) : c[k] = committed[k]
      /\ c[Len(batch)] = batch[Len(batch)].obj
  BY <1>1, <1>2 DEF Step
<1> HIDE DEF c
<1>6. /\ ObjectsOf(batch) \in Seq(Objects) /\ Len(ObjectsOf(batch)) = Len(batch)
      /\ \A k \in 1..Len(batch) : ObjectsOf(batch)[k] = batch[k].obj
  BY <1>1, ObjectsOfType
<1>7. \A k \in 1..Len(c) : c[k] = ObjectsOf(batch)[k]
  BY <1>1, <1>4, <1>5, <1>6
<1>8. c = ObjectsOf(batch)
  BY <1>5, <1>6, <1>7, SeqEqual
<1> QED
  BY <1>3, <1>8 DEF c

LEMMA AbortReport ==
  ASSUME IInv, phase # "idle", Abort
  PROVE  ReportExact'
<1>1. /\ report'.kind = "CommitError"
      /\ report'.batch = batch /\ report'.applied = wire
      /\ report'.committed = committed
      /\ report'.pending = ObjectsOf(SubSeq(batch, pos, Len(batch)))
  BY DEF Abort, Report
<1>2. report'.pending # << >>
  <2>1. Len(report'.pending) \in Nat \ {0}
    BY <1>1, FlushSplit, StepType
  <2>2. Len(<< >>) = 0
    OBVIOUS
  <2> QED
    BY <2>1, <2>2
<1>3. Len(report'.applied) - Len(report'.committed) \in {0, 1}
  <2>1. /\ Len(wire) = IF phase = "send" THEN pos - 1 ELSE pos
        /\ Len(committed) = pos - 1 /\ pos \in Nat
    BY FlushSplit DEF IInv, TypeOK
  <2> QED
    BY <1>1, <2>1
<1> QED
  BY <1>1, <1>2, <1>3, FlushSplit DEF ReportExact

LEMMA QuietReport ==
  ASSUME report'.kind \notin {"CommitError", "ok"}
  PROVE  ReportExact'
BY DEF ReportExact

LEMMA NextReport ==
  ASSUME IInv, ReportExact, [Next]_vars
  PROVE  ReportExact'
<1>1. ASSUME NewCall \/ (\E s \in Sessions : CommitRefused(s) \/ CommitBegin(s))
             \/ Interrupt
      PROVE  ReportExact'
  BY <1>1, QuietReport DEF NewCall, CommitRefused, CommitBegin, Interrupt, Report,
                           NoReport
<1>2. ASSUME NEW s \in Sessions, NEW o \in Objects,
             Add(s, o) \/ Update(s, o) \/ Delete(s, o)
      PROVE  ReportExact'
  BY <1>1, <1>2 DEF Add, Update, Delete
<1>3. ASSUME NEW s \in Sessions, Rollback(s) \/ Exit(s)
      PROVE  ReportExact'
  BY <1>1, <1>3 DEF Rollback, Exit
<1>4. ASSUME NEW o \in Objects, Refresh(o) \/ Edit(o) \/ \E i \in Ids : Get(o, i)
      PROVE  ReportExact'
  BY <1>1, <1>4 DEF Refresh, Edit, Get
<1>5. CASE CreateInvalid \/ RequestFails \/ ReplyLost
  BY <1>5, AbortReport DEF CreateInvalid, RequestFails, ReplyLost
<1>6. CASE ReplyLast
  BY <1>6, ReplyLastSplit DEF ReplyLast, Report, ReportExact
<1>7. ASSUME UNCHANGED report
      PROVE  ReportExact'
  BY <1>7 DEF ReportExact
<1>8. CASE ServerCreate \/ ServerUpdate \/ ServerDelete \/ ReplyNext
  BY <1>7, <1>8 DEF ServerCreate, ServerUpdate, ServerDelete, ReplyNext
<1>9. ASSUME NEW i \in Ids, OtherUpdate(i) \/ OtherDelete(i)
      PROVE  ReportExact'
  BY <1>7, <1>9 DEF OtherUpdate, OtherDelete
<1>10. CASE UNCHANGED vars
  BY <1>7, <1>10 DEF vars
<1> QED
  BY <1>1, <1>2, <1>3, <1>4, <1>5, <1>6, <1>8, <1>9, <1>10 DEF Next, Flush

\* Whatever fails and whenever, CommitError splits the staged batch exactly
\* where the flush stopped.
THEOREM ReportIsExact == Spec => []ReportExact
<1>1. Init => ReportExact
  BY DEF Init, NoReport, ReportExact
<1> QED
  BY <1>1, NextReport, SpecIInv, PTL DEF Spec

-----------------------------------------------------------------------------
(* Staging calls                                                           *)

\* Deleting an object whose creation is staged leaves no creation behind.
THEOREM DeleteCancels == Spec => DeleteCancelsCreate
<1>1. ASSUME IInv, NEW s \in Sessions, NEW o \in Objects, Delete(s, o), id[o] = NoId
      PROVE  ~ Has(staged'[s], "add", o)
  <2> DEFINE q == staged[s]
             n == FirstAdd(q, o)
             r == RemoveAt(q, n)
  <2>1. Has(q, "add", o) /\ staged' = [staged EXCEPT ![s] = r]
    BY <1>1 DEF Delete
  <2>2. q \in Seq(Ops) /\ NoRepeat(q) /\ staged'[s] = r
    BY <1>1, <2>1, QueueType DEF IInv, TypeOK
  <2>3. n \in 1..Len(q) /\ q[n] = Op("add", o)
    BY <2>1, <2>2, FirstAddIndex
  <2>4. /\ r \in Seq(Ops) /\ Len(r) = Len(q) - 1
        /\ \A k \in 1..(Len(q) - 1) : r[k] = IF k < n THEN q[k] ELSE q[k + 1]
    BY <2>2, <2>3, RemoveAtType
  <2>5. Len(q) \in Nat /\ DOMAIN q = 1..Len(q)
    BY <2>2, LenProperties
  <2> HIDE DEF q, n, r
  <2>6. ASSUME NEW k \in 1..Len(r), r[k] = Op("add", o)
        PROVE  FALSE
    <3> DEFINE at == IF k < n THEN k ELSE k + 1
    <3>1. at \in DOMAIN q /\ at # n /\ q[at] = Op("add", o)
      BY <2>3, <2>4, <2>5, <2>6
    <3> QED
      BY <2>2, <2>3, <2>5, <3>1 DEF NoRepeat
  <2> QED
    BY <2>2, <2>6 DEF Has, Contains
<1>2. IInv /\ [Next]_vars =>
        [\A s \in Sessions, o \in Objects :
           Delete(s, o) /\ id[o] = NoId => ~ Has(staged'[s], "add", o)]_vars
  BY <1>1
<1> QED
  BY <1>2, SpecIInv, PTL DEF Spec, DeleteCancelsCreate

-----------------------------------------------------------------------------
(* One session, no interrupts: what was checked at staging time still      *)
(* holds at commit time.  Both hypotheses are needed: the runs             *)
(* UnitOfWorkTwice and UnitOfWorkInterrupt drop one each and fail.         *)

\* A staged creation is of an object without identity, unless the commit() in
\* progress has carried it out already.
AddsFresh ==
  \A s \in Sessions : \A k \in 1..Len(staged[s]) :
    staged[s][k].op = "add" =>
      \/ id[staged[s][k].obj] = NoId
      \/ phase # "idle" /\ k < pos

\* The answer to an update names the record that was asked for.
AnswersTarget == phase = "reply" /\ Step.op = "update" => reply.id = Target

FreshInv == IInv /\ AddsFresh /\ AnswersTarget

Alone == "interrupt" \notin Env /\ \A s, t \in Sessions : s = t

LEMMA InitFresh == Init => FreshInv
<1> SUFFICES ASSUME Init PROVE AddsFresh /\ AnswersTarget
  BY InitIInv DEF FreshInv
<1>1. \A s \in Sessions : staged[s] = << >>
  BY DEF Init
<1>2. phase = "idle"
  BY DEF Init
<1> QED
  BY <1>1, <1>2 DEF AddsFresh, AnswersTarget

LEMMA StageFresh ==
  ASSUME FreshInv, IInv', NEW s \in Sessions, NEW o \in Objects,
         Add(s, o) \/ Update(s, o) \/ Delete(s, o)
  PROVE  AddsFresh' /\ AnswersTarget'
<1>1. /\ phase = "idle" /\ phase' = "idle" /\ id' = id
      /\ \A t \in Sessions \ {s} : staged'[t] = staged[t]
      /\ staged[s] \in Seq(Ops) /\ Len(staged[s]) \in Nat
  <2>1. staged[s] \in Seq(Ops)
    BY QueueType DEF FreshInv
  <2> QED
    BY <2>1, LenProperties
    DEF FreshInv, IInv, TypeOK, Add, Update, Delete, NewCall, caller, flush
<1>2. \A t \in Sessions : \A k \in 1..Len(staged[t]) :
        staged[t][k].op = "add" => id[staged[t][k].obj] = NoId
  BY <1>1 DEF FreshInv, AddsFresh
<1>3. ASSUME NEW op \in {"add", "update", "delete"}, op = "add" => id[o] = NoId,
             staged' = [staged EXCEPT ![s] = Append(@, Op(op, o))]
      PROVE  \A k \in 1..Len(staged'[s]) :
               staged'[s][k].op = "add" => id[staged'[s][k].obj] = NoId
  <2> DEFINE q == staged[s]
  <2>1. staged'[s] = Append(q, Op(op, o))
    BY <1>3 DEF FreshInv, IInv, TypeOK
  <2>2. Op(op, o) \in Ops /\ Op(op, o).op = op /\ Op(op, o).obj = o
    BY DEF Op, Ops
  <2>3. /\ Len(staged'[s]) = Len(q) + 1
        /\ \A k \in 1..Len(q) : staged'[s][k] = q[k]
        /\ staged'[s][Len(q) + 1] = Op(op, o)
    BY <1>1, <2>1, <2>2, AppendProperties
  <2> QED
    BY <1>1, <1>2, <1>3, <2>2, <2>3
<1>4. CASE Delete(s, o) /\ Has(staged[s], "add", o)
  <2> DEFINE q == staged[s]
             n == FirstAdd(q, o)
  <2>1. staged'[s] = RemoveAt(q, n)
    BY <1>4 DEF Delete, FreshInv, IInv, TypeOK
  <2>2. n \in 1..Len(q)
    <3>1. q \in Seq(Ops) /\ NoRepeat(q)
      BY QueueType DEF FreshInv
    <3> QED
      BY <1>4, <3>1, FirstAddIndex
  <2>3. /\ Len(staged'[s]) = Len(q) - 1
        /\ \A k \in 1..(Len(q) - 1) : staged'[s][k] = IF k < n THEN q[k] ELSE q[k + 1]
    BY <1>1, <2>1, <2>2, RemoveAtType
  <2>4. \A k \in 1..Len(staged'[s]) :
          staged'[s][k].op = "add" => id[staged'[s][k].obj] = NoId
    <3> HIDE DEF n
    <3> QED
      BY <1>1, <1>2, <2>2, <2>3
  <2> QED
    BY <1>1, <1>2, <2>4 DEF AddsFresh, AnswersTarget
<1>5. CASE Add(s, o)
  BY <1>1, <1>2, <1>3, <1>5 DEF Add, AddsFresh, AnswersTarget
<1>6. CASE Update(s, o)
  BY <1>1, <1>2, <1>3, <1>6 DEF Update, AddsFresh, AnswersTarget
<1>7. CASE Delete(s, o) /\ ~ Has(staged[s], "add", o)
  BY <1>1, <1>2, <1>3, <1>7 DEF Delete, AddsFresh, AnswersTarget
<1> QED
  BY <1>4, <1>5, <1>6, <1>7

LEMMA CallFresh ==
  ASSUME FreshInv, NEW s \in Sessions,
         Rollback(s) \/ Exit(s) \/ CommitRefused(s) \/ CommitBegin(s)
  PROVE  AddsFresh' /\ AnswersTarget'
<1>1. /\ phase = "idle" /\ id' = id /\ phase' \in {"idle", "send"}
      /\ \A t \in Sessions : staged'[t] = staged[t] \/ staged'[t] = << >>
  BY DEF FreshInv, IInv, TypeOK, Rollback, Exit, CommitRefused, CommitBegin,
         NewCall, caller, flush
<1> QED
  BY <1>1 DEF FreshInv, AddsFresh, AnswersTarget

\* A read binds an object that is not staged for creation.
LEMMA ReadFresh ==
  ASSUME FreshInv, NEW o \in Objects, Refresh(o) \/ Edit(o) \/ \E i \in Ids : Get(o, i)
  PROVE  AddsFresh' /\ AnswersTarget'
<1>1. phase = "idle" /\ phase' = "idle" /\ staged' = staged
  BY DEF Refresh, Edit, Get, NewCall, flush
<1>2. CASE id' = id
  BY <1>1, <1>2 DEF FreshInv, AddsFresh, AnswersTarget
<1>3. ASSUME NEW i \in Ids, Get(o, i)
      PROVE  AddsFresh' /\ AnswersTarget'
  <2>1. ASSUME NEW s \in Sessions, NEW k \in 1..Len(staged[s]),
               staged[s][k].op = "add"
        PROVE  staged[s][k].obj # o
    <3>1. staged[s] \in Seq(Ops)
      BY QueueType DEF FreshInv
    <3>2. staged[s][k] \in Ops /\ k \in DOMAIN staged[s]
      BY <3>1, ElementOfSeq, LenProperties
    <3>3. staged[s][k] # Op("add", o)
      BY <1>3, <3>2 DEF Get, Has, Contains
    <3> QED
      BY <2>1, <3>2, <3>3 DEF Ops, Op
  <2>2. id' = [id EXCEPT ![o] = i] /\ id \in [Objects -> Ids \cup {NoId}]
    BY <1>3 DEF Get, FreshInv, IInv, TypeOK
  <2>3. ASSUME NEW s \in Sessions, NEW k \in 1..Len(staged[s]),
               staged[s][k].op = "add"
        PROVE  id'[staged[s][k].obj] = id[staged[s][k].obj]
    BY <2>1, <2>2, <2>3
  <2> QED
    BY <1>1, <2>3 DEF FreshInv, AddsFresh, AnswersTarget
<1> QED
  BY <1>2, <1>3 DEF Refresh, Edit

LEMMA SendFresh ==
  ASSUME FreshInv, ServerCreate \/ ServerUpdate \/ ServerDelete
  PROVE  AddsFresh' /\ AnswersTarget'
<1>1. /\ phase # "idle" /\ phase' = "reply" /\ id' = id /\ staged' = staged
      /\ pos' = pos /\ batch' = batch
  BY DEF ServerCreate, ServerUpdate, ServerDelete, caller
<1>2. AddsFresh'
  BY <1>1 DEF FreshInv, AddsFresh
<1>3. AnswersTarget'
  <2>1. ServerUpdate => reply'.id = Target
    BY DEF ServerUpdate
  <2>2. ServerCreate \/ ServerDelete => Step.op # "update"
    BY DEF ServerCreate, ServerDelete
  <2> QED
    BY <1>1, <2>1, <2>2 DEF AnswersTarget, Step, Target
<1> QED
  BY <1>2, <1>3

\* An answer gives an identity to the object at pos only; a later creation of
\* that object would be a repeat in the queue.
LEMMA AnswerFresh ==
  ASSUME FreshInv, Alone, ReplyNext
  PROVE  AddsFresh' /\ AnswersTarget'
<1>1. /\ phase = "reply" /\ phase' = "send" /\ pos' = pos + 1 /\ staged' = staged
      /\ Hydrate(Step.obj)
  BY DEF ReplyNext
<1>2. /\ pos \in 1..Len(batch) /\ Step \in Ops /\ Step.obj \in Objects
      /\ batch = staged[owner] /\ owner \in Sessions
  BY <1>1, StepType DEF FreshInv, IInv, TypeOK
<1>3. ASSUME NEW s \in Sessions, NEW k \in 1..Len(staged[s]), k > pos,
             staged[s][k].op = "add"
      PROVE  id'[staged[s][k].obj] = NoId
  <2>1. s = owner
    BY <1>2 DEF Alone
  <2>2. staged[s] \in Seq(Ops) /\ NoRepeat(staged[s])
    BY QueueType DEF FreshInv
  <2>3. staged[s][k] \in Ops /\ k \in DOMAIN staged[s] /\ pos \in DOMAIN staged[s]
    BY <1>2, <2>1, <2>2, ElementOfSeq, LenProperties
  <2>4. id[staged[s][k].obj] = NoId
    BY <1>2, <1>3, <2>1 DEF FreshInv, AddsFresh
  <2>5. staged[s][k] # Step
    BY <1>2, <1>3, <2>1, <2>2, <2>3 DEF NoRepeat, Step
  <2>6. CASE staged[s][k].obj # Step.obj
    <3>1. staged[s][k].obj \in Objects
      BY <2>3 DEF Ops
    <3> QED
      BY <1>1, <1>2, <2>4, <2>6, <3>1 DEF Hydrate, caller, FreshInv, IInv, TypeOK
  <2>7. CASE staged[s][k].obj = Step.obj
    <3>1. Step.op # "add"
      BY <1>2, <1>3, <2>3, <2>5, <2>7 DEF Ops
    <3>2. CASE Step.op = "delete"
      BY <1>1, <2>4, <3>2 DEF Hydrate, caller
    <3>3. CASE Step.op = "update"
      <4>1. reply.id = id[Step.obj]
        BY <1>1, <3>3 DEF FreshInv, AnswersTarget, Target
      <4> QED
        BY <1>1, <1>2, <2>4, <2>7, <3>3, <4>1 DEF Hydrate, FreshInv, IInv, TypeOK
    <3> QED
      BY <1>2, <3>1, <3>2, <3>3 DEF Ops
  <2> QED
    BY <2>6, <2>7
<1>4. pos \in Nat
  BY DEF FreshInv, IInv, TypeOK
<1> QED
  BY <1>1, <1>3, <1>4 DEF AddsFresh, AnswersTarget

\* Once commit() has returned or raised CommitError, its queue is empty.
LEMMA EndFresh ==
  ASSUME FreshInv, Alone, CreateInvalid \/ RequestFails \/ ReplyLost \/ ReplyLast
  PROVE  AddsFresh' /\ AnswersTarget'
<1>1. phase' = "idle" /\ staged' = [staged EXCEPT ![owner] = << >>]
  BY DEF CreateInvalid, RequestFails, ReplyLost, ReplyLast, Abort, Leave, Clear
<1>2. \A s \in Sessions : staged'[s] = << >>
  BY <1>1 DEF Alone, FreshInv, IInv, TypeOK
<1> QED
  BY <1>1, <1>2 DEF AddsFresh, AnswersTarget

LEMMA NextFresh == Alone /\ FreshInv /\ [Next]_vars => FreshInv'
<1> SUFFICES ASSUME Alone, FreshInv, [Next]_vars PROVE AddsFresh' /\ AnswersTarget'
  BY NextIInv DEF FreshInv
<1>1. IInv'
  BY NextIInv DEF FreshInv
<1>2. ASSUME NEW i \in Ids, OtherUpdate(i) \/ OtherDelete(i)
      PROVE  UNCHANGED <<id, staged, phase, pos, batch, reply>>
  BY <1>2 DEF OtherUpdate, OtherDelete, caller, flush
<1>3. CASE UNCHANGED <<id, staged, phase, pos, batch, reply>>
  BY <1>3 DEF FreshInv, AddsFresh, AnswersTarget, Step, Target
<1>4. UNCHANGED vars => UNCHANGED <<id, staged, phase, pos, batch, reply>>
  BY DEF vars, caller, flush
<1>5. ~ Interrupt
  BY DEF Alone, Interrupt
<1> QED
  BY <1>1, <1>2, <1>3, <1>4, <1>5, StageFresh, CallFresh, ReadFresh, SendFresh,
     AnswerFresh, EndFresh DEF Next, Flush

\* With one session and no interrupt, commit() never creates a second record for
\* an object that has one: add()'s check outlives the staging.
THEOREM CreatesOnce ==
  ASSUME Alone
  PROVE  Spec => CreateOnlyUnpersisted
<1>1. ASSUME FreshInv, ServerCreate
      PROVE  id[Step.obj] = NoId
  <2>1. /\ phase = "send" /\ Step.op = "add"
        /\ pos \in 1..Len(staged[owner]) /\ Step = staged[owner][pos]
        /\ owner \in Sessions /\ pos \in Nat
    BY <1>1, StepType DEF ServerCreate, Step, FreshInv, IInv, TypeOK
  <2> QED
    BY <1>1, <2>1 DEF FreshInv, AddsFresh
<1>2. FreshInv /\ [Next]_vars => [ServerCreate => id[Step.obj] = NoId]_vars
  BY <1>1
<1>3. FreshInv /\ [Next]_vars => FreshInv'
  BY NextFresh
<1> QED
  BY <1>2, <1>3, InitFresh, PTL DEF Spec, CreateOnlyUnpersisted

\* With one session and no interrupt, delete() of a persisted object always
\* stages a server-side delete: the queue never holds its finished creation.
THEOREM DeletesReachTheQueue ==
  ASSUME Alone
  PROVE  Spec => DeleteIsNotLost
<1>1. ASSUME FreshInv, FreshInv', NEW s \in Sessions, NEW o \in Objects, Delete(s, o),
             id[o] # NoId
      PROVE  Has(staged'[s], "delete", o)
  <2>1. staged[s] \in Seq(Ops) /\ phase = "idle"
    BY <1>1, QueueType DEF FreshInv, Delete, NewCall
  <2>2. ~ Has(staged[s], "add", o)
    <3>1. ASSUME NEW k \in DOMAIN staged[s], staged[s][k] = Op("add", o)
          PROVE  FALSE
      <4>1. k \in 1..Len(staged[s])
        BY <2>1, LenProperties
      <4> QED
        BY <1>1, <2>1, <3>1, <4>1 DEF FreshInv, AddsFresh, Op
    <3> QED
      BY <3>1 DEF Has, Contains
  <2>3. staged'[s] = Append(staged[s], Op("delete", o))
    BY <1>1, <2>2 DEF Delete, FreshInv, IInv, TypeOK
  <2>4. Op("delete", o) \in Ops
    BY DEF Op, Ops
  <2>5. /\ Len(staged[s]) + 1 \in DOMAIN staged'[s]
        /\ staged'[s][Len(staged[s]) + 1] = Op("delete", o)
    BY <2>1, <2>3, <2>4, AppendProperties, LenProperties
  <2> QED
    BY <2>5 DEF Has, Contains
<1>2. FreshInv /\ [Next]_vars =>
        [\A s \in Sessions, o \in Objects :
           Delete(s, o) /\ id[o] # NoId => Has(staged'[s], "delete", o)]_vars
  BY <1>1, NextFresh
<1>3. FreshInv /\ [Next]_vars => FreshInv'
  BY NextFresh
<1> QED
  BY <1>2, <1>3, InitFresh, PTL DEF Spec, DeleteIsNotLost

\* What is known of the answer that is due to a deletion.
DeletesUnanswered == phase = "reply" /\ Step.op = "delete" => reply.id = NoId

\* A created record is held by the object that its answer went to: with one session,
\* no interrupt and no lost answer, nothing the process created is out of its reach.
THEOREM NothingIsOrphaned ==
  ASSUME Alone, "lose" \notin Env
  PROVE  Spec => []NoOrphans
<1> DEFINE OrphanInv == FreshInv /\ DeletesUnanswered /\ NoOrphans
<1>1. Init => OrphanInv
  <2>1. Init => DeletesUnanswered /\ NoOrphans
    BY DEF Init, DeletesUnanswered, NoOrphans
  <2> QED
    BY <2>1, InitFresh
<1>2. OrphanInv /\ [Next]_vars => OrphanInv'
  <2> SUFFICES ASSUME OrphanInv, [Next]_vars PROVE DeletesUnanswered' /\ NoOrphans'
    BY NextFresh
  <2>1. CASE UNCHANGED <<id, server, created, phase, reply, batch, pos>>
    BY <2>1 DEF DeletesUnanswered, NoOrphans, Live, Step
\* Between calls no answer is due, so each record has its object.
  <2>2. ASSUME phase # "reply", phase' # "reply", UNCHANGED <<server, created>>,
               \A o \in Objects : id[o] \in Ids => id'[o] = id[o]
        PROVE  DeletesUnanswered' /\ NoOrphans'
    BY <2>2 DEF DeletesUnanswered, NoOrphans, Live
  <2>3. ASSUME NEW s \in Sessions, NEW o \in Objects, Add(s, o) \/ Update(s, o) \/ Delete(s, o)
        PROVE  DeletesUnanswered' /\ NoOrphans'
    BY <2>1, <2>3 DEF Add, Update, Delete, caller, flush, remote
  <2>4. ASSUME NEW s \in Sessions, Rollback(s) \/ Exit(s) \/ CommitRefused(s) \/ CommitBegin(s)
        PROVE  DeletesUnanswered' /\ NoOrphans'
    BY <2>2, <2>4 DEF Rollback, Exit, CommitRefused, CommitBegin, NewCall, caller, flush, remote
  <2>5. ASSUME NEW o \in Objects, Refresh(o) \/ Edit(o) \/ \E i \in Ids : Get(o, i)
        PROVE  DeletesUnanswered' /\ NoOrphans'
    <3>1. \A p \in Objects : id[p] \in Ids => id'[p] = id[p]
      BY <2>5 DEF Refresh, Edit, Get, FreshInv, IInv, TypeOK, NoId, Ids
    <3> QED
      BY <2>2, <2>5, <3>1 DEF Refresh, Edit, Get, NewCall, flush, remote
  <2>6. CASE CreateInvalid \/ RequestFails
    BY <2>2, <2>6 DEF CreateInvalid, RequestFails, Abort, Leave, caller, remote
  <2>7. CASE ServerCreate
    <3>1. /\ phase = "send" /\ phase' = "reply" /\ reply'.id = nextId /\ id' = id
          /\ created' = created \cup {nextId} /\ Step' = Step /\ Step.op = "add"
          /\ \A i \in Ids : i # nextId => server'[i] = server[i]
      BY <2>7 DEF ServerCreate, caller, Step, FreshInv, IInv, TypeOK
    <3> QED
      BY <3>1 DEF DeletesUnanswered, NoOrphans, Live
  <2>8. CASE ServerUpdate \/ ServerDelete
    <3>1. /\ phase = "send" /\ phase' = "reply" /\ id' = id /\ created' = created /\ Step' = Step
          /\ \A i \in Ids : Live(i)' => Live(i)
      BY <2>8, ValsAssumption DEF ServerUpdate, ServerDelete, caller, Step, Live, FreshInv, IInv, TypeOK
    <3>2. Step.op = "delete" => reply'.id = NoId
      BY <2>8 DEF ServerUpdate, ServerDelete, NoReply
    <3>3. created \subseteq Ids
      BY DEF FreshInv, IInv, TypeOK
    <3> QED
      BY <3>1, <3>2, <3>3 DEF DeletesUnanswered, NoOrphans
  <2>9. ASSUME phase = "reply", phase' # "reply", Hydrate(Step.obj), UNCHANGED <<server, created>>
        PROVE  DeletesUnanswered' /\ NoOrphans'
    <3>1. Step \in Ops /\ Step.obj \in Objects /\ pos \in 1..Len(batch)
      BY <2>9, StepType DEF FreshInv
    <3>2. id \in [Objects -> Ids \cup {NoId}] /\ NoId \notin Ids /\ created \subseteq Ids
      BY DEF FreshInv, IInv, TypeOK, NoId, Ids
    <3>3. CASE Step.op = "delete"
      BY <2>9, <3>2, <3>3 DEF Hydrate, caller, DeletesUnanswered, NoOrphans, Live
    <3>4. CASE Step.op # "delete"
      <4>1. id' = [id EXCEPT ![Step.obj] = reply.id]
        BY <2>9, <3>4 DEF Hydrate
      <4>2. id[Step.obj] \in {NoId, reply.id}
        <5>1. CASE Step.op = "update"
          BY <2>9, <5>1 DEF FreshInv, AnswersTarget, Target
        <5>2. CASE Step.op = "add"
          <6>1. owner \in Sessions /\ batch = staged[owner] /\ pos \in Nat
            BY <2>9, StepType DEF FreshInv, IInv, TypeOK
          <6> QED
            BY <3>1, <5>2, <6>1 DEF FreshInv, AddsFresh, Step
        <5> QED
          BY <3>1, <3>4, <5>1, <5>2 DEF Ops
      <4> QED
        BY <2>9, <3>1, <3>2, <4>1, <4>2 DEF DeletesUnanswered, NoOrphans, Live
    <3> QED
      BY <3>3, <3>4
  <2>10. CASE ReplyNext \/ ReplyLast
    BY <2>9, <2>10 DEF ReplyNext, ReplyLast, Leave, remote, FreshInv, IInv, TypeOK
  <2>11. ASSUME NEW i \in Ids, OtherUpdate(i) \/ OtherDelete(i)
         PROVE  DeletesUnanswered' /\ NoOrphans'
    <3>1. \A j \in Ids : Live(j)' => Live(j)
      BY <2>11, ValsAssumption DEF OtherUpdate, OtherDelete, Live, FreshInv, IInv, TypeOK
    <3>2. UNCHANGED <<id, phase, reply, batch, pos, created>>
      BY <2>11 DEF OtherUpdate, OtherDelete, caller, flush
    <3>3. created \subseteq Ids
      BY DEF FreshInv, IInv, TypeOK
    <3> QED
      BY <3>1, <3>2, <3>3 DEF DeletesUnanswered, NoOrphans, Step
  <2>12. ~ Interrupt /\ ~ ReplyLost
    BY DEF Alone, Interrupt, ReplyLost
  <2>13. CASE UNCHANGED vars
    BY <2>1, <2>13 DEF vars, caller, flush, remote
  <2> QED
    BY <2>3, <2>4, <2>5, <2>6, <2>7, <2>8, <2>10, <2>11, <2>12, <2>13 DEF Next, Flush
<1>3. OrphanInv => NoOrphans
  OBVIOUS
<1> QED
  BY <1>1, <1>2, <1>3, PTL DEF Spec

-----------------------------------------------------------------------------
(* What a commit() leaves on the server, under every environment.           *)

\* Changing or deleting asks for an identity, and an object that has one is not
\* staged for creation: its creation comes before whatever else is staged of it.
Ordered ==
  \A s \in Sessions : \A k \in 1..Len(staged[s]) :
    /\ staged[s][k].op # "add" => id[staged[s][k].obj] # NoId
    /\ staged[s][k].op = "add" => \A j \in 1..(k - 1) : staged[s][j].obj # staged[s][k].obj

\* Every identity in use was given by the server.
Assigned ==
  /\ reply.id < nextId
  /\ \A o \in Objects : id[o] < nextId
  /\ \A i \in Ids : server[i] # Absent => i < nextId

\* What is known while an answer is due.
Answered ==
  phase = "reply" =>
    /\ Step.op = "delete" => reply.id = NoId /\ Target \in Ids /\ server[Target] = Deleted
    /\ Step.op # "delete" => reply.id \in touched \/ server[reply.id] = reply.val
    /\ Step.op = "update" => reply.id = Target
    /\ Step.op = "add" => \A o \in Objects : id[o] < reply.id

\* The record of the operation whose answer is due.
Sent == IF phase # "reply" THEN {} ELSE IF Step.op = "delete" THEN {Target} ELSE {reply.id}

\* A record equals the object last written to it, or is gone if it was last deleted.
Mirrored(k) ==
  LET o == batch[k].obj IN
  /\ id[o] \in Ids
  /\ (id[o] \notin touched \cup Sent /\ \A j \in (k + 1)..(pos - 1) : id[batch[j].obj] # id[o])
       => server[id[o]] = IF batch[k].op = "delete" THEN Deleted ELSE val[o]
Mirrors == phase # "idle" => \A k \in 1..(pos - 1) : Mirrored(k)

MirrorInv == IInv /\ Ordered /\ Assigned /\ Answered /\ Mirrors

LEMMA InitMirror == Init => MirrorInv
<1> SUFFICES ASSUME Init PROVE Ordered /\ Assigned /\ Answered /\ Mirrors
  BY InitIInv DEF MirrorInv
<1>1. /\ phase = "idle" /\ \A s \in Sessions : Len(staged[s]) = 0
      /\ reply.id = 0
  BY DEF Init, NoReply, NoId
<1>2. PICK n \in 0..MaxId : nextId = n + 1 /\ id \in [Objects -> 0..n]
  BY DEF Init
<1>3. \A o \in Objects : id[o] \in 0..n
  BY <1>2
<1>4. \A i \in Ids : server[i] # Absent => i <= n
  BY <1>2, UnitOfWorkAssumption DEF Init, Ids
<1>5. Assigned
  BY <1>1, <1>2, <1>3, <1>4, UnitOfWorkAssumption DEF Assigned, Ids
<1> QED
  BY <1>1, <1>5 DEF Ordered, Answered, Mirrors

\* Between calls there is no answer and no commit().
LEMMA IdleMirror ==
  ASSUME phase' = "idle"
  PROVE  Answered' /\ Mirrors'
BY DEF Answered, Mirrors

\* Staging keeps the order of the queue.
LEMMA StageOrdered ==
  ASSUME MirrorInv, NEW s \in Sessions, NEW o \in Objects,
         Add(s, o) \/ Update(s, o) \/ Delete(s, o)
  PROVE  Ordered'
<1>1. /\ id' = id /\ \A t \in Sessions \ {s} : staged'[t] = staged[t]
      /\ staged[s] \in Seq(Ops) /\ Len(staged[s]) \in Nat
  <2>1. staged[s] \in Seq(Ops)
    BY QueueType DEF MirrorInv
  <2> QED
    BY <2>1, LenProperties
    DEF MirrorInv, IInv, TypeOK, Add, Update, Delete, caller
<1> DEFINE Fine(q) ==
      \A k \in 1..Len(q) :
        /\ q[k].op # "add" => id[q[k].obj] # NoId
        /\ q[k].op = "add" => \A j \in 1..(k - 1) : q[j].obj # q[k].obj
<1>2. \A t \in Sessions : Fine(staged[t])
  BY DEF MirrorInv, Ordered
<1>3. Fine(staged'[s]) => Ordered'
  <2>1. Fine(staged'[s]) => \A t \in Sessions : Fine(staged'[t])
    BY <1>1, <1>2
  <2> QED
    BY <1>1, <2>1 DEF Ordered
<1>4. ASSUME NEW op \in {"add", "update", "delete"},
             op # "add" => id[o] # NoId, op = "add" => id[o] = NoId /\ ~ Has(staged[s], "add", o),
             staged' = [staged EXCEPT ![s] = Append(@, Op(op, o))]
      PROVE  Fine(staged'[s])
  <2> DEFINE q == staged[s]
  <2>1. staged'[s] = Append(q, Op(op, o))
    BY <1>4 DEF MirrorInv, IInv, TypeOK
  <2>2. Op(op, o) \in Ops /\ Op(op, o).op = op /\ Op(op, o).obj = o
    BY DEF Op, Ops
  <2>3. /\ Len(staged'[s]) = Len(q) + 1
        /\ \A k \in 1..Len(q) : staged'[s][k] = q[k]
        /\ staged'[s][Len(q) + 1] = Op(op, o)
    BY <1>1, <2>1, <2>2, AppendProperties
  <2>4. ASSUME op = "add", NEW j \in 1..Len(q) PROVE q[j].obj # o
    <3>1. q[j] \in Ops /\ j \in DOMAIN q
      BY <1>1, ElementOfSeq, LenProperties
    <3>2. q[j] # Op("add", o)
      BY <1>4, <2>4, <3>1 DEF Has, Contains
    <3>3. q[j].op # "add" => id[q[j].obj] # NoId
      BY <1>2
    <3> QED
      BY <1>4, <2>4, <3>1, <3>2, <3>3 DEF Ops, Op
  <2>5. ASSUME NEW k \in 1..Len(staged'[s])
        PROVE  /\ staged'[s][k].op # "add" => id[staged'[s][k].obj] # NoId
               /\ staged'[s][k].op = "add" =>
                    \A j \in 1..(k - 1) : staged'[s][j].obj # staged'[s][k].obj
    <3>1. CASE k \in 1..Len(q)
      <4>1. \A j \in 1..(k - 1) : j \in 1..Len(q)
        BY <1>1, <3>1
      <4> QED
        BY <1>2, <2>3, <3>1, <4>1
    <3>2. CASE k = Len(q) + 1
      <4>1. \A j \in 1..(k - 1) : j \in 1..Len(q)
        BY <1>1, <3>2
      <4> QED
        BY <1>4, <2>2, <2>3, <2>4, <3>2, <4>1
    <3> QED
      BY <1>1, <2>3, <3>1, <3>2
  <2> QED
    BY <2>5
<1>5. CASE Delete(s, o) /\ Has(staged[s], "add", o)
  <2> DEFINE q == staged[s]
             n == FirstAdd(q, o)
  <2>1. staged'[s] = RemoveAt(q, n)
    BY <1>5 DEF Delete, MirrorInv, IInv, TypeOK
  <2>2. n \in 1..Len(q)
    <3>1. q \in Seq(Ops) /\ NoRepeat(q)
      BY QueueType DEF MirrorInv
    <3> QED
      BY <1>5, <3>1, FirstAddIndex
  <2> HIDE DEF n
  <2>3. /\ Len(staged'[s]) = Len(q) - 1
        /\ \A k \in 1..(Len(q) - 1) : staged'[s][k] = IF k < n THEN q[k] ELSE q[k + 1]
    BY <1>1, <2>1, <2>2, RemoveAtType
  <2>4. ASSUME NEW k \in 1..Len(staged'[s])
        PROVE  /\ staged'[s][k].op # "add" => id[staged'[s][k].obj] # NoId
               /\ staged'[s][k].op = "add" =>
                    \A j \in 1..(k - 1) : staged'[s][j].obj # staged'[s][k].obj
    <3>1. PICK m : m = IF k < n THEN k ELSE k + 1
      OBVIOUS
    <3>2. m \in 1..Len(q) /\ staged'[s][k] = q[m]
      BY <1>1, <2>2, <2>3, <3>1
    <3>3. ASSUME NEW j \in 1..(k - 1)
          PROVE  \E i \in 1..(m - 1) : staged'[s][j] = q[i]
      <4>1. PICK i : i = IF j < n THEN j ELSE j + 1
        OBVIOUS
      <4>2. i \in 1..(m - 1) /\ staged'[s][j] = q[i]
        BY <1>1, <2>2, <2>3, <3>1, <4>1
      <4> QED
        BY <4>2
    <3> QED
      BY <1>2, <3>2, <3>3
  <2> QED
    BY <1>3, <2>4
<1>6. CASE Add(s, o)
  <2>1. Fine(staged'[s])
    BY <1>4, <1>6 DEF Add
  <2> QED
    BY <1>3, <2>1
<1>7. CASE Update(s, o)
  <2>1. Fine(staged'[s])
    BY <1>4, <1>7 DEF Update
  <2> QED
    BY <1>3, <2>1
<1>8. CASE Delete(s, o) /\ ~ Has(staged[s], "add", o)
  <2>1. Fine(staged'[s])
    BY <1>4, <1>8 DEF Delete
  <2> QED
    BY <1>3, <2>1
<1> QED
  BY <1>5, <1>6, <1>7, <1>8

\* An identity is never taken away, whatever becomes of the queues.
LEMMA StillOrdered ==
  ASSUME MirrorInv, \A o \in Objects : id[o] # NoId => id'[o] # NoId,
         \A s \in Sessions : staged'[s] = staged[s] \/ staged'[s] = <<>>
  PROVE  Ordered'
<1>1. \A s \in Sessions : \A k \in 1..Len(staged[s]) : staged[s][k].obj \in Objects
  <2>1. \A s \in Sessions : staged[s] \in Seq(Ops)
    BY QueueType DEF MirrorInv
  <2>2. \A s \in Sessions : \A k \in 1..Len(staged[s]) : staged[s][k] \in Ops
    BY <2>1, ElementOfSeq
  <2> QED
    BY <2>2 DEF Ops
<1>2. ASSUME NEW s \in Sessions, NEW k \in 1..Len(staged'[s])
      PROVE  /\ staged'[s][k].op # "add" => id'[staged'[s][k].obj] # NoId
             /\ staged'[s][k].op = "add" =>
                  \A j \in 1..(k - 1) : staged'[s][j].obj # staged'[s][k].obj
  <2>1. staged'[s] = staged[s]
    BY <1>2
  <2> QED
    BY <1>1, <1>2, <2>1 DEF MirrorInv, Ordered
<1> QED
  BY <1>2 DEF Ordered

\* Staging, reading and leaving commit() assign no identity of the server.
LEMMA StillAssigned ==
  ASSUME MirrorInv, UNCHANGED <<server, nextId>>, reply' \in {reply, NoReply},
         \A o \in Objects : id'[o] < nextId
  PROVE  Assigned'
<1>1. nextId \in 1..(MaxId + 1) /\ NoReply.id = 0
  BY DEF MirrorInv, IInv, TypeOK, NoReply, NoId
<1> QED
  BY <1>1, UnitOfWorkAssumption DEF MirrorInv, Assigned

\* What the caller does between two commits.
LEMMA CallMirror ==
  ASSUME MirrorInv,
         \/ \E s \in Sessions, o \in Objects : Add(s, o) \/ Update(s, o) \/ Delete(s, o)
         \/ \E s \in Sessions : Rollback(s) \/ Exit(s) \/ CommitRefused(s)
  PROVE  MirrorInv'
<1> USE DEF caller, flush, remote
<1>1. IInv'
  <2>1. [Next]_vars
    BY DEF Next
  <2> QED
    BY <2>1, NextIInv DEF MirrorInv
<1>2. /\ phase' = "idle" /\ UNCHANGED <<id, server, nextId, reply>>
  BY DEF Add, Update, Delete, Rollback, Exit, CommitRefused, NewCall
<1>3. Assigned'
  BY <1>2 DEF MirrorInv, Assigned
<1>4. ASSUME NEW s \in Sessions, Rollback(s) \/ Exit(s) \/ CommitRefused(s)
      PROVE  Ordered'
  <2>1. \A t \in Sessions : staged'[t] = staged[t] \/ staged'[t] = <<>>
    BY <1>4 DEF Rollback, Exit, CommitRefused, MirrorInv, IInv, TypeOK
  <2> QED
    BY <1>2, <2>1, StillOrdered
<1>5. Ordered'
  BY <1>4, StageOrdered
<1> QED
  BY <1>1, <1>2, <1>3, <1>5, IdleMirror DEF MirrorInv

LEMMA ReadMirror ==
  ASSUME MirrorInv, NEW o \in Objects, Refresh(o) \/ Edit(o) \/ \E i \in Ids : Get(o, i)
  PROVE  MirrorInv'
<1> USE DEF flush, remote
<1>1. IInv'
  BY ReadInv DEF MirrorInv
<1>2. phase' = "idle" /\ UNCHANGED <<server, nextId, reply, staged>>
  BY DEF Refresh, Edit, Get, NewCall
<1>3. /\ \A p \in Objects : id[p] # NoId => id'[p] # NoId
      /\ \A p \in Objects : id'[p] < nextId
  <2>1. CASE id' = id
    BY <2>1 DEF MirrorInv, Assigned
  <2>2. ASSUME NEW i \in Ids, Get(o, i)
        PROVE  /\ \A p \in Objects : id[p] # NoId => id'[p] # NoId
               /\ \A p \in Objects : id'[p] < nextId
    <3>1. id' = [id EXCEPT ![o] = i] /\ id \in [Objects -> Ids \cup {NoId}] /\ i # NoId
      BY <2>2 DEF Get, MirrorInv, IInv, TypeOK, NoId, Ids
    <3>2. i < nextId
      BY <2>2, ValsAssumption DEF Get, Live, MirrorInv, Assigned
    <3> QED
      BY <3>1, <3>2 DEF MirrorInv, Assigned
  <2> QED
    BY <2>1, <2>2 DEF Refresh, Edit
<1>4. Ordered'
  BY <1>2, <1>3, StillOrdered
<1> QED
  BY <1>1, <1>2, <1>3, <1>4, StillAssigned, IdleMirror DEF MirrorInv

LEMMA BeginMirror ==
  ASSUME MirrorInv, NEW s \in Sessions, CommitBegin(s)
  PROVE  MirrorInv'
<1>1. /\ phase' = "send" /\ pos' = 1 /\ UNCHANGED <<id, server, nextId, reply, staged>>
  BY DEF CommitBegin, caller, remote
<1>2. Ordered'
  BY <1>1, StillOrdered
<1>3. Assigned'
  BY <1>1 DEF MirrorInv, Assigned
<1> QED
  BY <1>1, <1>2, <1>3, BeginInv DEF MirrorInv, Answered, Mirrors

\* What the server carries out disturbs one record, whose answer is then due.
LEMMA ServerMirror ==
  ASSUME MirrorInv, phase = "send", NEW i \in Ids, NEW w,
         server' = [server EXCEPT ![i] = w], Sent' = {i}, phase' = "reply",
         UNCHANGED <<caller, staged, pos, batch, touched>>
  PROVE  Ordered' /\ Mirrors'
<1> USE DEF caller
<1>1. Ordered'
  BY StillOrdered
<1>2. ASSUME NEW k \in 1..(pos - 1) PROVE Mirrored(k)'
  <2>1. Mirrored(k) /\ Sent = {}
    BY <1>2 DEF MirrorInv, Mirrors, Sent
  <2>2. id[batch[k].obj] # i => server'[id[batch[k].obj]] = server[id[batch[k].obj]]
    BY <2>1 DEF Mirrored, MirrorInv, IInv, TypeOK
  <2> QED
    BY <2>1, <2>2 DEF Mirrored
<1> QED
  BY <1>1, <1>2 DEF Mirrors

LEMMA CreateMirror ==
  ASSUME MirrorInv, ServerCreate
  PROVE  MirrorInv'
<1>1. /\ phase = "send" /\ phase' = "reply" /\ nextId \in Ids /\ nextId' = nextId + 1
      /\ server' = [server EXCEPT ![nextId] = val[Step.obj]]
      /\ reply' = [id |-> nextId, val |-> val[Step.obj]]
      /\ Step.op = "add" /\ Step' = Step
      /\ UNCHANGED <<caller, staged, pos, batch, touched>>
  BY DEF ServerCreate, Step
<1>2. /\ server' \in [Ids -> Vals \cup {Absent, Deleted}] /\ server'[nextId] = val[Step.obj]
      /\ server \in [Ids -> Vals \cup {Absent, Deleted}] /\ id' = id /\ reply.id \in Int
      /\ nextId \in Nat /\ \A o \in Objects : id[o] \in Int
  BY <1>1, ServerCreateInv DEF MirrorInv, IInv, TypeOK, caller, Ids, NoId
<1>3. Assigned'
  <2>1. \A o \in Objects : id'[o] < nextId'
    BY <1>1, <1>2 DEF MirrorInv, Assigned
  <2>2. \A i \in Ids : server'[i] # Absent => i < nextId'
    BY <1>1, <1>2 DEF MirrorInv, Assigned, Ids
  <2> QED
    BY <1>1, <1>2, <2>1, <2>2 DEF Assigned
<1>4. Answered'
  BY <1>1, <1>2 DEF Answered, MirrorInv, Assigned
<1>5. Sent' = {nextId}
  BY <1>1 DEF Sent
<1> QED
  BY <1>1, <1>3, <1>4, <1>5, ServerMirror, ServerCreateInv DEF MirrorInv

LEMMA UpdateMirror ==
  ASSUME MirrorInv, ServerUpdate
  PROVE  MirrorInv'
<1>1. PICK v \in {val[Step.obj], server[Target]} :
        /\ server' = [server EXCEPT ![Target] = v]
        /\ reply' = [id |-> Target, val |-> v]
  BY DEF ServerUpdate
<1>2. /\ phase = "send" /\ phase' = "reply" /\ Step.op = "update" /\ Step' = Step
      /\ Target \in Ids /\ server[Target] \in Vals /\ Target' = Target /\ nextId' = nextId
      /\ UNCHANGED <<caller, staged, pos, batch, touched>>
  BY DEF ServerUpdate, Live, Step, Target, caller
<1>3. /\ server \in [Ids -> Vals \cup {Absent, Deleted}] /\ id' = id
  BY <1>2 DEF MirrorInv, IInv, TypeOK, caller
<1>4. Target < nextId
  BY <1>2, ValsAssumption DEF MirrorInv, Assigned
<1>5. Assigned'
  BY <1>1, <1>2, <1>3, <1>4 DEF MirrorInv, Assigned
<1>6. Answered'
  BY <1>1, <1>2, <1>3 DEF Answered
<1>7. Sent' = {Target}
  BY <1>1, <1>2 DEF Sent
<1> QED
  BY <1>1, <1>2, <1>5, <1>6, <1>7, ServerMirror, ServerUpdateInv DEF MirrorInv

LEMMA DeleteMirror ==
  ASSUME MirrorInv, ServerDelete
  PROVE  MirrorInv'
<1>1. /\ phase = "send" /\ phase' = "reply" /\ Step.op = "delete" /\ Step' = Step
      /\ Target \in Ids /\ server[Target] \in Vals /\ Target' = Target /\ nextId' = nextId
      /\ server' = [server EXCEPT ![Target] = Deleted] /\ reply' = NoReply
      /\ UNCHANGED <<caller, staged, pos, batch, touched>>
  BY DEF ServerDelete, Live, Step, Target, caller
<1>2. /\ server \in [Ids -> Vals \cup {Absent, Deleted}] /\ id' = id /\ nextId \in Nat \ {0}
      /\ NoReply.id = 0 /\ NoId = 0
  BY <1>1, UnitOfWorkAssumption DEF MirrorInv, IInv, TypeOK, caller, NoReply, NoId
<1>3. Target < nextId
  BY <1>1, ValsAssumption DEF MirrorInv, Assigned
<1>4. Assigned'
  BY <1>1, <1>2, <1>3 DEF MirrorInv, Assigned
<1>5. Answered'
  BY <1>1, <1>2 DEF Answered
<1>6. Sent' = {Target}
  BY <1>1 DEF Sent
<1> QED
  BY <1>1, <1>4, <1>5, <1>6, ServerMirror, ServerDeleteInv DEF MirrorInv

\* The answer is taken over by one object only, and it is the last one so far to have
\* written that record.
LEMMA AfterAnswer ==
  ASSUME MirrorInv, phase = "reply", Hydrate(Step.obj), NEW k \in 1..pos
  PROVE  /\ id'[batch[k].obj] \in Ids
         /\ (/\ id'[batch[k].obj] \notin touched
             /\ \A j \in (k + 1)..pos : id'[batch[j].obj] # id'[batch[k].obj])
              => server[id'[batch[k].obj]]
                   = IF batch[k].op = "delete" THEN Deleted ELSE val'[batch[k].obj]
<1>1. /\ Step \in Ops /\ Step.obj \in Objects /\ pos \in 1..Len(batch) /\ Step = batch[pos]
      /\ Len(batch) \in Nat
      /\ \A j \in 1..pos : batch[j] \in Ops /\ batch[j].obj \in Objects
  <2>1. pos \in 1..Len(batch) /\ batch \in Seq(Ops) /\ Len(batch) \in Nat
    BY StepType DEF MirrorInv, IInv, TypeOK
  <2>2. \A j \in 1..Len(batch) : batch[j] \in Ops
    BY <2>1, ElementOfSeq
  <2>3. \A j \in 1..pos : j \in 1..Len(batch)
    BY <2>1
  <2> QED
    BY <2>1, <2>2, <2>3 DEF Ops, Step
<1>2. /\ id \in [Objects -> Ids \cup {NoId}] /\ val \in [Objects -> Vals]
  BY DEF MirrorInv, IInv, TypeOK
<1>3. CASE Step.op = "delete"
  <2>1. id' = id /\ val' = val
    BY <1>3 DEF Hydrate, caller
  <2>2. CASE k = pos
    BY <1>1, <1>3, <2>1, <2>2 DEF MirrorInv, Answered, Target
  <2>3. CASE k # pos
    <3>1. k \in 1..(pos - 1) /\ pos \in (k + 1)..pos
      BY <1>1, <2>3
    <3>2. Mirrored(k) /\ Sent = {Target}
      BY <1>3, <3>1 DEF MirrorInv, Mirrors, Sent
    <3>3. \A j \in (k + 1)..(pos - 1) : j \in (k + 1)..pos
      BY <1>1
    <3> QED
      BY <1>1, <2>1, <3>1, <3>2, <3>3 DEF Mirrored, Target
  <2> QED
    BY <2>2, <2>3
<1>4. CASE Step.op # "delete"
  <2>1. /\ id' = [id EXCEPT ![Step.obj] = reply.id] /\ val' = [val EXCEPT ![Step.obj] = reply.val]
        /\ reply.id \in Ids
    BY <1>4 DEF Hydrate, MirrorInv, IInv, FlushInvariant
  <2>2. CASE batch[k].obj = Step.obj
    <3>1. id'[batch[k].obj] = reply.id /\ val'[batch[k].obj] = reply.val
      BY <1>1, <1>2, <2>1, <2>2
    <3>2. CASE k = pos
      BY <1>1, <1>4, <2>1, <3>1, <3>2 DEF MirrorInv, Answered
    <3>3. CASE k # pos
      <4>1. pos \in (k + 1)..pos
        BY <1>1, <3>3
      <4> QED
        BY <1>1, <2>1, <2>2, <3>1, <4>1
    <3> QED
      BY <3>2, <3>3
  <2>3. CASE batch[k].obj # Step.obj
    <3>1. k \in 1..(pos - 1) /\ pos \in (k + 1)..pos
      BY <1>1, <2>3
    <3>2. Mirrored(k) /\ Sent = {reply.id}
      BY <1>4, <3>1 DEF MirrorInv, Mirrors, Sent
    <3>3. id'[batch[k].obj] = id[batch[k].obj] /\ val'[batch[k].obj] = val[batch[k].obj]
      BY <1>1, <1>2, <2>1, <2>3
    <3>4. id'[Step.obj] = reply.id
      BY <1>1, <1>2, <2>1
\* An earlier operation on the object at pos finds the identity it has now.
    <3>5. ASSUME NEW j \in 1..(pos - 1) PROVE id'[batch[j].obj] = id[batch[j].obj]
      <4>1. j \in 1..pos
        BY <1>1
      <4>2. CASE batch[j].obj # Step.obj
        BY <1>1, <1>2, <2>1, <4>1, <4>2
      <4>3. CASE batch[j].obj = Step.obj /\ Step.op = "add"
        <5>1. batch = staged[owner] /\ owner \in Sessions
          BY DEF MirrorInv, IInv, TypeOK, FlushInvariant
        <5> QED
          BY <1>1, <4>3, <5>1 DEF MirrorInv, Ordered
      <4>4. CASE batch[j].obj = Step.obj /\ Step.op = "update"
        BY <3>4, <4>4 DEF MirrorInv, Answered, Target
      <4> QED
        BY <1>1, <1>4, <4>2, <4>3, <4>4 DEF Ops
    <3>6. \A j \in (k + 1)..(pos - 1) : j \in 1..(pos - 1) /\ j \in (k + 1)..pos
      BY <1>1
    <3> QED
      BY <1>1, <3>1, <3>2, <3>3, <3>4, <3>5, <3>6 DEF Mirrored
  <2> QED
    BY <2>2, <2>3
<1> QED
  BY <1>3, <1>4

\* Taking the answer over never takes an identity away.
LEMMA HydrateIds ==
  ASSUME MirrorInv, phase = "reply", Hydrate(Step.obj)
  PROVE  /\ \A o \in Objects : id[o] # NoId => id'[o] # NoId
         /\ \A o \in Objects : id'[o] < nextId
<1>1. Step \in Ops /\ Step.obj \in Objects
  BY StepType DEF MirrorInv
<1>2. id \in [Objects -> Ids \cup {NoId}]
  BY DEF MirrorInv, IInv, TypeOK
<1>3. CASE Step.op = "delete"
  BY <1>3 DEF Hydrate, caller, MirrorInv, Assigned
<1>4. CASE Step.op # "delete"
  <2>1. /\ id' = [id EXCEPT ![Step.obj] = reply.id] /\ reply.id \in Ids /\ reply.id < nextId
    BY <1>4 DEF Hydrate, MirrorInv, IInv, FlushInvariant, Assigned
  <2>2. reply.id # NoId
    BY <2>1 DEF Ids, NoId
  <2> QED
    BY <1>1, <1>2, <2>1, <2>2 DEF MirrorInv, Assigned
<1> QED
  BY <1>3, <1>4

LEMMA ReplyNextMirror ==
  ASSUME MirrorInv, ReplyNext
  PROVE  MirrorInv'
<1>1. /\ phase = "reply" /\ phase' = "send" /\ Hydrate(Step.obj) /\ pos' = pos + 1
      /\ reply' = NoReply /\ UNCHANGED <<server, nextId, staged, batch, touched>>
  BY DEF ReplyNext, remote, history
<1>2. Ordered' /\ Assigned'
  BY <1>1, HydrateIds, StillOrdered, StillAssigned
<1>3. pos \in Nat
  BY DEF MirrorInv, IInv, TypeOK
<1>4. ASSUME NEW k \in 1..pos PROVE Mirrored(k)'
  <2>1. pos' - 1 = pos /\ Sent' = {}
    BY <1>1, <1>3 DEF Sent
  <2>2. /\ id'[batch[k].obj] \in Ids
        /\ (/\ id'[batch[k].obj] \notin touched
            /\ \A j \in (k + 1)..pos : id'[batch[j].obj] # id'[batch[k].obj])
             => server[id'[batch[k].obj]]
                  = IF batch[k].op = "delete" THEN Deleted ELSE val'[batch[k].obj]
    BY <1>1, AfterAnswer
  <2> QED
    BY <1>1, <2>1, <2>2 DEF Mirrored
<1>5. Mirrors'
  BY <1>1, <1>3, <1>4 DEF Mirrors
<1> QED
  BY <1>1, <1>2, <1>5, ReplyNextInv DEF MirrorInv, Answered

\* commit() is left: returned, raised or interrupted.
LEMMA EndMirror ==
  ASSUME MirrorInv, IInv', UNCHANGED <<server, nextId>>, Leave,
         \A s \in Sessions : staged'[s] = staged[s] \/ staged'[s] = <<>>,
         \/ UNCHANGED caller
         \/ phase = "reply" /\ Hydrate(Step.obj)
  PROVE  MirrorInv'
<1>1. /\ \A o \in Objects : id[o] # NoId => id'[o] # NoId
      /\ \A o \in Objects : id'[o] < nextId
  BY HydrateIds DEF caller, MirrorInv, Assigned
<1>2. Ordered'
  BY <1>1, StillOrdered
<1>3. Assigned'
  BY <1>1, StillAssigned DEF Leave
<1> QED
  BY <1>2, <1>3, IdleMirror DEF Leave, MirrorInv

\* Whatever another client does to a record is marked while a commit() runs.
LEMMA OtherMirror ==
  ASSUME MirrorInv, NEW i \in Ids, OtherUpdate(i) \/ OtherDelete(i)
  PROVE  MirrorInv'
<1>1. PICK w \in Vals \cup {Deleted} : server' = [server EXCEPT ![i] = w]
  BY DEF OtherUpdate, OtherDelete
<1>2. /\ UNCHANGED <<id, val, staged, phase, pos, batch, reply, nextId>>
      /\ touched' = IF phase = "idle" THEN touched ELSE touched \cup {i}
      /\ server[i] \in Vals
  BY DEF OtherUpdate, OtherDelete, Live, caller, flush
<1>3. server \in [Ids -> Vals \cup {Absent, Deleted}]
  BY DEF MirrorInv, IInv, TypeOK
<1>4. \A j \in Ids : server'[j] # Absent => j < nextId
  <2>1. i < nextId
    BY <1>2, ValsAssumption DEF MirrorInv, Assigned
  <2> QED
    BY <1>1, <1>3, <2>1 DEF MirrorInv, Assigned
<1>5. Assigned'
  BY <1>2, <1>4 DEF MirrorInv, Assigned
<1>6. Ordered'
  BY <1>2, StillOrdered
<1>7. CASE phase = "idle"
  BY <1>2, <1>5, <1>6, <1>7, OtherInv, IdleMirror DEF MirrorInv
<1>8. CASE phase # "idle"
  <2>1. Step' = Step /\ Target' = Target /\ Sent' = Sent /\ touched' = touched \cup {i}
    BY <1>2, <1>8 DEF Step, Target, Sent
  <2>2. \A j \in Ids : j # i => server'[j] = server[j]
    BY <1>1, <1>3
  <2>3. Answered'
    <3>1. ASSUME phase = "reply", Step.op # "delete"
          PROVE  reply.id \in touched' \/ server'[reply.id] = reply.val
      <4>1. reply.id \in Ids
        BY <3>1 DEF MirrorInv, IInv, FlushInvariant
      <4> QED
        BY <2>1, <2>2, <3>1, <4>1 DEF MirrorInv, Answered
    <3>2. ASSUME phase = "reply", Step.op = "delete"
          PROVE  server'[Target] = Deleted
      BY <1>2, <2>2, <3>2, ValsAssumption DEF MirrorInv, Answered
    <3> QED
      BY <1>2, <2>1, <3>1, <3>2 DEF MirrorInv, Answered
  <2>4. ASSUME NEW k \in 1..(pos - 1) PROVE Mirrored(k)'
    <3>1. Mirrored(k)
      BY <1>8, <2>4 DEF MirrorInv, Mirrors
    <3> QED
      BY <1>2, <2>1, <2>2, <3>1 DEF Mirrored
  <2>5. Mirrors'
    BY <1>2, <2>4 DEF Mirrors
  <2> QED
    BY <1>5, <1>6, <2>3, <2>5, OtherInv DEF MirrorInv
<1> QED
  BY <1>7, <1>8

LEMMA NextMirror == MirrorInv /\ [Next]_vars => MirrorInv'
<1> SUFFICES ASSUME MirrorInv, [Next]_vars PROVE MirrorInv'
  OBVIOUS
<1>1. IInv'
  BY NextIInv DEF MirrorInv
<1>2. ASSUME NEW s \in Sessions, NEW o \in Objects, Add(s, o) \/ Update(s, o) \/ Delete(s, o)
      PROVE  MirrorInv'
  BY <1>2, CallMirror
<1>3. ASSUME NEW s \in Sessions,
             Rollback(s) \/ Exit(s) \/ CommitRefused(s) \/ CommitBegin(s)
      PROVE  MirrorInv'
  BY <1>3, CallMirror, BeginMirror
<1>4. ASSUME NEW o \in Objects, Refresh(o) \/ Edit(o) \/ \E i \in Ids : Get(o, i)
      PROVE  MirrorInv'
  BY <1>4, ReadMirror
<1>5. staged \in [Sessions -> Seq(Ops)]
  BY DEF MirrorInv, IInv, TypeOK
<1>6. Clear(owner) => \A s \in Sessions : staged'[s] = staged[s] \/ staged'[s] = <<>>
  BY <1>5 DEF Clear
<1>7. CASE CreateInvalid \/ RequestFails \/ ReplyLost
  BY <1>1, <1>6, <1>7, EndMirror DEF CreateInvalid, RequestFails, ReplyLost, Abort, remote
<1>8. CASE ReplyLast
  BY <1>1, <1>6, <1>8, EndMirror DEF ReplyLast, remote
<1>9. CASE Interrupt
  BY <1>1, <1>9, EndMirror DEF Interrupt, remote
<1>10. CASE UNCHANGED vars
  BY <1>1, <1>10 DEF vars, caller, flush, remote, history, MirrorInv, Ordered, Assigned,
                     Answered, Mirrors, Mirrored, Sent, Step, Target
<1> QED
  BY <1>2, <1>3, <1>4, <1>7, <1>8, <1>9, <1>10, CreateMirror, UpdateMirror, DeleteMirror,
     ReplyNextMirror, OtherMirror DEF Next, Flush

\* When commit() returns, every record it wrote last equals its object, or is gone when
\* its last operation was a delete, unless another client changed it in between:
\* whatever the sessions stage, however many objects share a record, and however the
\* answers interleave with other clients.
THEOREM CommitsAreMirrored == Spec => CommittedIsMirrored
<1>1. ASSUME MirrorInv, ReplyLast, NEW k \in DOMAIN batch,
             LastOnRecord(k), id'[batch[k].obj] \notin touched
      PROVE  server'[id'[batch[k].obj]]
               = IF batch[k].op = "delete" THEN Deleted ELSE val'[batch[k].obj]
  <2>1. /\ phase = "reply" /\ pos = Len(batch) /\ Hydrate(Step.obj) /\ server' = server
    BY <1>1 DEF ReplyLast, remote
  <2>2. batch \in Seq(Ops)
    BY <1>1 DEF MirrorInv, IInv, TypeOK
  <2>3. k \in 1..pos
    BY <2>1, <2>2, LenProperties
  <2>4. \A j \in (k + 1)..pos : id'[batch[j].obj] # id'[batch[k].obj]
    BY <1>1, <2>1 DEF LastOnRecord
  <2> QED
    BY <1>1, <2>1, <2>3, <2>4, AfterAnswer
<1>2. MirrorInv /\ [Next]_vars =>
        [ReplyLast =>
           \A k \in DOMAIN batch :
             LET o == batch[k].obj IN
             LastOnRecord(k) /\ id'[o] \notin touched =>
               server'[id'[o]] = IF batch[k].op = "delete" THEN Deleted ELSE val'[o]]_vars
  BY <1>1
<1> QED
  BY <1>2, InitMirror, NextMirror, PTL DEF Spec, CommittedIsMirrored

-----------------------------------------------------------------------------
(* commit() as one step                                                    *)

\* The two specifications name the same sets and sequences.
LEMMA SameWords ==
  /\ Outside!Entry = Ops
  /\ Outside!Nothing = NoReport
  /\ \A q : Outside!Named(q) = ObjectsOf(q)
BY DEF Outside!Entry, Ops, Outside!Nothing, NoReport, Outside!Named, ObjectsOf

LEMMA StageStep ==
  ASSUME IInv, NEW s \in Sessions, NEW o \in Objects,
         Add(s, o) \/ Update(s, o) \/ Delete(s, o)
  PROVE  Outside!SWNext
<1>1. ASSUME NEW op \in {"add", "update", "delete"}, ~ Has(staged[s], op, o),
             staged' = [staged EXCEPT ![s] = Append(@, Op(op, o))],
             report' = NoReport
      PROVE  Outside!SWNext
  <2>1. Op(op, o) \in Outside!Entry /\ ~ Contains(staged[s], Op(op, o))
    BY <1>1, SameWords DEF Has, Op, Ops
  <2>2. Outside!Stage(s, Op(op, o))
    BY <1>1, <2>1, SameWords
    DEF Outside!Stage, Outside!Began, Contains, Outside!Contains
  <2> QED
    BY <2>1, <2>2 DEF Outside!SWNext
<1>2. CASE Add(s, o)
  BY <1>1, <1>2 DEF Add, NewCall
<1>3. CASE Update(s, o)
  BY <1>1, <1>3 DEF Update, NewCall
<1>4. CASE Delete(s, o) /\ ~ Has(staged[s], "add", o)
  BY <1>1, <1>4 DEF Delete, NewCall
<1>5. CASE Delete(s, o) /\ Has(staged[s], "add", o)
  <2> DEFINE n == FirstAdd(staged[s], o)
  <2>1. n \in 1..Len(staged[s]) /\ staged[s][n] = Op("add", o)
    BY <1>5, QueueType, FirstAddIndex
  <2>2. n \in DOMAIN staged[s] /\ staged[s][n].op = "add"
    BY <2>1, QueueType, LenProperties DEF Op
  <2>3. Outside!Cancel(s, n)
    BY <1>5, <2>2, SameWords
    DEF Delete, NewCall, Outside!Cancel, Outside!Began, RemoveAt, Outside!RemoveAt
  <2> QED
    BY <2>2, <2>3 DEF Outside!SWNext
<1> QED
  BY <1>2, <1>3, <1>4, <1>5

LEMMA AbortIsFail ==
  ASSUME IInv, phase # "idle", Abort
  PROVE  Outside!SWNext
<1> DEFINE n == pos - 1
           m == Len(wire)
<1>1. /\ batch = staged[owner] /\ owner \in Sessions
      /\ n \in 0..(Len(staged[owner]) - 1) /\ n \in 0..Len(staged[owner])
      /\ n + 1 = pos
  BY StepType DEF IInv, TypeOK
<1>2. m \in {n, n + 1}
  BY <1>1, FlushSplit
<1>3. Outside!Fail(owner, n, m)
  BY <1>1, <1>2, FlushSplit, SameWords DEF Abort, Clear, Report, Outside!Fail
<1> QED
  BY <1>1, <1>2, <1>3 DEF Outside!SWNext

LEMMA InterruptIsStop ==
  ASSUME IInv, Interrupt
  PROVE  Outside!SWNext
<1> DEFINE n == pos - 1
           m == Len(wire)
<1>1. phase # "idle"
  BY DEF Interrupt
<1>2. /\ batch = staged[owner] /\ owner \in Sessions
      /\ n \in 0..(Len(staged[owner]) - 1) /\ n \in 0..Len(staged[owner])
      /\ n + 1 = pos
  BY <1>1, StepType DEF IInv, TypeOK
<1>3. m \in {n, n + 1}
  BY <1>1, <1>2, FlushSplit
<1>4. Outside!Stop(owner, n, m)
  BY <1>1, <1>2, <1>3, FlushSplit, SameWords DEF Interrupt, Report, Outside!Stop
<1> QED
  BY <1>2, <1>3, <1>4 DEF Outside!SWNext

LEMMA ReplyLastIsSucceed ==
  ASSUME IInv, ReplyLast
  PROVE  Outside!SWNext
<1>1. batch = staged[owner] /\ owner \in Sessions /\ batch # << >>
  <2>1. phase # "idle"
    BY DEF ReplyLast
  <2>2. batch = staged[owner] /\ pos \in 1..Len(batch) /\ Len(batch) \in Nat
    BY <2>1, StepType
  <2> QED
    BY <2>2 DEF IInv, TypeOK
<1>2. Outside!Succeed(owner)
  BY <1>1, ReplyLastSplit, SameWords DEF ReplyLast, Report, Clear, Outside!Succeed
<1> QED
  BY <1>1, <1>2 DEF Outside!SWNext

LEMMA NextImplements ==
  ASSUME IInv, [Next]_vars
  PROVE  [Outside!SWNext]_(Outside!swvars)
<1> USE DEF Outside!swvars
<1>1. ASSUME NEW s \in Sessions, NEW o \in Objects,
             Add(s, o) \/ Update(s, o) \/ Delete(s, o)
      PROVE  Outside!SWNext
  BY <1>1, StageStep
<1>2. ASSUME NEW s \in Sessions, Rollback(s) \/ Exit(s)
      PROVE  Outside!SWNext
  <2>1. Outside!Discard(s)
    BY <1>2, SameWords DEF Rollback, Exit, NewCall, Outside!Discard, Outside!Began
  <2> QED
    BY <2>1 DEF Outside!SWNext
<1>3. ASSUME NEW s \in Sessions, CommitRefused(s)
      PROVE  Outside!SWNext
  <2>1. staged[s] # << >>
    BY <1>3 DEF CommitRefused, PrecheckFails
  <2>2. Outside!Refuse(s)
    BY <1>3, <2>1 DEF CommitRefused, Outside!Refuse
  <2> QED
    BY <2>2 DEF Outside!SWNext
<1>4. ASSUME report' = NoReport, staged' = staged
      PROVE  Outside!SWNext
  BY <1>4, SameWords DEF Outside!SWNext, Outside!Begin, Outside!Began
<1>5. ASSUME NEW s \in Sessions, CommitBegin(s)
      PROVE  Outside!SWNext
  BY <1>4, <1>5 DEF CommitBegin
<1>6. ASSUME NEW o \in Objects, Refresh(o) \/ Edit(o) \/ \E i \in Ids : Get(o, i)
      PROVE  Outside!SWNext
  BY <1>4, <1>6 DEF Refresh, Edit, Get, NewCall
<1>7. CASE CreateInvalid \/ RequestFails \/ ReplyLost
  BY <1>7, AbortIsFail DEF CreateInvalid, RequestFails, ReplyLost
<1>8. CASE ReplyLast \/ Interrupt
  BY <1>8, ReplyLastIsSucceed, InterruptIsStop
<1>9. CASE ServerCreate \/ ServerUpdate \/ ServerDelete \/ ReplyNext
  BY <1>9 DEF ServerCreate, ServerUpdate, ServerDelete, ReplyNext
<1>10. ASSUME NEW i \in Ids, OtherUpdate(i) \/ OtherDelete(i)
       PROVE  UNCHANGED <<staged, report>>
  BY <1>10 DEF OtherUpdate, OtherDelete
<1>11. CASE UNCHANGED vars
  BY <1>11 DEF vars
<1> QED
  BY <1>1, <1>2, <1>3, <1>5, <1>6, <1>7, <1>8, <1>9, <1>10, <1>11 DEF Next, Flush

\* The many requests of a commit() implement the one step StagedWrites allows.
THEOREM Refinement == Spec => ImplementsStagedWrites
<1>1. Init => Outside!SWInit
  BY SameWords DEF Init, Outside!SWInit
<1>2. IInv /\ [Next]_vars => [Outside!SWNext]_(Outside!swvars)
  BY NextImplements
<1> QED
  BY <1>1, <1>2, SpecIInv, PTL DEF Spec, ImplementsStagedWrites, Outside!SWSpec

=============================================================================
