----------------------------- MODULE UnitOfWork -----------------------------
(***************************************************************************)
(* The unit of work of ragnerock/session.py: the staging queue (_Pending)  *)
(* of each Session, the commit() that flushes it one HTTP request at a     *)
(* time, and the two copies of every resource, the Python object and the   *)
(* server record.                                                          *)
(*                                                                         *)
(* The SDK is synchronous and one Python thread runs it, so at most one    *)
(* commit is in progress; sessions interleave between calls, never inside  *)
(* one.  Other clients of the same project write to the server at any      *)
(* time, and the environment may fail a request, lose its answer, or       *)
(* interrupt the thread (KeyboardInterrupt).                               *)
(***************************************************************************)
EXTENDS Integers, Sequences, FiniteSets, SequencesExt

CONSTANTS
  Sessions,  \* Session objects of this process
  Objects,   \* Python resource objects the caller holds
  KindOf,    \* KindOf[o]: the resource class of object o
  Vals,      \* values of the fields a caller may edit
  MaxId,     \* bound: how many records the server can ever hold
  MaxStaged, \* bound: how many operations a session may stage
  Env        \* what the environment may do (see EnvEvents)

Kinds == {"Document", "DocumentGroup", "Chunk", "Page", "Annotation",
          "Operator", "Workflow", "WorkflowNode", "Job"}

\* fail:      the server rejects a request, or it never arrives
\* lose:      the server applies a request and its answer is lost
\* interrupt: a BaseException that is no Exception leaves commit()
\* others:    other clients update and delete records
EnvEvents == {"fail", "lose", "interrupt", "others"}

ASSUME UnitOfWorkAssumption ==
  /\ KindOf \in [Objects -> Kinds]
  /\ MaxId \in Nat
  /\ MaxStaged \in Nat
  /\ Env \subseteq EnvEvents

NoId    == 0
Ids     == 1..MaxId
Absent  == "absent"     \* an id the server has not assigned yet
Deleted == "deleted"

ASSUME ValsAssumption ==
  Vals # {} /\ Absent \notin Vals /\ Deleted \notin Vals

\* The classes each staging call accepts; the others raise and change nothing.
Addable     == Kinds \ {"Page", "Job"}
Updatable   == Kinds \ {"Page", "Job", "Chunk"}
Refreshable == Kinds \ {"WorkflowNode"}
\* The classes whose required fields commit() checks before its first request;
\* the other classes' fields are checked when their turn comes.
Prechecked  == {"Document", "Annotation", "WorkflowNode"}

Op(op, o) == [op |-> op, obj |-> o]
Ops == [op : {"add", "update", "delete"}, obj : Objects]

VARIABLES
  \* @ the caller's objects
  id,        \* id[o]: server-assigned identity, NoId while unpersisted
  val,       \* val[o]: the editable fields of the object
  ready,     \* ready[o]: the fields a create requires are set
  staged,    \* staged[s]: Session._pending.ops
  \* @ the commit in progress
  phase,     \* "idle", "send" (next request), "reply" (server done, answer due)
  owner,     \* the session that runs it
  batch,     \* all_ops, the copy commit() iterates over
  pos,       \* its loop index
  committed, \* its list of written resources
  reply,     \* the answer on its way: identity and field values
  report,    \* how commit() ended, until the caller's next call
  \* @ the server
  server,    \* server[i]: the record's fields, Absent or Deleted
  nextId,    \* the identity the next create gets
  \* @ history, read by properties only
  wire,      \* operations of this batch the server carried out, in order
  touched,   \* records other clients changed since this commit began
  created    \* records this process created

caller  == <<id, val, ready>>
flush   == <<phase, owner, batch, pos, committed, reply>>
remote  == <<server, nextId, created>>
history == <<wire, touched>>
vars    == <<caller, staged, flush, report, remote, history>>

Live(i) == i \in Ids /\ server[i] \in Vals

\* _Pending.has: is this operation on this very object staged?
Has(q, op, o) == Contains(q, Op(op, o))

\* The first staged add of o; used only where one is staged.
FirstAdd(q, o) ==
  CHOOSE k \in DOMAIN q :
    /\ q[k] = Op("add", o)
    /\ \A j \in 1..(k - 1) : q[j] # Op("add", o)

ObjectsOf(q) == [k \in DOMAIN q |-> q[k].obj]

NoReply == [id |-> NoId, val |-> Absent]   \* no answer due, or one without a body

NoReport == [kind |-> "none", batch |-> <<>>, applied |-> <<>>,
             committed |-> <<>>, pending |-> <<>>]

\* A process starts with objects that are new or were read from the server.
Init ==
  /\ \E n \in 0..MaxId :
       /\ nextId = n + 1
       /\ \E v \in Vals : server = [i \in Ids |-> IF i <= n THEN v ELSE Absent]
       /\ id \in [Objects -> 0..n]
  /\ val = [o \in Objects |-> IF id[o] = NoId THEN CHOOSE v \in Vals : TRUE
                                              ELSE server[id[o]]]
  /\ ready \in [Objects -> BOOLEAN]
  /\ \A o \in Objects : ready[o] => id[o] = NoId
  /\ staged = [s \in Sessions |-> <<>>]
  /\ phase = "idle"
  /\ owner \in Sessions
  /\ batch = <<>>
  /\ pos = 1
  /\ committed = <<>>
  /\ reply = NoReply
  /\ report = NoReport
  /\ wire = <<>>
  /\ touched = {}
  /\ created = {}

-----------------------------------------------------------------------------
(* Staging calls                                                           *)

\* The caller is between calls; it lets go of what the last commit() raised.
NewCall == phase = "idle" /\ report' = NoReport

Room(s) == Len(staged[s]) < MaxStaged   \* bound

Add(s, o) ==
  /\ KindOf[o] \in Addable
  /\ id[o] = NoId
  /\ ~ Has(staged[s], "add", o)
  /\ Room(s)
  /\ staged' = [staged EXCEPT ![s] = Append(@, Op("add", o))]
  /\ NewCall
  /\ UNCHANGED <<caller, flush, remote, history>>

Update(s, o) ==
  /\ KindOf[o] \in Updatable
  /\ id[o] # NoId
  /\ ~ Has(staged[s], "update", o)
  /\ Room(s)
  /\ staged' = [staged EXCEPT ![s] = Append(@, Op("update", o))]
  /\ NewCall
  /\ UNCHANGED <<caller, flush, remote, history>>

\* A staged add is cancelled (remove_add); otherwise a delete is staged.
Delete(s, o) ==
  /\ KindOf[o] \in Addable
  /\ \/ /\ Has(staged[s], "add", o)
        /\ staged' = [staged EXCEPT ![s] = RemoveAt(@, FirstAdd(@, o))]
     \/ /\ ~ Has(staged[s], "add", o)
        /\ id[o] # NoId
        /\ ~ Has(staged[s], "delete", o)
        /\ Room(s)
        /\ staged' = [staged EXCEPT ![s] = Append(@, Op("delete", o))]
  /\ NewCall
  /\ UNCHANGED <<caller, flush, remote, history>>

Rollback(s) ==
  /\ staged[s] # <<>>
  /\ staged' = [staged EXCEPT ![s] = <<>>]
  /\ NewCall
  /\ UNCHANGED <<caller, flush, remote, history>>

\* Leaving the with block discards what is staged; nothing is committed.
Exit(s) ==
  /\ staged[s] # <<>>
  /\ staged' = [staged EXCEPT ![s] = <<>>]
  /\ NewCall
  /\ UNCHANGED <<caller, flush, remote, history>>

-----------------------------------------------------------------------------
(* Reads and edits                                                         *)

\* A read binds a fresh object; two objects may carry the same identity.
Get(o, i) ==
  /\ id[o] = NoId
  /\ \A s \in Sessions : ~ Has(staged[s], "add", o)
  /\ Live(i)
  /\ id' = [id EXCEPT ![o] = i]
  /\ val' = [val EXCEPT ![o] = server[i]]
  /\ NewCall
  /\ UNCHANGED <<ready, staged, flush, remote, history>>

Refresh(o) ==
  /\ KindOf[o] \in Refreshable
  /\ id[o] # NoId
  /\ Live(id[o])
  /\ val' = [val EXCEPT ![o] = server[id[o]]]
  /\ NewCall
  /\ UNCHANGED <<id, ready, staged, flush, remote, history>>

\* The caller assigns a field; allowed before and after staging.
Edit(o) ==
  /\ \/ /\ \E v \in Vals : val' = [val EXCEPT ![o] = v]
        /\ UNCHANGED ready
     \/ /\ id[o] = NoId
        /\ ready' = [ready EXCEPT ![o] = TRUE]
        /\ UNCHANGED val
  /\ NewCall
  /\ UNCHANGED <<id, staged, flush, remote, history>>

-----------------------------------------------------------------------------
(* commit()                                                                *)

PrecheckFails(q) ==
  \E k \in DOMAIN q : /\ q[k].op = "add"
                      /\ KindOf[q[k].obj] \in Prechecked
                      /\ ~ ready[q[k].obj]

Adds(q) == {k \in DOMAIN q : q[k].op = "add"}

\* A precheck raised ValidationError: no request was made, the queue stays.
CommitRefused(s) ==
  /\ phase = "idle"
  /\ PrecheckFails(staged[s])
  /\ report' = [kind |-> "ValidationError", batch |-> staged[s], applied |-> <<>>,
                committed |-> <<>>, pending |-> <<>>]
  /\ UNCHANGED <<caller, staged, flush, remote, history>>

CommitBegin(s) ==
  /\ phase = "idle"
  /\ staged[s] # <<>>
  /\ ~ PrecheckFails(staged[s])
  /\ nextId + Cardinality(Adds(staged[s])) <= MaxId + 1   \* bound
  /\ phase' = "send"
  /\ owner' = s
  /\ batch' = staged[s]
  /\ pos' = 1
  /\ committed' = <<>>
  /\ report' = NoReport
  /\ wire' = <<>>
  /\ touched' = {}
  /\ UNCHANGED <<caller, staged, reply, remote>>

\* commit() is left: its locals are gone.
Leave == /\ phase' = "idle"
         /\ batch' = <<>>
         /\ pos' = 1
         /\ committed' = <<>>
         /\ wire' = <<>>
         /\ touched' = {}
         /\ reply' = NoReply
         /\ UNCHANGED owner

\* Slips (each named Slip...) are wrong variants of the definition that follows
\* them, for checking that the properties notice them.  No specification uses one.
SlipClear(s) == UNCHANGED staged   \* the queue survives its commit()

Clear(s) == staged' = [staged EXCEPT ![s] = <<>>]

Report(kind, done, left) ==
  report' = [kind |-> kind, batch |-> batch, applied |-> wire,
             committed |-> done, pending |-> left]

\* The operation that failed is left out of pending.
SlipAbort == /\ Leave
             /\ Clear(owner)
             /\ Report("CommitError", committed,
                       ObjectsOf(SubSeq(batch, pos + 1, Len(batch))))

SlipAbortKeeps == /\ Leave   \* the queue survives a CommitError
                  /\ UNCHANGED staged
                  /\ Report("CommitError", committed,
                            ObjectsOf(SubSeq(batch, pos, Len(batch))))

\* except Exception: the rest of the batch is reported and forgotten.
Abort == /\ Leave
         /\ Clear(owner)
         /\ Report("CommitError", committed,
                   ObjectsOf(SubSeq(batch, pos, Len(batch))))

Step == batch[pos]
Target == id[Step.obj]

\* _create_resource raises before its request: a required field is missing.
CreateInvalid ==
  /\ phase = "send"
  /\ Step.op = "add"
  /\ ~ ready[Step.obj]
  /\ Abort
  /\ UNCHANGED <<caller, remote>>

SlipRequestRepeats ==     \* a request that failed is sent again until it works
  /\ phase = "send"
  /\ \/ "fail" \in Env
     \/ Step.op # "add" /\ ~ Live(Target)
  /\ UNCHANGED vars

\* The request is answered by an error, or never arrives.  A record that is
\* gone is always an error (404).
RequestFails ==
  /\ phase = "send"
  /\ \/ "fail" \in Env
     \/ Step.op # "add" /\ ~ Live(Target)
  /\ Abort
  /\ UNCHANGED <<caller, remote>>

\* The server creates a record; commit() does not look at the object's id.
ServerCreate ==
  /\ phase = "send"
  /\ Step.op = "add"
  /\ ready[Step.obj]
  /\ nextId \in Ids
  /\ server' = [server EXCEPT ![nextId] = val[Step.obj]]
  /\ created' = created \cup {nextId}
  /\ nextId' = nextId + 1
  /\ reply' = [id |-> nextId, val |-> val[Step.obj]]
  /\ phase' = "reply"
  /\ wire' = Append(wire, Step)
  /\ UNCHANGED <<caller, staged, owner, batch, pos, committed, report, touched>>

\* The object is sent verbatim; the server drops fields it does not let change.
ServerUpdate ==
  /\ phase = "send"
  /\ Step.op = "update"
  /\ Live(Target)
  /\ \E v \in {val[Step.obj], server[Target]} :
       /\ server' = [server EXCEPT ![Target] = v]
       /\ reply' = [id |-> Target, val |-> v]
  /\ phase' = "reply"
  /\ wire' = Append(wire, Step)
  /\ UNCHANGED <<caller, staged, owner, batch, pos, committed, report,
                 nextId, created, touched>>

ServerDelete ==
  /\ phase = "send"
  /\ Step.op = "delete"
  /\ Live(Target)
  /\ server' = [server EXCEPT ![Target] = Deleted]
  /\ reply' = NoReply
  /\ phase' = "reply"
  /\ wire' = Append(wire, Step)
  /\ UNCHANGED <<caller, staged, owner, batch, pos, committed, report,
                 nextId, created, touched>>

SlipHydrateAlways(o) ==   \* an answer without a body is copied too
  /\ id' = [id EXCEPT ![o] = reply.id]
  /\ val' = [val EXCEPT ![o] = reply.val]
  /\ UNCHANGED ready

SlipHydrateId(o) ==       \* only the identity is taken from the answer
  IF Step.op = "delete" THEN UNCHANGED caller
  ELSE /\ id' = [id EXCEPT ![o] = reply.id]
       /\ UNCHANGED <<val, ready>>

SlipHydrateFields(o) ==   \* everything but the identity is
  IF Step.op = "delete" THEN UNCHANGED caller
  ELSE /\ val' = [val EXCEPT ![o] = reply.val]
       /\ UNCHANGED <<id, ready>>

\* _copy_fields overlays the answer on the object; a delete leaves it alone.
Hydrate(o) ==
  IF Step.op = "delete" THEN UNCHANGED caller
  ELSE /\ id' = [id EXCEPT ![o] = reply.id]
       /\ val' = [val EXCEPT ![o] = reply.val]
       /\ UNCHANGED ready

\* The answer arrives and more operations follow.
ReplyNext ==
  /\ phase = "reply"
  /\ pos < Len(batch)
  /\ Hydrate(Step.obj)
  /\ committed' = Append(committed, Step.obj)
  /\ pos' = pos + 1
  /\ phase' = "send"
  /\ reply' = NoReply
  /\ UNCHANGED <<staged, owner, batch, report, remote, history>>

\* The last answer arrives: the queue is cleared and commit() returns.
ReplyLast ==
  /\ phase = "reply"
  /\ pos = Len(batch)
  /\ Hydrate(Step.obj)
  /\ Report("ok", Append(committed, Step.obj), <<>>)
  /\ Clear(owner)
  /\ Leave
  /\ UNCHANGED remote

\* The server did the work and the answer never comes (httpx times out).
ReplyLost ==
  /\ phase = "reply"
  /\ "lose" \in Env
  /\ Abort
  /\ UNCHANGED <<caller, remote>>

\* KeyboardInterrupt leaves commit() past its except clause: the queue keeps
\* every operation, the ones already carried out too.  It may strike before
\* or after the object took its identity from the answer.
Interrupt ==
  /\ "interrupt" \in Env
  /\ \/ phase \in {"send", "reply"} /\ UNCHANGED caller
     \/ phase = "reply" /\ Hydrate(Step.obj)
  /\ Report("interrupted", committed, <<>>)
  /\ Leave
  /\ UNCHANGED <<staged, remote>>

-----------------------------------------------------------------------------
(* Other clients of the project                                            *)

OtherUpdate(i) ==
  /\ "others" \in Env
  /\ Live(i)
  /\ \E v \in Vals : v # server[i] /\ server' = [server EXCEPT ![i] = v]
  /\ touched' = IF phase = "idle" THEN touched ELSE touched \cup {i}
  /\ UNCHANGED <<caller, staged, flush, report, nextId, created, wire>>

OtherDelete(i) ==
  /\ "others" \in Env
  /\ Live(i)
  /\ server' = [server EXCEPT ![i] = Deleted]
  /\ touched' = IF phase = "idle" THEN touched ELSE touched \cup {i}
  /\ UNCHANGED <<caller, staged, flush, report, nextId, created, wire>>

-----------------------------------------------------------------------------

Flush == \/ CreateInvalid \/ RequestFails
         \/ ServerCreate \/ ServerUpdate \/ ServerDelete
         \/ ReplyNext \/ ReplyLast \/ ReplyLost

Next ==
  \/ \E s \in Sessions, o \in Objects : Add(s, o) \/ Update(s, o) \/ Delete(s, o)
  \/ \E s \in Sessions : Rollback(s) \/ Exit(s) \/ CommitRefused(s) \/ CommitBegin(s)
  \/ \E o \in Objects : Refresh(o) \/ Edit(o) \/ \E i \in Ids : Get(o, i)
  \/ Flush
  \/ Interrupt
  \/ \E i \in Ids : OtherUpdate(i) \/ OtherDelete(i)

Spec == Init /\ [][Next]_vars

\* Every request ends, by an answer, an error or the HTTP client's timeout,
\* and the thread that called commit() keeps running.
FairSpec == Spec /\ WF_vars(Flush)

-----------------------------------------------------------------------------
(* Properties                                                              *)

Reports == [kind : {"none", "ok", "CommitError", "ValidationError", "interrupted"},
            batch : Seq(Ops), applied : Seq(Ops),
            committed : Seq(Objects), pending : Seq(Objects)]

\* Every variable has its type, the objects' identities and fields too: an answer
\* without a body never overwrites them.
TypeOK ==
  /\ id \in [Objects -> Ids \cup {NoId}]
  /\ val \in [Objects -> Vals]
  /\ ready \in [Objects -> BOOLEAN]
  /\ staged \in [Sessions -> Seq(Ops)]
  /\ phase \in {"idle", "send", "reply"}
  /\ owner \in Sessions
  /\ batch \in Seq(Ops)
  /\ pos \in Nat \ {0}
  /\ committed \in Seq(Objects)
  /\ reply \in [id : Ids \cup {NoId}, val : Vals \cup {Absent}]
  /\ report \in Reports
  /\ server \in [Ids -> Vals \cup {Absent, Deleted}]
  /\ nextId \in 1..(MaxId + 1)
  /\ wire \in Seq(Ops)
  /\ touched \subseteq Ids
  /\ created \subseteq Ids

NoRepeat(q) == \A j, k \in DOMAIN q : q[j] = q[k] => j = k

\* No operation is staged twice on the same object in one session: add, update
\* and delete are idempotent.  Deleting a new object removes one staged add
\* only, so a second one would be created behind the caller's back.
StagedOnce == \A s \in Sessions : NoRepeat(staged[s])

\* The loop invariant of commit(): the queue it flushes is still staged, what it
\* counts as committed is the part of the batch before pos, and what the server
\* carried out is that part, with the operation at pos once its answer is due.
FlushInvariant ==
  IF phase = "idle"
  THEN batch = <<>> /\ committed = <<>> /\ wire = <<>>
  ELSE /\ batch = staged[owner]
       /\ pos \in 1..Len(batch)
       /\ Len(committed) = pos - 1
       /\ \A k \in 1..(pos - 1) : committed[k] = batch[k].obj
       /\ Len(wire) = IF phase = "send" THEN pos - 1 ELSE pos
       /\ \A k \in 1..Len(wire) : wire[k] = batch[k]
       /\ phase = "reply" /\ Step.op # "delete" =>
            reply.id \in Ids /\ reply.val \in Vals

\* CommitError tells the caller exactly where the batch stopped: committed then
\* pending is the staged batch in order, every committed operation reached the
\* server in that order, and beyond them at most the first pending one did.
ReportExact ==
  /\ report.kind = "CommitError" =>
       /\ report.committed \o report.pending = ObjectsOf(report.batch)
       /\ report.pending # <<>>
       /\ IsPrefix(report.applied, report.batch)
       /\ Len(report.applied) - Len(report.committed) \in {0, 1}
  /\ report.kind = "ok" =>
       /\ report.applied = report.batch
       /\ report.committed = ObjectsOf(report.batch)

\* Deleting an object whose creation is only staged leaves no creation behind.
DeleteCancelsCreate ==
  [][\A s \in Sessions, o \in Objects :
       Delete(s, o) /\ id[o] = NoId => ~ Has(staged'[s], "add", o)]_vars

\* Deleting an object that is on the server stages a server-side delete: it is
\* never taken for the cancellation of a creation that was already done.
DeleteIsNotLost ==
  [][\A s \in Sessions, o \in Objects :
       Delete(s, o) /\ id[o] # NoId => Has(staged'[s], "delete", o)]_vars

\* add() refuses an object that has an identity, so commit() never creates a
\* record for one: what was checked at staging time still holds at its turn.
CreateOnlyUnpersisted ==
  [][ServerCreate => id[Step.obj] = NoId]_vars

\* Every record this process created and nobody deleted is held by an object,
\* unless its answer is still on the way.
NoOrphans ==
  \A i \in created : Live(i) =>
    \/ \E o \in Objects : id[o] = i
    \/ phase = "reply" /\ reply.id = i

\* The operation at place k of the batch is its last one on that record.
LastOnRecord(k) ==
  \A j \in (k + 1)..Len(batch) : id'[batch[j].obj] # id'[batch[k].obj]

\* When commit() returns, the last object written for each record equals it and
\* a record whose last operation is a delete is gone, unless another client
\* changed it meanwhile.
CommittedIsMirrored ==
  [][ReplyLast =>
       \A k \in DOMAIN batch :
         LET o == batch[k].obj IN
         LastOnRecord(k) /\ id'[o] \notin touched =>
           server'[id'[o]] = IF batch[k].op = "delete" THEN Deleted ELSE val'[o]]_vars

\* commit() returns or raises.
CommitReturns == phase # "idle" ~> phase = "idle"

\* Seen from outside, commit() is one step: it applies a prefix of the queue in
\* staging order, however its requests interleave with other clients and
\* whichever of them fails.
Outside == INSTANCE StagedWrites WITH queue <- staged, result <- report

ImplementsStagedWrites == Outside!SWSpec
=============================================================================
