---------------------------- MODULE StagedWrites ----------------------------
(***************************************************************************)
(* What a Session promises about staged writes, without requests, answers  *)
(* or server records: every call is one step.  Staging never loses or      *)
(* repeats an operation; commit() carries out a prefix of the queue in the *)
(* order it was staged, empties the queue and reports the split, and only  *)
(* an interrupt leaves the queue as it was.                                *)
(* UnitOfWork, whose commit() takes many steps, implements it.             *)
(***************************************************************************)
EXTENDS Integers, Sequences, SequencesExt

CONSTANTS Sessions, Objects

VARIABLES
  queue,   \* queue[s]: the operations staged in s
  result   \* the report of the last commit() that ended

swvars == <<queue, result>>

Entry == [op : {"add", "update", "delete"}, obj : Objects]

Named(q) == [k \in DOMAIN q |-> q[k].obj]

Nothing == [kind |-> "none", batch |-> <<>>, applied |-> <<>>,
            committed |-> <<>>, pending |-> <<>>]

SWInit == /\ queue = [s \in Sessions |-> <<>>]
          /\ result = Nothing

\* The next call lets go of the last report.
Began == result' = Nothing

Stage(s, e) ==
  /\ ~ Contains(queue[s], e)
  /\ queue' = [queue EXCEPT ![s] = Append(@, e)]
  /\ Began

Cancel(s, k) ==
  /\ k \in DOMAIN queue[s]
  /\ queue[s][k].op = "add"
  /\ queue' = [queue EXCEPT ![s] = RemoveAt(@, k)]
  /\ Began

Discard(s) ==
  /\ queue' = [queue EXCEPT ![s] = <<>>]
  /\ Began

\* A read, an edit, or a commit() that starts its requests.
Begin == Began /\ UNCHANGED queue

Refuse(s) ==
  /\ queue[s] # <<>>
  /\ result' = [kind |-> "ValidationError", batch |-> queue[s], applied |-> <<>>,
                committed |-> <<>>, pending |-> <<>>]
  /\ UNCHANGED queue

Succeed(s) ==
  /\ queue[s] # <<>>
  /\ result' = [kind |-> "ok", batch |-> queue[s], applied |-> queue[s],
                committed |-> Named(queue[s]), pending |-> <<>>]
  /\ queue' = [queue EXCEPT ![s] = <<>>]

\* The first n operations are known to be done, m of them or one more are.
Fail(s, n, m) ==
  /\ n \in 0..(Len(queue[s]) - 1)
  /\ m \in {n, n + 1}
  /\ result' = [kind |-> "CommitError", batch |-> queue[s],
                applied |-> SubSeq(queue[s], 1, m),
                committed |-> Named(SubSeq(queue[s], 1, n)),
                pending |-> Named(SubSeq(queue[s], n + 1, Len(queue[s])))]
  /\ queue' = [queue EXCEPT ![s] = <<>>]

Stop(s, n, m) ==
  /\ n \in 0..(Len(queue[s]) - 1)
  /\ m \in {n, n + 1}
  /\ result' = [kind |-> "interrupted", batch |-> queue[s],
                applied |-> SubSeq(queue[s], 1, m),
                committed |-> Named(SubSeq(queue[s], 1, n)), pending |-> <<>>]
  /\ UNCHANGED queue

SWNext ==
  \/ Begin
  \/ \E s \in Sessions :
       \/ Discard(s) \/ Refuse(s) \/ Succeed(s)
       \/ \E e \in Entry : Stage(s, e)
       \/ \E k \in DOMAIN queue[s] : Cancel(s, k)
       \/ \E n \in 0..Len(queue[s]) : \E m \in {n, n + 1} : Fail(s, n, m) \/ Stop(s, n, m)

SWSpec == SWInit /\ [][SWNext]_swvars
=============================================================================
