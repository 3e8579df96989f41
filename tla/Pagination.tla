----------------------------- MODULE Pagination -----------------------------
(***************************************************************************)
(* ragnerock/iterator.py: the lazy iterator behind every session.list().   *)
(* It walks a server-side list by offset (skip, limit) and keeps one page  *)
(* buffered, while other clients of the project insert and delete records. *)
(***************************************************************************)
EXTENDS Integers, Sequences, FiniteSets, SequencesExt

CONSTANTS
  PageSize, \* items asked for per request
  Cap,      \* the most items the server puts on a page
  Limits,   \* caps the caller may pass to limit(); NoLimit when it is not called
  MaxItems, \* bound: records that ever exist
  Env       \* what may happen: see EnvEvents

NoLimit == -1
Unknown == -1   \* _total before the first page

\* append, insert: other clients add a record at the end, or before another
\* delete:         other clients delete a record
\* fail:           a page request raises
EnvEvents == {"append", "insert", "delete", "fail"}

ASSUME PaginationAssumption ==
  /\ PageSize \in Nat \ {0}
  /\ Cap \in Nat \ {0}
  /\ Limits \subseteq Nat \cup {NoLimit}
  /\ MaxItems \in Nat
  /\ Env \subseteq EnvEvents

VARIABLES
  list,      \* the server's list, in server order
  born,      \* records that ever existed
  changes,   \* history: how other clients changed the list since
  cap,       \* _limit
  buffer,    \* _buffer
  skip,      \* _skip
  total,     \* _total
  exhausted, \* _exhausted
  yielded,   \* what __next__ returned so far; its length is _yielded
  call,      \* "next": the caller pulls items one by one; "all": inside all()
  from,      \* items yielded before all() was called
  stopped,   \* StopIteration was raised
  initial    \* history: the list when the iterator was made

server == <<list, born, changes>>
iter   == <<buffer, skip, total, exhausted, yielded>>
vars   == <<server, cap, iter, call, from, stopped, initial>>

Init ==
  /\ born \in 0..MaxItems
  /\ list = [i \in 1..born |-> i]
  /\ changes = {}
  /\ cap \in Limits
  /\ buffer = <<>>
  /\ skip = 0
  /\ total = Unknown
  /\ exhausted = FALSE
  /\ yielded = <<>>
  /\ call = "next"
  /\ from = 0
  /\ stopped = FALSE
  /\ initial = list

-----------------------------------------------------------------------------
(* The server *)

Smaller(a, b) == IF a <= b THEN a ELSE b

\* A page: at most size items after the first s of the list.
PageOf(q, s, size) == SubSeq(q, s + 1, Smaller(s + Smaller(size, Cap), Len(q)))

OtherInsert ==
  /\ born < MaxItems
  /\ \E k \in 0..Len(list), how \in {"append", "insert"} \cap Env :
       /\ how = "append" <=> k = Len(list)
       /\ list' = InsertAt(list, k + 1, born + 1)
       /\ changes' = changes \cup {how}
  /\ born' = born + 1
  /\ UNCHANGED <<cap, iter, call, from, stopped, initial>>

OtherDelete ==
  /\ "delete" \in Env
  /\ \E k \in DOMAIN list : list' = RemoveAt(list, k)
  /\ changes' = changes \cup {"delete"}
  /\ UNCHANGED <<born, cap, iter, call, from, stopped, initial>>

-----------------------------------------------------------------------------
(* __next__ *)

LimitReached == cap # NoLimit /\ Len(yielded) >= cap

\* Slips are wrong variants of the definition that follows them, for checking
\* that the properties notice them.  No specification uses one.
SlipShortPageEnds ==   \* a page shorter than asked for is taken for the last
  exhausted \/ (total # Unknown /\ (skip >= total \/ skip % PageSize # 0))

\* The list is known to have ended, without a request.
Ended == exhausted \/ (total # Unknown /\ skip >= total)

Size == IF cap = NoLimit THEN PageSize ELSE Smaller(PageSize, cap - Len(yielded))

SlipSkipBySize(page) == skip + Size             \* by what was asked for
SlipSkipByYielded(page) == Len(yielded) + 1     \* the buffered items are forgotten
SlipSkipBack(page) == IF page # <<>> THEN skip + Len(page) ELSE skip - Size

\* skip advances by the items the page had, or by what was asked for in vain.
SkipAfter(page) == IF page # <<>> THEN skip + Len(page) ELSE skip + Size

SlipFirstTotal == IF total = Unknown THEN Len(list) ELSE total

\* Every page tells the length of the list at its time.
TotalSeen == Len(list)

Deliver ==
  /\ ~ LimitReached
  /\ buffer # <<>>
  /\ yielded' = Append(yielded, Head(buffer))
  /\ buffer' = Tail(buffer)
  /\ UNCHANGED <<server, cap, skip, total, exhausted, call, from, stopped, initial>>

\* A page with items: the first is returned at once, the others are buffered.
FetchItems ==
  /\ ~ LimitReached /\ buffer = <<>> /\ ~ Ended
  /\ LET page == PageOf(list, skip, Size) IN
       /\ page # <<>>
       /\ yielded' = Append(yielded, Head(page))
       /\ buffer' = Tail(page)
       /\ skip' = SkipAfter(page)
  /\ total' = TotalSeen
  /\ UNCHANGED <<server, cap, exhausted, call, from, stopped, initial>>

\* An empty page ends the iteration, whatever total says.
FetchNothing ==
  /\ ~ LimitReached /\ buffer = <<>> /\ ~ Ended
  /\ PageOf(list, skip, Size) = <<>>
  /\ skip' = SkipAfter(<<>>)
  /\ total' = TotalSeen
  /\ exhausted' = TRUE
  /\ stopped' = TRUE
  /\ call' = "next"
  /\ UNCHANGED <<server, cap, buffer, yielded, from, initial>>

\* fetch_page raised: the iterator is as it was, and all() is left.
FetchFails ==
  /\ "fail" \in Env
  /\ ~ LimitReached /\ buffer = <<>> /\ ~ Ended
  /\ call' = "next"
  /\ UNCHANGED <<server, cap, iter, from, stopped, initial>>

SlipStopSwallowed ==   \* all() goes on after StopIteration
  /\ LimitReached \/ (buffer = <<>> /\ Ended)
  /\ stopped' = TRUE
  /\ UNCHANGED <<server, cap, iter, call, from, initial>>

Stop ==
  /\ LimitReached \/ (buffer = <<>> /\ Ended)
  /\ stopped' = TRUE
  /\ call' = "next"
  /\ UNCHANGED <<server, cap, iter, from, initial>>

NextItem == Deliver \/ FetchItems \/ FetchNothing \/ FetchFails \/ Stop

\* all() drains the iterator from where it stands: __iter__ returns self.
All ==
  /\ call = "next"
  /\ call' = "all"
  /\ from' = Len(yielded)
  /\ UNCHANGED <<server, cap, iter, stopped, initial>>

-----------------------------------------------------------------------------

Next == NextItem \/ All \/ OtherInsert \/ OtherDelete

Spec == Init /\ [][Next]_vars

\* all() keeps calling __next__ until it is left, and every request ends.
FairSpec == Spec /\ WF_vars(call = "all" /\ NextItem)

-----------------------------------------------------------------------------
(* Properties *)

Records == 1..MaxItems

TypeOK ==
  /\ list \in Seq(Records)
  /\ born \in 0..MaxItems
  /\ changes \subseteq EnvEvents
  /\ cap \in Limits
  /\ buffer \in Seq(Records)
  /\ skip \in Nat
  /\ total \in Nat \cup {Unknown}
  /\ exhausted \in BOOLEAN
  /\ yielded \in Seq(Records)
  /\ call \in {"next", "all"}
  /\ from \in Nat
  /\ stopped \in BOOLEAN
  /\ initial \in Seq(Records)

\* limit(n) yields at most n items and never asks for more than it still needs.
WithinLimit == cap # NoLimit => Len(yielded) + Len(buffer) <= cap

\* A list nobody changes is yielded from its start, in server order and without
\* gaps, across pages, caps and requests that failed and were asked again; and
\* so is one to whose end others add.
YieldsInOrder == changes \subseteq {"append"} => IsPrefix(yielded \o buffer, list)

\* ... and to its end: StopIteration means the limit or the whole list, but for
\* what was added since the last page was fetched.
CompleteAtStop ==
  stopped /\ ~ LimitReached /\ changes \subseteq {"append"} =>
    /\ Len(yielded) >= total
    /\ changes = {} => yielded = list

\* Records that only come, wherever they are put, push no earlier record out of
\* the walk: at the end every record that was there from the start was yielded.
NothingMissed ==
  stopped /\ ~ LimitReached /\ "delete" \notin changes =>
    \A k \in DOMAIN initial : Contains(yielded, initial[k])

\* Records that go, or come at the end only, bring no record back under the walk.
NoRepeats ==
  "insert" \notin changes =>
    \A j, k \in DOMAIN yielded : yielded[j] = yielded[k] => j = k

\* Once StopIteration was raised no later call yields an item, even when the
\* list has grown since (the iterator protocol of Python).
StopsForGood == [][stopped => yielded' = yielded]_vars

\* What is still to come of a walk, as the list is now.
Left == Len(buffer) + (IF skip < Len(list) THEN Len(list) - skip ELSE 0)

\* Every turn of all() leaves it or takes one item off what is left, and nobody but
\* another client who adds a record puts any more there: no page size, cut page,
\* stale total or deletion makes the walk go round in circles.
AllShrinks ==
  [][/\ call = "all" /\ NextItem => call' = "next" \/ Left' = Left - 1
     /\ Left' > Left => OtherInsert]_vars

\* all() comes to an end if the others stop adding records.  It need not if the list
\* grows as fast as it is read, which MaxItems forbids here: AllShrinks, which
\* does not depend on that bound, is what the end rests on.
AllReturns ==
  /\ AllShrinks
  /\ <>[][~ OtherInsert]_vars => (call = "all" ~> call = "next")
=============================================================================
