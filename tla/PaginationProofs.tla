-------------------------- MODULE PaginationProofs --------------------------
(***************************************************************************)
(* What holds of the paginated iterator for every page size, page cap,     *)
(* limit and list.                                                         *)
(***************************************************************************)
EXTENDS Pagination, SequenceTheorems, TLAPS

\* A page holds the items after the first s, at most size of them, and it is
\* empty only if there are none.
LEMMA PageProperties ==
  ASSUME NEW q \in Seq(Records), NEW s \in Nat, NEW size \in Nat \ {0}
  PROVE  /\ PageOf(q, s, size) \in Seq(Records)
         /\ Len(PageOf(q, s, size)) <= size
         /\ PageOf(q, s, size) # << >> => s + Len(PageOf(q, s, size)) <= Len(q)
         /\ PageOf(q, s, size) = << >> => s >= Len(q)
         /\ \A k \in 1..Len(PageOf(q, s, size)) : PageOf(q, s, size)[k] = q[s + k]
<1> DEFINE n == Smaller(s + Smaller(size, Cap), Len(q))
<1>1. Len(q) \in Nat /\ Cap \in Nat \ {0}
  BY LenProperties, PaginationAssumption
<1>2. /\ Smaller(size, Cap) \in Nat \ {0} /\ Smaller(size, Cap) <= size
  BY <1>1 DEF Smaller
<1>3. /\ n \in Nat /\ n <= Len(q) /\ n <= s + size
      /\ n = Len(q) \/ n >= s + 1
  BY <1>1, <1>2 DEF Smaller
<1> HIDE DEF n
<1>4. PageOf(q, s, size) = SubSeq(q, s + 1, n)
  BY DEF PageOf, n
<1>5. /\ SubSeq(q, s + 1, n) \in Seq(Records)
      /\ Len(SubSeq(q, s + 1, n)) = IF s + 1 <= n THEN n - s ELSE 0
      /\ \A k \in 1..(n - s) : SubSeq(q, s + 1, n)[k] = q[s + k]
  BY <1>1, <1>3, SubSeqProperties
<1>6. SubSeq(q, s + 1, n) = << >> <=> Len(SubSeq(q, s + 1, n)) = 0
  BY <1>5, EmptySeq
<1> QED
  BY <1>1, <1>3, <1>4, <1>5, <1>6

LEMMA SizeType ==
  ASSUME TypeOK, ~ LimitReached
  PROVE  /\ Size \in Nat \ {0}
         /\ cap # NoLimit => Size <= cap - Len(yielded)
<1>1. /\ PageSize \in Nat \ {0} /\ cap \in Nat \cup {NoLimit}
      /\ Len(yielded) \in Nat
  BY PaginationAssumption, LenProperties DEF TypeOK
<1>2. CASE cap = NoLimit
  BY <1>1, <1>2 DEF Size
<1>3. CASE cap # NoLimit
  <2>1. cap - Len(yielded) \in Nat \ {0}
    BY <1>1, <1>3 DEF LimitReached
  <2>2. Size = Smaller(PageSize, cap - Len(yielded))
    BY <1>3 DEF Size
  <2> QED
    BY <1>1, <2>1, <2>2 DEF Smaller
<1> QED
  BY <1>2, <1>3

\* The page a request brings.
Page == PageOf(list, skip, Size)

LEMMA PageType ==
  ASSUME TypeOK, ~ LimitReached
  PROVE  /\ Page \in Seq(Records) /\ Len(Page) \in Nat /\ Len(Page) <= Size
         /\ Page # << >> => skip + Len(Page) <= Len(list)
         /\ Page = << >> => skip >= Len(list)
         /\ \A k \in 1..Len(Page) : Page[k] = list[skip + k]
         /\ Size \in Nat \ {0}
<1>1. list \in Seq(Records) /\ skip \in Nat /\ Size \in Nat \ {0}
  BY SizeType DEF TypeOK
<1>2. Page \in Seq(Records)
  BY <1>1, PageProperties DEF Page
<1> QED
  BY <1>1, <1>2, PageProperties, LenProperties DEF Page

LEMMA HeadTail ==
  ASSUME NEW q \in Seq(Records), q # << >>
  PROVE  /\ Head(q) \in Records /\ Head(q) = q[1]
         /\ Tail(q) \in Seq(Records) /\ Len(Tail(q)) = Len(q) - 1
         /\ Len(q) \in Nat \ {0}
         /\ \A k \in 1..(Len(q) - 1) : Tail(q)[k] = q[k + 1]
BY HeadTailProperties, LenProperties, EmptySeq

LEMMA InitType == Init => TypeOK
<1> SUFFICES ASSUME Init PROVE TypeOK
  OBVIOUS
<1>1. born \in 0..MaxItems /\ MaxItems \in Nat
  BY PaginationAssumption DEF Init
<1>2. \A i \in 1..born : i \in Records
  BY <1>1 DEF Records
<1>3. list \in Seq(Records)
  <2>1. born \in Nat /\ list = [i \in 1..born |-> i]
    BY <1>1 DEF Init
  <2>2. [i \in 1..born |-> i] \in [1..born -> Records]
    BY <1>2
  <2> QED
    BY <2>1, <2>2, SeqDef
<1>4. /\ cap \in Limits /\ changes = {} /\ buffer = << >> /\ skip = 0 /\ total = Unknown
      /\ exhausted = FALSE /\ yielded = << >> /\ call = "next" /\ from = 0
      /\ stopped = FALSE /\ initial = list
  BY DEF Init
<1> QED
  BY <1>1, <1>3, <1>4, EmptySeq DEF TypeOK

LEMMA DeliverType ==
  ASSUME TypeOK, Deliver
  PROVE  TypeOK'
<1>1. Head(buffer) \in Records /\ Tail(buffer) \in Seq(Records)
  BY HeadTail DEF TypeOK, Deliver
<1>2. Append(yielded, Head(buffer)) \in Seq(Records)
  BY <1>1, AppendProperties DEF TypeOK
<1> QED
  BY <1>1, <1>2 DEF TypeOK, Deliver, server

LEMMA FetchItemsType ==
  ASSUME TypeOK, FetchItems
  PROVE  TypeOK'
<1>1. Page \in Seq(Records) /\ Page # << >> /\ Len(Page) \in Nat /\ Len(list) \in Nat
  BY PageType, LenProperties DEF FetchItems, Page, TypeOK
<1>2. Head(Page) \in Records /\ Tail(Page) \in Seq(Records)
  BY <1>1, HeadTail
<1>3. Append(yielded, Head(Page)) \in Seq(Records)
  BY <1>2, AppendProperties DEF TypeOK
<1>4. yielded' = Append(yielded, Head(Page)) /\ buffer' = Tail(Page)
      /\ skip' = skip + Len(Page) /\ total' = Len(list)
      /\ UNCHANGED <<list, born, changes, cap, exhausted, call, from, stopped, initial>>
  BY DEF FetchItems, Page, server, SkipAfter, TotalSeen
<1> QED
  BY <1>1, <1>2, <1>3, <1>4 DEF TypeOK

LEMMA FetchNothingType ==
  ASSUME TypeOK, FetchNothing
  PROVE  TypeOK'
<1>1. Size \in Nat \ {0} /\ Len(list) \in Nat
  BY SizeType, LenProperties DEF FetchNothing, TypeOK
<1> QED
  BY <1>1 DEF TypeOK, FetchNothing, server, SkipAfter, TotalSeen

LEMMA OtherType ==
  ASSUME TypeOK, OtherInsert \/ OtherDelete
  PROVE  TypeOK'
<1>1. CASE OtherInsert
  <2>1. PICK k \in 0..Len(list) : list' = InsertAt(list, k + 1, born + 1)
    BY <1>1 DEF OtherInsert
  <2>2. born + 1 \in Records /\ list \in Seq(Records) /\ born' \in 0..MaxItems
    BY <1>1, PaginationAssumption DEF OtherInsert, TypeOK, Records
  <2>3. /\ SubSeq(list, 1, k) \in Seq(Records)
        /\ SubSeq(list, k + 1, Len(list)) \in Seq(Records)
        /\ <<born + 1>> \in Seq(Records)
    BY <2>1, <2>2, SubSeqProperties, LenProperties
  <2>4. list' \in Seq(Records)
    BY <2>1, <2>2, <2>3, ConcatProperties, LenProperties DEF InsertAt
  <2>5. changes' \subseteq EnvEvents
    BY <1>1 DEF OtherInsert, TypeOK, EnvEvents
  <2> QED
    BY <1>1, <2>2, <2>4, <2>5 DEF OtherInsert, TypeOK, iter
<1>2. CASE OtherDelete
  <2>1. PICK k \in DOMAIN list : list' = RemoveAt(list, k)
    BY <1>2 DEF OtherDelete
  <2>2. list \in Seq(Records) /\ k \in 1..Len(list) /\ Len(list) \in Nat
    BY <2>1, LenProperties DEF TypeOK
  <2>3. /\ SubSeq(list, 1, k - 1) \in Seq(Records)
        /\ SubSeq(list, k + 1, Len(list)) \in Seq(Records)
    BY <2>2, SubSeqProperties
  <2>4. list' \in Seq(Records)
    BY <2>1, <2>3, ConcatProperties DEF RemoveAt
  <2>5. changes' \subseteq EnvEvents
    BY <1>2 DEF OtherDelete, TypeOK, EnvEvents
  <2> QED
    BY <1>2, <2>4, <2>5 DEF OtherDelete, TypeOK, iter
<1> QED
  BY <1>1, <1>2

LEMMA NextType == TypeOK /\ [Next]_vars => TypeOK'
<1> SUFFICES ASSUME TypeOK, [Next]_vars PROVE TypeOK'
  OBVIOUS
<1>1. CASE FetchFails \/ Stop
  BY <1>1 DEF FetchFails, Stop, TypeOK, server, iter
<1>2. CASE All
  BY <1>2, LenProperties DEF All, TypeOK, server, iter
<1>3. CASE UNCHANGED vars
  BY <1>3 DEF vars, server, iter, TypeOK
<1> QED
  BY <1>1, <1>2, <1>3, DeliverType, FetchItemsType, FetchNothingType, OtherType
  DEF Next, NextItem

\* Every reachable state is typed.
THEOREM TypeCorrect == Spec => []TypeOK
  BY InitType, NextType, PTL DEF Spec

-----------------------------------------------------------------------------
(* What one step does to the items walked                                  *)

\* Returning a buffered item moves it from one end to the other.
LEMMA DeliverItems ==
  ASSUME TypeOK, Deliver
  PROVE  /\ Len(buffer) \in Nat \ {0} /\ Len(yielded) \in Nat
         /\ Len(yielded') = Len(yielded) + 1 /\ Len(buffer') = Len(buffer) - 1
         /\ \A k \in 1..Len(yielded) : yielded'[k] = yielded[k]
         /\ yielded'[Len(yielded) + 1] = buffer[1]
         /\ \A k \in 1..(Len(buffer) - 1) : buffer'[k] = buffer[k + 1]
         /\ UNCHANGED <<list, born, cap, skip, total, exhausted, stopped, initial>>
<1>1. /\ yielded \in Seq(Records) /\ buffer \in Seq(Records) /\ buffer # << >>
      /\ yielded' = Append(yielded, Head(buffer)) /\ buffer' = Tail(buffer)
      /\ UNCHANGED <<list, born, cap, skip, total, exhausted, stopped, initial>>
  BY DEF TypeOK, Deliver, server
<1> QED
  BY <1>1, HeadTail, AppendProperties, LenProperties

\* A page is returned and buffered in its order.
LEMMA FetchedItems ==
  ASSUME TypeOK, FetchItems
  PROVE  /\ Len(Page) \in Nat \ {0} /\ Len(yielded) \in Nat /\ buffer = << >>
         /\ skip \in Nat /\ Len(list) \in Nat /\ skip + Len(Page) <= Len(list)
         /\ cap # NoLimit => Len(Page) <= cap - Len(yielded)
         /\ \A k \in 1..Len(Page) : Page[k] = list[skip + k]
         /\ Len(yielded') = Len(yielded) + 1 /\ Len(buffer') = Len(Page) - 1
         /\ \A k \in 1..Len(yielded) : yielded'[k] = yielded[k]
         /\ yielded'[Len(yielded) + 1] = list[skip + 1]
         /\ \A k \in 1..(Len(Page) - 1) : buffer'[k] = list[skip + k + 1]
         /\ skip' = skip + Len(Page) /\ total' = Len(list)
         /\ UNCHANGED <<list, born, cap, exhausted, stopped, initial>>
<1>1. /\ yielded \in Seq(Records) /\ list \in Seq(Records) /\ skip \in Nat
      /\ ~ LimitReached /\ Page # << >> /\ buffer = << >>
      /\ yielded' = Append(yielded, Head(Page)) /\ buffer' = Tail(Page)
      /\ skip' = skip + Len(Page) /\ total' = Len(list)
      /\ UNCHANGED <<list, born, cap, exhausted, stopped, initial>>
  BY DEF TypeOK, FetchItems, Page, server, SkipAfter, TotalSeen
<1>2. /\ Page \in Seq(Records) /\ Len(Page) <= Size /\ skip + Len(Page) <= Len(list)
      /\ \A k \in 1..Len(Page) : Page[k] = list[skip + k]
      /\ Size \in Nat
      /\ cap # NoLimit => Size <= cap - Len(yielded)
  BY <1>1, PageType, SizeType
<1>3. /\ Len(Page) \in Nat \ {0} /\ Head(Page) = Page[1] /\ Head(Page) \in Records
      /\ Len(Tail(Page)) = Len(Page) - 1
      /\ \A k \in 1..(Len(Page) - 1) : Tail(Page)[k] = Page[k + 1]
  BY <1>1, <1>2, HeadTail
<1>4. /\ Len(yielded') = Len(yielded) + 1 /\ Len(yielded) \in Nat
      /\ \A k \in 1..Len(yielded) : yielded'[k] = yielded[k]
      /\ yielded'[Len(yielded) + 1] = Head(Page)
  BY <1>1, <1>3, AppendProperties, LenProperties
<1>5. cap # NoLimit => Len(Page) <= cap - Len(yielded)
  <2>1. cap \in Int
    BY PaginationAssumption DEF TypeOK, NoLimit
  <2> QED
    BY <1>2, <1>3, <1>4, <2>1
<1>6. \A k \in 1..(Len(Page) - 1) : buffer'[k] = list[skip + k + 1]
  BY <1>1, <1>2, <1>3
<1> QED
  BY <1>1, <1>2, <1>3, <1>4, <1>5, <1>6, LenProperties

-----------------------------------------------------------------------------
(* limit() *)

\* No iterator ever yields or holds more items than its limit.
THEOREM LimitHolds == Spec => []WithinLimit
<1>1. Init => WithinLimit
  <2> SUFFICES ASSUME Init PROVE WithinLimit
    OBVIOUS
  <2>1. Len(yielded) = 0 /\ Len(buffer) = 0 /\ cap \in Nat \cup {NoLimit}
    BY EmptySeq, PaginationAssumption DEF Init
  <2> QED
    BY <2>1 DEF WithinLimit
<1>2. TypeOK /\ WithinLimit /\ [Next]_vars => WithinLimit'
  <2> SUFFICES ASSUME TypeOK, WithinLimit, [Next]_vars PROVE WithinLimit'
    OBVIOUS
  <2>1. cap \in Nat \cup {NoLimit}
    BY PaginationAssumption DEF TypeOK
  <2>2. CASE Deliver
    BY <2>1, <2>2, DeliverItems DEF WithinLimit
  <2>3. CASE FetchItems
    BY <2>1, <2>3, FetchedItems DEF WithinLimit
  <2>4. CASE UNCHANGED <<yielded, buffer, cap>>
    BY <2>4 DEF WithinLimit
  <2> QED
    BY <2>2, <2>3, <2>4 DEF Next, NextItem, FetchNothing, FetchFails, Stop, All,
                            OtherInsert, OtherDelete, iter, vars
<1> QED
  BY <1>1, <1>2, TypeCorrect, PTL DEF Spec

-----------------------------------------------------------------------------
(* The end of the iteration *)

\* After StopIteration nothing is left to return without a request, and no
\* request would be made.
AtEnd == stopped => LimitReached \/ (buffer = << >> /\ Ended)

LEMMA NextAtEnd == TypeOK /\ AtEnd /\ [Next]_vars => AtEnd'
<1> SUFFICES ASSUME TypeOK, AtEnd, [Next]_vars PROVE AtEnd'
  OBVIOUS
<1>1. CASE Deliver
  BY <1>1 DEF AtEnd, Deliver, LimitReached
<1>2. CASE FetchItems
  BY <1>2 DEF AtEnd, FetchItems
<1>3. CASE FetchNothing
  BY <1>3 DEF AtEnd, FetchNothing, Ended
<1>4. CASE Stop
  BY <1>4 DEF AtEnd, Stop, Ended, LimitReached, iter
<1>5. CASE UNCHANGED <<iter, cap, stopped>>
  BY <1>5 DEF AtEnd, Ended, LimitReached, iter
<1> QED
  BY <1>1, <1>2, <1>3, <1>4, <1>5
  DEF Next, NextItem, FetchFails, All, OtherInsert, OtherDelete, vars

\* An iterator that has raised StopIteration never yields again.
THEOREM StopIsFinal == Spec => StopsForGood
<1>1. Init => AtEnd
  BY DEF Init, AtEnd
<1>2. AtEnd /\ [Next]_vars => [stopped => yielded' = yielded]_vars
  BY DEF AtEnd, Next, NextItem, Deliver, FetchItems, FetchNothing, FetchFails, Stop,
         All, OtherInsert, OtherDelete, iter, vars
<1> QED
  BY <1>1, <1>2, NextAtEnd, TypeCorrect, PTL DEF Spec, StopsForGood

-----------------------------------------------------------------------------
(* Order and completeness, as long as others add at the end only            *)

\* What was yielded and what is buffered is the start of the list, and the next
\* page begins behind it.
Walked ==
  changes \subseteq {"append"} =>
    /\ Len(yielded) + Len(buffer) <= Len(list)
    /\ \A k \in 1..Len(yielded) : yielded[k] = list[k]
    /\ \A k \in 1..Len(buffer) : buffer[k] = list[Len(yielded) + k]
    /\ ~ exhausted => skip = Len(yielded) + Len(buffer)

\* How long the list was when it was last seen, and that the walk is beyond it.
Measured ==
  changes \subseteq {"append"} =>
    /\ total # Unknown => total <= Len(list) /\ (changes = {} => total = Len(list))
    /\ exhausted => total # Unknown /\ buffer = << >> /\ Len(yielded) >= total

Lens == Len(yielded) \in Nat /\ Len(buffer) \in Nat /\ Len(list) \in Nat
LEMMA Lengths == TypeOK => Lens
  BY LenProperties DEF TypeOK, Lens

LEMMA InitWalked == Init => Walked /\ Measured
<1> SUFFICES ASSUME Init PROVE Walked /\ Measured
  OBVIOUS
<1>1. /\ Len(yielded) = 0 /\ Len(buffer) = 0 /\ skip = 0 /\ total = Unknown /\ exhausted = FALSE
      /\ Len(list) \in Nat
  BY InitType, Lengths, EmptySeq DEF Init, Lens
<1> QED
  BY <1>1 DEF Walked, Measured

\* An insertion at the end keeps the list as the start of what it becomes.
LEMMA AtTheEnd ==
  ASSUME NEW q \in Seq(Records), NEW e \in Records
  PROVE  LET p == InsertAt(q, Len(q) + 1, e)
         IN  /\ Len(p) = Len(q) + 1 /\ p[Len(q) + 1] = e
             /\ \A k \in 1..Len(q) : p[k] = q[k]
<1>1. Len(q) \in Nat /\ (Len(q) + 1) - 1 = Len(q)
  BY LenProperties
<1>2. SubSeq(q, 1, Len(q)) = q /\ SubSeq(q, Len(q) + 1, Len(q)) = << >>
  BY <1>1, SubSeqFull, SubSeqEmpty
<1>3. InsertAt(q, Len(q) + 1, e)
        = SubSeq(q, 1, (Len(q) + 1) - 1) \o <<e>> \o SubSeq(q, Len(q) + 1, Len(q))
  BY DEF InsertAt
<1>4. InsertAt(q, Len(q) + 1, e) = q \o <<e>> \o << >>
  BY <1>1, <1>2, <1>3
<1>5. InsertAt(q, Len(q) + 1, e) = Append(q, e)
  BY <1>4
<1> QED
  BY <1>1, <1>5, AppendProperties

LEMMA Appended ==
  ASSUME TypeOK, OtherInsert, changes' \subseteq {"append"}
  PROVE  /\ Len(list') = Len(list) + 1 /\ \A k \in 1..Len(list) : list'[k] = list[k]
         /\ changes \subseteq {"append"} /\ changes' # {}
         /\ UNCHANGED <<buffer, skip, total, exhausted, yielded>>
<1>1. PICK k \in 0..Len(list), how \in {"append", "insert"} :
        /\ how = "append" <=> k = Len(list)
        /\ list' = InsertAt(list, k + 1, born + 1)
        /\ changes' = changes \cup {how}
  BY DEF OtherInsert
<1>2. k = Len(list)
  BY <1>1
<1>3. list \in Seq(Records) /\ born + 1 \in Records
  BY PaginationAssumption DEF TypeOK, OtherInsert, Records
<1> QED
  BY <1>1, <1>2, <1>3, AtTheEnd DEF OtherInsert, iter

LEMMA NextWalked == TypeOK /\ Walked /\ Measured /\ [Next]_vars => Walked' /\ Measured'
<1> SUFFICES ASSUME TypeOK, Walked, Measured, [Next]_vars, changes' \subseteq {"append"}
             PROVE  Walked' /\ Measured'
  BY DEF Walked, Measured
<1>0. Lens /\ skip \in Nat /\ total \in Nat \cup {Unknown} /\ exhausted \in BOOLEAN
  BY Lengths DEF TypeOK
<1>1. CASE Deliver
  <2>1. UNCHANGED <<list, changes, skip, total, exhausted>> /\ buffer # << >>
    BY <1>1 DEF Deliver, server
  <2>2. ~ exhausted
    BY <1>1, <2>1 DEF Measured
  <2>3. /\ Len(buffer) # 0 /\ Len(yielded') = Len(yielded) + 1 /\ Len(buffer') = Len(buffer) - 1
        /\ \A k \in 1..Len(yielded) : yielded'[k] = yielded[k]
        /\ yielded'[Len(yielded) + 1] = buffer[1]
        /\ \A k \in 1..(Len(buffer) - 1) : buffer'[k] = buffer[k + 1]
    BY <1>1, DeliverItems
  <2>4. \A k \in 1..Len(yielded') : yielded'[k] = list[k]
    BY <1>0, <2>1, <2>3 DEF Walked, Lens
  <2>5. ASSUME NEW k \in 1..Len(buffer') PROVE buffer'[k] = list[Len(yielded') + k]
    <3>1. buffer'[k] = buffer[k + 1] /\ k + 1 \in 1..Len(buffer)
      BY <1>0, <2>3 DEF Lens
    <3>2. buffer[k + 1] = list[Len(yielded) + (k + 1)]
      BY <2>1, <3>1 DEF Walked
    <3>3. Len(yielded) + (k + 1) = Len(yielded') + k
      BY <1>0, <2>3 DEF Lens
    <3> QED
      BY <3>1, <3>2, <3>3
  <2>6. Walked'
    BY <1>0, <2>1, <2>2, <2>3, <2>4, <2>5 DEF Walked, Lens
  <2> QED
    BY <2>1, <2>2, <2>6 DEF Measured
<1>2. CASE FetchItems
  <2>1. changes' = changes /\ ~ exhausted /\ Len(buffer) = 0
    BY <1>2, EmptySeq DEF FetchItems, Ended, server
  <2>2. skip = Len(yielded)
    BY <1>0, <2>1 DEF Walked, Lens
  <2>3. /\ Len(Page) \in Nat \ {0} /\ skip + Len(Page) <= Len(list)
        /\ Len(yielded') = Len(yielded) + 1 /\ Len(buffer') = Len(Page) - 1
        /\ \A k \in 1..Len(yielded) : yielded'[k] = yielded[k]
        /\ yielded'[Len(yielded) + 1] = list[skip + 1]
        /\ \A k \in 1..(Len(Page) - 1) : buffer'[k] = list[skip + k + 1]
        /\ skip' = skip + Len(Page) /\ total' = Len(list) /\ UNCHANGED <<list, exhausted>>
    BY <1>2, FetchedItems
  <2>4. \A k \in 1..Len(yielded') : yielded'[k] = list[k]
    BY <1>0, <2>1, <2>2, <2>3 DEF Walked, Lens
  <2>5. ASSUME NEW k \in 1..Len(buffer') PROVE buffer'[k] = list[Len(yielded') + k]
    <3>1. k \in 1..(Len(Page) - 1)
      BY <2>3
    <3>2. skip + k + 1 = Len(yielded') + k
      BY <1>0, <2>2, <2>3, <3>1 DEF Lens
    <3> QED
      BY <2>3, <3>1, <3>2
  <2>6. Walked'
    BY <1>0, <2>1, <2>2, <2>3, <2>4, <2>5 DEF Walked, Lens
  <2> QED
    BY <1>0, <2>1, <2>3, <2>6 DEF Measured, Lens
<1>3. CASE FetchNothing
  <2>1. /\ UNCHANGED <<list, changes, buffer, yielded>> /\ buffer = << >> /\ ~ exhausted
        /\ exhausted' /\ total' = Len(list) /\ Page = << >> /\ ~ LimitReached
    BY <1>3 DEF FetchNothing, Ended, server, Page, TotalSeen
  <2>2. skip = Len(yielded) /\ skip >= Len(list)
    BY <1>0, <2>1, PageType, EmptySeq DEF Walked, Lens
  <2> QED
    BY <1>0, <2>1, <2>2 DEF Walked, Measured, Lens, Unknown
<1>4. CASE OtherInsert
  <2>1. /\ Len(list') = Len(list) + 1 /\ \A k \in 1..Len(list) : list'[k] = list[k]
        /\ changes \subseteq {"append"} /\ changes' # {}
        /\ UNCHANGED <<buffer, skip, total, exhausted, yielded>>
    BY <1>4, Appended
  <2>2. \A k \in 1..Len(yielded) : yielded[k] = list'[k]
    BY <1>0, <2>1 DEF Walked, Lens
  <2>3. ASSUME NEW k \in 1..Len(buffer) PROVE buffer[k] = list'[Len(yielded) + k]
    <3>1. Len(yielded) + k \in 1..Len(list)
      BY <1>0, <2>1 DEF Walked, Lens
    <3> QED
      BY <2>1, <3>1 DEF Walked
  <2>4. Walked'
    BY <1>0, <2>1, <2>2, <2>3 DEF Walked, Lens
  <2>5. ASSUME total # Unknown PROVE total <= Len(list')
    <3>1. total \in Nat /\ total <= Len(list)
      BY <1>0, <2>1, <2>5 DEF Measured
    <3> QED
      BY <1>0, <2>1, <3>1 DEF Lens
  <2>6. exhausted => total # Unknown /\ buffer = << >> /\ Len(yielded) >= total
    BY <2>1 DEF Measured
  <2> QED
    BY <2>1, <2>4, <2>5, <2>6 DEF Measured
<1>5. CASE UNCHANGED <<list, changes, iter>>
  BY <1>5 DEF Walked, Measured, iter
<1>6. ~ OtherDelete
  BY DEF OtherDelete
<1> QED
  BY <1>1, <1>2, <1>3, <1>4, <1>5, <1>6
  DEF Next, NextItem, FetchFails, Stop, All, iter, server, vars

\* A sequence that agrees with the start of another is a prefix of it.
LEMMA Prefix ==
  ASSUME NEW q \in Seq(Records), NEW r \in Seq(Records), NEW t \in Seq(Records),
         Len(q) + Len(r) <= Len(t),
         \A k \in 1..Len(q) : q[k] = t[k],
         \A k \in 1..Len(r) : r[k] = t[Len(q) + k]
  PROVE  IsPrefix(q \o r, t)
<1> DEFINE n == Len(q) + Len(r)
<1>1. Len(q) \in Nat /\ Len(r) \in Nat /\ Len(t) \in Nat
  BY LenProperties
<1>2. /\ q \o r \in Seq(Records) /\ Len(q \o r) = n
      /\ \A k \in 1..n : (q \o r)[k] = IF k <= Len(q) THEN q[k] ELSE r[k - Len(q)]
  BY <1>1, ConcatProperties
<1>3. \A k \in 1..n : (q \o r)[k] = t[k]
  <2> SUFFICES ASSUME NEW k \in 1..n PROVE (q \o r)[k] = t[k]
    OBVIOUS
  <2>1. CASE k <= Len(q)
    BY <1>1, <1>2, <2>1
  <2>2. CASE ~ k <= Len(q)
    <3>1. k - Len(q) \in 1..Len(r) /\ Len(q) + (k - Len(q)) = k
      BY <1>1, <2>2
    <3> QED
      BY <1>2, <2>2, <3>1
  <2> QED
    BY <2>1, <2>2
<1>4. SubSeq(q \o r, 1, n) = q \o r
  BY <1>2, SubSeqFull
<1>5. /\ SubSeq(t, 1, n) \in Seq(Records) /\ Len(SubSeq(t, 1, n)) = n
      /\ \A k \in 1..n : SubSeq(t, 1, n)[k] = t[k]
  BY <1>1, SubSeqProperties
<1>6. SubSeq(t, 1, n) = q \o r
  BY <1>1, <1>2, <1>3, <1>5, SeqEqual
<1> QED
  BY <1>1, <1>2, <1>4, <1>6 DEF IsPrefix

\* A list that is left alone, or only grows at its end, is yielded in its order
\* and without gaps, for every page size and every cap of the server.
THEOREM OrderIsKept == Spec => []YieldsInOrder
<1>1. TypeOK /\ Walked => YieldsInOrder
  BY Prefix DEF TypeOK, Walked, YieldsInOrder
<1> QED
  BY <1>1, InitWalked, NextWalked, TypeCorrect, PTL DEF Spec

\* StopIteration before the limit means that all of it was yielded.
THEOREM StopIsComplete == Spec => []CompleteAtStop
<1>1. Init => AtEnd
  BY DEF Init, AtEnd
<1>2. TypeOK /\ AtEnd /\ Walked /\ Measured => CompleteAtStop
  <2> SUFFICES ASSUME TypeOK, AtEnd, Walked, Measured,
                      stopped, ~ LimitReached, changes \subseteq {"append"}
               PROVE  Len(yielded) >= total /\ (changes = {} => yielded = list)
    BY DEF CompleteAtStop
  <2>1. Lens /\ buffer = << >> /\ Len(buffer) = 0 /\ Ended
    BY Lengths, EmptySeq DEF AtEnd
  <2>2. total # Unknown /\ Len(yielded) >= total
    BY <2>1 DEF Ended, Measured, Walked, Lens, TypeOK
  <2>3. ASSUME changes = {} PROVE yielded = list
    <3>1. Len(yielded) = Len(list)
      BY <2>1, <2>2, <2>3 DEF Measured, Walked, Lens
    <3> QED
      BY <3>1, SeqEqual DEF Walked, TypeOK
  <2> QED
    BY <2>2, <2>3
<1> QED
  BY <1>1, <1>2, InitWalked, NextWalked, NextAtEnd, TypeCorrect, PTL DEF Spec
-----------------------------------------------------------------------------
(* Nothing missed, whatever is inserted                                     *)

\* Inserting pushes what is behind one place on.
LEMMA Inserted ==
  ASSUME NEW q \in Seq(Records), NEW k \in 0..Len(q), NEW e \in Records,
         NEW j \in 1..Len(q)
  PROVE  /\ Len(InsertAt(q, k + 1, e)) = Len(q) + 1
         /\ j <= k => InsertAt(q, k + 1, e)[j] = q[j]
         /\ j > k => InsertAt(q, k + 1, e)[j + 1] = q[j]
<1> DEFINE a == SubSeq(q, 1, k)
           b == SubSeq(q, k + 1, Len(q))
<1>1. Len(q) \in Nat /\ k \in Nat /\ j \in Nat /\ j <= Len(q) /\ j >= 1 /\ k <= Len(q)
  BY LenProperties
<1>2. /\ a \in Seq(Records) /\ Len(a) = k /\ \A i \in 1..k : a[i] = q[i]
      /\ b \in Seq(Records) /\ Len(b) = Len(q) - k
      /\ \A i \in 1..(Len(q) - k) : b[i] = q[k + i]
  BY <1>1, SubSeqProperties
<1>3. InsertAt(q, k + 1, e) = a \o <<e>> \o b
  <2>1. (k + 1) - 1 = k
    BY <1>1
  <2> QED
    BY <2>1 DEF InsertAt
<1> HIDE DEF a, b
<1> DEFINE c == a \o <<e>>
<1>4. /\ c \in Seq(Records) /\ Len(c) = k + 1
      /\ \A i \in 1..k : c[i] = a[i]
  <2>1. <<e>> \in Seq(Records) /\ Len(<<e>>) = 1
    OBVIOUS
  <2>2. /\ c \in Seq(Records) /\ Len(c) = Len(a) + Len(<<e>>)
        /\ \A i \in 1..(Len(a) + Len(<<e>>)) :
             c[i] = IF i <= Len(a) THEN a[i] ELSE <<e>>[i - Len(a)]
    BY <1>2, <2>1, ConcatProperties
  <2>3. \A i \in 1..k : i \in 1..(k + 1) /\ i <= k
    BY <1>1
  <2> QED
    BY <1>2, <2>1, <2>2, <2>3
<1> HIDE DEF c
<1>5. /\ Len(c \o b) = Len(q) + 1
      /\ \A i \in 1..(Len(q) + 1) : (c \o b)[i] = IF i <= k + 1 THEN c[i] ELSE b[i - (k + 1)]
  <2>1. Len(c) + Len(b) = Len(q) + 1
    BY <1>1, <1>2, <1>4
  <2> QED
    <3>1. /\ Len(c \o b) = Len(c) + Len(b)
          /\ \A i \in 1..(Len(c) + Len(b)) : (c \o b)[i] = IF i <= Len(c) THEN c[i] ELSE b[i - Len(c)]
      BY <1>2, <1>4, ConcatProperties
    <3> QED
      BY <1>4, <2>1, <3>1
<1>6. ASSUME j <= k PROVE (c \o b)[j] = q[j]
  <2>1. j \in 1..k /\ j \in 1..(Len(q) + 1) /\ j <= k + 1
    BY <1>1, <1>6
  <2> QED
    BY <1>2, <1>4, <1>5, <2>1
<1>7. ASSUME j > k PROVE (c \o b)[j + 1] = q[j]
  <2>1. /\ j + 1 \in 1..(Len(q) + 1) /\ ~ (j + 1 <= k + 1)
        /\ j + 1 - (k + 1) = j - k /\ j - k \in 1..(Len(q) - k) /\ k + (j - k) = j
    BY <1>1, <1>7
  <2>2. (c \o b)[j + 1] = b[j - k]
    BY <1>5, <2>1
  <2>3. b[j - k] = q[k + (j - k)]
    BY <1>2, <2>1
  <2> QED
    BY <2>1, <2>2, <2>3
<1> QED
  BY <1>3, <1>5, <1>6, <1>7 DEF c

\* A record the iterator has, and one a page to come will bring.
Has(r)     == \/ \E k \in 1..Len(yielded) : yielded[k] = r
              \/ \E k \in 1..Len(buffer) : buffer[k] = r
Awaits(r)  == \E k \in 1..Len(list) : k > skip /\ list[k] = r
Unmissed ==
  "delete" \notin changes =>
    \A i \in 1..Len(initial) : Has(initial[i]) \/ (~ Ended /\ Awaits(initial[i]))

LEMMA InitUnmissed == Init => Unmissed
<1> SUFFICES ASSUME Init PROVE Unmissed
  OBVIOUS
<1>1. /\ ~ Ended /\ initial = list /\ skip = 0
  BY DEF Init, Ended
<1>2. \A k \in 1..Len(list) : k > 0
  BY InitType, Lengths DEF Lens
<1> QED
  BY <1>1, <1>2 DEF Unmissed, Awaits

LEMMA NextUnmissed == TypeOK /\ Unmissed /\ [Next]_vars => Unmissed'
<1> SUFFICES ASSUME TypeOK, Unmissed, [Next]_vars, "delete" \notin changes',
                    NEW i \in 1..Len(initial')
             PROVE  Has(initial[i])' \/ (~ Ended' /\ Awaits(initial[i])')
  BY DEF Unmissed
<1>0. initial' = initial /\ Lens /\ skip \in Nat
  BY Lengths DEF TypeOK, Next, NextItem, Deliver, FetchItems, FetchNothing, FetchFails, Stop,
     All, OtherInsert, OtherDelete, vars
<1>1. "delete" \notin changes
  BY DEF Next, NextItem, Deliver, FetchItems, FetchNothing, FetchFails, Stop, All,
     OtherInsert, OtherDelete, vars, server
<1>2. Has(initial[i]) \/ (~ Ended /\ Awaits(initial[i]))
  BY <1>0, <1>1 DEF Unmissed
<1> DEFINE r == initial[i]
<1>3. CASE Deliver
  <2>1. /\ Len(buffer) \in Nat \ {0} /\ Len(yielded') = Len(yielded) + 1
        /\ Len(buffer') = Len(buffer) - 1
        /\ \A k \in 1..Len(yielded) : yielded'[k] = yielded[k]
        /\ yielded'[Len(yielded) + 1] = buffer[1]
        /\ \A k \in 1..(Len(buffer) - 1) : buffer'[k] = buffer[k + 1]
        /\ UNCHANGED <<list, skip, total, exhausted>>
    BY <1>3, DeliverItems
  <2>2. ASSUME NEW k \in 1..Len(yielded), yielded[k] = r PROVE Has(r)'
    <3>1. k \in 1..Len(yielded') /\ yielded'[k] = r
      BY <1>0, <2>1, <2>2 DEF Lens
    <3> QED
      BY <1>0, <3>1 DEF Has
  <2>3. ASSUME NEW k \in 1..Len(buffer), buffer[k] = r PROVE Has(r)'
    <3>1. CASE k = 1
      <4>1. Len(yielded) + 1 \in 1..Len(yielded') /\ yielded'[Len(yielded) + 1] = r
        BY <1>0, <2>1, <2>3, <3>1 DEF Lens
      <4> QED
        BY <1>0, <4>1 DEF Has
    <3>2. CASE k # 1
      <4>1. k - 1 \in 1..(Len(buffer) - 1) /\ (k - 1) + 1 = k
        BY <1>0, <3>2 DEF Lens
      <4>2. k - 1 \in 1..Len(buffer') /\ buffer'[k - 1] = r
        BY <2>1, <2>3, <4>1
      <4> QED
        BY <1>0, <4>2 DEF Has
    <3> QED
      BY <3>1, <3>2
  <2>4. ASSUME ~ Ended, Awaits(r) PROVE ~ Ended' /\ Awaits(r)'
    BY <1>0, <2>1, <2>4 DEF Ended, Awaits
  <2> QED
    BY <1>2, <2>2, <2>3, <2>4 DEF Has
<1>4. CASE FetchItems
  <2>1. /\ Len(Page) \in Nat \ {0} /\ Len(yielded') = Len(yielded) + 1
        /\ Len(buffer') = Len(Page) - 1 /\ Len(buffer) = 0
        /\ \A k \in 1..Len(yielded) : yielded'[k] = yielded[k]
        /\ yielded'[Len(yielded) + 1] = list[skip + 1]
        /\ \A k \in 1..(Len(Page) - 1) : buffer'[k] = list[skip + k + 1]
        /\ skip' = skip + Len(Page) /\ total' = Len(list) /\ UNCHANGED <<list, exhausted>>
    BY <1>4, FetchedItems, EmptySeq
  <2>2. ASSUME NEW k \in 1..Len(yielded), yielded[k] = r PROVE Has(r)'
    <3>1. k \in 1..Len(yielded') /\ yielded'[k] = r
      BY <1>0, <2>1, <2>2 DEF Lens
    <3> QED
      BY <1>0, <3>1 DEF Has
  <2>3. ASSUME NEW k \in 1..Len(list), k > skip, list[k] = r PROVE Has(r)' \/ (~ Ended' /\ Awaits(r)')
    <3>1. CASE k = skip + 1
      <4>1. Len(yielded) + 1 \in 1..Len(yielded') /\ yielded'[Len(yielded) + 1] = r
        BY <1>0, <2>1, <2>3, <3>1 DEF Lens
      <4> QED
        BY <1>0, <4>1 DEF Has
    <3>2. CASE k > skip + 1 /\ k <= skip + Len(Page)
      <4>1. k - skip - 1 \in 1..(Len(Page) - 1) /\ skip + (k - skip - 1) + 1 = k
        BY <1>0, <2>1, <3>2 DEF Lens
      <4>2. k - skip - 1 \in 1..Len(buffer') /\ buffer'[k - skip - 1] = r
        BY <2>1, <2>3, <4>1
      <4> QED
        BY <1>0, <4>2 DEF Has
    <3>3. CASE k > skip + Len(Page)
      <4>1. k > skip' /\ k \in 1..Len(list') /\ list'[k] = r
        BY <2>1, <2>3, <3>3
      <4>2. skip' < total' /\ ~ exhausted'
        <5>1. skip' < Len(list) /\ ~ exhausted
          BY <1>0, <1>4, <2>1, <2>3, <3>3 DEF FetchItems, Ended, Lens
        <5> QED
          BY <2>1, <5>1
      <4>3. skip' \in Nat /\ total' \in Nat
        BY <1>0, <2>1 DEF Lens
      <4> QED
        BY <1>0, <4>1, <4>2, <4>3 DEF Awaits, Ended
    <3> QED
      BY <1>0, <2>1, <2>3, <3>1, <3>2, <3>3 DEF Lens
  <2> QED
    BY <1>0, <1>2, <2>1, <2>2, <2>3 DEF Has, Awaits, Lens
<1>5. CASE FetchNothing
  <2>1. Page = << >> /\ ~ LimitReached /\ UNCHANGED <<yielded, buffer>>
    BY <1>5 DEF FetchNothing, Page
  <2>2. ~ Awaits(r)
    BY <1>0, <2>1, PageType DEF Awaits, Lens
  <2> QED
    BY <1>0, <1>2, <2>1, <2>2 DEF Has
<1>6. CASE OtherInsert
  <2>1. UNCHANGED <<yielded, buffer, skip, total, exhausted>>
    BY <1>6 DEF OtherInsert, iter
  <2>2. PICK m \in 0..Len(list) : list' = InsertAt(list, m + 1, born + 1)
    BY <1>6 DEF OtherInsert
  <2>3. born + 1 \in Records /\ list \in Seq(Records)
    BY <1>6, PaginationAssumption DEF OtherInsert, TypeOK, Records
  <2>4. ASSUME NEW k \in 1..Len(list), k > skip, list[k] = r PROVE Awaits(r)'
    <3>1. /\ Len(list') = Len(list) + 1
          /\ k <= m => list'[k] = r
          /\ k > m => list'[k + 1] = r
      BY <2>2, <2>3, <2>4, Inserted
    <3>2. k \in 1..Len(list') /\ k + 1 \in 1..Len(list') /\ k + 1 > skip /\ (k <= m \/ k > m)
      BY <1>0, <2>4, <3>1 DEF Lens
    <3> QED
      BY <1>0, <2>1, <2>4, <3>1, <3>2 DEF Awaits
  <2> QED
    BY <1>0, <1>2, <2>1, <2>4 DEF Has, Awaits, Ended
<1>7. CASE UNCHANGED <<list, iter>>
  BY <1>0, <1>2, <1>7 DEF Has, Awaits, Ended, iter
<1>8. ~ OtherDelete
  BY DEF OtherDelete
<1> QED
  BY <1>3, <1>4, <1>5, <1>6, <1>7, <1>8
  DEF Next, NextItem, FetchFails, Stop, All, server, vars

\* Whatever is inserted, and wherever: when the walk ends before its limit, every
\* record that was there when it began has been yielded.
THEOREM NoneIsMissed == Spec => []NothingMissed
<1>1. Init => AtEnd
  BY DEF Init, AtEnd
<1>2. TypeOK /\ AtEnd /\ Unmissed => NothingMissed
  <2> SUFFICES ASSUME TypeOK, AtEnd, Unmissed, stopped, ~ LimitReached, "delete" \notin changes,
                      NEW i \in DOMAIN initial
               PROVE  Contains(yielded, initial[i])
    BY DEF NothingMissed
  <2>1. buffer = << >> /\ Len(buffer) = 0 /\ Ended
    BY EmptySeq DEF AtEnd
  <2>2. i \in 1..Len(initial)
    BY DEF TypeOK
  <2> QED
    BY <2>1, <2>2 DEF Unmissed, Has, Contains
<1> QED
  BY <1>1, <1>2, InitUnmissed, NextUnmissed, NextAtEnd, TypeCorrect, PTL DEF Spec
-----------------------------------------------------------------------------
(* No repeats, whatever is deleted                                          *)

\* Removing pulls what is behind one place back.
LEMMA Removed ==
  ASSUME NEW q \in Seq(Records), NEW m \in 1..Len(q)
  PROVE  /\ Len(RemoveAt(q, m)) = Len(q) - 1
         /\ \A j \in 1..(Len(q) - 1) :
              RemoveAt(q, m)[j] = IF j < m THEN q[j] ELSE q[j + 1]
<1> DEFINE a == SubSeq(q, 1, m - 1)
           b == SubSeq(q, m + 1, Len(q))
<1>1. Len(q) \in Nat /\ m \in Nat \ {0} /\ m <= Len(q)
  BY LenProperties
<1>2. /\ a \in Seq(Records) /\ Len(a) = m - 1 /\ \A i \in 1..(m - 1) : a[i] = q[i]
      /\ b \in Seq(Records) /\ Len(b) = Len(q) - m
      /\ \A i \in 1..(Len(q) - m) : b[i] = q[m + i]
  BY <1>1, SubSeqProperties
<1>3. RemoveAt(q, m) = a \o b
  BY DEF RemoveAt
<1> HIDE DEF a, b
<1>4. /\ Len(a \o b) = Len(a) + Len(b)
      /\ \A i \in 1..(Len(a) + Len(b)) : (a \o b)[i] = IF i <= Len(a) THEN a[i] ELSE b[i - Len(a)]
  BY <1>2, ConcatProperties
<1>5. Len(a) + Len(b) = Len(q) - 1
  BY <1>1, <1>2
<1>6. ASSUME NEW j \in 1..(Len(q) - 1), j < m PROVE (a \o b)[j] = q[j]
  <2>1. j \in 1..(m - 1) /\ j <= Len(a)
    BY <1>1, <1>2, <1>6
  <2> QED
    BY <1>2, <1>4, <1>5, <2>1
<1>7. ASSUME NEW j \in 1..(Len(q) - 1), ~ j < m PROVE (a \o b)[j] = q[j + 1]
  <2>1. ~ j <= Len(a) /\ j - Len(a) \in 1..(Len(q) - m) /\ m + (j - Len(a)) = j + 1
    BY <1>1, <1>2, <1>7
  <2>2. (a \o b)[j] = b[j - Len(a)]
    BY <1>4, <1>5, <2>1
  <2>3. b[j - Len(a)] = q[m + (j - Len(a))]
    BY <1>2, <2>1
  <2> QED
    BY <2>1, <2>2, <2>3
<1> QED
  BY <1>3, <1>4, <1>5, <1>6, <1>7

\* Records are numbered as they come, so that a list to whose end alone others add
\* rises, and with it what is walked; the walk only moves up.
Rises(q)     == \A j, k \in 1..Len(q) : j < k => q[j] < q[k]
Below(q, n)  == \A j \in 1..Len(q) : q[j] \in 1..n
Under(q, n)  == \A j \in 1..Len(q) : q[j] < n
Rising ==
  "insert" \notin changes =>
    /\ Rises(list) /\ Rises(yielded) /\ Rises(buffer)
    /\ Below(list, born) /\ Below(yielded, born) /\ Below(buffer, born)
    /\ \A k \in 1..Len(buffer) : Under(yielded, buffer[k])
    /\ \A k \in 1..Len(list) : k > skip => Under(yielded, list[k]) /\ Under(buffer, list[k])

LEMMA InitRising == Init => Rising
<1> SUFFICES ASSUME Init PROVE Rising
  OBVIOUS
<1>1. born \in Nat /\ list = [i \in 1..born |-> i] /\ Len(yielded) = 0 /\ Len(buffer) = 0
  BY PaginationAssumption, EmptySeq DEF Init
<1>2. Len(list) = born /\ \A i \in 1..Len(list) : list[i] = i
  BY <1>1
<1> QED
  BY <1>1, <1>2 DEF Rising, Rises, Below, Under

LEMMA NextRising == TypeOK /\ Rising /\ [Next]_vars => Rising'
<1> SUFFICES ASSUME TypeOK, Rising, [Next]_vars, "insert" \notin changes' PROVE Rising'
  BY DEF Rising
<1>0. Lens /\ skip \in Nat /\ born \in Nat
  BY Lengths, PaginationAssumption DEF TypeOK
<1>1. "insert" \notin changes
  BY DEF Next, NextItem, Deliver, FetchItems, FetchNothing, FetchFails, Stop, All,
     OtherInsert, OtherDelete, vars, server
<1>2. /\ Rises(list) /\ Rises(yielded) /\ Rises(buffer)
      /\ Below(list, born) /\ Below(yielded, born) /\ Below(buffer, born)
      /\ \A k \in 1..Len(buffer) : Under(yielded, buffer[k])
      /\ \A k \in 1..Len(list) : k > skip => Under(yielded, list[k]) /\ Under(buffer, list[k])
  BY <1>1 DEF Rising
<1>3. CASE Deliver
  <2>1. /\ Len(buffer) \in Nat \ {0} /\ Len(yielded') = Len(yielded) + 1
        /\ Len(buffer') = Len(buffer) - 1
        /\ \A k \in 1..Len(yielded) : yielded'[k] = yielded[k]
        /\ yielded'[Len(yielded) + 1] = buffer[1]
        /\ \A k \in 1..(Len(buffer) - 1) : buffer'[k] = buffer[k + 1]
        /\ UNCHANGED <<list, born, skip>>
    BY <1>3, DeliverItems
  <2>2. \A k \in 1..Len(yielded') :
          \/ k \in 1..Len(yielded) /\ yielded'[k] = yielded[k]
          \/ k = Len(yielded) + 1 /\ yielded'[k] = buffer[1] /\ 1 \in 1..Len(buffer)
    BY <1>0, <2>1 DEF Lens
  <2>3. \A k \in 1..Len(buffer') : k + 1 \in 1..Len(buffer) /\ buffer'[k] = buffer[k + 1] /\ 1 < k + 1
    BY <1>0, <2>1 DEF Lens
  <2>a. Below(yielded', born) /\ Below(buffer', born)
    BY <1>2, <2>2, <2>3 DEF Below
  <2>b. ASSUME NEW j \in 1..Len(yielded'), NEW k \in 1..Len(yielded'), j < k
        PROVE  yielded'[j] < yielded'[k]
    <3>1. j \in 1..Len(yielded) /\ yielded'[j] = yielded[j]
      BY <1>0, <2>2, <2>b DEF Lens
    <3>2. CASE k \in 1..Len(yielded) /\ yielded'[k] = yielded[k]
      BY <1>2, <2>b, <3>1, <3>2 DEF Rises
    <3>3. CASE yielded'[k] = buffer[1] /\ 1 \in 1..Len(buffer)
      BY <1>2, <3>1, <3>3 DEF Under
    <3> QED
      BY <2>2, <3>2, <3>3
  <2>c. ASSUME NEW j \in 1..Len(buffer'), NEW k \in 1..Len(buffer'), j < k
        PROVE  buffer'[j] < buffer'[k]
    <3>1. j + 1 < k + 1
      BY <1>0, <2>1, <2>c DEF Lens
    <3> QED
      BY <1>2, <2>3, <3>1 DEF Rises
  <2>4. Rises(yielded') /\ Below(yielded', born)
    BY <2>a, <2>b DEF Rises
  <2>5. Rises(buffer') /\ Below(buffer', born)
    BY <2>a, <2>c DEF Rises
  <2>6. \A k \in 1..Len(buffer') : Under(yielded', buffer'[k])
    BY <1>0, <1>2, <2>2, <2>3 DEF Rises, Under, Lens
  <2>7. \A k \in 1..Len(list) : k > skip => Under(yielded', list[k]) /\ Under(buffer', list[k])
    BY <1>0, <1>2, <2>2, <2>3 DEF Under, Lens
  <2> QED
    BY <1>2, <2>1, <2>4, <2>5, <2>6, <2>7 DEF Rising
<1>4. CASE FetchItems
  <2>1. /\ Len(Page) \in Nat \ {0} /\ skip + Len(Page) <= Len(list)
        /\ Len(yielded') = Len(yielded) + 1 /\ Len(buffer') = Len(Page) - 1 /\ Len(buffer) = 0
        /\ \A k \in 1..Len(yielded) : yielded'[k] = yielded[k]
        /\ yielded'[Len(yielded) + 1] = list[skip + 1]
        /\ \A k \in 1..(Len(Page) - 1) : buffer'[k] = list[skip + k + 1]
        /\ skip' = skip + Len(Page) /\ UNCHANGED <<list, born>>
    BY <1>4, FetchedItems, EmptySeq
  <2>2. \A k \in 1..Len(yielded') :
          \/ k \in 1..Len(yielded) /\ yielded'[k] = yielded[k]
          \/ k = Len(yielded) + 1 /\ yielded'[k] = list[skip + 1]
    BY <1>0, <2>1 DEF Lens
  <2>3. /\ skip + 1 \in 1..Len(list) /\ skip + 1 > skip
        /\ \A k \in 1..Len(buffer') : /\ skip + k + 1 \in 1..Len(list) /\ skip + k + 1 > skip + 1
                                    /\ buffer'[k] = list[skip + k + 1] /\ skip + k + 1 <= skip'
    BY <1>0, <2>1 DEF Lens
  <2>a. Below(yielded', born)
    BY <1>2, <2>2, <2>3 DEF Below
  <2>b. ASSUME NEW j \in 1..Len(yielded'), NEW k \in 1..Len(yielded'), j < k
        PROVE  yielded'[j] < yielded'[k]
    <3>1. j \in 1..Len(yielded) /\ yielded'[j] = yielded[j]
      BY <1>0, <2>2, <2>b DEF Lens
    <3>2. CASE k \in 1..Len(yielded) /\ yielded'[k] = yielded[k]
      BY <1>2, <2>b, <3>1, <3>2 DEF Rises
    <3>3. CASE yielded'[k] = list[skip + 1]
      BY <1>2, <2>3, <3>1, <3>3 DEF Under
    <3> QED
      BY <2>2, <3>2, <3>3
  <2>4. Rises(yielded') /\ Below(yielded', born)
    BY <2>a, <2>b DEF Rises
  <2>5. Rises(buffer') /\ Below(buffer', born)
    BY <1>0, <1>2, <2>3 DEF Rises, Below, Lens
  <2>6. \A k \in 1..Len(list) : k > skip + 1 => Under(yielded', list[k])
    <3> SUFFICES ASSUME NEW k \in 1..Len(list), k > skip + 1, NEW j \in 1..Len(yielded')
                 PROVE  yielded'[j] < list[k]
      BY DEF Under
    <3>1. k > skip /\ list[skip + 1] < list[k]
      BY <1>0, <1>2, <2>3 DEF Rises, Lens
    <3>2. CASE j \in 1..Len(yielded) /\ yielded'[j] = yielded[j]
      BY <1>2, <3>1, <3>2 DEF Under
    <3> QED
      BY <2>2, <3>1, <3>2
  <2>7. \A k \in 1..Len(buffer') : Under(yielded', buffer'[k])
    BY <2>3, <2>6
  <2>8. \A k \in 1..Len(list) : k > skip' => Under(buffer', list[k])
    BY <1>0, <1>2, <2>1, <2>3 DEF Rises, Under, Lens
  <2>9. \A k \in 1..Len(list) : k > skip' => k > skip + 1
    BY <1>0, <2>1 DEF Lens
  <2> QED
    BY <1>2, <2>1, <2>4, <2>5, <2>6, <2>7, <2>8, <2>9 DEF Rising
<1>5. CASE FetchNothing
  <2>1. /\ UNCHANGED <<list, born, yielded, buffer>> /\ skip' = skip + Size /\ Size \in Nat
    BY <1>5, SizeType DEF FetchNothing, server, SkipAfter
  <2>2. \A k \in 1..Len(list) : k > skip' => k > skip
    BY <1>0, <2>1 DEF Lens
  <2> QED
    BY <1>2, <2>1, <2>2 DEF Rising
<1>6. CASE OtherInsert
  <2>1. PICK p \in 0..Len(list) : p = Len(list) /\ list' = InsertAt(list, p + 1, born + 1)
    BY <1>6 DEF OtherInsert
  <2>2. born + 1 \in Records /\ list \in Seq(Records) /\ born' = born + 1
        /\ UNCHANGED <<yielded, buffer, skip>>
    BY <1>6, PaginationAssumption DEF OtherInsert, TypeOK, Records, iter
  <2>3. /\ Len(list') = Len(list) + 1 /\ list'[Len(list) + 1] = born + 1
        /\ \A j \in 1..Len(list) : list'[j] = list[j]
    BY <2>1, <2>2, AtTheEnd
  <2>4. ASSUME NEW j \in 1..Len(list')
        PROVE  \/ j \in 1..Len(list) /\ list'[j] = list[j]
               \/ j = Len(list) + 1 /\ list'[j] = born + 1
    <3>1. j \in 1..Len(list) \/ j = Len(list) + 1
      BY <1>0, <2>3 DEF Lens
    <3> QED
      BY <2>3, <3>1
  <2>a. \A n \in 1..born : n \in 1..(born + 1) /\ n < born + 1
    BY <1>0
  <2>b. Below(list', born + 1) /\ Below(yielded, born + 1) /\ Below(buffer, born + 1)
    <3>1. born + 1 \in 1..(born + 1)
      BY <1>0
    <3> QED
      BY <1>2, <2>4, <2>a, <3>1 DEF Below
  <2>c. ASSUME NEW j \in 1..Len(list'), NEW k \in 1..Len(list'), j < k PROVE list'[j] < list'[k]
    <3>1. j \in 1..Len(list) /\ list'[j] = list[j]
      BY <1>0, <2>3, <2>c DEF Lens
    <3>2. CASE k \in 1..Len(list) /\ list'[k] = list[k]
      BY <1>2, <2>c, <3>1, <3>2 DEF Rises
    <3>3. CASE list'[k] = born + 1
      BY <1>2, <2>a, <3>1, <3>3 DEF Below
    <3> QED
      BY <2>4, <3>2, <3>3
  <2>5. /\ Rises(list') /\ Below(list', born + 1)
        /\ Below(yielded, born + 1) /\ Below(buffer, born + 1)
    BY <2>b, <2>c DEF Rises
  <2>6. Under(yielded, born + 1) /\ Under(buffer, born + 1)
    BY <1>0, <1>2 DEF Below, Under
  <2>7. \A k \in 1..Len(list') : k > skip => Under(yielded, list'[k]) /\ Under(buffer, list'[k])
    BY <1>2, <2>4, <2>6
  <2> QED
    BY <1>2, <2>2, <2>5, <2>7 DEF Rising
<1>7. CASE OtherDelete
  <2>1. PICK m \in DOMAIN list : list' = RemoveAt(list, m)
    BY <1>7 DEF OtherDelete
  <2>2. m \in 1..Len(list) /\ list \in Seq(Records) /\ UNCHANGED <<born, yielded, buffer, skip>>
    BY <1>7, <2>1 DEF OtherDelete, TypeOK, iter
  <2>3. /\ Len(list') = Len(list) - 1
        /\ \A j \in 1..(Len(list) - 1) : list'[j] = IF j < m THEN list[j] ELSE list[j + 1]
    BY <2>1, <2>2, Removed
  <2>4. \A j \in 1..Len(list') : j \in 1..Len(list) /\ j + 1 \in 1..Len(list) /\ j + 1 > j
                                /\ list'[j] = IF j < m THEN list[j] ELSE list[j + 1]
    BY <1>0, <2>3 DEF Lens
  <2>5. Below(list', born)
    BY <1>2, <2>4 DEF Below
  <2>6. ASSUME NEW j \in 1..Len(list'), NEW k \in 1..Len(list'), j < k PROVE list'[j] < list'[k]
    <3>1. CASE k < m
      BY <1>0, <1>2, <2>2, <2>4, <2>6, <3>1 DEF Rises, Lens
    <3>2. CASE ~ k < m /\ j < m
      <4>1. j < k + 1
        BY <1>0, <2>4, <2>6 DEF Lens
      <4> QED
        BY <1>2, <2>4, <3>2, <4>1 DEF Rises
    <3>3. CASE ~ k < m /\ ~ j < m
      <4>1. j + 1 < k + 1
        BY <1>0, <2>4, <2>6 DEF Lens
      <4> QED
        BY <1>2, <2>4, <3>3, <4>1 DEF Rises
    <3> QED
      BY <1>0, <2>2, <2>4, <2>6, <3>1, <3>2, <3>3 DEF Lens
  <2>7. \A k \in 1..Len(list') : k > skip => k + 1 > skip
    BY <1>0, <2>4 DEF Lens
  <2>8. \A k \in 1..Len(list') : k > skip => Under(yielded, list'[k]) /\ Under(buffer, list'[k])
    BY <1>2, <2>4, <2>7
  <2> QED
    BY <1>2, <2>2, <2>5, <2>6, <2>8 DEF Rising, Rises
<1>8. CASE UNCHANGED <<list, born, iter>>
  BY <1>2, <1>8 DEF Rising, iter
<1> QED
  BY <1>3, <1>4, <1>5, <1>6, <1>7, <1>8
  DEF Next, NextItem, FetchFails, Stop, All, server, vars

\* Whatever is deleted, no record is yielded twice.
THEOREM NoneIsRepeated == Spec => []NoRepeats
<1>1. TypeOK /\ Rising => NoRepeats
  <2> SUFFICES ASSUME TypeOK, Rising, "insert" \notin changes,
                      NEW j \in DOMAIN yielded, NEW k \in DOMAIN yielded, j # k
               PROVE  yielded[j] # yielded[k]
    BY DEF NoRepeats
  <2>1. j \in 1..Len(yielded) /\ k \in 1..Len(yielded) /\ Len(yielded) \in Nat
    BY LenProperties DEF TypeOK
  <2>2. Rises(yielded) /\ Below(yielded, born) /\ born \in Nat
    BY PaginationAssumption DEF Rising, TypeOK
  <2>3. yielded[j] \in Nat /\ yielded[k] \in Nat
    BY <2>1, <2>2 DEF Below
  <2>4. j < k \/ k < j
    BY <2>1
  <2> QED
    BY <2>1, <2>2, <2>3, <2>4 DEF Rises
<1> QED
  BY <1>1, InitRising, NextRising, TypeCorrect, PTL DEF Spec

-----------------------------------------------------------------------------
(* The end of all()                                                        *)

\* all() can only go on for as long as others add records, whatever MaxItems is.
THEOREM AllIsShrinking == Spec => AllShrinks
<1>1. TypeOK => skip \in Nat /\ Len(list) \in Nat /\ Len(buffer) \in Nat
  BY LenProperties DEF TypeOK
<1>2. TypeOK /\ Deliver => Left' = Left - 1
  <2> SUFFICES ASSUME TypeOK, Deliver PROVE Left' = Left - 1
    OBVIOUS
  <2>1. Len(buffer') = Len(buffer) - 1 /\ skip' = skip /\ list' = list
    BY DeliverItems
  <2> QED
    BY <1>1, <2>1 DEF Left
<1>3. TypeOK /\ FetchItems => Left' = Left - 1
  <2> SUFFICES ASSUME TypeOK, FetchItems PROVE Left' = Left - 1
    OBVIOUS
  <2>1. /\ Len(Page) \in Nat \ {0} /\ buffer = << >> /\ skip + Len(Page) <= Len(list)
        /\ Len(buffer') = Len(Page) - 1 /\ skip' = skip + Len(Page) /\ list' = list
    BY FetchedItems
  <2>2. Len(buffer) = 0
    BY <2>1
  <2> QED
    BY <1>1, <2>1, <2>2 DEF Left
<1>4. TypeOK /\ FetchNothing => call' = "next" /\ ~ (Left' > Left)
  <2> SUFFICES ASSUME TypeOK, FetchNothing PROVE call' = "next" /\ ~ (Left' > Left)
    OBVIOUS
  <2>1. ~ LimitReached /\ call' = "next" /\ skip' = skip + Size /\ buffer' = buffer /\ list' = list
    BY DEF FetchNothing, SkipAfter, server
  <2>2. Size \in Nat
    BY <2>1, SizeType
  <2> QED
    BY <1>1, <2>1, <2>2 DEF Left
<1>5. TypeOK /\ OtherDelete => ~ (Left' > Left)
  <2> SUFFICES ASSUME TypeOK, OtherDelete PROVE ~ (Left' > Left)
    OBVIOUS
  <2>1. list \in Seq(Records) /\ \E k \in 1..Len(list) : list' = RemoveAt(list, k)
    BY LenProperties DEF OtherDelete, TypeOK
  <2>2. PICK k \in 1..Len(list) : list' = RemoveAt(list, k)
    BY <2>1
  <2>3. Len(RemoveAt(list, k)) = Len(list) - 1
    BY <2>1, Removed
  <2>4. Len(list') = Len(list) - 1 /\ skip' = skip /\ buffer' = buffer
    BY <2>2, <2>3 DEF OtherDelete, iter
  <2> QED
    BY <1>1, <2>4 DEF Left
<1>6. TypeOK /\ (FetchFails \/ Stop) => call' = "next"
  BY DEF FetchFails, Stop
<1>7. TypeOK /\ (FetchFails \/ Stop \/ All) => ~ (Left' > Left)
  <2> SUFFICES ASSUME TypeOK, FetchFails \/ Stop \/ All PROVE ~ (Left' > Left)
    OBVIOUS
  <2>1. skip' = skip /\ buffer' = buffer /\ list' = list
    BY DEF FetchFails, Stop, All, server, iter
  <2> QED
    BY <1>1, <2>1 DEF Left
<1>8. TypeOK /\ (Deliver \/ FetchItems) => ~ (Left' > Left)
  <2> SUFFICES ASSUME TypeOK, Deliver \/ FetchItems PROVE ~ (Left' > Left)
    OBVIOUS
  <2>1. Left' = Left - 1 /\ Left \in Int
    BY <1>1, <1>2, <1>3 DEF Left
  <2> QED
    BY <2>1
<1>9. TypeOK /\ [Next]_vars =>
        [/\ call = "all" /\ NextItem => call' = "next" \/ Left' = Left - 1
         /\ Left' > Left => OtherInsert]_vars
  BY <1>2, <1>3, <1>4, <1>5, <1>6, <1>7, <1>8 DEF Next, NextItem
<1> QED
  BY <1>9, TypeCorrect, PTL DEF Spec, AllShrinks
=============================================================================
