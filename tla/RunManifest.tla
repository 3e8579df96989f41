---------------------------- MODULE RunManifest ----------------------------
(***************************************************************************)
(* client.jobs.create_runs_from_manifest(): the document names of a        *)
(* manifest are resolved against the project's list of documents, which    *)
(* other clients change while it is read, and the runs are submitted in    *)
(* chunks, any of which may fail.                                          *)
(***************************************************************************)
EXTENDS Integers, Sequences, FiniteSets, SequencesExt

CONSTANTS
  ManifestRows,  \* manifests: sequences of names, ids and NoDocument
  ChunkSizes, Lists,             \* chunk_size, and lists of documents
  FirstIds,                      \* those documents have ids of 1..FirstIds
  DocumentPage,                  \* documents listed by one request
  MaxCalls, MaxMoves             \* bounds: calls, and changes by other clients

\* The server gives a new document an id of its own.
NewId(n) == FirstIds + n + 1
ASSUME ManifestAssumption ==
  /\ \A m \in ManifestRows : m \in Seq({m[i] : i \in DOMAIN m})
  /\ ChunkSizes \subseteq Int /\ DocumentPage \in Nat \ {0}
  /\ MaxCalls \in Nat \ {0} /\ MaxMoves \in Nat
  /\ FirstIds \in Nat
  /\ \A l \in Lists : /\ l \in Seq([id : 1..FirstIds, name : {l[i].name : i \in DOMAIN l}])
                      /\ \A i, j \in DOMAIN l : l[i].id = l[j].id => i = j

NoDocument  == 0                  \* a row that names no document
DocumentIds == Nat \ {0}
IsId(x)     == x \in DocumentIds      \* what else a row gives is a name
Unknown    == 0

VARIABLES
  docs,                \* the project's documents: ids and names, in the order of the list
  rows, chunk,         \* what the call was given
  at,                  \* the first row that is not submitted yet
  nameToId, ambiguous, skipped,  \* the index, and how far the list was read
  stage, group,        \* what is done next, and the group id: one per call
  runs, told,          \* the runs on the server, by their group id, and the rows of
                       \* those the caller was told of
  verdict,             \* how the call ended
  borne, lasting, moved, moves   \* history: names ever borne; documents unchanged
                                 \* during the call; how places in the list moved
manifestVars == <<docs, rows, chunk, at, nameToId, ambiguous, skipped, stage, group, runs,
                  told, verdict, borne, lasting, moved, moves>>
index   == <<nameToId, ambiguous, skipped>>
history == <<borne, lasting, moved, moves>>

NoIndex == nameToId' = {} /\ ambiguous' = {} /\ skipped' = 0

ManifestInit ==
  /\ docs \in Lists /\ rows \in ManifestRows /\ chunk \in ChunkSizes
  /\ at = 1 /\ nameToId = {} /\ ambiguous = {} /\ skipped = 0
  /\ stage = "call" /\ group = 1 /\ runs = [g \in 1..MaxCalls |-> <<>>] /\ told = <<>>
  /\ verdict = "none"
  /\ borne = ToSet(docs) /\ lasting = ToSet(docs) /\ moved = {} /\ moves = 0

Raise(how) == stage' = "done" /\ verdict' = how
Proceed(s) == stage' = s /\ UNCHANGED verdict

\* chunk_size, the rows and the workflow's inputs; the list is read if a row needs it.
Needed == {rows[i] : i \in DOMAIN rows} \ (DocumentIds \cup {NoDocument})
Begin ==
  /\ stage = "call"
  /\ IF chunk < 1 THEN Raise("value error")
     ELSE \/ Raise("raised")
          \/ Proceed(IF Needed = {} THEN "submit" ELSE "index")
  /\ UNCHANGED <<docs, rows, chunk, at, index, group, runs, told, history>>

\* _document_name_index(): a name that was seen before is ambiguous, also when it
\* is the same document again.
Page  == SubSeq(docs, skipped + 1, IF Len(docs) < skipped + DocumentPage THEN Len(docs)
                                   ELSE skipped + DocumentPage)
Final == skipped + Len(Page) >= Len(docs) \/ Page = <<>>
SeenBefore(n, page) ==
  \/ \E d \in nameToId : d.name = n
  \/ \E i, j \in DOMAIN page : i # j /\ page[i].name = n /\ page[j].name = n
SlipIndexPage ==       \* the last document of a name wins
  /\ stage = "index"
  /\ nameToId' = {d \in nameToId : \A i \in DOMAIN Page : Page[i].name # d.name}
                  \cup {Page[i] : i \in {i \in DOMAIN Page :
                          \A j \in DOMAIN Page : j > i => Page[j].name # Page[i].name}}
  /\ skipped' = skipped + Len(Page) /\ Proceed(IF Final THEN "resolve" ELSE "index")
  /\ UNCHANGED <<docs, rows, chunk, at, ambiguous, group, runs, told, history>>
IndexPage ==
  /\ stage = "index"
  /\ nameToId' = nameToId \cup ToSet(Page)
  /\ ambiguous' = ambiguous \cup {d.name : d \in {p \in ToSet(Page) : SeenBefore(p.name, Page)}}
  /\ skipped' = skipped + Len(Page)
  /\ Proceed(IF Final THEN "resolve" ELSE "index")
  /\ UNCHANGED <<docs, rows, chunk, at, group, runs, told, history>>

\* All rows are resolved before any is submitted.
Lookup(x) == IF x = NoDocument \/ IsId(x) THEN x
             ELSE IF x \in ambiguous \/ ~ \E d \in nameToId : d.name = x THEN Unknown
             ELSE (CHOOSE d \in nameToId : d.name = x).id
Resolves(x) == x = NoDocument \/ Lookup(x) # Unknown
ResolveRows ==
  /\ stage = "resolve"
  /\ IF \A i \in DOMAIN rows : Resolves(rows[i]) THEN Proceed("submit") ELSE Raise("value error")
  /\ UNCHANGED <<docs, rows, chunk, at, index, group, runs, told, history>>

\* One chunk: accepted; refused; or its answer is lost, accepted or not.
NextRows == (IF Len(rows) < at + chunk - 1 THEN Len(rows) ELSE at + chunk - 1) - at + 1
Accepted == [runs EXCEPT ![group] =
               @ \o [i \in 1..NextRows |-> [row |-> at + i - 1, doc |-> Lookup(rows[at + i - 1])]]]
Told     == told \o [i \in 1..NextRows |-> at + i - 1]
SlipSubmit ==          \* a chunk that fails is passed over
  /\ stage = "submit" /\ at <= Len(rows)
  /\ \/ runs' = Accepted /\ told' = Told
     \/ UNCHANGED <<runs, told>>
  /\ at' = at + chunk /\ Proceed("submit")
  /\ UNCHANGED <<docs, rows, chunk, index, group, history>>
Submit ==
  /\ stage = "submit" /\ at <= Len(rows)
  /\ \/ /\ runs' = Accepted /\ told' = Told /\ at' = at + chunk /\ Proceed("submit")
     \/ runs' \in {runs, Accepted} /\ Raise("raised") /\ UNCHANGED <<at, told>>
  /\ UNCHANGED <<docs, rows, chunk, index, group, history>>

Return ==
  /\ stage = "submit" /\ at > Len(rows)
  /\ Raise("returned")
  /\ UNCHANGED <<docs, rows, chunk, at, index, group, runs, told, history>>

\* A request for the workflow or a page of the list fails.
ReadingFails ==
  /\ stage = "index" /\ Raise("raised")
  /\ UNCHANGED <<docs, rows, chunk, at, index, group, runs, told, history>>

\* The caller calls again with the same manifest: a group id of its own.
CallAgain ==
  /\ stage = "done" /\ verdict # "returned" /\ group < MaxCalls
  /\ group' = group + 1 /\ at' = 1 /\ NoIndex /\ told' = <<>>
  /\ stage' = "call" /\ verdict' = "none" /\ borne' = ToSet(docs) /\ lasting' = ToSet(docs)
  /\ moved' = {}
  /\ UNCHANGED <<docs, rows, chunk, runs, moves>>

\* Other clients: the list is ordered by id, so that a new document comes anywhere;
\* its id is new.
OtherClients ==
  /\ stage = "index" /\ moves < MaxMoves /\ moves' = moves + 1
  /\ \E i \in 1..(Len(docs) + 1) :
       \/ \E n \in {d.name : d \in borne} :
            /\ docs' = InsertAt(docs, i, [id |-> NewId(moves), name |-> n])
            /\ moved' = moved \cup (IF i <= Len(docs) THEN {"on"} ELSE {})
       \/ /\ i <= Len(docs) /\ docs' = RemoveAt(docs, i)
          /\ moved' = moved \cup {"back"}
       \/ /\ i <= Len(docs) /\ moved' = moved
          /\ \E n \in {d.name : d \in borne} \ {docs[i].name} :
               docs' = [docs EXCEPT ![i].name = n]
  /\ borne' = borne \cup ToSet(docs') /\ lasting' = lasting \cap ToSet(docs')
  /\ UNCHANGED <<rows, chunk, at, index, stage, group, runs, told, verdict>>

ManifestNext == \/ Begin \/ IndexPage \/ ResolveRows \/ Submit \/ Return \/ ReadingFails
                \/ CallAgain \/ OtherClients

-----------------------------------------------------------------------------
(* A call submits the rows from the first on, in their order and each once,  *)
(* whatever fails: all of them when it returns, telling of every one, none  *)
(* when a row cannot be resolved, and whole chunks when it raises.          *)
Of(g) == runs[g]
RunsArePrefix ==
  /\ \A g \in 1..MaxCalls :
       /\ \A i \in DOMAIN Of(g) : Of(g)[i].row = i
       /\ chunk > 0 => Len(Of(g)) % chunk = 0 \/ Len(Of(g)) = Len(rows)
  /\ verdict = "returned" => /\ Len(Of(group)) = Len(rows)
                             /\ told = [i \in DOMAIN rows |-> i]
  /\ verdict = "value error" => Of(group) = <<>>

(* A run is on the document that its row named: one that bore the name and,  *)
(* unless a deletion hid another, the only one of those that stayed as they *)
(* were during the call (not of those that came to bear it behind the       *)
(* reader); and a name that one document alone bore is found unless the     *)
(* list moved under the reader.                                             *)
Bearers(n, ds) == {d \in ds : d.name = n}
RightDocument ==
  /\ \A i \in DOMAIN Of(group) :
       LET x == rows[i] IN
       (x # NoDocument /\ ~ IsId(x)) =>
         /\ [id |-> Of(group)[i].doc, name |-> x] \in borne
         /\ "back" \notin moved => \A d \in Bearers(x, lasting) : d.id = Of(group)[i].doc
  /\ (verdict = "value error" /\ chunk > 0 /\ moved = {}) =>
       \E n \in Needed : \A d \in lasting : Bearers(n, borne) # {d}
=============================================================================
