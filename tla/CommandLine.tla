---------------------------- MODULE CommandLine ----------------------------
(***************************************************************************)
(* The `ragnerock` command: one invocation of apply, get, delete, query or *)
(* run, from its arguments to its exit code, while other clients create,   *)
(* rename and delete what it looks for.  apply is GitOps; what run --wait   *)
(* does after the job was started is JobRun.                               *)
(***************************************************************************)
EXTENDS GitOps, SequencesExt

CONSTANTS
  Commands,      \* invocations: verb, kind, names and filter
  Worlds,        \* lists of records, by kind
  PageSize, MaxChanges   \* bound: changes by other clients

VARIABLES
  command,
  step,          \* what is done next
  pending,       \* names still to be looked up, with the kind of each
  found,         \* ids found, in order; Missing for a name not found (a name and an
                 \* id are both texts, and numbers here)
  seen, skip,    \* records of the list being read, and how far it was read
  world,         \* the server's records: kind -> sequence of id and name
  deleted, job,  \* the record deleted, and the documents a job was started on
  named, stable, shifted, changes   \* history: names ever borne; records never
                                    \* changed; how the places in the lists moved
cliVars == <<command, step, pending, found, seen, skip, world, deleted, job,
             named, stable, shifted, changes>>

\* Where a kind comes from: session.get/list, or a section of the client that is read
\* by offset, by cursor or at once.  "Listed" stands for one kind of each row.
KindSpec ==
  [k \in {"Document", "Workflow", "Chunk", "Job", "Skill", "WorkflowArtifact", "AIConfig"} |->
     [source |-> CASE k \in {"Document", "Workflow", "Chunk", "Job"} -> "session"
                   [] k = "Skill" -> "offset" [] k = "WorkflowArtifact" -> "cursor"
                   [] k = "AIConfig" -> "whole",
      byName |-> CASE k = "Document" -> "request" [] k = "Workflow" -> "list, then id"
                   [] k \in {"Chunk", "Job"} -> "refused" [] OTHER -> "list",
      deletable |-> k \in {"Document", "Workflow"}]]
Known     == DOMAIN KindSpec
Source(k) == KindSpec[k].source

Missing == 0
Nothing == <<>>
Verbs   == {"apply", "get", "delete", "query", "run"}
Records == [id : Nat \ {Missing}, name : Nat]
Names(k, w) == {[kind |-> k, id |-> w[k][i].id, name |-> w[k][i].name] : i \in DOMAIN w[k]}
AllNames(w) == UNION {Names(k, w) : k \in Known}

\* What the parser of the arguments lets through; and lists without gaps in their ids,
\* which are of one record each, and in their order where a cursor goes by them.
ASSUME CommandAssumption ==
  /\ PageSize \in Nat \ {0} /\ MaxChanges \in Nat
  /\ \A c \in Commands :
       /\ c.verb \in Verbs /\ c.names \in Seq(Nat)
       /\ c.verb = "get" => Len(c.names) <= 1
       /\ c.verb = "delete" => Len(c.names) = 1
       /\ c.verb = "run" => Len(c.names) >= 1
  /\ \A w \in Worlds :
       /\ w \in [Known -> Seq(Records)]
       /\ \A k \in Known : \A i, j \in DOMAIN w[k] :
            /\ w[k][i].id = w[k][j].id => i = j
            /\ Source(k) = "cursor" /\ i < j => w[k][i].id < w[k][j].id
       /\ \A r \in AllNames(w) : r.id <= Cardinality(AllNames(w))

CommandInit ==
  /\ command \in Commands
  /\ IF command.verb = "apply" THEN Init /\ step = "apply"
     ELSE /\ manifest = <<>> /\ environ = {} /\ opts = CHOOSE o \in Options : TRUE
          /\ phase = "off" /\ doc = 1 /\ todo = {} /\ values = {}
          /\ cache = [r \in References |-> 0] /\ current = [r \in References |-> 1]
          /\ masked = {} /\ written = NotWritten /\ server = "nothing"
          /\ failure = "none" /\ exit = Running /\ step = "check"
  /\ world \in (IF command.verb = "apply" THEN {[k \in Known |-> <<>>]} ELSE Worlds)
  /\ pending = <<>> /\ found = <<>> /\ seen = <<>> /\ skip = 0
  /\ deleted = Missing /\ job = Nothing
  /\ named = AllNames(world) /\ stable = AllNames(world) /\ shifted = {} /\ changes = 0

Ends(code, why) ==
  /\ step' = "done" /\ exit' = code /\ failure' = why
Goes(next) == step' = next /\ UNCHANGED <<exit, failure>>
Faults == {"user", "other", "lost", "unreadable"}
Fails(Code(_)) == \E why \in Faults : Ends(Code(why), why)
Uncaught(why) == Traceback
\* get catches what its requests raise; delete, query and run let it pass.
SlipCodeOf(why) == Uncaught(why)      \* not get either
CodeOf(why) == IF command.verb = "get" THEN ExitCodeFor(why) ELSE Uncaught(why)

apply    == <<manifest, environ, opts, phase, doc, todo, values, cache, current, masked,
              written, server>>
others   == <<named, stable, shifted, changes>>
effects  == <<deleted, job>>
lookup   == <<pending, found, seen, skip>>

-----------------------------------------------------------------------------
(* The arguments, before anything is sent; a client-backed kind refuses a     *)
(* well-formed filter later.                                                 *)
UnknownKind  == command.verb \in {"get", "delete"} /\ command.kind \notin Known
NotDeletable == command.verb = "delete" /\ command.kind \in Known /\ ~ KindSpec[command.kind].deletable
NoDocuments  == command.verb = "run" /\ Len(command.names) < 2
Malformed    == command.filter = "malformed" /\ command.kind \in Known

Check ==
  /\ step = "check"
  /\ \/ (UnknownKind \/ NotDeletable) /\ Ends(1, "none")
     \/ (NoDocuments \/ Malformed) /\ Ends(2, "none")
     \/ ~ (UnknownKind \/ NotDeletable \/ NoDocuments \/ Malformed) /\ Goes("open")
  /\ UNCHANGED <<apply, command, lookup, world, effects, others>>

\* open_session(): the configuration, the login and the project.
Open ==
  /\ step = "open"
  /\ \/ Ends(1, "none") /\ pending' = pending
     \/ Fails(Uncaught) /\ pending' = pending
     \/ /\ Goes(IF command.verb = "query" THEN "query"
                ELSE IF command.names = <<>> THEN "list" ELSE "find")
        /\ pending' = [i \in DOMAIN command.names |->
                         [name |-> command.names[i],
                          kind |-> IF command.verb # "run" THEN command.kind
                                   ELSE IF i = 1 THEN "Workflow" ELSE "Document"]]
  /\ UNCHANGED <<apply, command, found, seen, skip, world, effects, others>>

-----------------------------------------------------------------------------
(* Reading a list: PaginatedIterator, _paged(), _list_artifacts(), and the   *)
(* lists of an account, which come in one answer.                           *)
Reading == IF step = "list" THEN command.kind ELSE Head(pending).kind
\* Where a page begins: a cursor goes on behind the last id that it gave.
Start(k) ==
  IF Source(k) # "cursor" THEN skip
  ELSE LET last == IF seen = <<>> THEN 0 ELSE seen[Len(seen)].id
       IN CHOOSE n \in 0..Len(world[k]) :
            \A i \in DOMAIN world[k] : i <= n <=> world[k][i].id <= last
Batch(k) ==
  IF Source(k) = "whole" THEN world[k]
  ELSE SubSeq(world[k], Start(k) + 1,
              IF Len(world[k]) < Start(k) + PageSize THEN Len(world[k]) ELSE Start(k) + PageSize)
SlipLastPage(k, batch) == skip + Len(batch) > Len(world[k])   \* off by one
LastPage(k, batch) ==
  \/ Source(k) = "whole"
  \/ Start(k) + Len(batch) >= Len(world[k])
  \/ Source(k) = "offset" /\ Len(batch) < PageSize
  \/ Source(k) = "session" /\ batch = <<>>

\* The id of the first of some places of a list.
First(s, places) ==
  IF places = {} THEN Missing
  ELSE s[CHOOSE i \in places : \A j \in places : i <= j].id
\* _match_name(): a name of any record before an id of any.  session.get looks at names.
Match(s, k, name) ==
  LET byName == First(s, {i \in DOMAIN s : s[i].name = name})
  IN IF byName # Missing \/ KindSpec[k].byName # "list" THEN byName
     ELSE First(s, {i \in DOMAIN s : s[i].id = name})

\* The name looked up first was found, or not: run stops without a workflow, and
\* without any document only when all of them were looked up.
SlipResolve(id) ==     \* the documents that were found will do
  /\ found' = IF id = Missing THEN found ELSE Append(found, id)
  /\ pending' = Tail(pending) /\ seen' = <<>> /\ skip' = 0
  /\ IF id = Missing /\ (command.verb # "run" \/ found = <<>>) THEN Ends(1, "none")
     ELSE IF Len(pending) > 1 THEN Goes("find")
     ELSE IF command.verb = "get" THEN Ends(0, "none")
     ELSE Goes(command.verb)
Resolve(id) ==
  /\ found' = Append(found, id)
  /\ pending' = Tail(pending) /\ seen' = <<>> /\ skip' = 0
  /\ IF id = Missing /\ (command.verb # "run" \/ found = <<>>) THEN Ends(1, "none")
     ELSE IF Len(pending) > 1 THEN Goes("find")
     ELSE IF command.verb = "get" THEN Ends(0, "none")
     ELSE IF Missing \in {found'[i] : i \in DOMAIN found'} THEN Ends(1, "none")
     ELSE Goes(command.verb)

\* A lookup or a list that cannot be: no name, no filter, or one too many.
Refused ==
  /\ step \in {"find", "list"}
  /\ \/ step = "find" /\ KindSpec[Reading].byName = "refused" /\ Ends(1, "none")
     \/ Source(Reading) # "session" /\ command.filter = "given" /\ Ends(1, "none")
     \/ step = "list" /\ Reading = "Chunk" /\ command.filter = "none" /\ Ends(1, "none")
  /\ UNCHANGED <<apply, command, lookup, world, effects, others>>
Filtered   == Source(Reading) = "session" \/ command.filter = "none"
Listing    == step = "list" /\ Filtered /\ (Reading = "Chunk" => command.filter = "given")
Searching  == step = "find" /\ Filtered /\ KindSpec[Reading].byName \in {"list", "list, then id"}
Asking     == step = "find" /\ KindSpec[Reading].byName = "request"

SlipReadPage ==        \* a record lost between two pages goes unnoticed, and one more
  /\ Listing
  /\ LET batch == Batch(Reading)
     IN /\ seen' = seen \o batch /\ skip' = skip + Len(batch) + 1
        /\ IF LastPage(Reading, batch) THEN Ends(0, "none") ELSE Goes("list")
  /\ UNCHANGED <<apply, command, pending, found, world, effects, others>>
ReadPage ==
  /\ Listing
  /\ LET batch == Batch(Reading)
     IN /\ seen' = seen \o batch /\ skip' = skip + Len(batch)
        /\ IF LastPage(Reading, batch) THEN Ends(0, "none") ELSE Goes("list")
  /\ UNCHANGED <<apply, command, pending, found, world, effects, others>>

\* A lookup in a list reads all of it before it looks for the name; session.get then
\* fetches the record by its id.
SearchPage ==
  /\ Searching
  /\ LET k       == Reading
         batch   == Batch(k)
         id      == Match(seen \o batch, k, Head(pending).name)
         byItsId == KindSpec[k].byName = "list, then id" /\ id # Missing
     IN \/ /\ ~ LastPage(k, batch)
           /\ seen' = seen \o batch /\ skip' = skip + Len(batch)
           /\ Goes("find") /\ UNCHANGED <<pending, found>>
        \/ /\ LastPage(k, batch) /\ byItsId
           /\ found' = Append(found, id) /\ Goes("fetch") /\ UNCHANGED <<pending, seen, skip>>
        \/ LastPage(k, batch) /\ ~ byItsId /\ Resolve(id)
  /\ UNCHANGED <<apply, command, world, effects, others>>

\* The record found in the list is fetched by its id, and may be gone.
Fetched ==
  /\ step = "fetch"
  /\ LET id == found[Len(found)]
         is == \E r \in Names(Head(pending).kind, world) : r.id = id
     IN /\ found' = [found EXCEPT ![Len(found)] = IF is THEN id ELSE Missing]
        /\ pending' = Tail(pending) /\ seen' = <<>> /\ skip' = 0
        /\ IF ~ is THEN Ends(1, "none")
           ELSE IF Len(pending) > 1 THEN Goes("find")
           ELSE IF command.verb = "get" THEN Ends(0, "none") ELSE Goes(command.verb)
  /\ UNCHANGED <<apply, command, world, effects, others>>

\* documents.get_by_name()
Ask ==
  /\ Asking
  /\ Resolve(Match(world[Reading], Reading, Head(pending).name))
  /\ UNCHANGED <<apply, command, world, effects, others>>

RequestFails ==
  /\ Listing \/ Searching \/ Asking \/ step = "fetch"
  /\ Fails(CodeOf)
  /\ UNCHANGED <<apply, command, lookup, world, effects, others>>

-----------------------------------------------------------------------------
(* What the command is for, once everything was looked up. *)
Query ==
  /\ step = "query"
  /\ Ends(0, "none") \/ Fails(Uncaught)
  /\ UNCHANGED <<apply, command, lookup, world, effects, others>>

Without(s, id) == RemoveAt(s, CHOOSE i \in DOMAIN s : s[i].id = id)
Exists(k, id)  == \E r \in Names(k, world) : r.id = id
Removed(k, id) ==
  /\ world' = [world EXCEPT ![k] = Without(@, id)]
  /\ stable' = {r \in stable : r.kind # k \/ r.id # id}
  /\ shifted' = shifted \cup {"back"}
  /\ UNCHANGED <<named, changes>>

\* session.delete() and commit(): the request names the id; it is done, refused (the
\* record is gone, say), or done or not with its answer lost.
Delete ==
  /\ step = "delete"
  /\ \/ /\ Exists(command.kind, found[1]) /\ Ends(0, "none")
        /\ deleted' = found[1] /\ Removed(command.kind, found[1])
     \/ \E why \in Faults \ {"unreadable"} :      \* the answer has no body
          Ends(Uncaught(why), why) /\ UNCHANGED <<deleted, world, others>>
     \/ /\ Exists(command.kind, found[1]) /\ Ends(Uncaught("lost"), "lost")
        /\ deleted' = found[1] /\ Removed(command.kind, found[1])
  /\ UNCHANGED <<apply, command, lookup, job>>

\* session.run()
Run ==
  /\ step = "run"
  /\ \/ /\ \A i \in 2..Len(found) : Exists("Document", found[i])
        /\ job' = found
        /\ Ends(0, "none") \/ \E why \in {"lost", "unreadable"} : Ends(Uncaught(why), why)
     \/ Fails(Uncaught) /\ job' = job
  /\ UNCHANGED <<apply, command, lookup, world, deleted, others>>

-----------------------------------------------------------------------------
(* Other clients.  A list has the newest record last or, unless a cursor     *)
(* orders it, first: then the records behind it move on by one place, as     *)
(* those behind a deleted one move back.                                     *)
Change(k, s) ==
  /\ world' = [world EXCEPT ![k] = s]
  /\ named' = named \cup Names(k, world') /\ stable' = stable \cap (AllNames(world'))
  /\ changes' = changes + 1
  /\ UNCHANGED <<apply, failure, exit, command, step, lookup, effects>>
Meanwhile == exit = Running /\ step \notin {"apply", "check", "open"} /\ changes < MaxChanges

NewId == 1 + Cardinality(named)
OtherCreates ==
  /\ Meanwhile
  /\ \E k \in {r.kind : r \in named}, n \in {r.name : r \in named} :
       LET new == [id |-> NewId, name |-> n]
       IN \/ Change(k, Append(world[k], new)) /\ UNCHANGED shifted
          \/ /\ Source(k) # "cursor" /\ Change(k, <<new>> \o world[k])
             /\ shifted' = shifted \cup {"on"}
OtherRemoves ==
  /\ Meanwhile
  /\ \E k \in Known : \E i \in DOMAIN world[k] : Change(k, RemoveAt(world[k], i))
  /\ shifted' = shifted \cup {"back"}
OtherRenames ==
  /\ Meanwhile
  /\ \E k \in Known : \E i \in DOMAIN world[k], n \in {r.name : r \in named} :
       n # world[k][i].name /\ Change(k, [world[k] EXCEPT ![i].name = n])
  /\ UNCHANGED shifted

Apply == step = "apply" /\ Next /\ UNCHANGED cliVars

CommandStep == \/ Check \/ Open \/ Refused \/ ReadPage \/ SearchPage \/ Fetched \/ Ask
               \/ Query \/ Delete \/ Run
CommandNext == Apply \/ CommandStep \/ RequestFails \/ OtherCreates \/ OtherRemoves \/ OtherRenames

CommandSpec == CommandInit /\ [][CommandNext]_<<vars, cliVars>>
               /\ WF_<<vars, cliVars>>(CommandStep) /\ WF_<<vars, cliVars>>(Step /\ UNCHANGED cliVars)

-----------------------------------------------------------------------------
(* "Not found" is true: no record kept the name during the whole command,   *)
(* unless a deletion moved a list that is read by offset.  And a list that   *)
(* was printed has every record that was there all the time, but for that   *)
(* case, and none of them twice but for a creation that moved such a list.  *)
Offsets(k)  == Source(k) \in {"session", "offset"}
ByOffset(k) == Offsets(k) /\ KindSpec[k].byName # "request"
LookupsAreWhole ==
  /\ \A i \in DOMAIN found :
       (step = "done" /\ found[i] = Missing) =>
         LET k == IF command.verb = "run" /\ i > 1 THEN "Document"
                  ELSE IF command.verb = "run" THEN "Workflow" ELSE command.kind
         IN \/ \A r \in stable : ~ (r.kind = k /\ r.name = command.names[i])
            \/ ByOffset(k) /\ "back" \in shifted
  /\ (command.verb = "get" /\ command.names = <<>> /\ exit = 0) =>
       LET k    == command.kind
           read == {seen[i].id : i \in DOMAIN seen}
       IN /\ \A r \in stable : r.kind = k /\ r.id \notin read => Offsets(k) /\ "back" \in shifted
          /\ Cardinality(read) < Len(seen) => Offsets(k) /\ "on" \in shifted

(* delete and run act on what was named: on a record that bore the name at   *)
(* some moment of the command, on one for every name, and on nothing when   *)
(* a name was not found.                                                    *)
Bore(k, id, name) == [kind |-> k, id |-> id, name |-> name] \in named
ActsOnTheNamed ==
  /\ deleted # Missing => Bore(command.kind, deleted, command.names[1])
  /\ job # Nothing =>
       /\ Len(job) = Len(command.names) /\ Bore("Workflow", job[1], command.names[1])
       /\ \A i \in 2..Len(job) : Bore("Document", job[i], command.names[i])

(* An exit code of 0 means done: nothing failed, the record is gone, the job *)
(* is started.  An exit code of 2 of arguments that are no good means that  *)
(* nothing was done.  And of a failed request: get exits with 1 for what the*)
(* user got wrong and with 2 for everything else, once it is logged in;     *)
(* until then, and in the other commands, every failure is a traceback and 1*)
DoneIsDone ==
  (command.verb # "apply" /\ step = "done") =>
    /\ exit = 0 => /\ failure = "none"
                   /\ command.verb = "delete" => ~ Exists(command.kind, deleted) /\ deleted # Missing
                   /\ command.verb = "run" => job # Nothing
    /\ (exit = 2 /\ failure = "none") => deleted = Missing /\ job = Nothing
FailureIsTold ==
  (command.verb # "apply" /\ failure' # failure) =>
    exit' = IF command.verb = "get" /\ step # "open" /\ failure' # "user" THEN 2 ELSE 1
CodesTell == []DoneIsDone /\ [][FailureIsTold]_<<vars, cliVars>>

(* Every command ends, also when no request fails and other clients change  *)
(* the lists while they are read, if they stop at some time (MaxChanges): a *)
(* list that grows as fast as it is read is read for ever.                  *)
CommandEnds == <>(exit # Running)
=============================================================================
