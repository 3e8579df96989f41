# A TLA+ model of ragnerock-sdk

Specifications of the Python SDK and command line in `src/ragnerock`, the TLC
configurations that check them on small instances, and TLAPS proofs of what holds
for every instance. Every definition is translated from the code; `PROJECT.json`
names, for each, the file, the lines and the symbol it stands for, and lists the
runs, the theorems, the hazards of the code and the places where the code and its
documentation disagree.

## 1. The system

The SDK is synchronous. A caller holds Python objects that mirror records of a
remote API; every call that touches the API is one or more HTTP requests made by
the caller's thread. Nothing in the SDK runs concurrently with itself, and nothing
is persisted. What makes it hard is the world around it: the server works on jobs
while the caller sleeps, other clients change the same records between any two
requests, requests fail and their answers get lost, and the API has no transactions,
so that everything of several steps can stop in the middle.

| Component | State it keeps | Operations | Talks to | What is hard | Modules |
|---|---|---|---|---|---|
| Unit of work (`session.py`) | staging queue per session; identity and fields of the caller's objects | `add`, `update`, `delete`, `commit`, `rollback`, `refresh`, `get`, end of `with` | endpoint clients, resources | a batch that stops midway, lost answers, interrupts, two sessions, other clients | `UnitOfWork`, `StagedWrites` |
| Paginated iterator (`iterator.py`) | buffer, offset, last total, count, exhausted flag | `__next__`, `limit`, `all` | list endpoints | the list changes between pages, short pages, a failed page | `Pagination` |
| Job handles (`resources/job.py`, `cli/commands/run.py`) | the job's status as last seen | `wait`, `refresh`, `cancel`, `retry`; exit code | job endpoints, a clock | deadline against answer, stale status, a call of two requests | `JobRun` |
| Engine and HTTP transport (`engine.py`, `client/_client.py`, `client/auth.py`) | token, connected flag, project id | lazy connect, request with retries on 429, streaming request | the API | half a connection, repeated writes, held connections | `Connection` |
| Workflow wiring (`resources/workflow.py`) | edge lists on both nodes of an edge | `add_node`, `>>`, node updates and deletes | unit of work | one edge is two requests; stale whole-list updates | `WorkflowWiring` |
| GitOps (`gitops/`, `cli/commands/apply.py`) | resolved values, cache of fetched secrets, masked values | load, resolve, mask, seal, upload | secret stores, sealing-key endpoint, environment | dry run against real run, several branches to the upload, a secret that rotates | `GitOps` |
| Command line (`cli/`) | what was looked up so far | `get`, `delete`, `query`, `run`, `apply` | session, client sections | names looked up in lists that change, one exit code for many failures | `CommandLine` |
| Manifest runs (`client/jobs.py`) | group id, index of names, chunks submitted | `create_runs_from_manifest` | job endpoints, document list | a chunk that fails, an index read while the list changes | `RunManifest` |
| Endpoint clients (`client/*.py`) | none of their own | build a body, send it, validate an answer | transport | absent, null and default; partial and replacing updates; an update of two requests | `Endpoints`, `Records` |
| Condition compiler (`resources/condition.py`) | none | `compile_condition` | `add_node` | nested implicit conjunctions, list operations, refusals | `ConditionCompiler` |
| Connection strings (`engine.py`, `cli/config.py`) | the environment | choose credentials, build, parse | engine | reserved characters, precedence of variables | `ConnectionStrings` |
| Streaming answers (`client/_base.py`, `assignments.py`, `notebooks.py`) | data lines of the event begun | read a line, end, break off | streaming request | an answer that breaks off anywhere | `EventStreams` |
| Resources, query results, errors, output | data | none that change state | | | not modelled |

What must be right of each: staged operations are neither lost nor repeated, and a
failure tells exactly how far a batch got; a walk over a list yields what it
promises under the changes it can survive and ends when they do; `wait()` ends in time
and tells the truth; a write is sent once, a retry keeps its budget, and a
connection is whole or absent; an edge is on both of its nodes or on none; no secret
leaves in the clear and every key gets one value; a command acts on what was named
and its exit code is true; a manifest runs from its first row on and each row once;
a record holds what was asked for and nothing that was not mentioned changes; a
condition, a connection string and an event mean what they say.

## 2. Modules

Each component has a specification with its properties, an `MC` module with the
values TLC needs, and, where something is proved, a `Proofs` module with the theorems.
Definitions whose name starts with `Slip` are deliberately wrong variants of the
definition that follows them (a dropped guard, a missed assignment). No specification
uses them; putting one in place of the right definition makes the property it is
meant for fail, which is how the project makes sure that each property can.

```
StagedWrites <--implements-- UnitOfWork          Clients     = RunManifest + Records (over Endpoints)
Pagination   JobRun   Connection                              + EventStreams + ConnectionStrings
WorkflowWiring (over the steps of a commit)      ConditionCompiler
                                                 CommandLine = GitOps + the other commands
```

### UnitOfWork and StagedWrites

`UnitOfWork` keeps the two copies of each record: the objects (`id`, `val`, `ready`)
and the server's records (`server`, `nextId`). `staged[s]` is `_pending.ops` of a
session. Each staging call is an action with the checks of the code as guards
(classes accepted, identity present or absent, not yet staged). `commit()` is a loop
of two steps per operation: the request is served (`ServerCreate`, `ServerUpdate`,
`ServerDelete`), and its answer is copied to the object (`ReplyNext`, `ReplyLast`;
`Hydrate` is `_copy_fields`). In between the answer may be lost (`ReplyLost`), the
thread interrupted (`Interrupt`), or another client may write. `RequestFails` and
`CreateInvalid` end the loop before the request; `CommitRefused` is the precheck that
leaves the queue alone. `Abort` is the `except Exception` clause, which an interrupt
passes by. The fields of a resource are one value, and required fields one flag.

Session objects interleave between calls only: while a commit runs (`phase`) no
other call of the process starts.

`StagedWrites` is what a caller may rely on, with every call in one step: staging
neither loses nor repeats, `commit()` carries out a prefix of the queue in order,
empties it and reports the split. `UnitOfWork` implements it under the mapping
`queue <- staged, result <- report`.

### Pagination

`list` is the server's list, `buffer`, `skip`, `total`, `exhausted` and `cap` are the
fields of the iterator, and `yielded` what it has returned. `Deliver`, `FetchItems`,
`FetchNothing`, `FetchFails` and `Stop` are the ways through `__next__`; `All` starts
`all()`, which is `list(iter(self))` and therefore continues where the iterator
stands. The server may make pages shorter than asked for (`Cap`). Other clients
append, insert and delete; `changes` records which of these happened, and the
properties say under which changes they hold.

### JobRun

The server moves each job through `NOT_STARTED`, `IN_PROGRESS`, `SUCCEEDED` or
`FAILED`; `seen` is the status in the caller's `Job`. `wait()` is `check` (look at the
status, then at the clock), `sleep`, `ask`, `answer`. `Tick` lets time pass while the
caller sleeps or waits for an answer, so that the server can act in between. The
snapshot of the status is taken when the request is served and read when the answer
arrives. `cancel()` and `retry()` are a request and a refresh, each of which may
fail. `Callers` says who waits: a program, which may call again and again, or
`ragnerock run --wait`, which waits once and leaves by `Exit` with its exit code.

### Connection

A call goes through up to three requests: log in, look the project up, and its own.
`Answer` and `Lost` are the server and the network, `Sleep`/`Wake` the pause before a
retry, `Raises` is `raise_for_status`. Login posts past the retrying request.
A streaming call holds a connection (`open`) from its answer until the `with` block is
left; `Sleep` comes after that. Pauses have no length here. An error that is neither a
refusal nor a 429 leaves open whether a write was carried out (`Perhaps`), as a lost
answer does; neither is sent again.

### WorkflowWiring

The lists `ins`, `outs` of the objects and `inOf`, `outOf` of the server are sets, as the
code removes duplicates. `Wire` is `_wire`; `a >> [b, c]` and `a >> b >> c` are several
of it. The unit of work appears as in `StagedWrites`, but request by request, since a
half-written edge is what this module is about. A `Load` of a node the program holds
already makes a second object of it, as `session.get` and the answer of a workflow
update do. The server is external: an update replaces both lists by those sent
(`client/workflows.py` says so of the endpoint), and a deletion takes the node out
and either joins its neighbours or not ("rewires").

### GitOps and CommandLine

`GitOps` is `ragnerock apply` from its sources to the exit code. A manifest set is a
sequence of Secret documents; a document is the set of source fields its author wrote
and the entries in them, in the order in which the code reads the sources. A value is
known by where it came from and, for a cloud secret, by the version that was read, so
that `Rotate` (the secret changes meanwhile) can be told from reading it once. `Load`
and `LoadFails` read the sources, `BeginDocument` makes the checks that come before
anything is fetched, `Fetch` and `FetchFails` are one cloud reference each with the
cache in between, `NextDocument` finishes a document, `Render` is the dry run, `Mask`
hides the values from the log of GitHub Actions, `ServerKey` asks for the sealing key,
`Seal` writes the sealed document, `Upload` sends it. `Pinned` is the truth of the pinned
key, which the text of an empty file does not have. An entry says in which versions its
value has fewer than the four characters that masking asks for (`Short`; the lines of a
longer value are not told apart). A request may be refused, lost, or answered with a
body that cannot be read, after the server did what it was asked. The three cloud
providers are one, and the cipher is a given: `written` says who could read what was
written.

`CommandLine` adds the other commands. `Check` and `Open` are the refusals before any
request and the opening of the session, `ReadPage` and `SearchPage` read a list of one
kind page by page, by offset, by cursor or at once (`KindSpec` says which kind is read
how; a lookup reads the list to its end before it looks), `Fetched` and `Ask` are the single requests, `Delete`, `Run` and `Query` the last
one. Other clients create, remove and rename records between any two of them.

### RunManifest, Endpoints, Records and Clients

`RunManifest` is `create_runs_from_manifest()`: `Begin` refuses what needs no request,
`IndexPage` reads the documents page by page into `nameToId` and `ambiguous`, `ResolveRows`
refuses names that are unknown or ambiguous, and `Submit` sends a chunk, which may be
refused or served with its answer lost. `CallAgain` submits the manifest again, under a
new group id.

`Endpoints` describes every method of `client/` that writes a record by the fields it
sends in any case, those that `None` leaves alone, those that `UNSET` leaves alone and
`None` clears, and by what the server makes of a field that is not sent. (One
field, the `data` of a new artifact, is sent in every request, as null when it is `None`:
it is among those always sent and among those `None` clears.) `Records`
takes it from what a caller wants (`Wishes`) over the arguments and the body
(`Arguments`, `Body`) and, for the one method that sends two requests, its parts
(`Parts`) to the record, with two callers at once, refusals and lost answers.
`EventStreams` is a streamed answer, line by line. The server writes events of one or
several data lines, with blank lines between them and comments anywhere, and of kinds
the SDK may not know; `ReadLine` is one turn of the loop of `_iter_sse_data()` or
`_iter_ndjson_or_text()`, `Closed` the end of the answer, be it inside a line, and `Broken`
the error `httpx` raises. A line knows the event and the part of it that it carries, so
that text which is no JSON can be told from an event.

`ConnectionStrings` is `Configure`: from the environment over the text that
`cli/config.py` puts together (`Assemble`, `FromEnvironment`) and `urlparse` (`UrlParse`) to
what `parse_connection_string()` makes of it (`Parse`), which refuses another scheme than
`ragnerock`, or none. A text is a sequence of words, each
with the number of times it is percent-encoded; the characters URLs reserve are words of
their own, so that every border can move.

`Clients` is a program that does one of these four.

### ConditionCompiler

`ConditionCompiler` is `compile_condition()` (`Compile`, from `CompileMapping`,
`CompileEntry`, `CompileLogical` and `CompileField`) and, written apart from it, what the
dialect means (`WellFormedOver`, `Means`) and what the API's grammar means (`Holds`). Each is a
recursive function of the depth of nesting, whose value is a function of everything
nested up to that depth. A mapping is the sequence of its entries. Its state is one
condition and what it is compiled to. What the API makes of a comparison or list operation
(`Compares`, over `Comparisons` and `ListOperations`) is stated by the API's own symbols and not
through the compiler's tables `ServerOf` and `ListOp`, so that a wrong entry there would show.

## 3. What the runs show

| Run | Shows |
|---|---|
| `uow_faults` | One session, objects of two classes, mixed batches of up to three operations, two field values, and every fault: exact reports, and that a returned `commit()` leaves object and record equal unless another client intervened |
| `uow_shared` | Two sessions staging the same objects: `commit()` implements `StagedWrites`, and always ends |
| `uow_alone` | Three classes, one session, no lost answers and no interrupts: no record is orphaned and no delete is swallowed |
| `pagination` | Five records ever, page size three, server pages of two, limits of zero, one, three and none: order, completeness, nothing missed, no repeats, and the end of `all()` when others stop inserting |
| `jobs` | One job, a program or the command, timeouts of zero, less than a poll, a poll, several and none, requests up to two ticks, failures and other clients: how long `wait()` takes, no false timeout, true outcome and exit code, and its end |
| `job_cli` | The exit code of the command for two documents (a disagreement, below) |
| `conn_retries` | All kinds of calls with two retries, lost answers, 429, revoked tokens and ambiguous names: writes, connections and scope, and the end of every call |
| `conn_header` | A `Retry-After` that cannot be parsed (a disagreement, below) |
| `wiring` | A chain of two edges over created, loaded and doubly held nodes, with failures, deletions, rollbacks and another client: edges of a returned commit are whole, and half an edge is left only where it must be expected |
| `cli` | Every kind of invocation: six manifest sets with every option for `apply`, four ways to list and four to look a name up for the rest, with one change by another client, rotating cloud secrets, every pin of the sealing key, values too short to mask, and a failure of any request or of reading its answer |
| `clients` | Every pair of calls of any two write methods on a record of each kind, with refusals and lost answers; manifests of up to three rows over two pages of documents, submitted twice; streamed answers of up to three events of up to three lines, ended at every place; and some five thousand environments and connection strings with a reserved character in every part |
| `conditions` | Some three thousand conditions of up to three levels of operators, each in nine contexts |

Every variable that could grow is bounded by a named constant, and the bounds allow
what the properties are about:

- `MaxId`, `MaxStaged` (unit of work, wiring): an operation before and after the failing
  one, an update between a create and a delete of one record, an edge rolled back,
  wired again and committed. `WorkflowWiring` was also run once with three nodes
  (15 million states); the configuration kept uses two and a third object, which already gives every
  interleaving of two edges that share a node.
- `MaxItems`, `Cap`, `Limits` (iterator): more than one page with a change before, between
  and after them, limits that end inside, at and after a page.
- `Poll`, `Latency`, `Timeouts` (jobs): a deadline before, at and after a poll, and an
  answer on its way at the deadline.
- `MaxRetries` (connection): the whole budget and the retry after it.
- `MaxVersion` (secrets): a reference rotated between any two reads of it.
- `PageSize`, `MaxChanges`, `DocumentPage`, `MaxMoves` (lists that are read by pages): one
  change before, between or after two pages is what shifts a record from one to the
  other.
- `MaxCalls`, `ChunkSizes` (manifests): a second submission, chunks of one and two rows
  and the refused size of zero.
- `MaxEvents`, `MaxLines`, `EventKinds` (streams): an event of several lines between two
  others, one of a kind that is skipped, and a cut at each place of each.
- `Environments` (configuration): every reserved character in every part, encoded or not,
  where it is read as it was meant and where it moves a border.
- `MaxDepth` (conditions): the nesting of the deepest condition of the run, lists and
  mappings counted.
- `Watched` (records): one or two fields of each group that a method treats alike; a
  field that is not watched is treated as the others of its group.

### Fairness

Safety needs none. `CommitReturns`, `AllReturns`, `WaitEnds`, `CallEnds` and `CommandEnds`
assume weak fairness of the one thread's next step: HTTP requests end because the client
sets a timeout (`client/_client.py`), `time.sleep` ends, and the calls are loops without
yields to anything else. `WaitEnds` also assumes that the server gets on with a job
that it can start or finish, and that the clock ticks; without a timeout and with
other clients that keep requeueing the job, `wait()` may really never end, and the
property says so. `all()` need not end either while others insert as fast as it reads:
in the model `MaxItems` ends the insertions, and `AllReturns` says so (it ends if they do).
What does not depend on that bound is its first part, `AllShrinks`: every page leaves less
to read, and nobody but an insertion puts any more there. `CommandEnds` has the same
condition: `MaxChanges` ends the changes of other clients. `CallEnds` assumes that the caller reads a stream to its end or
leaves it. `CommandEnds` has two conjuncts, for the steps of `apply` and for those of the
other commands; neither changes of other clients nor failures are assumed fair.

### Where the code and its documentation disagree

Shown by a run (`findings` in `PROJECT.json` quotes the lines):

- `job_cli`: `ragnerock run --wait` waits for the job of the first document only
  (`session.run` keeps `job_ids[0]`).
- `conn_header`: an unreadable `Retry-After` raises `ValueError` instead of counting as absent.

Met while modelling, and visible in the models as actions or as conditions of properties:

- The queue is flushed in the order of staging (`session.py:966`); `docs/source/sessions.md:21`
  promises adds, then updates, then deletes.
- After a `KeyboardInterrupt` in `commit()` the creations already carried out are still
  queued (`session.py:975` catches `Exception`), and `delete()` of such an object only
  unstages it. `DeleteIsNotLost` therefore needs a run without interrupts.
- What `CommitError` calls `pending` may have been written when an answer was lost: `ReportExact`
  allows the first pending operation to have reached the server.
- Two sessions that stage the same object create it twice; `CreateOnlyUnpersisted` is proved
  for a single one.
- `WaitBound` allows one poll and one request beyond the timeout, which the docstring
  calls the maximum; `NoFalseTimeout` allows a job that ended within one request of
  the timeout to be reported as timed out.
- `WaitTellsOutcome` excepts a `retry()` that raised after its request: the `Job` keeps
  the old terminal status and the next `wait()` returns at once.
- `YieldsInOrder` and `NothingMissed` need that nothing is deleted: a deletion before the
  offset makes the walk skip a record that is still there. `LookupsAreWhole` has the same
  condition, for which a name can be "not found" although a record bears it all the time.
- A first call by id (`get`, `update`) does not connect the engine and is sent without a
  token; a login answered with 429 is not retried; of several projects with the
  configured name the first is taken (`Call`, `LoginFails`, `ProjectFound` in `Connection`).
- `HalvesMeet` excepts rolled back edges: the objects keep them, and a later update of
  one node sends its half.
- The variables of the environment are not encoded when they are put into a connection
  string, except for the token (`cli/config.py:168`). An email that contains `:` or is
  the word `token`, and a password with an `@` before a `/` or `?`, are therefore accepted as
  something else: of `RAGNEROCK_PASSWORD=a@b/c` the host is `b`. `AcceptedAsGiven` excepts
  these (`Ambiguous`). A project that contains `?` or `#` is cut off there. The password of
  a connection string is never decoded, although `docs/source/connecting.md:38` has it
  encoded (`Parse`). With both a token and an email the engine refuses; the command line
  lets the token win.
- A `RAGNEROCK_HOST` with an invalid port ends the command with `ValueError` where the
  other misconfigurations are a `ConfigError` (`FromEnvironment`).
- `docs/source/cli.md:107` and `:216`, `docs/source/gitops.md:168` and the docstring of
  `cli/errors.py` give every failure of the server or the network exit code 2. Only `get`
  and `apply` map it, and not everywhere. `CodesTell` says where: `get` once it is logged in;
  a failed login, and whatever fails in `delete`, `query` or `run`, ends with a traceback
  and 1. `ExitTells` says where for `apply`: a refusal anywhere, and a lost upload. A network
  error at the login or while the sealing key is asked for ends with 1
  (`Connect`, `ServerKey`), and so does a successful answer whose body cannot be read, also
  when the server has applied the manifest (`Upload`; `client/gitops.py:139`).
- "A pinned key is never reconciled against what the server says"
  (`docs/source/gitops.md:133`): when `--sealing-public-key @file` names an empty file,
  `_read_pem` gives an empty text, `prepare_manifest` tests its truth
  (`gitops/apply.py:195`), and the values are sealed to the key that the server sends
  (`Pinned`; `NothingInTheClear` names the case).
- Values of fewer than four characters are not masked (`gitops/apply.py:97`, and the docstring
  of `mask_in_github_actions` says so); `NothingInTheClear` is about the others.
- A manifest without secrets to seal returns early (`gitops/apply.py:192`) and uploads the
  source fields its author left empty, which the dry run leaves out.
- Two spellings of one cloud secret are two references and may give two versions; the
  documentation speaks of keys that name the same secret (`EveryKeyOneValue` is about
  references as they are spelled).
- `docs/source/workflows.md:53` shows a condition without the `$` of its operator, which
  `compile_condition` refuses.
- Submitting a manifest again after a lost answer runs its documents twice, since each
  call draws a new group id; `RunsArePrefix` counts the runs of each call by itself.
- A page that the server cuts below the size asked for ends the walk of a client section
  (`LastPage`), which reads a short page as the last.

## 4. What is proved

TLAPS checks these for all values of the constants that satisfy the named
assumptions of the modules (which TLC evaluates in each run).

**UnitOfWorkProofs.** `IInv == TypeOK /\ StagedOnce /\ FlushInvariant` is inductive.
`FlushInvariant` is the strengthening that relates the loop's locals to the queue
and to what the server did; without it neither `TypeOK` (an index into the batch) nor
the reports can be proved. From it follow `TypeCorrect`, `StagingIsIdempotent`,
`ReportIsExact` (by a lemma that splits the batch at the loop's position) and
`DeleteCancels`. `CreatesOnce` and `DeletesReachTheQueue` assume `Alone`: one session, no
interrupts, the conditions under which the code keeps them; `FreshInv` adds that a
staged creation is of an object without identity and that an answer belongs to the
operation in progress. `NothingIsOrphaned` (`NoOrphans`) assumes besides that no answer is
lost, since a created record whose answer is lost is an orphan by the design of the
code; it is inductive with `FreshInv` once the answer to a deletion is known to carry no
identity. `CommitsAreMirrored` (`CommittedIsMirrored`) needs no hypothesis: any number of
sessions, objects and other clients, and every fault. It is an action property, and its
invariant says for each operation already answered what the record is now: `Mirrored(k)`
holds unless another client wrote the record, its request is the one in progress, or a
later operation of the batch wrote it. That needs every identity to be one the server
has given (`Assigned`), a creation to come before whatever else is staged of its object
(`Ordered`), and the answer on its way to be of the operation in progress (`Answered`).
`Refinement` shows that initial states map to initial states
and every step to a step of `StagedWrites` or to a stutter: the last answer, an abort
and an interrupt are the steps seen from outside.

**PaginationProofs.** `TypeCorrect`; `LimitHolds`, because a page is never asked to be
longer than what the limit leaves; `StopIsFinal`, from the invariant `AtEnd`: once
`StopIteration` was raised, the limit is reached or the buffer is empty and the end
is known from state that no later step changes. `OrderIsKept` and `StopIsComplete` relate
buffer and yielded items to the first `skip` records of the list; `NoneIsMissed` says
where each initial record can still be when nothing is deleted (yielded, in the buffer,
or at or after the offset); `NoneIsRepeated` that, without insertions, what stands after
the offset was not fetched before. `AllIsShrinking` is `AllShrinks`, the safety half of
`AllReturns`, for any list and any number of insertions.

**JobRunProofs.** `TypeCorrect`; `WaitIsBounded`, from `TimeInv`, which bounds the time
elapsed plus the time the sleep or request in progress may still take;
`TimeoutIsHonest`, from `SeenInv`: a job that has ended without the caller knowing it
ended after the caller's last look, less than one request ago. `WaitIsTrue` and `ExitIsTrue`
rest on `TruthInv`: undisturbed, a terminal status the caller has seen is the job's.

**ConnectionProofs.** `IInv` has four parts besides the types: `Flow` (which request a
call may be at), `Effect` (what was written so far), `Budget` (429 answers against
attempts) and `Scope` (connected, project and token). From it `TypeCorrect`,
`WritesOnce`, `BudgetIsKept`, `LimitErrorIsFinal` and `ConnectionIsWhole`; `NoneIsHeld` adds
which step of which request may hold a connection.

**CommandLineProofs.** First `GitOps`, for every manifest set, every option and any number
of rotations: `Clear` (nothing leaves in the clear, a pinned key stays unless its file is
empty, and what is long enough is masked), `OneValue` (one value for every key,
one version for every reference) and `ExitIsTrue`. The invariant says, phase by phase,
which documents are resolved, that the values read of a reference are those in the
cache, and which failure has been met. `ApplyIsGitOps` shows that an apply started on the
command line begins as `GitOps` and takes only its steps, and `ApplyPromises` that it
keeps the three promises there.

Then the other commands, for every set of invocations and lists, every page size and any
number of changes by other clients (`CommandAssumption`: what the option parser lets
through, and lists whose ids are of one record each, in order where a cursor goes by
them). `FoundOrGone` is `LookupsAreWhole`, `OnTheNamed` is `ActsOnTheNamed`, `CodesAreTrue` is
`CodesTell` (what a code means, by the invariant, and which code a failure gets, step by
step); `CommandsAreTyped` is the type invariant. None of the three is inductive by itself.
`CInv` adds:

- `Lists`: the ids of a list are of one record each and in the cursor's order, none is
  above the number of names ever borne (so that a new record gets a new id), and a record
  that bore a name is still there unless something was deleted;
- `PagesIn`: what has been read of a list has every record that stayed, up to the place
  reached, unless a deletion moved the list, and none twice unless a creation did. For a
  cursor the place is the last id, for the rest the offset. `PagesKept` shows, from where
  a change puts each record, that a creation, a deletion or a renaming by another client
  keeps this; `PageRead` that the next page does; `AllRead` that at the last page it is
  what is promised of a list that was printed;
- `Asked`: what is still to be looked up are the last of the names, in their order;
- `FoundBore` and `FoundGone`: an id found is of a record that bore the name, and a name
  not found is justified, both of which no later change can undo.

**WorkflowWiringProofs.** `TypeCorrect`, and `WiredIsWritten`: what `BatchIsWhole` says of a
`commit()` that returns. The invariant relates the queue to the lists: every wired edge
is in the lists of its two objects and its updates are staged (`WiredOK`), an operation
staged as anything but a creation is of an object with an id (`Fresh`), what anybody
knows of has been created (`Alive`), and, request by request, an update already served of
a node that nothing else disturbed has put the far end of each of its wires into the
server's list (`Written`). At the end of the batch everything is served, which is the
theorem. The two lists of a node are one function of a direction, so that each lemma is
proved once for both.

The second half of the module is about edges that only one end knows of. `NoHalfIsLeft` is `HalvesMeet`. Its invariant speaks of the
settled nodes: each has one object at most (`Unique`), whose lists are those of the
server together with what was wired since (`Agree`); and where the server has half an
edge, a wire accounts for it, of which one update of the batch was served and the other
is still due (`Mid`). Between commits nothing is served, so there is no such edge. `Agree`
is what makes `Mid` inductive: an update replaces the whole list, and without it the lists
sent could take away, or bring back, the half of an edge that no wire speaks of.

The third part is about the conditions of nodes. `ConditionsMeanTheSame` is
`CompiledMeansSame`, for any conditions, fields, contexts and depth. It assumes that the
conditions are values nested up to `MaxDepth` (`ConditionsAreValues`), and that no operator
is a field path (`FieldsAreKeys`). The proof goes up the levels. `CompileLevels`, `MeansLevels`
and `HoldsLevels` say that each level is made of the one below; since the library's
theorems on recursion and induction take operators, they, and what follows, are proved from
a least counterexample (`LevelsOfAll` for all three recursions at once). `ValuesGrow` and
`TreesGrow` say that what is nested less deep is among what is nested deeper, and a tree
means the same there. `OpIs` is about one operator of a field, `FieldIs` about a field,
`ConjunctionIs` about the conjunction that is made of several entries, `EntryIs` about an entry.
`ConditionIs` puts them together: one level of conditions is two levels of trees, one for
the operator and one for the implicit conjunction above it.

**ClientsProofs.** `ClientSpec` is four systems side by side, each with an invariant of its own.

- Records, for any callers, methods and fields: `RecordsHoldWhatWasAsked` (`AskedIsHeld`)
  and `CallsAreWholeOrCredentials` (`WholeOrCredentials`). `RecordsInv` says of a call how far
  it is: nothing sent of it, or of the update of a blob configuration the credentials
  alone (`Progress`); and of a field, that it is old or what the last entry of the log that
  speaks of it wanted (`Asked`). `RecordsAssumption`: a caller is neither of the two
  ways to say nothing.
- Manifests, for any manifest, list, chunk and page size: `ManifestRunsArePrefix`
  (`RunsArePrefix`) and `RunsAreOnTheRightDocument` (`RightDocument`). `ManifestInv` adds that
  ids are given once and a document that lasts is in the list (`ListInv`); that the index
  misses none that lasts before the place reached, unless a deletion moved the list, and
  knows a name of two documents as ambiguous (`IndexInv`); and that the runs of a call are
  whole chunks from the first row on (`RunsInv`). `ManifestAssumption`: the
  documents of the first lists have ids of their own up to any number (`FirstIds`), and
  new documents those above it. Other clients may change the list any number of times.
- Streams, for any kinds, number and length of events: `StreamsAreWhole`
  (`WholeEventsOnly`). `StreamInv` says what `_iter_sse_data()` holds while it reads
  (`StreamReads`): its buffer is the first lines of the event the server is at, and all
  that arrived is handed on but this event; once a line was cut off, the buffer has a
  line that makes it no JSON. `WholeTextIsJson` is the lemma behind it: the first lines
  of an event are JSON when they are all of them. `StreamBounds` only says that the two
  bounds are numbers.
- Configuration, for any characters and texts of any length and encoding:
  `ConfigurationIsAsGiven` (`AcceptedAsGiven`). The state is simple (`ConfigInv`); the work is in
  the texts. `Parsed`, `SplitJoined`, `LastJoined` and their neighbours say what `Before`,
  `After`, `UpToLast` and `AfterLast` make of joined texts; `HostPortPath` what `urlparse` finds
  behind the user; and `ParseAssembled` that it finds in an assembled text the host, the
  port, the project and the user that went in, provided the user has no `/` or `?`.
  `TokenText` shows that a quoted token has none, whatever it contains. An email and a
  password may have one; unless they are `Ambiguous` they are then refused, since what is
  left of them has no password (`NoPassword`). `EnvironmentsAreStrings`: the reserved characters are characters, and the
  absent value is no string.

`QueueTheorems` holds what these need of `Append`, `RemoveAt` and `InsertAt`, the first two
also on a queue without repetitions, and that a set of numbers has a least (`LeastOf`).

Only model-checked: everything temporal beyond safety (`CommitReturns`, the end in
`AllReturns`, `WaitEnds`, `CallEnds`, `CommandEnds`), since liveness under fairness is beyond the prover.
Every other property of a passing run is proved.

`StagedOnce`, `FlushInvariant`, `DeleteCancelsCreate`, `CreateOnlyUnpersisted`, `WithinLimit`,
`StopsForGood`, `Connection.TypeOK`, `BudgetKept`, `LimitIsFinal` and `GitOps.TypeOK` are proved
and not in a run of their own: TLC checked them while the proofs were written.

## 5. What could follow

1. IPv6 addresses in `ConnectionStrings`, whose brackets hide a `:`.
2. `first()` of the iterator beside a running walk, and two iterators over one list.
3. Conditions, schedules and sinks of a workflow in `WorkflowWiring`, and the change
   requests of a workflow that is not a draft.
4. Redirects and the length of pauses in `Connection`.

## 6. Not modelled, and why

Output formatting and the option parser, data classes and their conversions, exception
classes, enumerations and timestamps: no state and nothing that depends on order. Reads,
searches and uploads of files in the endpoint clients: one request that changes nothing,
or opaque bytes. Which files and documents the sources of `apply` expand to, the three
cloud clients and the cipher: libraries and I/O, of which the model keeps success, failure
and what may be read. Tests, documentation, examples and scripts: read for what they
promise.
`components` in `PROJECT.json` lists each part with its reason. Of the modelled
components, the bodies of requests and answers are reduced to the fields the
properties tell apart; `first()` of the iterator, `create_client()`, redirects and the
length of pauses are left out.
