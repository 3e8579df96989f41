------------------------------- MODULE GitOps -------------------------------
(***************************************************************************)
(* `ragnerock apply` and ragnerock/gitops: the Secret documents of a       *)
(* manifest set are resolved on this machine, sealed, and uploaded.        *)
(*                                                                         *)
(* A document is the set of source fields its author wrote, empty or not,  *)
(* and the entries in them, in the order in which the code reads the       *)
(* sources.  An entry has a key, a source, the item the source names (a    *)
(* text, an environment variable, a reference to a cloud secret), for a    *)
(* reference perhaps a JSON field, and the versions (0: what is local) that*)
(* give it a value of fewer than four characters.  A value is known by the *)
(* entry it came from and, for a cloud secret, by the version that was read*)
(***************************************************************************)
EXTENDS Integers, Sequences, FiniteSets

CONSTANTS
  Manifests,     \* the manifest sets: sequences of documents
  Variables,     \* environment variables
  References,    \* references to cloud secrets, as they are spelled
  MaxVersion,    \* bound: versions of a cloud secret
  Options        \* what the user asks for: see OptionRecords

Sources == {"stringData", "data", "fromEnv", "fromCloud"}
Broken  == "broken"         \* base64 that does not decode, or no reference at all
\* --sealing-public-key: an empty text counts as none, an empty file does not yet.
Pins    == {"none", "key", "no key", "empty file", "unreadable"}
OptionRecords ==
  [mode : {"dry run", "plan", "apply"}, seal : BOOLEAN, pin : Pins, actions : BOOLEAN]

ASSUME GitOpsAssumption ==
  /\ MaxVersion \in Nat \ {0}
  /\ Options \subseteq OptionRecords
  /\ \A m \in Manifests :
       /\ m \in Seq({m[d] : d \in DOMAIN m})
       /\ \A d \in DOMAIN m : \A i \in DOMAIN m[d].entries :
            LET e == m[d].entries[i]
            IN /\ e.source = "fromCloud" => e.item \in References \cup {Broken}
               /\ e.short \subseteq 0..MaxVersion

VARIABLES
  manifest, environ, opts,   \* what the command was given
  phase,         \* what is done next
  doc, todo,     \* the document being resolved, and where its references still to
                 \* read stand
  values,        \* resolved: records of document, entry and version
  cache,         \* version read of each reference; 0: none
  current,       \* the version the cloud has now
  masked,        \* values GitHub Actions was told to hide
  written,       \* what the documents have become
  server,        \* what the server has of the manifest
  failure,       \* a request was refused ("user", "other") or lost, its answer could
                 \* not be read, or reported a failure
  exit           \* the exit code
vars == <<manifest, environ, opts, phase, doc, todo, values, cache, current, masked,
          written, server, failure, exit>>

Running    == 99
NotWritten == [by |-> "nobody", fields |-> {}, entries |-> {}]

Init ==
  /\ manifest \in Manifests /\ environ \in SUBSET Variables /\ opts \in Options
  /\ phase = "load" /\ doc = 1 /\ todo = {} /\ values = {}
  /\ cache = [r \in References |-> 0] /\ current = [r \in References |-> 1]
  /\ masked = {} /\ written = NotWritten /\ server = "nothing"
  /\ failure = "none" /\ exit = Running

Given == <<manifest, environ, opts>>
Stop(code) == phase' = "done" /\ exit' = code
Go(next)   == phase' = next /\ exit' = exit

\* exit_code_for(), and the exit code of an exception nobody catches.
SlipExitCodeFor(refusal) == 1      \* whatever went wrong
ExitCodeFor(refusal) == IF refusal = "user" THEN 1 ELSE 2
Traceback == 1

-----------------------------------------------------------------------------
(* load_manifests(), then the branches of apply_cmd() up to the client. *)
LoadFails ==
  /\ phase = "load" /\ Stop(1)
  /\ UNCHANGED <<Given, doc, todo, values, cache, current, masked, written, server, failure>>

Load ==
  /\ phase = "load"
  /\ IF manifest = <<>> THEN Stop(0)
     ELSE IF opts.mode = "dry run" THEN Go("begin")
     ELSE IF opts.pin = "unreadable" THEN Stop(1)
     ELSE Go("client")
  /\ UNCHANGED <<Given, doc, todo, values, cache, current, masked, written, server, failure>>

\* build_client(), which logs in: refused by the configuration (for which an answer
\* that is not to be read is taken too) or by the server, or it is not reached.
Connect ==
  /\ phase = "client"
  /\ \/ Go("begin") /\ failure' = failure
     \/ Stop(1) /\ failure' = failure
     \/ \E refusal \in {"user", "other"} : Stop(ExitCodeFor(refusal)) /\ failure' = refusal
     \/ \E why \in {"lost", "unreadable"} : Stop(Traceback) /\ failure' = why
  /\ UNCHANGED <<Given, doc, todo, values, cache, current, masked, written, server>>

-----------------------------------------------------------------------------
(* resolve_secret_values(): a document is checked as a whole, and what is   *)
(* local is read, before any of its references is.                          *)
Entries(d)  == {manifest[d].entries[i] : i \in DOMAIN manifest[d].entries}
IsCloud(e)  == e.source = "fromCloud"
Collide(d)  == \E i, j \in DOMAIN manifest[d].entries :
                 i # j /\ manifest[d].entries[i].key = manifest[d].entries[j].key
Resolvable(d) ==
  /\ ~ Collide(d)
  /\ \A e \in Entries(d) : /\ e.item # Broken
                           /\ e.source = "fromEnv" => e.item \in environ
Value(d, e, version) == [doc |-> d, entry |-> e, version |-> version]

BeginDocument ==
  /\ phase = "begin" /\ doc <= Len(manifest)
  /\ IF Resolvable(doc)
     THEN /\ values' = values \cup {Value(doc, e, 0) : e \in {f \in Entries(doc) : ~ IsCloud(f)}}
          /\ todo' = {i \in DOMAIN manifest[doc].entries : IsCloud(manifest[doc].entries[i])}
          /\ Go("fetch")
     ELSE Stop(1) /\ UNCHANGED <<values, todo>>
  /\ UNCHANGED <<Given, doc, cache, current, masked, written, server, failure>>

\* The references are read in the order of the document.
Foremost(i) == i \in todo /\ \A j \in todo : i <= j

\* CloudSecretFetcher.resolve(): nothing offline, else from the cache or the cloud.
SlipFetch ==          \* the cache is never looked at
  /\ phase = "fetch"
  /\ \E i \in todo :
       LET e == manifest[doc].entries[i]
       IN /\ Foremost(i)
          /\ cache' = [cache EXCEPT ![e.item] = current[e.item]]
          /\ values' = values \cup {Value(doc, e, current[e.item])}
          /\ todo' = todo \ {i} /\ Go("fetch")
  /\ UNCHANGED <<Given, doc, current, masked, written, server, failure>>
Fetch ==
  /\ phase = "fetch"
  /\ \E i \in todo :
       LET e       == manifest[doc].entries[i]
           version == IF cache[e.item] # 0 THEN cache[e.item] ELSE current[e.item]
       IN /\ Foremost(i)
          /\ IF opts.mode = "dry run"
             THEN values' = values \cup {Value(doc, e, 0)} /\ UNCHANGED cache
             ELSE /\ cache' = [cache EXCEPT ![e.item] = version]
                  /\ values' = values \cup {Value(doc, e, version)}
          /\ todo' = todo \ {i}
  /\ Go("fetch")
  /\ UNCHANGED <<Given, doc, current, masked, written, server, failure>>

\* The cloud refuses, has no text or is not installed; or the field is not in the text.
CloudMayRefuse(e) == cache[e.item] = 0
MayLackField(e)   == e.field
FetchFails ==
  /\ phase = "fetch" /\ opts.mode # "dry run"
  /\ \E i \in todo : /\ Foremost(i)
                     /\ \/ CloudMayRefuse(manifest[doc].entries[i])
                        \/ MayLackField(manifest[doc].entries[i])
  /\ Stop(1)
  /\ UNCHANGED <<Given, doc, todo, values, cache, current, masked, written, server, failure>>

NextDocument ==
  /\ phase = "fetch" /\ todo = {}
  /\ doc' = doc + 1
  /\ Go(IF doc < Len(manifest) THEN "begin"
        ELSE IF opts.mode = "dry run" THEN "render" ELSE "mask")
  /\ UNCHANGED <<Given, todo, values, cache, current, masked, written, server, failure>>

\* Another user of the cloud account changes a secret, at any time.
Rotate ==
  /\ exit = Running
  /\ \E r \in References :
       current[r] < MaxVersion /\ current' = [current EXCEPT ![r] = @ + 1]
  /\ UNCHANGED <<Given, phase, doc, todo, values, cache, masked, written, server, failure, exit>>

-----------------------------------------------------------------------------
(* ResolvedSecrets.write(): the authored fields are replaced by one entry   *)
(* for each value; by is the key that sealed it, or how else it is shown.   *)
Written(by) == [by |-> by, fields |-> {}, entries |-> values]
AsAuthored  == [by |-> "author", entries |-> {},
                fields |-> UNION {{d} \X manifest[d].authored : d \in DOMAIN manifest}]

\* render_dry_run()
Render ==
  /\ phase = "render"
  /\ written' = Written("redacted") /\ Stop(0)
  /\ UNCHANGED <<Given, doc, todo, values, cache, current, masked, server, failure>>

\* prepare_manifest(), once everything is resolved.  What is shorter than
\* _MIN_MASK_LENGTH is not masked.
Short(v)  == v.version \in v.entry.short
MaskedNow == IF opts.actions THEN {v \in values : ~ Short(v)} ELSE masked
SlipMask ==           \* without a key nothing is sealed
  /\ phase = "mask"
  /\ masked' = MaskedNow
  /\ IF ~ opts.seal \/ opts.pin = "empty file" THEN written' = Written("plain") /\ Go("upload")
     ELSE written' = written /\ Go("key")
  /\ UNCHANGED <<Given, doc, todo, values, cache, current, server, failure>>
Mask ==
  /\ phase = "mask"
  /\ masked' = MaskedNow
  /\ IF ~ opts.seal THEN written' = Written("plain") /\ Go("upload")
     ELSE IF values = {} THEN written' = AsAuthored /\ Go("upload")
     ELSE written' = written /\ Go("key")
  /\ UNCHANGED <<Given, doc, todo, values, cache, current, server, failure>>

ServerKey ==          \* client.gitops.sealing_key()
  \/ written' = Written("server key") /\ Go("upload") /\ failure' = failure
  \/ /\ written' = written
     /\ \/ Stop(1) /\ failure' = "user"      \* the server seals nothing, or sends no key
        \/ Stop(2) /\ failure' = "other"
        \/ \E why \in {"lost", "unreadable"} : Stop(Traceback) /\ failure' = why

\* The pin is tested for its truth, which the text of an empty file has not.
Pinned == opts.pin \in {"key", "no key"}
Seal ==
  /\ phase = "key"
  /\ \/ /\ opts.pin = "key" /\ written' = Written("pinned key") /\ Go("upload")
        /\ failure' = failure
     \/ /\ opts.pin = "no key" /\ Stop(1)
        /\ UNCHANGED <<written, failure>>
     \/ ~ Pinned /\ ServerKey
  /\ UNCHANGED <<Given, doc, todo, values, cache, current, masked, server>>

-----------------------------------------------------------------------------
(* client.gitops.apply(), and what apply_cmd() makes of the answer.  The    *)
(* server refuses what still names a source that it would have to resolve; *)
(* what it keeps of a set it reports as failed is not known.  An answer     *)
(* that is no JSON or no report is an exception nobody catches.             *)
Refusable == \E f \in written.fields : f[2] # "stringData"

Upload ==
  /\ phase = "upload"
  /\ \/ /\ ~ Refusable /\ Stop(0) /\ failure' = failure
        /\ server' = IF opts.mode = "plan" THEN "nothing" ELSE "applied"
     \/ /\ Stop(1) /\ failure' = "reported"
        /\ server' \in IF opts.mode = "plan" THEN {"nothing"} ELSE {"nothing", "partly"}
     \/ \E refusal \in {"user", "other"} :
          Stop(ExitCodeFor(refusal)) /\ failure' = refusal /\ server' = server
     \/ /\ \/ Stop(2) /\ failure' = "lost"
           \/ Stop(Traceback) /\ failure' = "unreadable"
        /\ server' \in IF opts.mode = "plan" \/ Refusable THEN {"nothing"}
                       ELSE {"nothing", "partly", "applied"}
  /\ UNCHANGED <<Given, doc, todo, values, cache, current, masked, written>>

Step == \/ LoadFails \/ Load \/ Connect \/ BeginDocument \/ Fetch \/ FetchFails
        \/ NextDocument \/ Render \/ Mask \/ Seal \/ Upload
Next == Step \/ Rotate

Spec     == Init /\ [][Next]_vars
FairSpec == Spec /\ WF_vars(Step)

-----------------------------------------------------------------------------
Pairs(vs)   == {<<v.doc, v.entry>> : v \in vs}
AllPairs    == UNION {{d} \X Entries(d) : d \in DOMAIN manifest}
AllEntries  == UNION {Entries(d) : d \in DOMAIN manifest}

TypeOK ==
  /\ phase \in {"load", "client", "begin", "fetch", "render", "mask", "key", "upload", "done"}
  /\ doc \in Nat \ {0}
  /\ \A i \in todo : /\ doc \in DOMAIN manifest /\ i \in DOMAIN manifest[doc].entries
                     /\ IsCloud(manifest[doc].entries[i])
  /\ \A v \in values \cup masked \cup written.entries :
       v.doc \in DOMAIN manifest /\ v.entry \in Entries(v.doc) /\ v.version \in 0..MaxVersion
  /\ cache \in [References -> 0..MaxVersion] /\ current \in [References -> 1..MaxVersion]
  /\ written.by \in {"nobody", "author", "plain", "redacted", "pinned key", "server key"}
  /\ server \in {"nothing", "partly", "applied"}
  /\ failure \in {"none", "user", "other", "lost", "unreadable", "reported"}
  /\ exit \in {0, 1, 2, Running}

(* No value leaves this machine in the clear unless sealing was turned off, *)
(* a pinned key is replaced by one the server sends only when the file that *)
(* was to hold it is empty, nothing is read from a cloud or sent by a dry   *)
(* run, and under GitHub Actions every value of four characters or more is  *)
(* masked before anything can print it.                                     *)
NothingInTheClear ==
  /\ written.by = "plain" => ~ opts.seal
  /\ written.by = "server key" => opts.pin \in {"none", "empty file"}
  /\ opts.mode = "dry run" => /\ written.by \in {"nobody", "redacted"}
                             /\ cache = [r \in References |-> 0]
                             /\ server = "nothing" /\ failure = "none"
  /\ (opts.actions /\ written.by \notin {"nobody", "redacted"}) =>
       {v \in values : ~ Short(v)} \subseteq masked

(* What is uploaded, or shown by a dry run, has one value for every key of   *)
(* every document, and a reference that several keys share has one value    *)
(* for all of them although the secret changes meanwhile.                   *)
EveryKeyOneValue ==
  /\ written.by \notin {"nobody", "author"} => Pairs(written.entries) = AllPairs
  /\ \A v, w \in written.entries :
       /\ v.doc = w.doc /\ v.entry.key = w.entry.key => v = w
       /\ IsCloud(v.entry) /\ IsCloud(w.entry) /\ v.entry.item = w.entry.item
            => v.version = w.version

(* The exit code tells what became of the apply: 0 when all of it was done;  *)
(* 2 when the server failed or refused for no fault of the user, or was not *)
(* reached by the upload (before it, that is a traceback and 1); and unless *)
(* it is 2 the server has nothing of the manifest, but for an answer that   *)
(* reports failures or is not to be read.                                   *)
ExitTells ==
  /\ phase = "done" =>
       /\ exit = 0 => /\ failure = "none"
                      /\ (opts.mode = "apply" /\ manifest # <<>>) <=> server = "applied"
                      /\ (opts.mode = "dry run" /\ manifest # <<>>) => written.by = "redacted"
       /\ exit = 2 <=> failure = "other" \/ (failure = "lost" /\ written.by # "nobody")
       /\ exit = 1 => server = "nothing" \/ failure \in {"reported", "unreadable"}
  /\ phase # "done" => server = "nothing"
=============================================================================
