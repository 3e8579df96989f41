------------------------ MODULE CommandLineProofs ------------------------
(***************************************************************************)
(* Proofs about the command line: first its apply, which is GitOps (types, *)
(* what leaves the machine in the clear, what every key is given, what the *)
(* exit code tells), then get, delete, query and run (what was found or not*)
(* while other clients change the lists, what is acted on, and the exit    *)
(* code), for every set of invocations, lists, manifests and options.      *)
(***************************************************************************)
EXTENDS CommandLine, QueueTheorems, FiniteSetTheorems

Phases   == {"load", "client", "begin", "fetch", "render", "mask", "key", "upload", "done"}
Writers  == {"nobody", "author", "plain", "redacted", "pinned key", "server key"}
Failures == {"none", "user", "other", "lost", "unreadable", "reported"}

-----------------------------------------------------------------------------
(* The command as a graph of phases: where it may be under which options,   *)
(* and what can only have happened late.                                    *)

Places ==
  /\ phase \in Phases /\ exit \in {0, 1, 2, Running}
  /\ written.by \in Writers
  /\ server \in {"nothing", "partly", "applied"} /\ failure \in Failures

Gist ==
  /\ manifest \in Manifests /\ opts \in Options
  /\ phase # "done" => exit = Running /\ server = "nothing" /\ failure = "none"
  /\ opts.mode = "dry run" => phase \in {"load", "begin", "fetch", "render", "done"}
  /\ opts.mode # "dry run" => phase # "render"
  /\ opts.pin = "unreadable" /\ opts.mode # "dry run" => phase \in {"load", "done"}
  /\ phase \notin {"load", "done"} => manifest # <<>>
  /\ phase \in {"load", "client", "begin", "fetch", "render", "mask", "key"} =>
       written = NotWritten
  /\ phase = "upload" => written.by # "nobody"

LEMMA InitPlaces == Init => Places /\ Gist
  BY DEF Init, Places, Gist, Phases, Writers, Failures, NotWritten

LEMMA SealWays ==
  Seal => \/ opts.pin = "key" /\ written' = Written("pinned key") /\ Go("upload") /\ failure' = failure
          \/ opts.pin = "no key" /\ Stop(1) /\ UNCHANGED <<written, failure>>
          \/ ServerKey
  BY DEF Seal

\* What an upload comes to.
LEMMA UploadWays ==
  ASSUME Upload, Places, Gist
  PROVE  \/ /\ exit' = 0 /\ failure' = "none"
            /\ server' = IF opts.mode = "plan" THEN "nothing" ELSE "applied"
         \/ exit' = 1 /\ failure' = "reported" /\ server' \in {"nothing", "partly"}
         \/ exit' = 1 /\ failure' = "user" /\ server' = "nothing"
         \/ exit' = 2 /\ failure' = "other" /\ server' = "nothing"
         \/ /\ \/ exit' = 2 /\ failure' = "lost"
               \/ exit' = 1 /\ failure' = "unreadable"
            /\ server' \in {"nothing", "partly", "applied"}
<1>1. phase = "upload" /\ failure = "none" /\ server = "nothing"
  BY DEF Upload, Gist
<1>2. CASE /\ ~ Refusable /\ Stop(0) /\ failure' = failure
           /\ server' = IF opts.mode = "plan" THEN "nothing" ELSE "applied"
  BY <1>1, <1>2 DEF Stop
<1>3. CASE /\ Stop(1) /\ failure' = "reported"
           /\ server' \in IF opts.mode = "plan" THEN {"nothing"} ELSE {"nothing", "partly"}
  BY <1>3 DEF Stop
<1>4. CASE \E refusal \in {"user", "other"} :
             Stop(ExitCodeFor(refusal)) /\ failure' = refusal /\ server' = server
  BY <1>1, <1>4 DEF Stop, ExitCodeFor
<1>5. CASE /\ \/ Stop(2) /\ failure' = "lost"
              \/ Stop(Traceback) /\ failure' = "unreadable"
           /\ server' \in IF opts.mode = "plan" \/ Refusable THEN {"nothing"}
                          ELSE {"nothing", "partly", "applied"}
  BY <1>5 DEF Stop, Traceback
<1> QED
  BY <1>2, <1>3, <1>4, <1>5 DEF Upload

LEMMA NextPlaces == Places /\ Gist /\ [Next]_vars => Places' /\ Gist'
<1> SUFFICES ASSUME Places, Gist, [Next]_vars PROVE Places' /\ Gist'
  OBVIOUS
<1> USE DEF Places, Gist, Phases, Writers, Failures, Given, Stop, Go, Running
<1>1. CASE LoadFails
  BY <1>1 DEF LoadFails
<1>2. CASE Load
  BY <1>2 DEF Load
<1>3. CASE Connect
  BY <1>3 DEF Connect, ExitCodeFor, Traceback
<1>4. CASE BeginDocument
  BY <1>4 DEF BeginDocument
<1>5. CASE Fetch
  BY <1>5 DEF Fetch
<1>6. CASE FetchFails
  BY <1>6 DEF FetchFails
<1>7. CASE NextDocument
  BY <1>7 DEF NextDocument
<1>8. CASE Render
  BY <1>8 DEF Render, Written
<1>9. CASE Mask
  <2>1. phase = "mask" /\ UNCHANGED <<Given, server, failure>>
    BY <1>9 DEF Mask
  <2>2. Written("plain").by = "plain" /\ AsAuthored.by = "author"
    BY DEF Written, AsAuthored
  <2>3. \/ written' = Written("plain") /\ Go("upload")
        \/ written' = AsAuthored /\ Go("upload")
        \/ written' = written /\ Go("key")
    BY <1>9 DEF Mask
  <2> QED
    BY <2>1, <2>2, <2>3
<1>10. CASE Seal
  <2>1. phase = "key" /\ UNCHANGED <<Given, server>>
    BY <1>10 DEF Seal
  <2>2. CASE opts.pin = "key" /\ written' = Written("pinned key") /\ Go("upload") /\ failure' = failure
    BY <2>1, <2>2 DEF Written
  <2>3. CASE opts.pin = "no key" /\ Stop(1) /\ UNCHANGED <<written, failure>>
    BY <2>1, <2>3
  <2>4. CASE ServerKey
    <3>1. CASE written' = Written("server key") /\ Go("upload") /\ failure' = failure
      BY <2>1, <3>1 DEF Written
    <3>2. CASE /\ written' = written
               /\ \/ Stop(1) /\ failure' = "user"
                  \/ Stop(2) /\ failure' = "other"
                  \/ \E why \in {"lost", "unreadable"} : Stop(Traceback) /\ failure' = why
      BY <2>1, <3>2 DEF Traceback
    <3> QED
      BY <2>4, <3>1, <3>2 DEF ServerKey
  <2> QED
    BY <1>10, <2>2, <2>3, <2>4, SealWays
<1>11. CASE Upload
  <2>1. /\ phase = "upload" /\ phase' = "done" /\ written' = written /\ UNCHANGED Given
    BY <1>11 DEF Upload
  <2>2. exit' \in {0, 1, 2} /\ server' \in {"nothing", "partly", "applied"} /\ failure' \in Failures
    BY <1>11, UploadWays
  <2> QED
    BY <2>1, <2>2
<1>12. CASE Rotate
  BY <1>12 DEF Rotate
<1>13. CASE UNCHANGED vars
  BY <1>13 DEF vars
<1> QED
  BY <1>1, <1>2, <1>3, <1>4, <1>5, <1>6, <1>7, <1>8, <1>9, <1>10, <1>11, <1>12, <1>13
  DEF Next, Step
-----------------------------------------------------------------------------
(* Fetching: where the command is in the manifest, and what it has read.      *)

Fetching ==
  /\ doc \in Nat \ {0}
  /\ cache \in [References -> 0..MaxVersion] /\ current \in [References -> 1..MaxVersion]
  /\ phase \in {"load", "client"} => doc = 1
  /\ phase \in {"load", "client", "begin"} => todo = {}
  /\ phase \in {"begin", "fetch"} => doc \in DOMAIN manifest
  /\ phase \in {"render", "mask", "key", "upload"} => doc = Len(manifest) + 1
  /\ phase = "fetch" => Resolvable(doc)
  /\ \A i \in todo : /\ doc \in DOMAIN manifest /\ i \in DOMAIN manifest[doc].entries
                     /\ IsCloud(manifest[doc].entries[i])

\* A manifest set is a sequence, empty or not.
LEMMA Sets ==
  ASSUME NEW m \in Manifests
  PROVE  /\ Len(m) \in Nat /\ DOMAIN m = 1..Len(m)
         /\ m # <<>> => 1 \in DOMAIN m
<1>1. m \in Seq({m[d] : d \in DOMAIN m})
  BY GitOpsAssumption
<1>2. Len(m) \in Nat /\ DOMAIN m = 1..Len(m)
  BY <1>1
<1>3. m # <<>> => Len(m) # 0
  BY <1>1
<1> QED
  BY <1>2, <1>3

\* What a document that may be resolved refers to is a cloud secret.
LEMMA Referred ==
  ASSUME Gist, NEW d \in DOMAIN manifest, Resolvable(d),
         NEW i \in DOMAIN manifest[d].entries, IsCloud(manifest[d].entries[i])
  PROVE  manifest[d].entries[i].item \in References
<1>1. manifest[d].entries[i].item # Broken
  BY DEF Resolvable, Entries
<1> QED
  BY <1>1, GitOpsAssumption DEF Gist, IsCloud

LEMMA InitFetching == Init => Fetching
  BY GitOpsAssumption DEF Init, Fetching

LEMMA NextFetching == Places /\ Gist /\ Fetching /\ [Next]_vars => Fetching'
<1> SUFFICES ASSUME Places, Gist, Fetching, [Next]_vars PROVE Fetching'
  OBVIOUS
<1>0. Len(manifest) \in Nat /\ DOMAIN manifest = 1..Len(manifest)
  BY Sets DEF Gist
<1>m. manifest' = manifest
  BY DEF Next, Step, vars, Given, LoadFails, Load, Connect, BeginDocument, Fetch,
         FetchFails, NextDocument, Render, Mask, Seal, Upload, Rotate
<1>1. CASE LoadFails
  BY <1>1, <1>m DEF LoadFails, Stop, Fetching
<1>2. CASE Load \/ Connect
  <2>1. UNCHANGED <<doc, todo, cache, current>> /\ phase \in {"load", "client"}
    BY <1>2 DEF Load, Connect
  <2>2. /\ phase' \in {"client", "begin", "done"}
        /\ phase' = "begin" => manifest # <<>>
    BY <1>2 DEF Load, Connect, Stop, Go, Gist
  <2>3. manifest # <<>> => 1 \in DOMAIN manifest
    BY Sets DEF Gist
  <2> QED
    BY <1>m, <2>1, <2>2, <2>3 DEF Fetching
<1>3. CASE BeginDocument
  <2>1. UNCHANGED <<doc, cache, current, environ>> /\ phase = "begin" /\ doc \in DOMAIN manifest
    BY <1>3, <1>0 DEF BeginDocument, Fetching, Given
  <2>2. CASE Resolvable(doc)
    <3>1. phase' = "fetch"
          /\ todo' = {i \in DOMAIN manifest[doc].entries : IsCloud(manifest[doc].entries[i])}
      BY <1>3, <2>2 DEF BeginDocument, Go
    <3>2. Resolvable(doc)'
      BY <2>1, <2>2, <1>m DEF Resolvable, Collide, Entries
    <3> QED
      BY <1>m, <2>1, <3>1, <3>2 DEF Fetching, IsCloud
  <2>3. CASE ~ Resolvable(doc)
    <3>1. phase' = "done" /\ todo' = todo
      BY <1>3, <2>3 DEF BeginDocument, Stop
    <3> QED
      BY <1>m, <2>1, <3>1 DEF Fetching, IsCloud
  <2> QED
    BY <2>2, <2>3
<1>4. CASE Fetch
  <2>1. phase = "fetch" /\ phase' = "fetch" /\ UNCHANGED <<doc, current, environ>>
    BY <1>4 DEF Fetch, Go, Given
  <2>2. PICK i \in todo :
          /\ todo' = todo \ {i}
          /\ \/ cache' = cache
             \/ cache' = [cache EXCEPT ![manifest[doc].entries[i].item] =
                            IF cache[manifest[doc].entries[i].item] # 0
                            THEN cache[manifest[doc].entries[i].item]
                            ELSE current[manifest[doc].entries[i].item]]
    BY <1>4 DEF Fetch
  <2>3. manifest[doc].entries[i].item \in References
    BY <2>1, <2>2, Referred DEF Fetching
  <2>4. cache' \in [References -> 0..MaxVersion]
    BY <2>2, <2>3, GitOpsAssumption DEF Fetching
  <2>5. Resolvable(doc)'
    BY <2>1, <1>m DEF Fetching, Resolvable, Collide, Entries
  <2> QED
    BY <1>m, <2>1, <2>2, <2>4, <2>5 DEF Fetching, IsCloud
<1>5. CASE FetchFails
  BY <1>5, <1>m DEF FetchFails, Stop, Fetching, IsCloud
<1>6. CASE NextDocument
  <2>1. /\ phase = "fetch" /\ todo = {} /\ doc' = doc + 1 /\ UNCHANGED <<todo, cache, current>>
        /\ phase' = IF doc < Len(manifest) THEN "begin"
                    ELSE IF opts.mode = "dry run" THEN "render" ELSE "mask"
    BY <1>6 DEF NextDocument, Go
  <2>2. PICK n \in Nat : n = Len(manifest) /\ DOMAIN manifest = 1..n
    BY <1>0
  <2>3. doc \in 1..n
    BY <2>1, <2>2 DEF Fetching
  <2>4. CASE doc < n
    <3>1. phase' = "begin" /\ doc' \in 1..n
      BY <2>1, <2>2, <2>3, <2>4
    <3> QED
      BY <1>m, <2>1, <2>2, <3>1 DEF Fetching
  <2>5. CASE doc = n
    <3>1. doc' = n + 1
      BY <2>1, <2>5
    <3>2. n + 1 \in Nat \ {0} /\ ~ (n < n)
      BY <2>2
    <3>3. phase' \in {"render", "mask"}
      BY <2>1, <2>2, <2>5, <3>2
    <3>4. doc' = Len(manifest') + 1
      BY <1>m, <2>2, <3>1
    <3> QED
      BY <2>1, <3>1, <3>2, <3>3, <3>4 DEF Fetching
  <2> QED
    BY <2>3, <2>4, <2>5
<1>7. CASE Render \/ Upload
  BY <1>7, <1>m DEF Render, Upload, Stop, Fetching, IsCloud
<1>8. CASE Mask
  <2>1. phase = "mask" /\ phase' \in {"upload", "key"} /\ UNCHANGED <<doc, todo, cache, current>>
    BY <1>8 DEF Mask, Go
  <2> QED
    BY <1>m, <2>1 DEF Fetching, IsCloud
<1>9. CASE Seal
  <2>1. phase = "key" /\ phase' \in {"upload", "done"} /\ UNCHANGED <<doc, todo, cache, current>>
    BY <1>9 DEF Seal, ServerKey, Go, Stop
  <2> QED
    BY <1>m, <2>1 DEF Fetching, IsCloud
<1>10. CASE Rotate
  <2>1. UNCHANGED <<phase, doc, todo, cache, environ>>
    BY <1>10 DEF Rotate, Given
  <2>2. current' \in [References -> 1..MaxVersion]
    BY <1>10, GitOpsAssumption DEF Rotate, Fetching
  <2>3. Resolvable(doc) => Resolvable(doc)'
    BY <1>m, <2>1 DEF Resolvable, Collide, Entries
  <2> QED
    BY <1>m, <2>1, <2>2, <2>3 DEF Fetching, IsCloud
<1>11. CASE UNCHANGED vars
  BY <1>11 DEF vars, Fetching, Resolvable, Collide, Entries, IsCloud
<1> QED
  BY <1>1, <1>2, <1>3, <1>4, <1>5, <1>6, <1>7, <1>8, <1>9, <1>10, <1>11 DEF Next, Step
-----------------------------------------------------------------------------
(* What was read: every value is of an entry of a document that could be     *)
(* resolved, and of the one version its reference was cached with; and all   *)
(* entries passed by have a value.                                           *)

Cached(e) == IsCloud(e) /\ opts.mode # "dry run"

Genuine(v) ==
  /\ v = Value(v.doc, v.entry, v.version)
  /\ v.doc \in DOMAIN manifest /\ v.entry \in Entries(v.doc) /\ Resolvable(v.doc)
  /\ IF Cached(v.entry) THEN cache[v.entry.item] # 0 /\ v.version = cache[v.entry.item]
     ELSE v.version = 0

Sound == \A v \in values : Genuine(v)

Passed ==
  /\ \A d \in DOMAIN manifest : d < doc => {d} \X Entries(d) \subseteq Pairs(values)
  /\ phase = "fetch" =>
       \A i \in DOMAIN manifest[doc].entries :
         i \in todo \/ <<doc, manifest[doc].entries[i]>> \in Pairs(values)

LEMMA InitSound == Init => Sound /\ Passed
<1> SUFFICES ASSUME Init PROVE Sound /\ Passed
  OBVIOUS
<1>1. Sound
  BY DEF Init, Sound
<1>2. manifest \in Manifests /\ doc = 1 /\ phase = "load"
  BY DEF Init
<1>3. DOMAIN manifest = 1..Len(manifest) /\ Len(manifest) \in Nat
  BY <1>2, Sets
<1>4. \A d \in 1..Len(manifest) : ~ (d < 1)
  BY <1>3
<1> QED
  BY <1>1, <1>2, <1>3, <1>4 DEF Passed

\* What every step keeps of the givens.
LEMMA GivenKept == [Next]_vars => UNCHANGED Given
  BY DEF Next, Step, vars, Given, LoadFails, Load, Connect, BeginDocument, Fetch,
         FetchFails, NextDocument, Render, Mask, Seal, Upload, Rotate

\* The steps but two read no value.
LEMMA ValuesKept ==
  ASSUME [Next]_vars
  PROVE  BeginDocument \/ Fetch \/ UNCHANGED <<values, cache>>
  BY DEF Next, Step, vars, LoadFails, Load, Connect, FetchFails, NextDocument, Render,
         Mask, Seal, Upload, Rotate

\* A genuine value stays one while the cache keeps what it has.
LEMMA GenuineKept ==
  ASSUME UNCHANGED Given, NEW v, Genuine(v),
         Cached(v.entry) /\ cache[v.entry.item] # 0 =>
           cache'[v.entry.item] = cache[v.entry.item]
  PROVE  Genuine(v)'
  BY DEF Genuine, Given, Cached, IsCloud, Entries, Resolvable, Collide, Value

LEMMA NextSound == Gist /\ Fetching /\ Sound /\ [Next]_vars => Sound'
<1> SUFFICES ASSUME Gist, Fetching, Sound, [Next]_vars PROVE Sound'
  OBVIOUS
<1>1. UNCHANGED Given
  BY GivenKept
<1>2. CASE UNCHANGED <<values, cache>>
  BY <1>1, <1>2, GenuineKept DEF Sound
<1>3. CASE BeginDocument
  <2>1. cache' = cache
    BY <1>3 DEF BeginDocument
  <2>2. ASSUME NEW v \in values', v \notin values PROVE Genuine(v)
    <3>1. Resolvable(doc) /\ \E e \in Entries(doc) : ~ IsCloud(e) /\ v = Value(doc, e, 0)
      BY <1>3, <2>2 DEF BeginDocument
    <3>2. doc \in DOMAIN manifest
      BY <1>3 DEF BeginDocument, Fetching
    <3> QED
      BY <3>1, <3>2 DEF Genuine, Cached, Value
  <2> QED
    BY <1>1, <2>1, <2>2, GenuineKept DEF Sound
<1>4. CASE Fetch
  <2>1. phase = "fetch" /\ doc \in DOMAIN manifest /\ Resolvable(doc)
    BY <1>4 DEF Fetch, Fetching
  <2>2. PICK i \in todo :
          LET e == manifest[doc].entries[i]
              version == IF cache[e.item] # 0 THEN cache[e.item] ELSE current[e.item]
          IN IF opts.mode = "dry run"
             THEN values' = values \cup {Value(doc, e, 0)} /\ UNCHANGED cache
             ELSE /\ cache' = [cache EXCEPT ![e.item] = version]
                  /\ values' = values \cup {Value(doc, e, version)}
    BY <1>4 DEF Fetch
  <2> DEFINE e == manifest[doc].entries[i]
             version == IF cache[e.item] # 0 THEN cache[e.item] ELSE current[e.item]
  <2>3. e \in Entries(doc) /\ IsCloud(e) /\ e.item \in References
    BY <2>1, Referred DEF Fetching, Entries
  <2>4. version \in 1..MaxVersion /\ version # 0
    <3>1. cache[e.item] \in 0..MaxVersion /\ current[e.item] \in 1..MaxVersion
      BY <2>3 DEF Fetching
    <3> QED
      BY <3>1, GitOpsAssumption
  <2>5. CASE opts.mode = "dry run"
    <3>1. values' = values \cup {Value(doc, e, 0)} /\ UNCHANGED cache
      BY <2>2, <2>5
    <3>2. Genuine(Value(doc, e, 0))
      BY <2>1, <2>3, <2>5 DEF Genuine, Cached, Value
    <3> QED
      BY <1>1, <3>1, <3>2, GenuineKept DEF Sound
  <2>6. CASE opts.mode # "dry run"
    <3>1. /\ cache' = [cache EXCEPT ![e.item] = version]
          /\ values' = values \cup {Value(doc, e, version)}
      BY <2>2, <2>6
    <3>2. cache'[e.item] = version
      BY <2>3, <3>1 DEF Fetching
    <3>3. ASSUME NEW v \in values PROVE Genuine(v)'
      <4>1. Genuine(v)
        BY DEF Sound
      <4>2. cache[v.entry.item] # 0 => cache'[v.entry.item] = cache[v.entry.item]
        BY <3>1, <3>2
      <4> QED
        BY <1>1, <4>1, <4>2, GenuineKept
    <3>4. ASSUME NEW v, v = Value(doc, e, version) PROVE Genuine(v)'
      <4>1. v.entry = e /\ v.doc = doc /\ v.version = version
        BY <3>4 DEF Value
      <4>2. v = Value(v.doc, v.entry, v.version)
        BY <3>4, <4>1
      <4>3. v.doc \in DOMAIN manifest /\ v.entry \in Entries(v.doc) /\ Resolvable(v.doc)
        BY <2>1, <2>3, <4>1
      <4>4. IsCloud(v.entry) /\ cache'[v.entry.item] = version /\ version # 0
        BY <2>3, <2>4, <3>2, <4>1
      <4> QED
        BY <1>1, <2>6, <4>1, <4>2, <4>3, <4>4
        DEF Genuine, Cached, Given, IsCloud, Entries, Resolvable, Collide, Value
    <3>5. ASSUME NEW v \in values' PROVE Genuine(v)'
      <4>1. v \in values \/ v = Value(doc, e, version)
        BY <3>1, <3>5
      <4> QED
        BY <3>3, <3>4, <4>1
    <3> QED
      BY <3>5 DEF Sound
  <2> QED
    BY <2>5, <2>6
<1> QED
  BY <1>2, <1>3, <1>4, ValuesKept
LEMMA PairsGrow ==
  ASSUME NEW vs, NEW ws, vs \subseteq ws PROVE Pairs(vs) \subseteq Pairs(ws)
  BY DEF Pairs

LEMMA NextPassed == Gist /\ Fetching /\ Passed /\ [Next]_vars => Passed'
<1> SUFFICES ASSUME Gist, Fetching, Passed, [Next]_vars PROVE Passed'
  OBVIOUS
<1>1. UNCHANGED Given
  BY GivenKept
<1>2. CASE UNCHANGED <<doc, values>> /\ phase' # "fetch"
  BY <1>1, <1>2 DEF Passed, Given, Entries, Pairs
<1>3. CASE UNCHANGED <<phase, doc, todo, values>>
  BY <1>1, <1>3 DEF Passed, Given, Entries, Pairs
<1>4. CASE BeginDocument
  <2>1. CASE Resolvable(doc)
    <3>1. /\ values' = values \cup {Value(doc, e, 0) : e \in {f \in Entries(doc) : ~ IsCloud(f)}}
          /\ todo' = {i \in DOMAIN manifest[doc].entries : IsCloud(manifest[doc].entries[i])}
          /\ doc' = doc
      BY <1>4, <2>1 DEF BeginDocument
    <3>2. Pairs(values) \subseteq Pairs(values')
      BY <3>1, PairsGrow
    <3>3. ASSUME NEW i \in DOMAIN manifest[doc].entries, i \notin todo'
          PROVE  <<doc, manifest[doc].entries[i]>> \in Pairs(values')
      <4>1. Value(doc, manifest[doc].entries[i], 0) \in values'
        BY <3>1, <3>3 DEF Entries
      <4> QED
        BY <4>1 DEF Pairs, Value
    <3> QED
      BY <1>1, <3>1, <3>2, <3>3 DEF Passed, Given, Entries, Pairs
  <2>2. CASE ~ Resolvable(doc)
    BY <1>2, <1>4, <2>2 DEF BeginDocument, Stop
  <2> QED
    BY <2>1, <2>2
<1>5. CASE Fetch
  <2>1. phase = "fetch" /\ doc' = doc
    BY <1>5 DEF Fetch
  <2>2. PICK i \in todo :
          /\ todo' = todo \ {i}
          /\ \E version : values' = values \cup {Value(doc, manifest[doc].entries[i], version)}
    BY <1>5 DEF Fetch
  <2>3. PICK version : values' = values \cup {Value(doc, manifest[doc].entries[i], version)}
    BY <2>2
  <2>4. Pairs(values) \subseteq Pairs(values')
    BY <2>3, PairsGrow
  <2>5. <<doc, manifest[doc].entries[i]>> \in Pairs(values')
    <3>1. Value(doc, manifest[doc].entries[i], version) \in values'
      BY <2>3
    <3> QED
      BY <3>1 DEF Pairs, Value
  <2> QED
    BY <1>1, <2>1, <2>2, <2>4, <2>5 DEF Passed, Given, Entries, Pairs
<1>6. CASE NextDocument
  <2>1. phase = "fetch" /\ todo = {} /\ doc' = doc + 1 /\ values' = values /\ phase' # "fetch"
    BY <1>6 DEF NextDocument, Go
  <2>2. {doc} \X Entries(doc) \subseteq Pairs(values)
    BY <2>1 DEF Passed, Entries
  <2>3. ASSUME NEW d \in DOMAIN manifest, d < doc' PROVE d < doc \/ d = doc
    <3>1. PICK n \in Nat : DOMAIN manifest = 1..n
      BY Sets DEF Gist
    <3>2. d \in 1..n /\ doc \in Nat
      BY <3>1 DEF Fetching
    <3> QED
      BY <2>1, <2>3, <3>2
  <2> QED
    BY <1>1, <2>1, <2>2, <2>3 DEF Passed, Given, Entries, Pairs
<1>7. \/ UNCHANGED <<doc, values>> /\ phase' # "fetch"
      \/ UNCHANGED <<phase, doc, todo, values>>
      \/ BeginDocument \/ Fetch \/ NextDocument
  BY DEF Next, Step, vars, LoadFails, Load, Connect, FetchFails, Render, Mask, Seal,
         ServerKey, Upload, Rotate, Stop, Go
<1> QED
  BY <1>2, <1>3, <1>4, <1>5, <1>6, <1>7

\* When the documents are written, all entries of all of them were read.
LEMMA AllFetched ==
  ASSUME Gist, Fetching, Passed, phase \in {"render", "mask", "key"}
  PROVE  AllPairs \subseteq Pairs(values)
<1>1. PICK n \in Nat : DOMAIN manifest = 1..n /\ n = Len(manifest)
  BY Sets DEF Gist
<1>2. doc = n + 1
  BY <1>1 DEF Fetching
<1>3. \A d \in 1..n : d < n + 1
  BY <1>1
<1> QED
  BY <1>1, <1>2, <1>3 DEF Passed, AllPairs
-----------------------------------------------------------------------------
(* What is written: by whom, from which values, and what was masked before.  *)

Hidden == {v \in values : ~ Short(v)} \subseteq masked
Outward ==
  /\ masked \subseteq values
  /\ written.by \in {"nobody", "author"} => written.entries = {}
  /\ written.by \notin {"nobody", "author"} =>
       /\ phase \in {"upload", "done"}
       /\ written.entries = values /\ AllPairs \subseteq Pairs(values)
  /\ written # NotWritten => phase \in {"upload", "done"}
  /\ opts.actions /\ phase \in {"key", "upload"} => Hidden
  /\ opts.actions /\ written.by \notin {"nobody", "redacted"} => Hidden
  /\ written.by = "plain" => ~ opts.seal
  /\ written.by = "server key" => opts.pin \in {"none", "empty file"}
  /\ opts.mode = "dry run" => /\ written.by \in {"nobody", "redacted"}
                              /\ cache = [r \in References |-> 0]
                              /\ server = "nothing" /\ failure = "none"

\* What the exit code tells; it is Running before the end.
Whole == opts.mode = "apply" /\ manifest # <<>>
Shown == opts.mode = "dry run" /\ manifest # <<>>
Told ==
  phase = "done" =>
    /\ exit # Running
    /\ exit = 0 => failure = "none"
    /\ exit = 0 /\ Whole => server = "applied"
    /\ exit = 0 /\ ~ Whole => server # "applied"
    /\ exit = 0 /\ Shown => written.by = "redacted"
    /\ exit = 2 <=> failure = "other" \/ (failure = "lost" /\ written.by # "nobody")
    /\ exit = 1 => server = "nothing" \/ failure \in {"reported", "unreadable"}

LEMMA InitOutward == Init => Outward /\ Told
  BY GitOpsAssumption DEF Init, Outward, Told, NotWritten

IInv == Places /\ Gist /\ Fetching /\ Sound /\ Passed /\ Outward /\ Told

\* The options and the manifest set stay what they were.
LEMMA WholeKept ==
  ASSUME UNCHANGED Given
  PROVE  /\ Whole' <=> Whole
         /\ Shown' <=> Shown
  BY DEF Given, Whole, Shown

LEMMA NobodyWrote == NotWritten.by = "nobody" /\ NotWritten.entries = {}
  BY DEF NotWritten

LEMMA NextTold == Places /\ Gist /\ Told /\ [Next]_vars => Told'
<1> SUFFICES ASSUME Places, Gist, Told, [Next]_vars PROVE Told'
  OBVIOUS
<1>0. (Whole' <=> Whole) /\ (Shown' <=> Shown)
  BY GivenKept, WholeKept
<1>1. CASE phase' # "done"
  BY <1>1 DEF Told
<1>2. CASE LoadFails \/ BeginDocument \/ FetchFails
  <2>1. server' = "nothing" /\ failure' = "none"
    BY <1>2 DEF LoadFails, BeginDocument, FetchFails, Gist
  <2>2. phase' # "done" \/ exit' = 1
    BY <1>2 DEF LoadFails, BeginDocument, FetchFails, Stop, Go
  <2> QED
    BY <2>1, <2>2 DEF Told, Running
<1>3. CASE Load
  <2>1. server' = "nothing" /\ failure' = "none"
    BY <1>3 DEF Load, Gist
  <2>2. phase' # "done" \/ exit' = 1 \/ (exit' = 0 /\ ~ Whole /\ ~ Shown)
    BY <1>3 DEF Load, Stop, Go, Whole, Shown
  <2> QED
    BY <1>0, <2>1, <2>2 DEF Told, Running
<1>4. CASE Connect
  <2>1. server' = "nothing" /\ failure = "none"
    BY <1>4 DEF Connect, Gist
  <2>2. \/ phase' # "done"
        \/ exit' = 1 /\ failure' = failure
        \/ exit' = 1 /\ failure' \in {"user", "lost", "unreadable"}
        \/ exit' = 2 /\ failure' = "other"
    BY <1>4 DEF Connect, Stop, Go, ExitCodeFor, Traceback
  <2>3. written'.by = "nobody"
    <3>1. written' = NotWritten
      BY <1>4 DEF Connect, Gist
    <3> QED
      BY <3>1, NobodyWrote
  <2> QED
    BY <2>1, <2>2, <2>3 DEF Told, Running
<1>5. CASE Render
  <2>1. server' = "nothing" /\ failure' = "none" /\ exit' = 0
    BY <1>5 DEF Render, Stop, Gist
  <2>2. written'.by = "redacted" /\ ~ Whole
    BY <1>5 DEF Render, Written, Gist, Whole
  <2> QED
    BY <1>0, <2>1, <2>2 DEF Told, Running
<1>6. CASE Seal
  <2>1. server' = "nothing" /\ failure = "none"
    BY <1>6 DEF Seal, Gist
  <2>2. \/ phase' # "done"
        \/ exit' = 1 /\ failure' = failure
        \/ exit' = 1 /\ failure' \in {"user", "lost", "unreadable"}
        \/ exit' = 2 /\ failure' = "other"
    BY <1>6, SealWays DEF ServerKey, Stop, Go, Traceback
  <2>3. phase' = "done" => written'.by = "nobody"
    <3>1. written = NotWritten /\ (phase' = "done" => written' = written)
      BY <1>6, SealWays DEF Seal, ServerKey, Stop, Go, Gist
    <3> QED
      BY <3>1, NobodyWrote
  <2> QED
    BY <2>1, <2>2, <2>3 DEF Told, Running
<1>7. CASE Upload
  <2>0. manifest # <<>> /\ opts.mode # "dry run"
    BY <1>7 DEF Upload, Gist
  <2>1. server = "nothing" /\ failure = "none"
    BY <1>7 DEF Upload, Gist
  <2>2. ~ Shown /\ (Whole <=> opts.mode # "plan")
    <3>1. opts.mode \in {"dry run", "plan", "apply"}
      BY GitOpsAssumption DEF Gist, OptionRecords
    <3> QED
      BY <2>0, <3>1 DEF Whole, Shown
  <2>3. written' = written /\ written.by # "nobody"
    BY <1>7 DEF Upload, Gist
  <2>4. CASE /\ exit' = 0 /\ failure' = "none"
             /\ server' = IF opts.mode = "plan" THEN "nothing" ELSE "applied"
    <3>1. (Whole => server' = "applied") /\ (~ Whole => server' # "applied")
      BY <2>2, <2>4
    <3> QED
      BY <1>0, <2>2, <2>4, <3>1 DEF Told, Running
  <2>5. CASE \/ exit' = 1 /\ failure' \in {"reported", "unreadable"}
             \/ exit' = 1 /\ failure' = "user" /\ server' = "nothing"
             \/ exit' = 2 /\ failure' \in {"other", "lost"}
    BY <2>3, <2>5 DEF Told, Running
  <2> QED
    BY <1>7, <2>4, <2>5, UploadWays
<1>8. CASE Rotate \/ UNCHANGED vars
  <2>1. UNCHANGED <<phase, written, server, failure, exit>>
    BY <1>8 DEF Rotate, vars
  <2> QED
    BY <1>0, <2>1 DEF Told
<1>9. Fetch \/ NextDocument \/ Mask => phase' # "done"
  BY DEF Fetch, NextDocument, Mask, Go
<1> QED
  BY <1>1, <1>2, <1>3, <1>4, <1>5, <1>6, <1>7, <1>8, <1>9 DEF Next, Step

\* What there is to write depends on the manifest set and on the values alone.
LEMMA PairsKept ==
  ASSUME UNCHANGED <<Given, values>>
  PROVE  AllPairs' = AllPairs /\ Pairs(values)' = Pairs(values)
<1>1. manifest' = manifest /\ values' = values
  BY DEF Given
<1> QED
  BY <1>1 DEF AllPairs, Entries, Pairs

\* The steps that neither write nor mask, and read no value.
LEMMA OutwardKept ==
  ASSUME Outward, UNCHANGED <<Given, values, cache, masked, written>>,
         phase' \in {"load", "client", "begin", "fetch", "render", "mask", "done"}
           \/ phase' = phase,
         written = NotWritten \/ phase' \in {"upload", "done"},
         opts.mode = "dry run" => UNCHANGED <<server, failure>>
  PROVE  Outward'
<1>1. opts' = opts
  BY DEF Given
<1>2. (AllPairs \subseteq Pairs(values)) => (AllPairs' \subseteq Pairs(values'))
  BY PairsKept
<1>3. written # NotWritten => phase' \in {"upload", "done"}
  OBVIOUS
<1>4. written.by # "nobody" => written # NotWritten
  <2>1. NotWritten.by = "nobody"
    BY DEF NotWritten
  <2> QED
    BY <2>1
<1>5. /\ Hidden' <=> Hidden
      /\ opts.actions /\ phase' \in {"key", "upload"} => Hidden
  BY DEF Outward, Hidden
<1> QED
  BY <1>1, <1>2, <1>3, <1>4, <1>5 DEF Outward, NotWritten

LEMMA NextOutward == IInv /\ [Next]_vars => Outward'
<1> SUFFICES ASSUME IInv, [Next]_vars PROVE Outward'
  OBVIOUS
<1> USE DEF IInv
<1>1. UNCHANGED Given
  BY GivenKept
<1>2. CASE LoadFails \/ Load \/ Connect \/ FetchFails \/ NextDocument
  <2>1. UNCHANGED <<values, cache, masked, written>>
        /\ phase' \in {"client", "begin", "render", "mask", "done"}
    BY <1>2 DEF LoadFails, Load, Connect, FetchFails, NextDocument, Stop, Go
  <2>2. written = NotWritten /\ (opts.mode = "dry run" => UNCHANGED <<server, failure>>)
    BY <1>2 DEF LoadFails, Load, Connect, FetchFails, NextDocument, Gist
  <2> QED
    BY <1>1, <2>1, <2>2, OutwardKept
<1>3. CASE BeginDocument
  <2>1. /\ UNCHANGED <<cache, masked, written, server, failure>> /\ values \subseteq values'
        /\ phase' \in {"fetch", "done"} /\ written = NotWritten
    BY <1>3 DEF BeginDocument, Stop, Go, Gist
  <2> QED
    BY <1>1, <2>1 DEF Outward, Given, NotWritten
<1>4. CASE Fetch
  <2>1. /\ UNCHANGED <<masked, written, server, failure>> /\ values \subseteq values'
        /\ phase' = "fetch" /\ written = NotWritten
        /\ opts.mode = "dry run" => cache' = cache
    BY <1>4 DEF Fetch, Go, Gist
  <2> QED
    BY <1>1, <2>1 DEF Outward, Given, NotWritten
<1>5. CASE Render
  <2>1. /\ UNCHANGED <<values, cache, masked, server, failure>> /\ phase' = "done"
        /\ written'.by = "redacted" /\ written'.entries = values /\ opts.mode = "dry run"
    BY <1>5 DEF Render, Stop, Written, Gist
  <2>2. AllPairs' \subseteq Pairs(values')
    BY <1>1, <1>5, <2>1, AllFetched, PairsKept DEF Render
  <2> QED
    BY <1>1, <2>1, <2>2 DEF Outward, Given, NotWritten
<1>6. CASE Mask
  <2>1. /\ UNCHANGED <<values, cache, server, failure>> /\ phase = "mask"
        /\ phase' \in {"key", "upload"} /\ written = NotWritten
        /\ opts.mode # "dry run"
    BY <1>6 DEF Mask, Go, Gist
  <2>2. \/ ~ opts.seal /\ written' = Written("plain") /\ phase' = "upload"
        \/ written' = AsAuthored /\ phase' = "upload"
        \/ written' = written /\ phase' = "key"
    BY <1>6 DEF Mask, Go
  <2>3. AllPairs' \subseteq Pairs(values')
    BY <1>1, <2>1, AllFetched, PairsKept
  <2>4. /\ Written("plain").by = "plain" /\ Written("plain").entries = values
        /\ AsAuthored.by = "author" /\ AsAuthored.entries = {}
    BY DEF Written, AsAuthored
  <2>5. masked' \subseteq values' /\ (opts.actions => Hidden')
    <3>1. masked' = IF opts.actions THEN {v \in values : ~ Short(v)} ELSE masked
      BY <1>6 DEF Mask, MaskedNow
    <3> QED
      BY <2>1, <3>1 DEF Hidden, Outward
  <2> QED
    BY <1>1, <2>1, <2>2, <2>3, <2>4, <2>5 DEF Outward, Given, NotWritten
<1>7. CASE Seal
  <2>1. /\ UNCHANGED <<values, cache, masked, server>> /\ phase = "key"
        /\ written = NotWritten /\ opts.mode # "dry run" /\ opts.pin # "unreadable"
    BY <1>7 DEF Seal, Gist
  <2>2. \/ written' = Written("pinned key") /\ phase' = "upload"
        \/ /\ opts.pin \in {"none", "empty file"}
           /\ written' = Written("server key") /\ phase' = "upload"
        \/ written' = written /\ phase' = "done"
    <3>1. ~ Pinned => opts.pin \in {"none", "empty file"}
      <4>1. opts.pin \in Pins /\ opts.pin # "unreadable"
        BY <2>1, GitOpsAssumption DEF Gist, OptionRecords
      <4> QED
        BY <4>1 DEF Pins, Pinned
    <3>2. \/ written' = Written("pinned key") /\ phase' = "upload"
          \/ ~ Pinned /\ written' = Written("server key") /\ phase' = "upload"
          \/ written' = written /\ phase' = "done"
      BY <1>7 DEF Seal, ServerKey, Go, Stop
    <3> QED
      BY <3>1, <3>2
  <2>3. AllPairs' \subseteq Pairs(values')
    BY <1>1, <2>1, AllFetched, PairsKept
  <2>4. /\ Written("pinned key").by = "pinned key" /\ Written("pinned key").entries = values
        /\ Written("server key").by = "server key" /\ Written("server key").entries = values
    BY DEF Written
  <2>5. masked' \subseteq values' /\ (opts.actions => Hidden')
    BY <2>1 DEF Hidden, Outward
  <2> QED
    BY <1>1, <2>1, <2>2, <2>3, <2>4, <2>5 DEF Outward, Given, NotWritten
<1>8. CASE Upload
  <2>1. UNCHANGED <<values, cache, masked, written>> /\ phase' = "done" /\ opts.mode # "dry run"
    BY <1>8 DEF Upload, Stop, Gist
  <2> QED
    BY <1>1, <2>1, OutwardKept
<1>9. CASE Rotate \/ UNCHANGED vars
  <2>1. UNCHANGED <<phase, values, cache, masked, written, server, failure>>
    BY <1>9 DEF Rotate, vars
  <2> QED
    BY <1>1, <2>1, PairsKept DEF Outward, Hidden, Given
<1> QED
  BY <1>2, <1>3, <1>4, <1>5, <1>6, <1>7, <1>8, <1>9 DEF Next, Step

LEMMA InitInv == Init => IInv
  BY InitPlaces, InitFetching, InitSound, InitOutward DEF IInv

LEMMA NextInv == IInv /\ [Next]_vars => IInv'
  BY NextPlaces, NextFetching, NextSound, NextPassed, NextOutward, NextTold DEF IInv

-----------------------------------------------------------------------------

LEMMA InvType == IInv => TypeOK
<1> SUFFICES ASSUME IInv PROVE TypeOK
  OBVIOUS
<1>1. masked \cup written.entries \subseteq values
  BY DEF IInv, Places, Writers, Outward
<1>2. ASSUME NEW v \in values
      PROVE  v.doc \in DOMAIN manifest /\ v.entry \in Entries(v.doc) /\ v.version \in 0..MaxVersion
  <2>1. Genuine(v)
    BY DEF IInv, Sound
  <2>2. Cached(v.entry) => v.entry.item \in References
    BY <2>1, Referred DEF IInv, Genuine, Cached, Entries
  <2> QED
    BY <2>1, <2>2, GitOpsAssumption DEF IInv, Fetching, Genuine
<1> QED
  BY <1>1, <1>2 DEF IInv, TypeOK, Places, Phases, Writers, Failures, Fetching

LEMMA InvClear == IInv => NothingInTheClear
  BY DEF IInv, Outward, Hidden, NothingInTheClear

LEMMA InvExit == IInv => ExitTells
  BY GitOpsAssumption DEF IInv, Gist, Told, Whole, Shown, ExitTells

\* Two values of one key, or of one cloud reference, are one.
LEMMA InvOne == IInv => EveryKeyOneValue
<1> SUFFICES ASSUME IInv PROVE EveryKeyOneValue
  OBVIOUS
<1>1. written.entries \subseteq values
  BY DEF IInv, Places, Writers, Outward
<1>2. ASSUME written.by \notin {"nobody", "author"} PROVE Pairs(written.entries) = AllPairs
  <2>1. Pairs(values) \subseteq AllPairs
    BY DEF IInv, Sound, Genuine, Pairs, AllPairs
  <2> QED
    BY <1>2, <2>1 DEF IInv, Outward
<1>3. ASSUME NEW v \in values, NEW w \in values PROVE Genuine(v) /\ Genuine(w)
  BY DEF IInv, Sound
<1>4. ASSUME NEW v \in values, NEW w \in values, v.doc = w.doc, v.entry.key = w.entry.key
      PROVE  v = w
  <2>1. v.entry = w.entry
    BY <1>3, <1>4 DEF Genuine, Resolvable, Collide, Entries
  <2> QED
    BY <1>3, <1>4, <2>1 DEF Genuine
<1>5. ASSUME NEW v \in values, NEW w \in values, IsCloud(v.entry), IsCloud(w.entry),
             v.entry.item = w.entry.item
      PROVE  v.version = w.version
  BY <1>3, <1>5 DEF Genuine, Cached
<1> QED
  BY <1>1, <1>2, <1>4, <1>5 DEF EveryKeyOneValue

\* Every reachable state is typed, for every set of manifests and every cloud.
THEOREM TypeCorrect == Spec => []TypeOK
  BY InitInv, NextInv, InvType, PTL DEF Spec

\* Nothing is written in the clear against the user's options, or under a key of the
\* server when the user pinned one (an empty file is none); a dry run reads and sends
\* nothing; and whatever is long enough to be masked is masked first.
THEOREM Clear == Spec => []NothingInTheClear
  BY InitInv, NextInv, InvClear, PTL DEF Spec

\* Every key of every document gets one value, and a reference one version.
THEOREM OneValue == Spec => []EveryKeyOneValue
  BY InitInv, NextInv, InvOne, PTL DEF Spec

\* The exit code tells what became of the apply, and whether the server may have any
\* of it; every failure has the code that it really ends with.
THEOREM ExitIsTrue == Spec => []ExitTells
  BY InitInv, NextInv, InvExit, PTL DEF Spec

-----------------------------------------------------------------------------
(* The other commands.  A list is read page by page while others change it: *)
(* PagesIn says what one has of it then, and the lemmas of this part what a *)
(* page adds.                                                               *)

\* The kind and the name that the i-th argument asks for.
KindAt(i) == IF command.verb # "run" THEN command.kind
             ELSE IF i = 1 THEN "Workflow" ELSE "Document"
Want(i) == [name |-> command.names[i], kind |-> KindAt(i)]
Bearing(k, r) == [kind |-> k, id |-> r.id, name |-> r.name]
Steps == {"apply", "check", "open", "query", "list", "find", "fetch", "delete", "run", "done"}

\* What every step finds; after the end only that it ended.
CommandTyped ==
  /\ command \in Commands /\ step \in Steps
  /\ step = "apply" <=> command.verb = "apply"
  /\ world \in [Known -> Seq(Records)]
  /\ found \in Seq(Nat) /\ seen \in Seq(Records) /\ skip \in Nat
  /\ named \subseteq [kind : Known, id : Nat \ {Missing}, name : Nat] /\ IsFiniteSet(named)
  /\ deleted \in Nat
  /\ step # "done" => deleted = Missing /\ job = Nothing
  /\ step \notin {"apply", "done"} => exit = Running /\ failure = "none"
  /\ step = "done" => exit # Running

\* Ids are of one record each, in their order where a cursor goes by them, and of no
\* record to come; what bore a name is still there unless something was deleted.
Ordered(k) ==
  \A i, j \in DOMAIN world[k] :
    /\ world[k][i].id = world[k][j].id => i = j
    /\ Source(k) = "cursor" /\ i < j => world[k][i].id < world[k][j].id
Lists ==
  /\ AllNames(world) \subseteq named /\ stable \subseteq AllNames(world)
  /\ \A r \in named : r.id <= Cardinality(named)
  /\ \A k \in Known : Ordered(k)
  /\ \A r \in named : "back" \in shifted \/ Exists(r.kind, r.id)

\* The places of a list that were read: up to the last id, or to an offset.
LastId(s) == IF s = <<>> THEN 0 ELSE s[Len(s)].id
Past(k, w, s, n, j) == IF Source(k) = "cursor" THEN w[j].id <= LastId(s) ELSE j <= n

\* What was read of a list w: s is what was read, n how far an offset has come.
PagesIn(k, w, s, n, bore, kept, moved) ==
  /\ \A i \in DOMAIN s : Bearing(k, s[i]) \in bore
  /\ Source(k) = "cursor" => \A i \in DOMAIN s : s[i].id <= LastId(s)
  /\ (Offsets(k) => "back" \notin moved) =>
       \A j \in DOMAIN w :
         Past(k, w, s, n, j) /\ Bearing(k, w[j]) \in kept => w[j] \in ToSet(s)
  /\ (Offsets(k) => "on" \notin moved) =>
       /\ \A i, j \in DOMAIN s : s[i].id = s[j].id => i = j
       /\ \A j \in DOMAIN w, i \in DOMAIN s : ~ Past(k, w, s, n, j) => s[i].id # w[j].id
PagesOf(k, s, n) == PagesIn(k, world[k], s, n, named, stable, shifted)

-----------------------------------------------------------------------------
LEMMA KindFacts ==
  /\ "Workflow" \in Known /\ "Document" \in Known
  /\ KindSpec["Workflow"].byName = "list, then id" /\ KindSpec["Document"].byName = "request"
  /\ \A k \in Known :
       /\ Source(k) \in {"session", "offset", "cursor", "whole"}
       /\ KindSpec[k].byName \in {"request", "list, then id", "refused", "list"}
       /\ KindSpec[k].deletable => KindSpec[k].byName # "list"
       /\ KindSpec[k].byName \in {"list, then id", "request"} => Source(k) = "session"
       /\ KindSpec[k].byName = "request" => k = "Document"
<1>1. Known = {"Document", "Workflow", "Chunk", "Job", "Skill", "WorkflowArtifact", "AIConfig"}
  BY DEF Known, KindSpec
<1> QED
  BY <1>1 DEF KindSpec, Source

LEMMA FirstOf ==
  ASSUME NEW s \in Seq(Records), NEW places \in SUBSET DOMAIN s
  PROVE  /\ places = {} => First(s, places) = Missing
         /\ places # {} => /\ First(s, places) # Missing /\ First(s, places) \in Nat
                           /\ \E i \in places : First(s, places) = s[i].id
<1>1. CASE places = {}
  BY <1>1 DEF First
<1>2. CASE places # {}
  <2>1. DOMAIN s = 1..Len(s) /\ Len(s) \in Nat
    BY LenProperties
  <2>2. \E i \in places : \A j \in places : i <= j
    BY <1>2, <2>1, LeastOf
  <2>3. PICK i \in places : i = CHOOSE n \in places : \A j \in places : n <= j
    BY <2>2
  <2>4. First(s, places) = s[i].id
    BY <1>2, <2>3 DEF First
  <2>5. s[i] \in Records
    BY <2>1, ElementOfSeq
  <2> QED
    BY <1>2, <2>4, <2>5 DEF Records
<1> QED
  BY <1>1, <1>2

\* A page begins behind what was read.
LEMMA StartOf ==
  ASSUME NEW k \in Known, CommandTyped, Ordered(k)
  PROVE  /\ Start(k) \in Nat
         /\ Source(k) # "cursor" => Start(k) = skip
         /\ \A j \in DOMAIN world[k] : j <= Start(k) <=> Past(k, world[k], seen, skip, j)
<1>1. /\ world[k] \in Seq(Records) /\ seen \in Seq(Records) /\ skip \in Nat
      /\ DOMAIN world[k] = 1..Len(world[k]) /\ Len(world[k]) \in Nat
  BY LenProperties DEF CommandTyped
<1>2. CASE Source(k) # "cursor"
  BY <1>1, <1>2 DEF Start, Past
<1>3. CASE Source(k) = "cursor"
  <2>1. LastId(seen) \in Nat
    <3>1. CASE seen = <<>>
      BY <3>1 DEF LastId
    <3>2. CASE seen # <<>>
      <4>1. Len(seen) \in 1..Len(seen)
        BY <1>1, <3>2, EmptySeq, LenProperties
      <4>2. seen[Len(seen)] \in Records
        BY <1>1, <4>1, ElementOfSeq
      <4> QED
        BY <3>2, <4>2 DEF LastId, Records
    <3> QED
      BY <3>1, <3>2
  <2>2. \A i \in 1..Len(world[k]) : world[k][i].id \in Nat
    <3>1. \A i \in 1..Len(world[k]) : world[k][i] \in Records
      BY <1>1, ElementOfSeq
    <3> QED
      BY <3>1 DEF Records
  <2>3. \E n \in 0..Len(world[k]) :
          \A i \in DOMAIN world[k] : i <= n <=> world[k][i].id <= LastId(seen)
    <3> DEFINE After == {i \in 1..Len(world[k]) : ~ (world[k][i].id <= LastId(seen))}
    <3>1. CASE After = {}
      <4>1. \A i \in DOMAIN world[k] : i <= Len(world[k]) <=> world[k][i].id <= LastId(seen)
        BY <1>1, <3>1
      <4> QED
        BY <1>1, <4>1
    <3>2. CASE After # {}
      <4>1. PICK n \in After : \A m \in After : n <= m
        <5>1. After \subseteq Nat
          OBVIOUS
        <5> QED
          BY <3>2, <5>1, LeastOf
      <4>2. n - 1 \in 0..Len(world[k])
        BY <1>1
      <4>3. ASSUME NEW i \in DOMAIN world[k]
            PROVE  i <= n - 1 <=> world[k][i].id <= LastId(seen)
        <5>1. i \in Nat /\ n \in Nat /\ n \in DOMAIN world[k]
          BY <1>1
        <5>2. CASE i < n
          BY <1>1, <4>1, <5>1, <5>2
        <5>3. CASE ~ (i < n)
          <6>1. ~ (world[k][n].id <= LastId(seen))
            OBVIOUS
          <6>2. i = n \/ world[k][n].id < world[k][i].id
            BY <1>3, <5>1, <5>3 DEF Ordered
          <6> QED
            BY <1>1, <2>1, <2>2, <5>1, <5>3, <6>1, <6>2
        <5> QED
          BY <5>2, <5>3
      <4> QED
        BY <4>2, <4>3
    <3> QED
      BY <3>1, <3>2
  <2>4. Start(k) = CHOOSE n \in 0..Len(world[k]) :
          \A i \in DOMAIN world[k] : i <= n <=> world[k][i].id <= LastId(seen)
    BY <1>3 DEF Start, LastId
  <2>5. /\ Start(k) \in 0..Len(world[k])
        /\ \A i \in DOMAIN world[k] : i <= Start(k) <=> world[k][i].id <= LastId(seen)
    BY <2>3, <2>4
  <2> QED
    BY <1>1, <1>3, <2>5 DEF Past
<1> QED
  BY <1>2, <1>3

\* A page is the next part of the list, and the last page its end.
LEMMA BatchOf ==
  ASSUME NEW k \in Known, CommandTyped, Ordered(k), Source(k) = "whole" => skip = 0
  PROVE  /\ Batch(k) \in Seq(Records) /\ Len(Batch(k)) \in Nat
         /\ \A i \in 1..Len(Batch(k)) :
              /\ Start(k) + i \in DOMAIN world[k]
              /\ Batch(k)[i] = world[k][Start(k) + i]
         /\ LastPage(k, Batch(k)) =>
              \A j \in DOMAIN world[k] : j <= Start(k) + Len(Batch(k))
<1> DEFINE n == Start(k)
           size == Len(world[k])
           end == IF size < n + PageSize THEN size ELSE n + PageSize
<1>1. /\ world[k] \in Seq(Records) /\ size \in Nat /\ DOMAIN world[k] = 1..size
      /\ n \in Nat /\ PageSize \in Nat \ {0}
  BY StartOf, LenProperties, CommandAssumption DEF CommandTyped
<1>2. CASE Source(k) = "whole"
  <2>1. n = 0 /\ Batch(k) = world[k]
    BY <1>2, StartOf DEF Batch
  <2> QED
    BY <1>1, <2>1
<1>3. CASE Source(k) # "whole" /\ n < size
  <2>1. Batch(k) = SubSeq(world[k], n + 1, end)
    BY <1>3 DEF Batch
  <2>2. n + 1 \in 1..(size + 1) /\ end \in n..size
    BY <1>1, <1>3
  <2>3. /\ Batch(k) \in Seq(Records) /\ Len(Batch(k)) = end - n
        /\ \A i \in 1..(end - n) : Batch(k)[i] = world[k][n + i]
    <3> HIDE DEF n, size, end
    <3>1. PICK u, v : u = n + 1 /\ v = end
      OBVIOUS
    <3>2. /\ SubSeq(world[k], u, v) \in Seq(Records)
          /\ Len(SubSeq(world[k], u, v)) = v - u + 1
          /\ \A i \in 1..(v - u + 1) : SubSeq(world[k], u, v)[i] = world[k][u + i - 1]
      <4>1. u \in 1..(size + 1) /\ v \in (u - 1)..size
        BY <1>1, <2>2, <3>1
      <4> QED
        BY <1>1, <4>1, SubSeqProperties DEF size
    <3>3. v - u + 1 = end - n /\ \A i \in 1..(end - n) : u + i - 1 = n + i
      BY <1>1, <2>2, <3>1
    <3> QED
      BY <2>1, <3>1, <3>2, <3>3
  <2>4. \A i \in 1..(end - n) : n + i \in 1..size
    BY <1>1, <2>2
  <2>5. LastPage(k, Batch(k)) => \A j \in 1..size : j <= n + (end - n)
    <3>1. end - n > 0
      BY <1>1, <1>3
    <3>2. Batch(k) # <<>>
      BY <2>3, <3>1
    <3>3. LastPage(k, Batch(k)) => end - n < PageSize \/ n + (end - n) >= size
      BY <1>3, <2>3, <3>2 DEF LastPage
    <3> QED
      BY <1>1, <2>2, <3>3
  <2> QED
    BY <1>1, <2>2, <2>3, <2>4, <2>5
<1>4. CASE Source(k) # "whole" /\ ~ (n < size)
  <2>1. Batch(k) = SubSeq(world[k], n + 1, size)
    BY <1>1, <1>4 DEF Batch
  <2>2. Batch(k) = <<>>
    BY <1>1, <1>4, <2>1, SubSeqProperties
  <2> QED
    BY <1>1, <1>4, <2>2
<1> QED
  BY <1>2, <1>3, <1>4

LEMMA Listed ==
  ASSUME CommandTyped, Lists, NEW k \in Known
  PROVE  /\ world[k] \in Seq(Records) /\ DOMAIN world[k] = 1..Len(world[k]) /\ Len(world[k]) \in Nat
         /\ \A j \in DOMAIN world[k] : world[k][j] \in Records /\ Bearing(k, world[k][j]) \in named
<1>1. world[k] \in Seq(Records) /\ DOMAIN world[k] = 1..Len(world[k]) /\ Len(world[k]) \in Nat
  BY LenProperties DEF CommandTyped
<1>2. \A j \in DOMAIN world[k] : Bearing(k, world[k][j]) \in AllNames(world)
  BY DEF AllNames, Names, Bearing
<1> QED
  BY <1>1, <1>2, ElementOfSeq DEF Lists

\* What is known once the next page was read, too.
LEMMA ReadOn ==
  ASSUME CommandTyped, Lists, NEW k \in Known, PagesOf(k, seen, skip),
         Source(k) = "whole" => skip = 0,
         NEW s, s = seen \o Batch(k), NEW n, n = Start(k) + Len(Batch(k))
  PROVE  /\ s \in Seq(Records) /\ n \in Nat
         /\ \A i \in DOMAIN s : Bearing(k, s[i]) \in named
         /\ Source(k) = "cursor" =>
              /\ \A i \in DOMAIN s : s[i].id <= LastId(s)
              /\ \A j \in DOMAIN world[k] : j <= n <=> world[k][j].id <= LastId(s)
         /\ (Offsets(k) => "back" \notin shifted) =>
              \A j \in DOMAIN world[k] :
                j <= n /\ Bearing(k, world[k][j]) \in stable => world[k][j] \in ToSet(s)
         /\ (Offsets(k) => "on" \notin shifted) =>
              /\ \A i, j \in DOMAIN s : s[i].id = s[j].id => i = j
              /\ \A j \in DOMAIN world[k], i \in DOMAIN s : ~ (j <= n) => s[i].id # world[k][j].id
<1> DEFINE m == Start(k)
           a == Len(seen)
           b == Len(Batch(k))
<1>1. /\ m \in Nat /\ b \in Nat /\ a \in Nat /\ n = m + b /\ n \in Nat
      /\ \A i \in 1..b : m + i \in DOMAIN world[k] /\ Batch(k)[i] = world[k][m + i]
      /\ \A j \in DOMAIN world[k] : j <= m <=> Past(k, world[k], seen, skip, j)
      /\ seen \in Seq(Records) /\ Batch(k) \in Seq(Records)
  <2>1. Ordered(k)
    BY DEF Lists
  <2>2. m \in Nat /\ \A j \in DOMAIN world[k] : j <= m <=> Past(k, world[k], seen, skip, j)
    BY <2>1, StartOf
  <2>3. /\ Batch(k) \in Seq(Records) /\ b \in Nat
        /\ \A i \in 1..b : m + i \in DOMAIN world[k] /\ Batch(k)[i] = world[k][m + i]
    BY <2>1, BatchOf
  <2>4. seen \in Seq(Records) /\ a \in Nat
    BY LenProperties DEF CommandTyped
  <2>5. n = m + b
    OBVIOUS
  <2> HIDE DEF m, a, b
  <2>6. n \in Nat
    BY <2>2, <2>3, <2>5
  <2> QED
    BY <2>2, <2>3, <2>4, <2>5, <2>6
<1>2. /\ s \in Seq(Records) /\ Len(s) = a + b /\ DOMAIN s = 1..(a + b) /\ DOMAIN seen = 1..a
      /\ \A i \in 1..a : s[i] = seen[i]
      /\ \A i \in 1..b : s[a + i] = world[k][m + i]
  <2>1. /\ s \in Seq(Records) /\ Len(s) = a + b
        /\ \A i \in 1..(a + b) : s[i] = IF i <= a THEN seen[i] ELSE Batch(k)[i - a]
    BY <1>1, ConcatProperties
  <2>2. \A i \in 1..b : a + i \in 1..(a + b) /\ ~ (a + i <= a) /\ (a + i) - a = i
    BY <1>1
  <2>3. \A i \in 1..a : i \in 1..(a + b) /\ i <= a
    BY <1>1
  <2>4. DOMAIN s = 1..(a + b) /\ DOMAIN seen = 1..a
    BY <1>1, <2>1, LenProperties
  <2> HIDE DEF a, b, m
  <2> QED
    BY <1>1, <2>1, <2>2, <2>3, <2>4
<1>3. /\ DOMAIN world[k] = 1..Len(world[k]) /\ Len(world[k]) \in Nat
      /\ \A j \in DOMAIN world[k] : world[k][j].id \in Nat /\ Bearing(k, world[k][j]) \in named
  BY Listed DEF Records
<1> HIDE DEF a, b, m
<1>4. \A i \in 1..(a + b) : i \in 1..a \/ \E h \in 1..b : i = a + h
  <2> SUFFICES ASSUME NEW i \in 1..(a + b), ~ (i \in 1..a) PROVE \E h \in 1..b : i = a + h
    OBVIOUS
  <2>1. i - a \in 1..b /\ i = a + (i - a)
    BY <1>1
  <2> QED
    BY <2>1
<1>5. \A i \in DOMAIN s : Bearing(k, s[i]) \in named
  <2>1. \A i \in 1..a : Bearing(k, s[i]) \in named
    BY <1>2 DEF PagesOf, PagesIn
  <2>2. \A h \in 1..b : Bearing(k, s[a + h]) \in named
    BY <1>1, <1>2, <1>3
  <2> QED
    BY <1>2, <1>4, <2>1, <2>2
<1>6. ASSUME Source(k) = "cursor"
      PROVE  /\ \A i \in DOMAIN s : s[i].id <= LastId(s)
             /\ \A j \in DOMAIN world[k] : j <= n <=> world[k][j].id <= LastId(s)
  <2>1. CASE b = 0
    <3>1. Len(s) = Len(seen) /\ \A i \in 1..Len(seen) : s[i] = seen[i]
      BY <1>1, <1>2, <2>1 DEF a
    <3>2. LastId(s) = LastId(seen)
      <4>1. s = <<>> <=> seen = <<>>
        BY <1>1, <1>2, <3>1, EmptySeq
      <4>2. seen # <<>> => Len(seen) \in 1..Len(seen)
        BY <1>1, EmptySeq, LenProperties
      <4> QED
        BY <3>1, <4>1, <4>2 DEF LastId
    <3>3. n = m /\ a + b = a
      BY <1>1, <2>1
    <3> QED
      BY <1>1, <1>2, <1>6, <3>2, <3>3 DEF PagesOf, PagesIn, Past
  <2>2. CASE b # 0
    <3>1. b \in 1..b /\ Len(s) # 0 /\ n \in DOMAIN world[k]
      <4>1. b \in 1..b /\ a + b # 0
        BY <1>1, <2>2
      <4> QED
        BY <1>1, <1>2, <4>1
    <3>2. LastId(s) = world[k][n].id
      BY <1>1, <1>2, <3>1, EmptySeq DEF LastId
    <3>3. \A i, j \in DOMAIN world[k] : i < j => world[k][i].id < world[k][j].id
      BY <1>6 DEF Lists, Ordered
    <3>4. ~ (n <= m)
      BY <1>1, <2>2
    <3>5. ~ (world[k][n].id <= LastId(seen))
      BY <1>1, <1>6, <3>1, <3>4 DEF Past
    <3>6. \A i \in 1..a : s[i].id <= LastId(seen) /\ s[i].id \in Nat /\ LastId(seen) \in Nat
      <4>1. \A i \in 1..a : seen[i] \in Records
        BY <1>1, <1>2, ElementOfSeq DEF a
      <4>2. \A i \in 1..a : a \in 1..a
        BY <1>1
      <4>3. \A i \in 1..a : LastId(seen) = seen[a].id
        BY <1>1, EmptySeq DEF LastId, a
      <4> QED
        BY <1>2, <1>6, <4>1, <4>2, <4>3 DEF PagesOf, PagesIn, Records
    <3>7. ASSUME NEW i \in 1..a PROVE s[i].id <= LastId(s)
      <4>1. s[i].id <= LastId(seen) /\ s[i].id \in Nat /\ LastId(seen) \in Nat
        BY <3>6
      <4>2. world[k][n].id \in Nat
        BY <1>3, <3>1
      <4>3. PICK x, y, z : x = s[i].id /\ y = LastId(seen) /\ z = world[k][n].id
        OBVIOUS
      <4>4. x <= y /\ x \in Nat /\ y \in Nat
        BY <4>1, <4>3
      <4>5. ~ (z <= y) /\ z \in Nat
        BY <3>5, <4>2, <4>3
      <4>6. x <= z
        BY <4>4, <4>5
      <4> QED
        BY <3>2, <4>3, <4>6
    <3>8. \A j \in DOMAIN world[k] : j <= n <=> world[k][j].id <= LastId(s)
      <4> SUFFICES ASSUME NEW j \in DOMAIN world[k]
                   PROVE  j <= n <=> world[k][j].id <= world[k][n].id
        BY <3>2
      <4>1. j \in Nat
        BY <1>3
      <4>2. CASE j < n
        <5>1. world[k][j].id < world[k][n].id /\ world[k][j].id \in Nat /\ world[k][n].id \in Nat
          BY <1>3, <3>1, <3>3, <4>2
        <5> QED
          BY <1>1, <4>1, <4>2, <5>1
      <4>3. CASE j = n
        BY <1>1, <1>3, <3>1, <4>1, <4>3
      <4>4. CASE n < j
        <5>1. world[k][n].id < world[k][j].id /\ world[k][n].id \in Nat /\ world[k][j].id \in Nat
          BY <1>3, <3>1, <3>3, <4>4
        <5> QED
          BY <1>1, <4>1, <4>4, <5>1
      <4> QED
        BY <1>1, <4>1, <4>2, <4>3, <4>4
    <3>9. \A h \in 1..b : s[a + h].id <= LastId(s)
      <4> SUFFICES ASSUME NEW h \in 1..b PROVE world[k][m + h].id <= LastId(s)
        BY <1>2
      <4>1. m + h \in DOMAIN world[k]
        BY <1>1
      <4>2. m + h <= n
        <5>1. m \in Nat /\ b \in Nat /\ n = m + b
          BY <1>1
        <5> QED
          BY <5>1
      <4> QED
        BY <3>8, <4>1, <4>2
    <3> QED
      BY <1>2, <1>4, <3>7, <3>8, <3>9
  <2> QED
    BY <2>1, <2>2
<1>7. ASSUME Offsets(k) => "back" \notin shifted, NEW j \in DOMAIN world[k], j <= n,
             Bearing(k, world[k][j]) \in stable
      PROVE  world[k][j] \in ToSet(s)
  <2>1. CASE j <= m
    <3>1. world[k][j] \in ToSet(seen)
      BY <1>1, <1>7, <2>1 DEF PagesOf, PagesIn
    <3>2. PICK i \in 1..a : seen[i] = world[k][j]
      BY <1>2, <3>1 DEF ToSet
    <3>3. i \in DOMAIN s /\ s[i] = world[k][j]
      BY <1>1, <1>2, <3>2
    <3> QED
      BY <3>3 DEF ToSet
  <2>2. CASE ~ (j <= m)
    <3>1. j - m \in 1..b /\ m + (j - m) = j /\ a + (j - m) \in DOMAIN s
      BY <1>1, <1>2, <1>3, <1>7, <2>2
    <3>2. s[a + (j - m)] = world[k][j]
      BY <1>2, <3>1
    <3> QED
      BY <3>1, <3>2 DEF ToSet
  <2> QED
    BY <2>1, <2>2
<1>8. ASSUME Offsets(k) => "on" \notin shifted
      PROVE  /\ \A i, j \in DOMAIN s : s[i].id = s[j].id => i = j
             /\ \A j \in DOMAIN world[k], i \in DOMAIN s : ~ (j <= n) => s[i].id # world[k][j].id
  <2>1. \A j \in DOMAIN world[k], i \in 1..a : ~ (j <= m) => s[i].id # world[k][j].id
    <3>1. \A j \in DOMAIN world[k], i \in DOMAIN seen :
            ~ Past(k, world[k], seen, skip, j) => seen[i].id # world[k][j].id
      BY <1>8 DEF PagesOf, PagesIn
    <3> QED
      BY <1>1, <1>2, <3>1
  <2>2. \A i, j \in 1..a : s[i].id = s[j].id => i = j
    BY <1>2, <1>8 DEF PagesOf, PagesIn
  <2>3. \A i, j \in DOMAIN world[k] : world[k][i].id = world[k][j].id => i = j
    BY DEF Lists, Ordered
  <2>4. ASSUME NEW h \in 1..b
        PROVE  m + h \in DOMAIN world[k] /\ ~ (m + h <= m) /\ m + h <= n
    <3>1. m + h \in DOMAIN world[k] /\ m \in Nat /\ b \in Nat /\ n = m + b
      BY <1>1
    <3> HIDE DEF m, b
    <3>2. h \in Nat /\ 1 <= h /\ h <= b
      BY <3>1
    <3> QED
      BY <3>1, <3>2
  <2>5. \A i \in 1..a, h \in 1..b : s[i].id # s[a + h].id
    BY <1>2, <2>1, <2>4
  <2>6. ASSUME NEW h \in 1..b, NEW g \in 1..b, s[a + h].id = s[a + g].id PROVE a + h = a + g
    <3>1. m + h = m + g
      BY <1>2, <2>3, <2>4, <2>6
    <3> QED
      BY <1>1, <3>1
  <2>7. ASSUME NEW i \in DOMAIN s, NEW j \in DOMAIN s, s[i].id = s[j].id PROVE i = j
    <3>1. /\ i \in 1..a \/ \E h \in 1..b : i = a + h
          /\ j \in 1..a \/ \E h \in 1..b : j = a + h
      BY <1>2, <1>4
    <3>2. CASE i \in 1..a /\ j \in 1..a
      BY <2>2, <2>7, <3>2
    <3>3. CASE (\E h \in 1..b : i = a + h) /\ \E h \in 1..b : j = a + h
      BY <2>6, <2>7, <3>3
    <3> QED
      BY <2>5, <2>7, <3>1, <3>2, <3>3
  <2>8. ASSUME NEW j \in DOMAIN world[k], NEW i \in DOMAIN s, ~ (j <= n)
        PROVE  s[i].id # world[k][j].id
    <3>1. ~ (j <= m)
      BY <1>1, <1>3, <2>8
    <3>2. \A h \in 1..b : m + h # j
      BY <2>4, <2>8
    <3>3. CASE i \in 1..a
      BY <2>1, <2>8, <3>1, <3>3
    <3>4. ASSUME NEW h \in 1..b, i = a + h PROVE s[i].id # world[k][j].id
      <4>1. s[i] = world[k][m + h] /\ m + h \in DOMAIN world[k]
        BY <1>2, <2>4, <3>4
      <4> HIDE DEF m
      <4> QED
        BY <2>3, <2>8, <3>2, <4>1
    <3> QED
      BY <1>2, <1>4, <2>8, <3>3, <3>4
  <2> QED
    BY <2>7, <2>8
<1> QED
  BY <1>1, <1>2, <1>5, <1>6, <1>7, <1>8

\* What was read stays so while the list changes: a record that is not new has one in
\* the list before, which has not moved away from its place unless something was
\* deleted, nor towards the end unless something was created in front of it.
LEMMA PagesKept ==
  ASSUME NEW k, NEW w, NEW s, NEW n, NEW bore, NEW kept, NEW moved,
         PagesIn(k, w, s, n, bore, kept, moved), DOMAIN w \subseteq Nat, n \in Nat,
         NEW x, NEW bore2, NEW kept2, NEW moved2, DOMAIN x \subseteq Nat \ {0},
         bore \subseteq bore2, kept2 \subseteq kept, kept \subseteq bore, moved \subseteq moved2,
         Source(k) = "whole" => s = <<>> /\ n = 0,
         Source(k) \in {"session", "offset", "cursor", "whole"},
         \A j \in DOMAIN x :
           \/ \A r \in bore : r.id # x[j].id
           \/ \E i \in DOMAIN w :
                /\ x[j].id = w[i].id
                /\ Bearing(k, x[j]) \in kept2 => x[j] = w[i]
                /\ "back" \in moved2 \/ i <= j
                /\ "on" \in moved2 \/ j <= i
  PROVE  PagesIn(k, x, s, n, bore2, kept2, moved2)
<1>1. /\ \A i \in DOMAIN s : Bearing(k, s[i]) \in bore2
      /\ Source(k) = "cursor" => \A i \in DOMAIN s : s[i].id <= LastId(s)
  BY DEF PagesIn
<1>2. \A i \in DOMAIN s : Bearing(k, s[i]) \in bore
  BY DEF PagesIn
<1>3. \A r : Bearing(k, r).id = r.id
  BY DEF Bearing
<1>4. Source(k) \in {"session", "offset"} <=> Offsets(k)
  BY DEF Offsets
<1>5. ASSUME Offsets(k) => "back" \notin moved2, NEW j \in DOMAIN x,
             Past(k, x, s, n, j), Bearing(k, x[j]) \in kept2
      PROVE  x[j] \in ToSet(s)
  <2>1. Bearing(k, x[j]) \in bore /\ Bearing(k, x[j]).id = x[j].id
    BY <1>3, <1>5
  <2>2. PICK i \in DOMAIN w : /\ x[j].id = w[i].id /\ x[j] = w[i]
                              /\ "back" \in moved2 \/ i <= j
    BY <1>5, <2>1
  <2>3. Past(k, w, s, n, i)
    <3>1. CASE Source(k) = "cursor"
      BY <1>5, <2>2, <3>1 DEF Past
    <3>2. CASE Source(k) = "whole"
      <4>1. n = 0 /\ j \in Nat \ {0} /\ j <= n
        BY <1>5, <3>2 DEF Past
      <4> QED
        BY <4>1
    <3>3. CASE Offsets(k)
      <4>1. i <= j /\ j <= n /\ Source(k) # "cursor" /\ i \in Nat /\ j \in Nat
        BY <1>4, <1>5, <2>2, <3>3 DEF Past
      <4>2. i <= n
        BY <4>1
      <4> QED
        BY <4>1, <4>2 DEF Past
    <3> QED
      BY <1>4, <3>1, <3>2, <3>3
  <2>4. Offsets(k) => "back" \notin moved
    BY <1>5
  <2>5. Bearing(k, w[i]) \in kept
    BY <1>5, <2>2
  <2>6. w[i] \in ToSet(s)
    BY <2>3, <2>4, <2>5 DEF PagesIn
  <2> QED
    BY <2>2, <2>6
<1>6. ASSUME Offsets(k) => "on" \notin moved2
      PROVE  /\ \A i, j \in DOMAIN s : s[i].id = s[j].id => i = j
             /\ \A j \in DOMAIN x, i \in DOMAIN s : ~ Past(k, x, s, n, j) => s[i].id # x[j].id
  <2>1. Offsets(k) => "on" \notin moved
    BY <1>6
  <2>2. /\ \A i, j \in DOMAIN s : s[i].id = s[j].id => i = j
        /\ \A j \in DOMAIN w, i \in DOMAIN s : ~ Past(k, w, s, n, j) => s[i].id # w[j].id
    BY <2>1 DEF PagesIn
  <2>3. ASSUME NEW j \in DOMAIN x, NEW h \in DOMAIN s, ~ Past(k, x, s, n, j), s[h].id = x[j].id
        PROVE  FALSE
    <3>1. Bearing(k, s[h]) \in bore /\ Bearing(k, s[h]).id = x[j].id
      BY <1>2, <1>3, <2>3
    <3>2. PICK i \in DOMAIN w : x[j].id = w[i].id /\ ("on" \in moved2 \/ j <= i)
      BY <3>1
    <3>3. ~ Past(k, w, s, n, i)
      <4>1. CASE Source(k) = "cursor"
        BY <2>3, <3>2, <4>1 DEF Past
      <4>2. CASE Source(k) = "whole"
        BY <2>3, <4>2
      <4>3. CASE Offsets(k)
        <5>1. j <= i /\ ~ (j <= n) /\ Source(k) # "cursor" /\ i \in Nat /\ j \in Nat
          BY <1>4, <1>6, <2>3, <3>2, <4>3 DEF Past
        <5>2. ~ (i <= n)
          BY <5>1
        <5> QED
          BY <5>1, <5>2 DEF Past
      <4> QED
        BY <1>4, <4>1, <4>2, <4>3
    <3> QED
      BY <2>2, <2>3, <3>2, <3>3
  <2> QED
    BY <2>2, <2>3
<1> QED
  BY <1>1, <1>5, <1>6 DEF PagesIn

\* One more page of a list that is read in pages.
LEMMA PageRead ==
  ASSUME CommandTyped, Lists, NEW k \in Known, PagesOf(k, seen, skip), Source(k) # "whole",
         NEW s, s = seen \o Batch(k), NEW n, n = skip + Len(Batch(k))
  PROVE  s \in Seq(Records) /\ n \in Nat /\ PagesOf(k, s, n)
<1>1. PICK m : m = Start(k) + Len(Batch(k))
  OBVIOUS
<1>2. /\ s \in Seq(Records) /\ m \in Nat
      /\ \A i \in DOMAIN s : Bearing(k, s[i]) \in named
      /\ Source(k) = "cursor" =>
           /\ \A i \in DOMAIN s : s[i].id <= LastId(s)
           /\ \A j \in DOMAIN world[k] : j <= m <=> world[k][j].id <= LastId(s)
      /\ (Offsets(k) => "back" \notin shifted) =>
           \A j \in DOMAIN world[k] :
             j <= m /\ Bearing(k, world[k][j]) \in stable => world[k][j] \in ToSet(s)
      /\ (Offsets(k) => "on" \notin shifted) =>
           /\ \A i, j \in DOMAIN s : s[i].id = s[j].id => i = j
           /\ \A j \in DOMAIN world[k], i \in DOMAIN s : ~ (j <= m) => s[i].id # world[k][j].id
  BY <1>1, ReadOn
<1>3. Ordered(k)
  BY DEF Lists
<1>4. Len(Batch(k)) \in Nat /\ skip \in Nat
  BY <1>3, BatchOf DEF CommandTyped
<1>5. \A j \in DOMAIN world[k] : j <= m <=> Past(k, world[k], s, n, j)
  <2>1. CASE Source(k) = "cursor"
    BY <1>2, <2>1 DEF Past
  <2>2. CASE Source(k) # "cursor"
    <3>1. Start(k) = skip
      BY <1>3, <2>2, StartOf
    <3>2. m = n
      BY <1>1, <3>1
    <3> QED
      BY <2>2, <3>2 DEF Past
  <2> QED
    BY <2>1, <2>2
<1>6. n \in Nat
  BY <1>4
<1> QED
  BY <1>2, <1>5, <1>6 DEF PagesOf, PagesIn

\* What was read when the last page was.
LEMMA AllRead ==
  ASSUME CommandTyped, Lists, NEW k \in Known, PagesOf(k, seen, skip),
         Source(k) = "whole" => skip = 0, LastPage(k, Batch(k)),
         NEW s, s = seen \o Batch(k)
  PROVE  /\ s \in Seq(Records)
         /\ \A i \in DOMAIN s : Bearing(k, s[i]) \in named
         /\ (Offsets(k) => "back" \notin shifted) =>
              \A r \in stable : r.kind = k => \E i \in DOMAIN s : Bearing(k, s[i]) = r
         /\ (Offsets(k) => "on" \notin shifted) =>
              \A i, j \in DOMAIN s : s[i].id = s[j].id => i = j
<1>1. PICK m : m = Start(k) + Len(Batch(k))
  OBVIOUS
<1>2. /\ s \in Seq(Records) /\ m \in Nat
      /\ \A i \in DOMAIN s : Bearing(k, s[i]) \in named
      /\ (Offsets(k) => "back" \notin shifted) =>
           \A j \in DOMAIN world[k] :
             j <= m /\ Bearing(k, world[k][j]) \in stable => world[k][j] \in ToSet(s)
      /\ (Offsets(k) => "on" \notin shifted) =>
           \A i, j \in DOMAIN s : s[i].id = s[j].id => i = j
  BY <1>1, ReadOn
<1>3. \A j \in DOMAIN world[k] : j <= m
  <2>1. Ordered(k)
    BY DEF Lists
  <2> QED
    BY <1>1, <2>1, BatchOf
<1>4. ASSUME Offsets(k) => "back" \notin shifted, NEW r \in stable, r.kind = k
      PROVE  \E i \in DOMAIN s : Bearing(k, s[i]) = r
  <2>1. r \in AllNames(world)
    BY DEF Lists
  <2>2. PICK l \in Known : r \in Names(l, world)
    BY <2>1 DEF AllNames
  <2>3. PICK j \in DOMAIN world[l] : r = [kind |-> l, id |-> world[l][j].id, name |-> world[l][j].name]
    BY <2>2 DEF Names
  <2>4. l = k /\ r = Bearing(k, world[k][j])
    BY <1>4, <2>3 DEF Bearing
  <2>5. world[k][j] \in ToSet(s)
    BY <1>2, <1>3, <1>4, <2>3, <2>4
  <2> QED
    BY <2>4, <2>5 DEF ToSet
<1> QED
  BY <1>2, <1>4

\* The first record of a name, or of an id that is given as a name.
LEMMA MatchOf ==
  ASSUME NEW s \in Seq(Records), NEW k, NEW name, NEW id, id = Match(s, k, name)
  PROVE  /\ id \in Nat
         /\ id # Missing /\ KindSpec[k].byName # "list" =>
              \E i \in DOMAIN s : s[i].id = id /\ s[i].name = name
         /\ id = Missing => \A i \in DOMAIN s : s[i].name # name
<1> DEFINE Named == {i \in DOMAIN s : s[i].name = name}
           Called == {i \in DOMAIN s : s[i].id = name}
<1>1. PICK a : a = First(s, Named)
  OBVIOUS
<1>2. PICK b : b = First(s, Called)
  OBVIOUS
<1>3. /\ Named = {} => a = Missing
      /\ Named # {} => a # Missing /\ a \in Nat /\ \E i \in Named : a = s[i].id
  BY <1>1, FirstOf
<1>4. b = Missing \/ b \in Nat
  BY <1>2, FirstOf
<1>5. id = IF a # Missing \/ KindSpec[k].byName # "list" THEN a ELSE b
  BY <1>1, <1>2 DEF Match
<1> QED
  BY <1>3, <1>4, <1>5 DEF Missing

-----------------------------------------------------------------------------
(* What other clients do to the lists: their order, the ids and the names   *)
(* that were borne stay known.                                              *)

\* The names borne once a list was changed, as in x.
LEMMA NamesAfter ==
  ASSUME Lists, NEW k \in Known, NEW x, \A l \in Known : l # k => x[l] = world[l],
         NEW more, \A j \in DOMAIN x[k] : Bearing(k, x[k][j]) \in named \cup more,
         \A e \in more : \E j \in DOMAIN x[k] : Bearing(k, x[k][j]) = e
  PROVE  /\ \A r \in Names(k, x) : r \in named \cup more
         /\ \A r \in more : r \in Names(k, x)
         /\ \A r \in AllNames(x) : /\ r \in named \cup more
                                   /\ r.kind = k => r \in Names(k, x)
<1>1. Names(k, x) = {Bearing(k, x[k][j]) : j \in DOMAIN x[k]}
  BY DEF Names, Bearing
<1>2. \A r \in Names(k, x) : r \in named \cup more
  BY <1>1
<1>3. \A r \in more : r \in Names(k, x)
  BY <1>1
<1>4. ASSUME NEW l \in Known, NEW r \in Names(l, x)
      PROVE  r \in named \cup more /\ (r.kind = k => r \in Names(k, x))
  <2>1. CASE l = k
    BY <1>2, <1>4, <2>1
  <2>2. CASE l # k
    <3>1. x[l] = world[l]
      BY <2>2
    <3>2. r \in Names(l, world)
      BY <1>4, <3>1 DEF Names
    <3>3. r \in AllNames(world)
      BY <3>2 DEF AllNames
    <3>4. r.kind = l
      BY <1>4 DEF Names
    <3> QED
      BY <2>2, <3>3, <3>4 DEF Lists
  <2> QED
    BY <2>1, <2>2
<1> QED
  BY <1>2, <1>3, <1>4 DEF AllNames

\* How the place of a record in a list moves, and which records are new.
Moved(k) ==
  \A j \in DOMAIN world'[k] :
    \/ \A r \in named : r.id # world'[k][j].id
    \/ \E i \in DOMAIN world[k] :
         /\ world'[k][j].id = world[k][i].id
         /\ Bearing(k, world'[k][j]) \in stable' => world'[k][j] = world[k][i]
         /\ "back" \in shifted' \/ i <= j
         /\ "on" \in shifted' \/ j <= i
Moves ==
  /\ world' \in [Known -> Seq(Records)] /\ \A k \in Known : Moved(k)
  /\ named \subseteq named' /\ stable' \subseteq stable /\ shifted \subseteq shifted'
  /\ named' \subseteq [kind : Known, id : Nat \ {Missing}, name : Nat] /\ IsFiniteSet(named')

LEMMA Unmoved ==
  ASSUME CommandTyped, NEW k \in Known, world'[k] = world[k]
  PROVE  Moved(k)
<1>1. DOMAIN world[k] = 1..Len(world[k])
  BY LenProperties DEF CommandTyped
<1>2. \A j \in DOMAIN world[k] : j <= j
  BY <1>1
<1> QED
  BY <1>2 DEF Moved

\* A new record at the beginning of a list.
LEMMA Prepended ==
  ASSUME NEW w \in Seq(Records), NEW new \in Records, NEW t, t = <<new>> \o w
  PROVE  /\ t \in Seq(Records) /\ DOMAIN t = 1..(Len(w) + 1)
         /\ t[1] = new
         /\ \A j \in 1..(Len(w) + 1) : j # 1 => t[j] = w[j - 1]
<1>1. Len(w) \in Nat
  BY LenProperties
<1>2. <<new>> \in Seq(Records) /\ Len(<<new>>) = 1 /\ <<new>>[1] = new
  OBVIOUS
<1>3. PICK h : h = <<new>>
  OBVIOUS
<1>4. /\ t \in Seq(Records) /\ Len(t) = 1 + Len(w)
      /\ \A i \in 1..(1 + Len(w)) : t[i] = IF i <= 1 THEN h[i] ELSE w[i - 1]
  BY <1>2, <1>3, ConcatProperties
<1>5. /\ 1 \in 1..(1 + Len(w)) /\ 1 <= 1 /\ 1 + Len(w) = Len(w) + 1
      /\ \A j \in 1..(1 + Len(w)) : j # 1 => ~ (j <= 1)
  BY <1>1
<1>6. DOMAIN t = 1..Len(t)
  BY <1>4, LenProperties
<1> QED
  BY <1>2, <1>3, <1>4, <1>5, <1>6

LEMMA Creates ==
  ASSUME CommandTyped, Lists, OtherCreates
  PROVE  Moves /\ Lists'
<1>1. PICK k \in {r.kind : r \in named}, n \in {r.name : r \in named} :
        LET new == [id |-> NewId, name |-> n]
        IN \/ Change(k, Append(world[k], new)) /\ UNCHANGED shifted
           \/ /\ Source(k) # "cursor" /\ Change(k, <<new>> \o world[k])
              /\ shifted' = shifted \cup {"on"}
  BY DEF OtherCreates
<1>2. /\ named \subseteq [kind : Known, id : Nat \ {Missing}, name : Nat] /\ IsFiniteSet(named)
      /\ AllNames(world) \subseteq named /\ \A r \in named : r.id <= Cardinality(named)
      /\ stable \subseteq AllNames(world)
  BY DEF CommandTyped, Lists
<1>3. k \in Known /\ n \in Nat
  BY <1>2
<1>4. PICK new : new = [id |-> NewId, name |-> n]
  OBVIOUS
<1>5. PICK w : w = world[k]
  OBVIOUS
<1>6. PICK t : /\ t = Append(w, new) \/ t = <<new>> \o w
               /\ Change(k, t)
               /\ \/ t = Append(w, new) /\ shifted' = shifted
                  \/ Source(k) # "cursor" /\ shifted' = shifted \cup {"on"}
  <2>1. PICK a : a = Append(w, new)
    OBVIOUS
  <2>2. PICK b : b = <<new>> \o w
    OBVIOUS
  <2>3. \/ Change(k, a) /\ shifted' = shifted
        \/ Source(k) # "cursor" /\ Change(k, b) /\ shifted' = shifted \cup {"on"}
    BY <1>1, <1>4, <1>5, <2>1, <2>2
  <2>4. CASE Change(k, a) /\ shifted' = shifted
    BY <2>1, <2>4
  <2>5. CASE Source(k) # "cursor" /\ Change(k, b) /\ shifted' = shifted \cup {"on"}
    BY <2>2, <2>5
  <2> QED
    BY <2>3, <2>4, <2>5
<1>7. /\ Cardinality(named) \in Nat /\ new.id = 1 + Cardinality(named) /\ new.name = n
      /\ new \in Records
  <2>1. Cardinality(named) \in Nat
    BY <1>2, FS_CardinalityType
  <2>2. 1 + Cardinality(named) \in Nat \ {Missing}
    BY <2>1 DEF Missing
  <2> QED
    BY <1>3, <1>4, <2>1, <2>2 DEF NewId, Records
<1>8. /\ w \in Seq(Records) /\ DOMAIN w = 1..Len(w) /\ Len(w) \in Nat
      /\ \A j \in DOMAIN w : w[j] \in Records /\ Bearing(k, w[j]) \in named
  BY <1>3, <1>5, Listed
<1>9. /\ t \in Seq(Records) /\ DOMAIN t = 1..(Len(w) + 1)
      /\ t = Append(w, new) => /\ \A i \in 1..Len(w) : t[i] = w[i]
                               /\ t[Len(w) + 1] = new
      /\ t # Append(w, new) => /\ t[1] = new
                               /\ \A j \in 1..(Len(w) + 1) : j # 1 => t[j] = w[j - 1]
  <2>1. CASE t = Append(w, new)
    <3>1. /\ t \in Seq(Records) /\ Len(t) = Len(w) + 1 /\ t[Len(w) + 1] = new
          /\ \A i \in 1..Len(w) : t[i] = w[i]
      BY <1>7, <1>8, <2>1, AppendProperties
    <3>2. DOMAIN t = 1..Len(t)
      BY <3>1, LenProperties
    <3> QED
      BY <2>1, <3>1, <3>2
  <2>2. CASE t # Append(w, new)
    <3>1. t = <<new>> \o w
      BY <1>6, <2>2
    <3>2. /\ t \in Seq(Records) /\ DOMAIN t = 1..(Len(w) + 1)
          /\ t[1] = new
          /\ \A j \in 1..(Len(w) + 1) : j # 1 => t[j] = w[j - 1]
      BY <1>7, <1>8, <3>1, Prepended
    <3> QED
      BY <2>2, <3>2
  <2> QED
    BY <2>1, <2>2
\* Where the records come from.
<1>10. \A j \in DOMAIN t :
         \/ t[j] = new
         \/ \E i \in DOMAIN w : /\ t[j] = w[i] /\ i <= j
                                /\ "on" \in shifted' \/ j <= i
  <2> SUFFICES ASSUME NEW j \in DOMAIN t, t[j] # new
               PROVE  \E i \in DOMAIN w : t[j] = w[i] /\ i <= j /\ ("on" \in shifted' \/ j <= i)
    OBVIOUS
  <2>1. CASE t = Append(w, new)
    <3>1. j \in 1..Len(w) /\ j <= j
      <4>1. j # Len(w) + 1
        BY <1>9, <2>1
      <4> QED
        BY <1>8, <1>9, <4>1
    <3> QED
      BY <1>8, <1>9, <2>1, <3>1
  <2>2. CASE t # Append(w, new)
    <3>1. j # 1 /\ t[j] = w[j - 1]
      BY <1>9, <2>2
    <3>2. j - 1 \in DOMAIN w /\ j - 1 <= j
      BY <1>8, <1>9, <3>1
    <3>3. "on" \in shifted'
      BY <1>6, <2>2
    <3> QED
      BY <3>1, <3>2, <3>3
  <2> QED
    BY <2>1, <2>2
<1>11. \A i \in DOMAIN w : \E j \in DOMAIN t : t[j] = w[i]
  <2> SUFFICES ASSUME NEW i \in DOMAIN w PROVE \E j \in DOMAIN t : t[j] = w[i]
    OBVIOUS
  <2>1. CASE t = Append(w, new)
    <3>1. i \in DOMAIN t
      BY <1>8, <1>9
    <3> QED
      BY <1>8, <1>9, <2>1, <3>1
  <2>2. CASE t # Append(w, new)
    <3>1. i + 1 \in DOMAIN t /\ i + 1 # 1 /\ (i + 1) - 1 = i
      BY <1>8, <1>9
    <3>2. t[i + 1] = w[(i + 1) - 1]
      BY <1>9, <2>2, <3>1
    <3> QED
      BY <3>1, <3>2
  <2> QED
    BY <2>1, <2>2
<1>12. \E j \in DOMAIN t : t[j] = new
  <2>1. 1 \in DOMAIN t /\ Len(w) + 1 \in DOMAIN t
    BY <1>8, <1>9
  <2> QED
    BY <1>9, <2>1
<1>13. PICK e : e = Bearing(k, new)
  OBVIOUS
<1>14. /\ world' \in [Known -> Seq(Records)] /\ world'[k] = t
       /\ \A l \in Known : l # k => world'[l] = world[l]
       /\ named' = named \cup {e}
       /\ stable' \subseteq stable /\ stable' \subseteq AllNames(world')
       /\ AllNames(world') \subseteq named'
  <2>1. PICK more : more = {e}
    OBVIOUS
  <2>2. PICK x : x = world'
    OBVIOUS
  <2>3. /\ x = [world EXCEPT ![k] = t]
        /\ named' = named \cup Names(k, x) /\ stable' = stable \cap AllNames(x)
    BY <1>6, <2>2 DEF Change
  <2>4. world \in [Known -> Seq(Records)]
    BY DEF CommandTyped
  <2>5. /\ x \in [Known -> Seq(Records)] /\ x[k] = t
        /\ \A l \in Known : l # k => x[l] = world[l]
    BY <1>3, <1>9, <2>3, <2>4
  <2>6. \A j \in DOMAIN x[k] : Bearing(k, x[k][j]) \in named \cup more
    BY <1>8, <1>10, <1>13, <2>1, <2>5
  <2>7. \A f \in more : \E j \in DOMAIN x[k] : Bearing(k, x[k][j]) = f
    BY <1>12, <1>13, <2>1, <2>5
  <2>8. /\ \A r \in Names(k, x) : r \in named \cup more
        /\ \A r \in more : r \in Names(k, x)
        /\ \A r \in AllNames(x) : r \in named \cup more
    BY <1>3, <2>5, <2>6, <2>7, NamesAfter
  <2>9. named' = named \cup {e}
    BY <2>1, <2>3, <2>8
  <2>10. AllNames(x) \subseteq named'
    BY <2>1, <2>8, <2>9
  <2> QED
    BY <2>2, <2>3, <2>5, <2>9, <2>10
<1>15. \A r \in named : r.id # new.id
  <2>1. \A r \in named : r.id \in Nat /\ r.id <= Cardinality(named)
    BY <1>2
  <2> QED
    BY <1>7, <2>1
<1>16. shifted \subseteq shifted'
  BY <1>6
<1>17. \A l \in Known : Moved(l)
  <2> SUFFICES ASSUME NEW l \in Known PROVE Moved(l)
    OBVIOUS
  <2>1. CASE l # k
    BY <1>14, <2>1, Unmoved
  <2>2. CASE l = k
    BY <1>5, <1>10, <1>14, <1>15, <2>2 DEF Moved
  <2> QED
    BY <2>1, <2>2
<1>18. /\ named' \subseteq [kind : Known, id : Nat \ {Missing}, name : Nat] /\ IsFiniteSet(named')
       /\ Cardinality(named') = 1 + Cardinality(named)
  <2>1. e \in [kind : Known, id : Nat \ {Missing}, name : Nat] /\ e.id = new.id
    BY <1>3, <1>7, <1>13 DEF Bearing, Records
  <2>2. e \notin named
    BY <1>15, <2>1
  <2>3. /\ IsFiniteSet(named \cup {e})
        /\ Cardinality(named \cup {e}) = Cardinality(named) + 1
    BY <1>2, <2>2, FS_AddElement
  <2> QED
    BY <1>2, <1>7, <1>14, <2>1, <2>3
<1>19. \A r \in named' : r.id <= Cardinality(named')
  <2>1. \A r \in named : r.id \in Nat /\ r.id <= Cardinality(named)
    BY <1>2
  <2>2. \A r \in named : r.id <= 1 + Cardinality(named)
    BY <1>7, <2>1
  <2>3. e.id <= 1 + Cardinality(named)
    BY <1>7, <1>13 DEF Bearing
  <2> QED
    BY <1>14, <1>18, <2>2, <2>3
<1>20. \A l \in Known : Ordered(l)'
  <2> SUFFICES ASSUME NEW l \in Known PROVE Ordered(l)'
    OBVIOUS
  <2>0. Ordered(l)
    BY DEF Lists
  <2>1. CASE l # k
    BY <1>14, <2>0, <2>1 DEF Ordered
  <2>2. CASE l = k
    <3>1. \A i, j \in DOMAIN w : /\ w[i].id = w[j].id => i = j
                                 /\ Source(k) = "cursor" /\ i < j => w[i].id < w[j].id
      BY <1>5, <2>0, <2>2 DEF Ordered
    <3>2. \A i \in DOMAIN w : w[i].id < new.id /\ w[i].id # new.id
      <4>1. \A i \in DOMAIN w : w[i].id \in Nat /\ Bearing(k, w[i]).id = w[i].id
        BY <1>8 DEF Bearing, Records
      <4>2. \A i \in DOMAIN w : w[i].id <= Cardinality(named)
        BY <1>2, <1>8, <4>1
      <4> QED
        BY <1>7, <4>1, <4>2
    <3>3. ASSUME NEW i \in DOMAIN t, NEW j \in DOMAIN t
          PROVE  /\ t[i].id = t[j].id => i = j
                 /\ Source(k) = "cursor" /\ i < j => t[i].id < t[j].id
      <4>1. CASE t = Append(w, new)
        <5>1. i \in 1..Len(w) \/ i = Len(w) + 1
          BY <1>8, <1>9
        <5>2. j \in 1..Len(w) \/ j = Len(w) + 1
          BY <1>8, <1>9
        <5>3. CASE i \in 1..Len(w) /\ j \in 1..Len(w)
          BY <1>8, <1>9, <3>1, <4>1, <5>3
        <5>4. CASE i \in 1..Len(w) /\ j = Len(w) + 1
          BY <1>8, <1>9, <3>2, <4>1, <5>4
        <5>5. CASE i = Len(w) + 1 /\ j \in 1..Len(w)
          <6>1. ~ (i < j)
            BY <1>8, <5>5
          <6>2. t[i] = new /\ t[j] = w[j] /\ j \in DOMAIN w
            BY <1>8, <1>9, <4>1, <5>5
          <6> QED
            BY <3>2, <6>1, <6>2
        <5>6. CASE i = Len(w) + 1 /\ j = Len(w) + 1
          <6>1. ~ (i < j)
            BY <1>8, <5>6
          <6> QED
            BY <5>6, <6>1
        <5> QED
          BY <5>1, <5>2, <5>3, <5>4, <5>5, <5>6
      <4>2. CASE t # Append(w, new)
        <5>1. Source(k) # "cursor"
          BY <1>6, <4>2
        <5>2. \A h \in DOMAIN t : h # 1 => h - 1 \in DOMAIN w /\ t[h] = w[h - 1]
          BY <1>8, <1>9, <4>2
        <5>3. t[1] = new
          BY <1>9, <4>2
        <5>4. t[i].id = t[j].id => (i = 1 <=> j = 1)
          BY <3>2, <5>2, <5>3
        <5>5. ASSUME t[i].id = t[j].id, i # 1, j # 1 PROVE i = j
          <6>1. i - 1 = j - 1
            BY <3>1, <5>2, <5>5
          <6> QED
            BY <1>9, <6>1
        <5> QED
          BY <5>1, <5>4, <5>5
      <4> QED
        BY <4>1, <4>2
    <3> QED
      BY <1>14, <2>2, <3>3 DEF Ordered
  <2> QED
    BY <2>1, <2>2
<1>21. \A r \in named' : "back" \in shifted' \/ Exists(r.kind, r.id)'
  <2>1. PICK x : x = world'
    OBVIOUS
  <2>2. ASSUME NEW r \in named, ~ ("back" \in shifted')
        PROVE  \E q \in Names(r.kind, x) : q.id = r.id
    <3>1. PICK q \in Names(r.kind, world) : q.id = r.id
      BY <1>16, <2>2 DEF Lists, Exists
    <3>2. r.kind \in Known
      BY <1>2
    <3>3. PICK i \in DOMAIN world[r.kind] : q.id = world[r.kind][i].id
      BY <3>1 DEF Names
    <3>4. \E j \in DOMAIN x[r.kind] : x[r.kind][j].id = r.id
      BY <1>5, <1>11, <1>14, <2>1, <3>1, <3>2, <3>3
    <3>5. PICK j \in DOMAIN x[r.kind] : x[r.kind][j].id = r.id
      BY <3>4
    <3>6. PICK p : p = Bearing(r.kind, x[r.kind][j])
      OBVIOUS
    <3>7. p \in Names(r.kind, x) /\ p.id = r.id
      BY <3>5, <3>6 DEF Names, Bearing
    <3> QED
      BY <3>7
  <2>3. \E q \in Names(e.kind, x) : q.id = e.id
    <3>1. e.kind = k /\ e.id = new.id
      BY <1>13 DEF Bearing
    <3>2. \E j \in DOMAIN x[k] : x[k][j].id = e.id
      BY <1>12, <1>14, <2>1, <3>1
    <3>3. PICK j \in DOMAIN x[k] : x[k][j].id = e.id
      BY <3>2
    <3>4. PICK p : p = Bearing(k, x[k][j])
      OBVIOUS
    <3>5. p \in Names(k, x) /\ p.id = e.id
      BY <3>3, <3>4 DEF Names, Bearing
    <3> QED
      BY <3>1, <3>5
  <2>4. \A r \in named' : "back" \in shifted' \/ \E q \in Names(r.kind, x) : q.id = r.id
    BY <1>14, <2>2, <2>3
  <2> QED
    BY <2>1, <2>4 DEF Exists
<1>22. Moves
  BY <1>14, <1>16, <1>17, <1>18 DEF Moves
<1> QED
  BY <1>14, <1>19, <1>20, <1>21, <1>22 DEF Lists

LEMMA Removes ==
  ASSUME CommandTyped, Lists, OtherRemoves
  PROVE  Moves /\ Lists'
<1>1. PICK k \in Known : \E i \in DOMAIN world[k] : Change(k, RemoveAt(world[k], i))
  BY DEF OtherRemoves
<1>2. PICK at \in DOMAIN world[k] : Change(k, RemoveAt(world[k], at))
  BY <1>1
<1>3. PICK w : w = world[k]
  OBVIOUS
<1>4. PICK t : t = RemoveAt(w, at)
  OBVIOUS
<1>5. /\ w \in Seq(Records) /\ DOMAIN w = 1..Len(w) /\ Len(w) \in Nat
      /\ \A j \in DOMAIN w : w[j] \in Records /\ Bearing(k, w[j]) \in named
  BY <1>3, Listed
<1>6. at \in 1..Len(w)
  BY <1>3, <1>5
<1>7. /\ t \in Seq(Records) /\ DOMAIN t = 1..(Len(w) - 1)
      /\ \A j \in 1..(Len(w) - 1) : t[j] = IF j < at THEN w[j] ELSE w[j + 1]
  <2>1. /\ t \in Seq(Records) /\ Len(t) = Len(w) - 1
        /\ \A j \in 1..(Len(w) - 1) : t[j] = IF j < at THEN w[j] ELSE w[j + 1]
    BY <1>4, <1>5, <1>6, RemoveAtType
  <2>2. DOMAIN t = 1..Len(t)
    BY <2>1, LenProperties
  <2> QED
    BY <2>1, <2>2
<1>8. \A j \in DOMAIN t : \E i \in DOMAIN w : /\ t[j] = w[i] /\ j <= i
                                              /\ i = IF j < at THEN j ELSE j + 1
  <2> SUFFICES ASSUME NEW j \in DOMAIN t
               PROVE  \E i \in DOMAIN w : /\ t[j] = w[i] /\ j <= i
                                          /\ i = IF j < at THEN j ELSE j + 1
    OBVIOUS
  <2>1. j \in DOMAIN w /\ j + 1 \in DOMAIN w /\ j <= j /\ j <= j + 1
    BY <1>5, <1>7
  <2> QED
    BY <1>7, <2>1
<1>9. PICK x : x = world'
  OBVIOUS
<1>10. /\ world' = [world EXCEPT ![k] = t]
       /\ named' = named \cup Names(k, x) /\ stable' = stable \cap AllNames(x)
       /\ shifted' = shifted \cup {"back"}
  BY <1>2, <1>3, <1>4, <1>9 DEF Change, OtherRemoves
<1>11. /\ x \in [Known -> Seq(Records)] /\ x[k] = t
       /\ \A l \in Known : l # k => x[l] = world[l]
  BY <1>7, <1>9, <1>10 DEF CommandTyped
<1>12. named' = named /\ AllNames(x) \subseteq named' /\ stable' \subseteq AllNames(x)
  <2>1. PICK more : more = {}
    OBVIOUS
  <2>2. \A j \in DOMAIN x[k] : Bearing(k, x[k][j]) \in named \cup more
    BY <1>5, <1>8, <1>11
  <2>3. \A f \in more : \E j \in DOMAIN x[k] : Bearing(k, x[k][j]) = f
    BY <2>1
  <2>4. /\ \A r \in Names(k, x) : r \in named \cup more
        /\ \A r \in AllNames(x) : r \in named \cup more
    BY <1>11, <2>2, <2>3, NamesAfter
  <2>5. named' = named
    BY <1>10, <2>1, <2>4
  <2>6. AllNames(x) \subseteq named'
    BY <2>1, <2>4, <2>5
  <2> QED
    BY <1>10, <2>5, <2>6
<1>13. \A l \in Known : Moved(l)
  <2> SUFFICES ASSUME NEW l \in Known PROVE Moved(l)
    OBVIOUS
  <2>1. CASE l # k
    BY <1>9, <1>11, <2>1, Unmoved
  <2>2. CASE l = k
    BY <1>3, <1>8, <1>9, <1>10, <1>11, <2>2 DEF Moved
  <2> QED
    BY <2>1, <2>2
<1>14. \A l \in Known : Ordered(l)'
  <2> SUFFICES ASSUME NEW l \in Known PROVE Ordered(l)'
    OBVIOUS
  <2>0. Ordered(l)
    BY DEF Lists
  <2>1. CASE l # k
    BY <1>9, <1>11, <2>0, <2>1 DEF Ordered
  <2>2. CASE l = k
    <3>1. \A i, j \in DOMAIN w : /\ w[i].id = w[j].id => i = j
                                 /\ Source(k) = "cursor" /\ i < j => w[i].id < w[j].id
      BY <1>3, <2>0, <2>2 DEF Ordered
    <3>2. ASSUME NEW i \in DOMAIN t, NEW j \in DOMAIN t
          PROVE  /\ t[i].id = t[j].id => i = j
                 /\ Source(k) = "cursor" /\ i < j => t[i].id < t[j].id
      <4>1. PICK g \in DOMAIN w : t[i] = w[g] /\ g = IF i < at THEN i ELSE i + 1
        BY <1>8
      <4>2. PICK h \in DOMAIN w : t[j] = w[h] /\ h = IF j < at THEN j ELSE j + 1
        BY <1>8
      <4>3. i \in Nat /\ j \in Nat /\ at \in Nat
        BY <1>5, <1>6, <1>7
      <4>4. (g = h => i = j) /\ (i < j => g < h)
        BY <4>1, <4>2, <4>3
      <4> QED
        BY <3>1, <4>1, <4>2, <4>4
    <3> QED
      BY <1>9, <1>11, <2>2, <3>2 DEF Ordered
  <2> QED
    BY <2>1, <2>2
<1>15. "back" \in shifted' /\ shifted \subseteq shifted'
  BY <1>10
<1>16. Moves
  BY <1>9, <1>10, <1>11, <1>12, <1>13, <1>15 DEF Moves, CommandTyped
<1> QED
  BY <1>9, <1>12, <1>14, <1>15, <1>16 DEF Lists

LEMMA Renames ==
  ASSUME CommandTyped, Lists, OtherRenames
  PROVE  Moves /\ Lists'
<1>1. PICK k \in Known : \E i \in DOMAIN world[k], n \in {r.name : r \in named} :
        n # world[k][i].name /\ Change(k, [world[k] EXCEPT ![i].name = n])
  BY DEF OtherRenames
<1>2. PICK at \in DOMAIN world[k], n \in {r.name : r \in named} :
        n # world[k][at].name /\ Change(k, [world[k] EXCEPT ![at].name = n])
  BY <1>1
<1>3. PICK w : w = world[k]
  OBVIOUS
<1>4. PICK t : t = [w EXCEPT ![at].name = n]
  OBVIOUS
<1>5. /\ w \in Seq(Records) /\ DOMAIN w = 1..Len(w) /\ Len(w) \in Nat
      /\ \A j \in DOMAIN w : w[j] \in Records /\ Bearing(k, w[j]) \in named
  BY <1>3, Listed
<1>6. /\ named \subseteq [kind : Known, id : Nat \ {Missing}, name : Nat] /\ IsFiniteSet(named)
      /\ AllNames(world) \subseteq named /\ \A r \in named : r.id <= Cardinality(named)
      /\ stable \subseteq AllNames(world)
  BY DEF CommandTyped, Lists
<1>7. n \in Nat /\ n # w[at].name /\ at \in DOMAIN w
  BY <1>2, <1>3, <1>6
<1>8. /\ DOMAIN t = DOMAIN w /\ t[at].name = n
      /\ \A j \in DOMAIN w : t[j].id = w[j].id /\ t[j] \in Records /\ (j # at => t[j] = w[j])
  <2>1. t[at] = [w[at] EXCEPT !.name = n] /\ \A j \in DOMAIN w : j # at => t[j] = w[j]
    BY <1>4, <1>7
  <2>2. t[at].id = w[at].id /\ t[at].name = n /\ t[at] \in Records
    BY <1>5, <1>7, <2>1 DEF Records
  <2> QED
    BY <1>4, <1>5, <2>1, <2>2
<1>9. t \in Seq(Records)
  <2>1. t \in [1..Len(w) -> Records]
    BY <1>4, <1>5, <1>8
  <2> QED
    BY <1>5, <2>1, SeqDef
<1>10. PICK x : x = world'
  OBVIOUS
<1>11. /\ world' = [world EXCEPT ![k] = t]
       /\ named' = named \cup Names(k, x) /\ stable' = stable \cap AllNames(x)
       /\ shifted' = shifted
  <2>1. Change(k, t) /\ shifted' = shifted
    BY <1>2, <1>3, <1>4 DEF OtherRenames
  <2> QED
    BY <1>10, <2>1 DEF Change
<1>12. /\ x \in [Known -> Seq(Records)] /\ x[k] = t
       /\ \A l \in Known : l # k => x[l] = world[l]
  BY <1>9, <1>10, <1>11 DEF CommandTyped
<1>13. PICK e : e = Bearing(k, t[at])
  OBVIOUS
<1>14. named' = named \cup {e} /\ AllNames(x) \subseteq named' /\ stable' \subseteq AllNames(x)
  <2>1. PICK more : more = {e}
    OBVIOUS
  <2>2. \A j \in DOMAIN x[k] : Bearing(k, x[k][j]) \in named \cup more
    BY <1>5, <1>8, <1>12, <1>13, <2>1
  <2>3. \A f \in more : \E j \in DOMAIN x[k] : Bearing(k, x[k][j]) = f
    BY <1>7, <1>8, <1>12, <1>13, <2>1
  <2>4. /\ \A r \in Names(k, x) : r \in named \cup more
        /\ \A r \in more : r \in Names(k, x)
        /\ \A r \in AllNames(x) : r \in named \cup more
    BY <1>12, <2>2, <2>3, NamesAfter
  <2>5. named' = named \cup {e}
    BY <1>11, <2>1, <2>4
  <2>6. AllNames(x) \subseteq named'
    BY <2>1, <2>4, <2>5
  <2> QED
    BY <1>11, <2>5, <2>6
<1>15. \A i, j \in DOMAIN w : /\ w[i].id = w[j].id => i = j
                              /\ Source(k) = "cursor" /\ i < j => w[i].id < w[j].id
  BY <1>3 DEF Lists, Ordered
\* What has another name now is not among the records that never changed.
<1>16. \A j \in DOMAIN w : Bearing(k, t[j]) \in stable' => t[j] = w[j]
  <2> SUFFICES ASSUME e \in stable' PROVE FALSE
    BY <1>8, <1>13
  <2>1. e \in AllNames(world)
    BY <1>6, <1>11
  <2>2. PICK l \in Known : e \in Names(l, world)
    BY <2>1 DEF AllNames
  <2>3. PICK i \in DOMAIN world[l] :
          e = [kind |-> l, id |-> world[l][i].id, name |-> world[l][i].name]
    BY <2>2 DEF Names
  <2>4. e = [kind |-> k, id |-> t[at].id, name |-> t[at].name]
    BY <1>13 DEF Bearing
  <2>5. l = k /\ t[at].id = world[l][i].id /\ t[at].name = world[l][i].name
    BY <2>3, <2>4
  <2>6. i \in DOMAIN w /\ w[at].id = w[i].id /\ n = w[i].name
    BY <1>3, <1>7, <1>8, <2>5
  <2> QED
    BY <1>7, <1>15, <2>6
<1>17. \A l \in Known : Moved(l)
  <2> SUFFICES ASSUME NEW l \in Known PROVE Moved(l)
    OBVIOUS
  <2>1. CASE l # k
    BY <1>10, <1>12, <2>1, Unmoved
  <2>2. CASE l = k
    <3>1. \A j \in DOMAIN w : j <= j
      BY <1>5
    <3> QED
      BY <1>3, <1>8, <1>10, <1>12, <1>16, <2>2, <3>1 DEF Moved
  <2> QED
    BY <2>1, <2>2
<1>18. /\ named' \subseteq [kind : Known, id : Nat \ {Missing}, name : Nat] /\ IsFiniteSet(named')
       /\ \A r \in named' : r.id <= Cardinality(named')
  <2>1. e \in [kind : Known, id : Nat \ {Missing}, name : Nat] /\ e.id = w[at].id
    BY <1>7, <1>8, <1>13 DEF Bearing, Records
  <2>2. /\ IsFiniteSet(named \cup {e})
        /\ Cardinality(named \cup {e}) =
             IF e \in named THEN Cardinality(named) ELSE Cardinality(named) + 1
    BY <1>6, FS_AddElement
  <2>3. Cardinality(named) \in Nat
    BY <1>6, FS_CardinalityType
  <2>4. Cardinality(named) <= Cardinality(named \cup {e}) /\ Cardinality(named \cup {e}) \in Nat
    BY <2>2, <2>3
  <2>5. e.id <= Cardinality(named)
    <3>1. Bearing(k, w[at]) \in named /\ Bearing(k, w[at]).id = e.id
      BY <1>5, <1>7, <2>1 DEF Bearing
    <3> QED
      BY <1>6, <3>1
  <2>6. \A r \in named \cup {e} : r.id \in Nat /\ r.id <= Cardinality(named)
    BY <1>6, <2>1, <2>5
  <2>7. \A r \in named \cup {e} : r.id <= Cardinality(named \cup {e})
    BY <2>3, <2>4, <2>6
  <2> QED
    BY <1>6, <1>14, <2>1, <2>2, <2>7
<1>19. \A l \in Known : Ordered(l)'
  <2> SUFFICES ASSUME NEW l \in Known PROVE Ordered(l)'
    OBVIOUS
  <2>1. CASE l # k
    <3>1. Ordered(l)
      BY DEF Lists
    <3> QED
      BY <1>10, <1>12, <2>1, <3>1 DEF Ordered
  <2>2. CASE l = k
    BY <1>8, <1>10, <1>12, <1>15, <2>2 DEF Ordered
  <2> QED
    BY <2>1, <2>2
<1>20. \A r \in named' : "back" \in shifted' \/ Exists(r.kind, r.id)'
  <2> SUFFICES ASSUME NEW r \in named', ~ ("back" \in shifted')
               PROVE  \E q \in Names(r.kind, x) : q.id = r.id
    BY <1>10 DEF Exists
  <2>1. /\ r.kind \in Known
        /\ \E i \in DOMAIN world[r.kind] : world[r.kind][i].id = r.id
    <3>1. CASE r \in named
      <4>1. \E q \in Names(r.kind, world) : q.id = r.id
        BY <1>11, <3>1 DEF Lists, Exists
      <4> QED
        BY <1>6, <3>1, <4>1 DEF Names
    <3>2. CASE r = e
      BY <1>3, <1>7, <1>8, <1>13, <3>2 DEF Bearing
    <3> QED
      BY <1>14, <3>1, <3>2
  <2>2. \E i \in DOMAIN x[r.kind] : x[r.kind][i].id = r.id
    BY <1>3, <1>8, <1>12, <2>1
  <2>3. PICK i \in DOMAIN x[r.kind] : x[r.kind][i].id = r.id
    BY <2>2
  <2>4. PICK p : p = Bearing(r.kind, x[r.kind][i])
    OBVIOUS
  <2>5. p \in Names(r.kind, x) /\ p.id = r.id
    BY <2>3, <2>4 DEF Names, Bearing
  <2> QED
    BY <2>5
<1>21. Moves
  BY <1>10, <1>11, <1>12, <1>14, <1>17, <1>18 DEF Moves
<1> QED
  BY <1>10, <1>14, <1>18, <1>19, <1>20, <1>21 DEF Lists

-----------------------------------------------------------------------------
(* The inductive invariant of a command: what it asks for, what it found, and *)
(* what it has read of a list.                                              *)

\* The place, among the names that were given, of the one that is looked up.
Turn == IF step = "fetch" THEN Len(found) - 1 ELSE Len(found)

\* What is asked of whom: what is left to look up are the last of the names.
Asked ==
  /\ step \in {"check", "open"} => pending = <<>> /\ found = <<>> /\ seen = <<>> /\ skip = 0
  /\ step \notin {"apply", "check", "done"} /\ command.verb \in {"get", "delete"}
       => command.kind \in Known
  /\ step \notin {"apply", "check", "done"} /\ command.verb = "delete"
       => KindSpec[command.kind].deletable
  /\ step = "query" => command.verb = "query"
  /\ step = "list" => command.verb = "get" /\ command.names = <<>> /\ found = <<>>
  /\ step \in {"find", "fetch"} =>
       /\ command.verb \in {"get", "delete", "run"}
       /\ pending \in Seq([name : Nat, kind : Known]) /\ pending # <<>>
       /\ Turn + Len(pending) = Len(command.names)
       /\ \A i \in 1..Len(pending) : pending[i] = Want(Turn + i)
  /\ step = "fetch" => /\ found # <<>> /\ found[Len(found)] # Missing
                       /\ KindSpec[Head(pending).kind].byName = "list, then id"
  /\ step \in {"delete", "run"} =>
       /\ command.verb = step /\ Len(found) = Len(command.names)
       /\ \A i \in DOMAIN found : found[i] # Missing
  /\ Len(found) <= Len(command.names)

\* An id that a lookup by name gave, or the lack of one, was and stays justified.
FoundBore ==
  \A i \in DOMAIN found :
    found[i] # Missing /\ KindSpec[KindAt(i)].byName # "list"
      => Bore(KindAt(i), found[i], command.names[i])
Gone(k, name) == \/ \A r \in stable : ~ (r.kind = k /\ r.name = name)
                 \/ ByOffset(k) /\ "back" \in shifted
FoundGone ==
  \A i \in DOMAIN found : found[i] = Missing => Gone(KindAt(i), command.names[i])

\* The list that is being read, and the one that was printed.
Paged ==
  step \in {"list", "find"} =>
    PagesOf(Reading, seen, skip) /\ (Source(Reading) = "whole" => seen = <<>> /\ skip = 0)
Printed ==
  (command.verb = "get" /\ command.names = <<>> /\ exit = 0) =>
    LET k    == command.kind
        read == {seen[i].id : i \in DOMAIN seen}
    IN /\ \A r \in stable : r.kind = k /\ r.id \notin read => Offsets(k) /\ "back" \in shifted
       /\ Cardinality(read) < Len(seen) => Offsets(k) /\ "on" \in shifted

\* The inductive invariant of a command.
CInv ==
  /\ CommandTyped /\ (step # "done" => Lists)
  /\ Asked /\ FoundBore /\ FoundGone /\ Paged /\ Printed /\ ActsOnTheNamed /\ DoneIsDone

-----------------------------------------------------------------------------
LEMMA ReadingKnown ==
  ASSUME Asked, step \in {"list", "find"}
  PROVE  Reading \in Known
<1>1. CASE step = "list"
  BY <1>1 DEF Asked, Reading
<1>2. CASE step = "find"
  <2>1. pending \in Seq([name : Nat, kind : Known]) /\ pending # <<>>
    BY <1>2 DEF Asked
  <2>2. Head(pending) \in [name : Nat, kind : Known]
    BY <2>1, HeadTailProperties
  <2> QED
    BY <1>2, <2>2 DEF Reading
<1> QED
  BY <1>1, <1>2

\* What is known of the lookups stays when nothing of them and of the history changes.
LEMMA LookupsKept ==
  ASSUME FoundBore, FoundGone, UNCHANGED <<command, found>>, named \subseteq named',
         stable' \subseteq stable, shifted \subseteq shifted'
  PROVE  FoundBore' /\ FoundGone'
<1>1. \A i : KindAt(i)' = KindAt(i)
  BY DEF KindAt
<1>2. FoundBore'
  BY <1>1 DEF FoundBore, Bore
<1>3. FoundGone'
  BY <1>1 DEF FoundGone, Gone, ByOffset, Offsets
<1> QED
  BY <1>2, <1>3

LEMMA ListsKept ==
  ASSUME Lists, UNCHANGED <<world, others>>
  PROVE  Lists'
BY DEF Lists, others, Ordered, Exists

\* Other clients change lists and history, and nothing of the command.
LEMMA OthersKeep ==
  ASSUME CInv, OtherCreates \/ OtherRemoves \/ OtherRenames
  PROVE  CInv'
<1>1. /\ step \notin {"apply", "check", "open", "done"} /\ exit = Running
      /\ CommandTyped /\ Lists /\ Asked /\ FoundBore /\ FoundGone /\ Paged
  BY DEF CInv, OtherCreates, OtherRemoves, OtherRenames, Meanwhile, CommandTyped
<1>2. UNCHANGED <<failure, exit, command, step, pending, found, seen, skip, deleted, job>>
  BY DEF OtherCreates, OtherRemoves, OtherRenames, Change, lookup, effects
<1>3. Moves /\ Lists'
  BY <1>1, Creates, Removes, Renames
<1>4. CommandTyped'
  BY <1>1, <1>2, <1>3 DEF CommandTyped, Moves
<1>5. Asked'
  <2>1. Turn' = Turn /\ \A i : Want(i)' = Want(i)
    BY <1>2 DEF Turn, Want, KindAt
  <2> QED
    BY <1>1, <1>2, <2>1 DEF Asked
<1>6. FoundBore' /\ FoundGone'
  BY <1>1, <1>2, <1>3, LookupsKept DEF Moves
<1>7. ASSUME step \in {"list", "find"}
      PROVE  /\ PagesOf(Reading, seen, skip)'
             /\ (Source(Reading) = "whole" => seen = <<>> /\ skip = 0)'
  <2>1. PICK k : k = Reading
    OBVIOUS
  <2>2. k \in Known /\ Reading' = k
    BY <1>1, <1>2, <1>7, <2>1, ReadingKnown DEF Reading
  <2>3. /\ PagesIn(k, world[k], seen, skip, named, stable, shifted)
        /\ Source(k) = "whole" => seen = <<>> /\ skip = 0
    BY <1>1, <1>7, <2>1 DEF Paged, PagesOf
  <2>4. PICK w, x : w = world[k] /\ x = world'[k]
    OBVIOUS
  <2>5. DOMAIN w \subseteq Nat /\ DOMAIN x \subseteq Nat \ {0}
    <3>1. w \in Seq(Records) /\ x \in Seq(Records)
      BY <1>1, <1>3, <2>2, <2>4 DEF CommandTyped, Moves
    <3> QED
      BY <3>1, LenProperties
  <2>6. /\ skip \in Nat /\ named \subseteq named' /\ stable' \subseteq stable
        /\ stable \subseteq named /\ shifted \subseteq shifted'
        /\ Source(k) \in {"session", "offset", "cursor", "whole"}
    BY <1>1, <1>3, <2>2, KindFacts DEF Moves, Lists, CommandTyped
  <2>7. \A j \in DOMAIN x :
           \/ \A r \in named : r.id # x[j].id
           \/ \E i \in DOMAIN w :
                /\ x[j].id = w[i].id
                /\ Bearing(k, x[j]) \in stable' => x[j] = w[i]
                /\ "back" \in shifted' \/ i <= j
                /\ "on" \in shifted' \/ j <= i
    BY <1>3, <2>2, <2>4 DEF Moves, Moved
  <2>8. PagesIn(k, x, seen, skip, named', stable', shifted')
    BY <2>3, <2>4, <2>5, <2>6, <2>7, PagesKept
  <2> QED
    BY <1>2, <2>2, <2>3, <2>4, <2>8 DEF PagesOf
<1>8. Paged'
  BY <1>2, <1>7 DEF Paged
<1>9. Printed' /\ DoneIsDone' /\ ActsOnTheNamed'
  BY <1>1, <1>2 DEF Printed, DoneIsDone, ActsOnTheNamed, CommandTyped, Running
<1> QED
  BY <1>3, <1>4, <1>5, <1>6, <1>8, <1>9 DEF CInv

-----------------------------------------------------------------------------
(* Every step of a command keeps it.                                        *)

\* Of a list nothing was read yet.
LEMMA NothingRead ==
  ASSUME NEW k, NEW w \in Seq(Records), NEW s, s = <<>>, NEW bore, NEW kept, NEW moved
  PROVE  PagesIn(k, w, s, 0, bore, kept, moved)
<1>1. DOMAIN w = 1..Len(w) /\ Len(w) \in Nat /\ DOMAIN s = {}
  BY LenProperties
<1>2. \A j \in DOMAIN w : ~ Past(k, w, s, 0, j)
  <2> SUFFICES ASSUME NEW j \in DOMAIN w PROVE ~ Past(k, w, s, 0, j)
    OBVIOUS
  <2>1. w[j] \in Records
    BY <1>1, ElementOfSeq
  <2>2. ~ (w[j].id <= 0)
    BY <2>1 DEF Records, Missing
  <2>3. ~ (j <= 0)
    BY <1>1
  <2>4. LastId(s) = 0
    BY DEF LastId
  <2> QED
    BY <2>2, <2>3, <2>4 DEF Past
<1> QED
  BY <1>1, <1>2 DEF PagesIn

\* A command that gives up, with nothing found or changed by the step.
LEMMA Quits ==
  ASSUME CInv, step \notin {"apply", "done"}, step' = "done", exit' \in {1, 2},
         UNCHANGED <<command, lookup, world, effects, others>>
  PROVE  CInv'
<1>1. /\ CommandTyped /\ Lists /\ Asked /\ FoundBore /\ FoundGone
  BY DEF CInv
<1>2. /\ UNCHANGED <<command, found, seen, skip, world, deleted, job, named, stable, shifted>>
      /\ deleted = Missing /\ job = Nothing
  BY <1>1 DEF lookup, effects, others, CommandTyped
<1>3. CommandTyped'
  BY <1>1, <1>2 DEF CommandTyped, Steps, Running
<1>4. Asked'
  BY <1>1, <1>2 DEF Asked
<1>5. FoundBore' /\ FoundGone'
  BY <1>1, <1>2, LookupsKept
<1>6. Paged'
  BY DEF Paged
<1>7. Printed'
  BY DEF Printed
<1>8. ActsOnTheNamed'
  BY <1>2 DEF ActsOnTheNamed
<1>9. DoneIsDone'
  BY <1>2 DEF DoneIsDone
<1> QED
  BY <1>3, <1>4, <1>5, <1>6, <1>7, <1>8, <1>9 DEF CInv

\* What was asked, once the lookup of the first pending name is over.
LEMMA Resolves ==
  ASSUME CInv, step = "find", NEW id \in Nat, Resolve(id),
         UNCHANGED <<command, world, effects, others>>,
         id # Missing /\ KindSpec[Reading].byName # "list"
           => Bore(Reading, id, Head(pending).name),
         id = Missing => Gone(Reading, Head(pending).name)
  PROVE  CInv'
<1>0. PICK n, m : n = Len(found) /\ m = Len(pending)
  OBVIOUS
<1>1. /\ CommandTyped /\ Lists /\ Asked /\ FoundBore /\ FoundGone
  BY DEF CInv
<1>2. /\ UNCHANGED <<command, world, deleted, job, named, stable, shifted>>
      /\ deleted = Missing /\ job = Nothing /\ exit = Running /\ failure = "none"
  BY <1>1 DEF effects, others, CommandTyped
<1>3. /\ found' = Append(found, id) /\ pending' = Tail(pending)
      /\ seen' = <<>> /\ skip' = 0
  BY DEF Resolve
<1>4. /\ command.verb \in {"get", "delete", "run"}
      /\ pending \in Seq([name : Nat, kind : Known]) /\ pending # <<>>
      /\ n + m = Len(command.names)
      /\ \A i \in 1..m : pending[i] = Want(n + i)
      /\ command.verb # "run" => command.kind \in Known
      /\ command.verb = "delete" => KindSpec[command.kind].deletable
  BY <1>0, <1>1 DEF Asked, Turn
<1>5. /\ found \in Seq(Nat) /\ n \in Nat /\ m \in Nat \ {0}
  <2>1. found \in Seq(Nat)
    BY <1>1 DEF CommandTyped
  <2> QED
    BY <1>0, <1>4, <2>1, LenProperties, EmptySeq
<1>6. /\ found' \in Seq(Nat) /\ Len(found') = n + 1 /\ DOMAIN found' = 1..(n + 1)
      /\ \A i \in 1..n : found'[i] = found[i]
      /\ found'[n + 1] = id /\ DOMAIN found = 1..n
  <2>1. PICK f : f = Append(found, id)
    OBVIOUS
  <2>2. /\ f \in Seq(Nat) /\ Len(f) = n + 1 /\ f[n + 1] = id
        /\ \A i \in 1..n : f[i] = found[i]
    BY <1>0, <1>5, <2>1, AppendProperties
  <2>3. DOMAIN f = 1..Len(f) /\ DOMAIN found = 1..n
    BY <1>0, <1>5, <2>2, LenProperties
  <2> QED
    BY <1>3, <2>1, <2>2, <2>3
<1>7. /\ pending' \in Seq([name : Nat, kind : Known]) /\ Len(pending') = m - 1
      /\ \A i \in 1..(m - 1) : pending'[i] = pending[i + 1]
  <2>1. PICK p : p = Tail(pending)
    OBVIOUS
  <2>2. /\ p \in Seq([name : Nat, kind : Known]) /\ Len(p) = m - 1
        /\ \A i \in 1..Len(p) : p[i] = pending[i + 1]
    BY <1>0, <1>4, <2>1, HeadTailProperties
  <2> QED
    BY <1>3, <2>1, <2>2
<1>8. Head(pending) = Want(n + 1) /\ Reading = KindAt(n + 1) /\ Head(pending).name = command.names[n + 1]
  <2>1. Head(pending) = pending[1] /\ 1 \in 1..m
    BY <1>4, <1>5, HeadTailProperties
  <2>2. Head(pending) = Want(n + 1)
    BY <1>4, <2>1
  <2> QED
    BY <2>2 DEF Reading, Want
<1>9. \A i : KindAt(i)' = KindAt(i) /\ Want(i)' = Want(i)
  BY <1>2 DEF KindAt, Want
<1>10. PICK f, p : f = found' /\ p = pending'
  OBVIOUS
<1>11. \A i \in 1..(n + 1) : i \in 1..n \/ i = n + 1
  BY <1>5
<1>12. /\ step' = "done" => exit' \in {0, 1} /\ failure' = "none"
       /\ step' = "done" /\ exit' = 0 => command.verb = "get"
       /\ step' # "done" => /\ exit' = exit /\ failure' = failure
                            /\ \/ step' = "find" /\ m > 1
                               \/ /\ step' = command.verb /\ command.verb \in {"delete", "run"}
                                  /\ ~ (m > 1)
                                  /\ \A i \in DOMAIN f : f[i] # Missing
  BY <1>0, <1>4, <1>10 DEF Resolve, Ends, Goes
<1>13. FoundBore'
  <2>1. \A i \in 1..n : f[i] # Missing /\ KindSpec[KindAt(i)].byName # "list"
                         => Bore(KindAt(i), f[i], command.names[i])
    BY <1>1, <1>6, <1>10 DEF FoundBore
  <2>2. f[n + 1] # Missing /\ KindSpec[KindAt(n + 1)].byName # "list"
          => Bore(KindAt(n + 1), f[n + 1], command.names[n + 1])
    BY <1>6, <1>8, <1>10
  <2>3. \A i \in DOMAIN f : f[i] # Missing /\ KindSpec[KindAt(i)].byName # "list"
                         => Bore(KindAt(i), f[i], command.names[i])
    BY <1>6, <1>10, <1>11, <2>1, <2>2
  <2> QED
    BY <1>2, <1>9, <1>10, <2>3 DEF FoundBore, Bore
<1>14. FoundGone'
  <2>1. \A i \in 1..n : f[i] = Missing => Gone(KindAt(i), command.names[i])
    BY <1>1, <1>6, <1>10 DEF FoundGone
  <2>2. f[n + 1] = Missing => Gone(KindAt(n + 1), command.names[n + 1])
    BY <1>6, <1>8, <1>10
  <2>3. \A i \in DOMAIN f : f[i] = Missing => Gone(KindAt(i), command.names[i])
    BY <1>6, <1>10, <1>11, <2>1, <2>2
  <2> QED
    BY <1>2, <1>9, <1>10, <2>3 DEF FoundGone, Gone, ByOffset, Offsets
<1>15. CommandTyped'
  <2>1. step' \in Steps /\ (step' = "apply" <=> command.verb = "apply")
    BY <1>4, <1>12 DEF Steps
  <2>2. seen' \in Seq(Records) /\ skip' \in Nat
    BY <1>3
  <2> QED
    BY <1>1, <1>2, <1>6, <1>12, <2>1, <2>2 DEF CommandTyped, Running
<1>16. Len(found') <= Len(command.names)
  BY <1>4, <1>5, <1>6
<1>17. Asked'
  <2>1. CASE step' = "done"
    BY <1>2, <1>16, <2>1 DEF Asked
  <2>2. CASE step' = "find" /\ m > 1
    <3>1. pending' # <<>>
      BY <1>5, <1>7, <2>2, EmptySeq
    <3>2. n + 1 + (m - 1) = Len(command.names)
      BY <1>4, <1>5
    <3>3. \A i \in 1..(m - 1) : pending'[i] = Want(n + 1 + i)
      <4>1. \A i \in 1..(m - 1) : i + 1 \in 1..m /\ n + (i + 1) = n + 1 + i
        BY <1>5
      <4> QED
        BY <1>4, <1>7, <4>1
    <3>4. Turn' = n + 1
      BY <1>6, <2>2 DEF Turn
    <3>5. \A i \in 1..(m - 1) : pending'[i] = Want(n + 1 + i)'
      BY <1>9, <3>3
    <3>6. Turn' + Len(pending') = Len(command.names)
      BY <1>7, <3>2, <3>4
    <3>7. \A i \in 1..Len(pending') : pending'[i] = Want(Turn + i)'
      BY <1>7, <3>4, <3>5 DEF Want, KindAt
    <3> QED
      BY <1>2, <1>4, <1>7, <1>16, <2>2, <3>1, <3>6, <3>7 DEF Asked
  <2>3. CASE step' \in {"delete", "run"} /\ step' = command.verb /\ ~ (m > 1)
    <3>1. m = 1 /\ n + 1 = Len(command.names)
      BY <1>4, <1>5, <2>3
    <3>2. \A i \in DOMAIN found' : found'[i] # Missing
      BY <1>10, <1>12, <2>3
    <3> QED
      BY <1>2, <1>4, <1>6, <1>16, <2>3, <3>1, <3>2 DEF Asked
  <2> QED
    BY <1>12, <2>1, <2>2, <2>3
<1>18. Paged'
  <2>1. CASE step' = "find" /\ m > 1
    <3>1. PICK k : k = Reading'
      OBVIOUS
    <3>2. pending' # <<>>
      BY <1>5, <1>7, <2>1, EmptySeq
    <3>3. k = Head(pending').kind /\ Head(pending') \in [name : Nat, kind : Known]
      BY <1>7, <2>1, <3>1, <3>2, HeadTailProperties DEF Reading
    <3>4. world'[k] \in Seq(Records)
      BY <1>15, <3>3 DEF CommandTyped
    <3>5. PICK w, s : w = world'[k] /\ s = seen'
      OBVIOUS
    <3>6. PagesIn(k, w, s, 0, named', stable', shifted')
      BY <1>3, <3>4, <3>5, NothingRead
    <3>7. PagesOf(Reading, seen, skip)'
      BY <1>3, <3>1, <3>5, <3>6 DEF PagesOf
    <3> QED
      BY <1>3, <3>7 DEF Paged
  <2> QED
    BY <1>12, <2>1 DEF Paged
<1>19. Lists'
  BY <1>1, ListsKept
<1>20. Printed' /\ ActsOnTheNamed' /\ DoneIsDone'
  <2>1. command.names # <<>>
    <3>1. Len(command.names) # 0
      BY <1>4, <1>5
    <3> QED
      BY <3>1, EmptySeq
  <2>2. Printed'
    BY <1>2, <2>1 DEF Printed
  <2>3. ActsOnTheNamed'
    BY <1>2 DEF ActsOnTheNamed
  <2>4. DoneIsDone'
    BY <1>2, <1>12 DEF DoneIsDone
  <2> QED
    BY <2>2, <2>3, <2>4
<1> QED
  BY <1>13, <1>14, <1>15, <1>17, <1>18, <1>19, <1>20 DEF CInv

LEMMA CheckKeeps ==
  ASSUME CInv, Check
  PROVE  CInv'
<1>1. /\ step = "check" /\ UNCHANGED <<command, lookup, world, effects, others>>
      /\ CommandTyped /\ Lists /\ Asked /\ FoundBore /\ FoundGone
  BY DEF Check, CInv
<1>2. CASE step' = "done"
  <2>1. exit' \in {1, 2} /\ failure' = "none"
    BY <1>1, <1>2 DEF Check, Ends, Goes
  <2> QED
    BY <1>1, <1>2, <2>1, Quits
<1>3. CASE step' # "done"
  <2>1. /\ step' = "open" /\ UNCHANGED <<exit, failure>>
        /\ command.verb \in {"get", "delete"} => command.kind \in Known
        /\ command.verb = "delete" => KindSpec[command.kind].deletable
    BY <1>3 DEF Check, Ends, Goes, UnknownKind, NotDeletable
  <2>2. /\ UNCHANGED <<command, pending, found, seen, skip, world, deleted, job,
                       named, stable, shifted>>
        /\ deleted = Missing /\ job = Nothing /\ exit = Running /\ failure = "none"
    BY <1>1 DEF lookup, effects, others, CommandTyped
  <2>3. CommandTyped'
    BY <1>1, <2>1, <2>2 DEF CommandTyped, Steps
  <2>4. Lists'
    BY <1>1, ListsKept
  <2>5. Asked'
    BY <1>1, <2>1, <2>2 DEF Asked
  <2>6. FoundBore' /\ FoundGone'
    BY <1>1, <2>2, LookupsKept
  <2>7. Paged' /\ Printed' /\ DoneIsDone' /\ ActsOnTheNamed'
    BY <2>1, <2>2 DEF Paged, Printed, DoneIsDone, ActsOnTheNamed, Running
  <2> QED
    BY <2>3, <2>4, <2>5, <2>6, <2>7 DEF CInv
<1> QED
  BY <1>2, <1>3

LEMMA GivenTypes ==
  ASSUME CommandTyped
  PROVE  /\ command.verb \in Verbs /\ command.names \in Seq(Nat)
         /\ Len(command.names) \in Nat /\ DOMAIN command.names = 1..Len(command.names)
         /\ command.names = <<>> => Len(command.names) = 0
         /\ Len(command.names) = 0 => command.names = <<>>
         /\ command.verb = "get" => Len(command.names) <= 1
         /\ command.verb = "delete" => Len(command.names) = 1
         /\ command.verb = "run" => Len(command.names) >= 1
<1>1. command \in Commands
  BY DEF CommandTyped
<1>2. command.names \in Seq(Nat)
  BY <1>1, CommandAssumption
<1>3. /\ Len(command.names) \in Nat /\ DOMAIN command.names = 1..Len(command.names)
      /\ command.names = <<>> => Len(command.names) = 0
      /\ Len(command.names) = 0 => command.names = <<>>
  BY <1>2, LenProperties, EmptySeq
<1> QED
  BY <1>1, <1>2, <1>3, CommandAssumption

LEMMA OpenKeeps ==
  ASSUME CInv, Open
  PROVE  CInv'
<1>1. /\ step = "open" /\ UNCHANGED <<command, found, seen, skip, world, effects, others>>
      /\ CommandTyped /\ Lists /\ Asked /\ FoundBore /\ FoundGone
  BY DEF Open, CInv
<1>2. /\ UNCHANGED <<command, found, seen, skip, world, deleted, job, named, stable, shifted>>
      /\ deleted = Missing /\ job = Nothing /\ exit = Running /\ failure = "none"
      /\ found = <<>> /\ seen = <<>> /\ skip = 0
      /\ command.verb \in {"get", "delete"} => command.kind \in Known
      /\ command.verb = "delete" => KindSpec[command.kind].deletable
      /\ command.verb # "apply"
  BY <1>1 DEF effects, others, CommandTyped, Asked
<1>3. \A i : Want(i)' = Want(i) /\ KindAt(i)' = KindAt(i)
  BY <1>2 DEF Want, KindAt
<1>4. CASE step' = "done"
  <2>1. exit' = 1 /\ pending' = pending
    BY <1>4 DEF Open, Ends, Goes, Fails, Uncaught, Traceback
  <2> QED
    BY <1>1, <1>4, <2>1, Quits DEF lookup
<1>5. CASE step' # "done"
  <2>1. /\ step' = IF command.verb = "query" THEN "query"
                   ELSE IF command.names = <<>> THEN "list" ELSE "find"
        /\ UNCHANGED <<exit, failure>>
        /\ pending' = [i \in DOMAIN command.names |->
                         [name |-> command.names[i],
                          kind |-> IF command.verb # "run" THEN command.kind
                                   ELSE IF i = 1 THEN "Workflow" ELSE "Document"]]
    BY <1>5 DEF Open, Ends, Goes, Fails
  <2>2. CommandTyped'
    BY <1>1, <1>2, <2>1 DEF CommandTyped, Steps
  <2>3. Lists'
    BY <1>1, ListsKept
  <2>4. FoundBore' /\ FoundGone'
    BY <1>1, <1>2, LookupsKept
  <2>5. Printed' /\ DoneIsDone' /\ ActsOnTheNamed'
    BY <1>2, <2>1 DEF Printed, DoneIsDone, ActsOnTheNamed, Running
  <2>6. Len(found) = 0
    BY <1>2
  <2>7. CASE step' = "query"
    <3>1. command.verb = "query"
      BY <2>1, <2>7
    <3>2. Asked'
      BY <1>1, <1>2, <2>6, <2>7, <3>1, GivenTypes DEF Asked
    <3>3. Paged'
      BY <2>7 DEF Paged
    <3> QED
      BY <2>2, <2>3, <2>4, <2>5, <3>2, <3>3 DEF CInv
  <2>8. CASE step' = "list"
    <3>1. command.names = <<>> /\ command.verb = "get"
      <4>1. command.names = <<>> /\ command.verb # "query"
        BY <2>1, <2>8
      <4>2. command.verb \in Verbs /\ Len(command.names) = 0
        BY <1>1, <4>1, GivenTypes
      <4> QED
        BY <1>1, <1>2, <4>1, <4>2, GivenTypes DEF Verbs
    <3>2. Asked'
      BY <1>1, <1>2, <2>6, <2>8, <3>1, GivenTypes DEF Asked
    <3>3. Reading' = command.kind /\ command.kind \in Known
      BY <1>2, <2>8, <3>1 DEF Reading
    <3>4. PICK k, w : k = command.kind /\ w = world[k]
      OBVIOUS
    <3>5. PagesIn(k, w, seen, 0, named, stable, shifted)
      BY <1>1, <1>2, <3>3, <3>4, NothingRead DEF CommandTyped
    <3>6. Paged'
      BY <1>2, <3>3, <3>4, <3>5 DEF Paged, PagesOf
    <3> QED
      BY <2>2, <2>3, <2>4, <2>5, <3>2, <3>6 DEF CInv
  <2>9. CASE step' = "find"
    <3>1. PICK m : m = Len(command.names)
      OBVIOUS
    <3>2. command.names # <<>> /\ command.verb \in {"get", "delete", "run"}
      BY <1>1, <1>2, <2>1, <2>9, GivenTypes DEF Verbs
    <3>3. /\ m \in Nat \ {0} /\ DOMAIN command.names = 1..m /\ command.names \in Seq(Nat)
      BY <1>1, <3>1, <3>2, GivenTypes
    <3>4. PICK p : p = pending'
      OBVIOUS
    <3>5. /\ DOMAIN p = 1..m
          /\ \A i \in 1..m : p[i] = Want(i)
      BY <2>1, <3>3, <3>4 DEF Want, KindAt
    <3>6. \A i \in 1..m : KindAt(i) \in Known /\ command.names[i] \in Nat
      BY <1>2, <3>2, <3>3, ElementOfSeq, KindFacts, <3>1 DEF KindAt
    <3>7. p \in [1..m -> [name : Nat, kind : Known]]
      <4>1. p = [i \in 1..m |-> [name |-> command.names[i],
                          kind |-> IF command.verb # "run" THEN command.kind
                                   ELSE IF i = 1 THEN "Workflow" ELSE "Document"]]
        BY <2>1, <3>3, <3>4
      <4> QED
        BY <3>6, <4>1 DEF KindAt
    <3>8. p \in Seq([name : Nat, kind : Known]) /\ Len(p) = m /\ p # <<>>
      <4>1. p \in Seq([name : Nat, kind : Known])
        <5>1. PICK S : S = [name : Nat, kind : Known]
          OBVIOUS
        <5>2. p \in [1..m -> S]
          BY <3>7, <5>1
        <5>3. p \in Seq(S)
          BY <3>3, <5>2, SeqDef
        <5> QED
          BY <5>1, <5>3
      <4>2. Len(p) = m
        BY <3>3, <3>5, <4>1, LenProperties
      <4> QED
        BY <3>3, <4>1, <4>2, EmptySeq
    <3>9. Turn' = 0
      BY <1>2, <2>6, <2>9 DEF Turn
    <3>10. \A i \in 1..m : p[i] = Want(Turn + i)'
      <4>1. \A i \in 1..m : 0 + i = i
        BY <3>3
      <4> QED
        BY <1>2, <3>5, <3>9, <4>1 DEF Want, KindAt
    <3>11. Turn' + Len(p) = Len(command.names)
      BY <3>1, <3>3, <3>8, <3>9
    <3>12. Asked'
      BY <1>2, <2>6, <2>9, <3>1, <3>2, <3>3, <3>4, <3>8, <3>10, <3>11 DEF Asked
    <3>13. Reading' = Head(p).kind /\ Head(p) \in [name : Nat, kind : Known]
      BY <2>9, <3>4, <3>8, HeadTailProperties DEF Reading
    <3>14. PICK k, w : k = Head(p).kind /\ w = world[k]
      OBVIOUS
    <3>15. PagesIn(k, w, seen, 0, named, stable, shifted)
      BY <1>1, <1>2, <3>13, <3>14, NothingRead DEF CommandTyped
    <3>16. Paged'
      BY <1>2, <3>13, <3>14, <3>15 DEF Paged, PagesOf
    <3> QED
      BY <2>2, <2>3, <2>4, <2>5, <3>12, <3>16 DEF CInv
  <2> QED
    BY <2>1, <2>7, <2>8, <2>9
<1> QED
  BY <1>4, <1>5

LEMMA QuitsKeep ==
  ASSUME CInv, Refused \/ RequestFails
  PROVE  CInv'
<1>1. step \in {"list", "find", "fetch"} /\ step \notin {"apply", "done"}
  BY DEF Refused, RequestFails, Listing, Searching, Asking
<1>2. UNCHANGED <<command, lookup, world, effects, others>>
  BY DEF Refused, RequestFails
<1>3. CASE Refused
  <2>1. step' = "done" /\ exit' = 1
    BY <1>3 DEF Refused, Ends
  <2> QED
    BY <1>1, <1>2, <2>1, Quits
<1>4. CASE RequestFails
  <2>1. PICK why \in Faults : Ends(CodeOf(why), why)
    BY <1>4 DEF RequestFails, Fails
  <2>2. step' = "done" /\ exit' \in {1, 2}
    BY <2>1 DEF Ends, CodeOf, ExitCodeFor, Uncaught, Traceback
  <2> QED
    BY <1>1, <1>2, <2>2, Quits
<1> QED
  BY <1>3, <1>4

\* As many ids as places, when none is there twice.
LEMMA IdsCounted ==
  ASSUME NEW s \in Seq(Records), \A i, j \in DOMAIN s : s[i].id = s[j].id => i = j
  PROVE  ~ (Cardinality({s[i].id : i \in DOMAIN s}) < Len(s))
<1>1. DOMAIN s = 1..Len(s) /\ Len(s) \in Nat
  BY LenProperties
<1>2. PICK ids : ids = {s[i].id : i \in DOMAIN s}
  OBVIOUS
<1>3. PICK f : f = [i \in 1..Len(s) |-> s[i].id]
  OBVIOUS
<1>4. f \in [1..Len(s) -> ids] /\ \A i \in 1..Len(s) : f[i] = s[i].id
  BY <1>1, <1>2, <1>3
<1>5. f \in Surjection(1..Len(s), ids)
  BY <1>1, <1>2, <1>4 DEF Surjection
<1>6. f \in Injection(1..Len(s), ids)
  BY <1>1, <1>4 DEF Injection, IsInjective
<1>7. IsFiniteSet(1..Len(s)) /\ Cardinality(1..Len(s)) = Len(s)
  <2>1. PICK n : n = Len(s)
    OBVIOUS
  <2>2. 1 \in Int /\ n \in Int /\ n \in Nat
    BY <1>1, <2>1
  <2>3. IsFiniteSet(1..n) /\ Cardinality(1..n) = IF 1 > n THEN 0 ELSE n - 1 + 1
    BY <2>2, FS_Interval
  <2> QED
    BY <2>1, <2>2, <2>3
<1>8. Cardinality(ids) = Len(s)
  BY <1>5, <1>6, <1>7, FS_Surjection
<1> QED
  BY <1>1, <1>2, <1>8

LEMMA ReadPageKeeps ==
  ASSUME CInv, ReadPage
  PROVE  CInv'
<1>1. /\ CommandTyped /\ Lists /\ Asked /\ FoundBore /\ FoundGone /\ Paged
      /\ step = "list" /\ Reading = command.kind
  BY DEF CInv, ReadPage, Listing, Reading
<1>2. PICK k : k = command.kind
  OBVIOUS
<1>3. PICK s, n : s = seen \o Batch(k) /\ n = skip + Len(Batch(k))
  OBVIOUS
<1>4. /\ seen' = s /\ skip' = n /\ UNCHANGED <<command, pending, found, world, effects, others>>
      /\ IF LastPage(k, Batch(k)) THEN Ends(0, "none") ELSE Goes("list")
  BY <1>1, <1>2, <1>3 DEF ReadPage
<1>5. /\ UNCHANGED <<command, pending, found, world, deleted, job, named, stable, shifted>>
      /\ deleted = Missing /\ job = Nothing /\ exit = Running /\ failure = "none"
  BY <1>1, <1>4 DEF effects, others, CommandTyped
<1>6. /\ k \in Known /\ PagesOf(k, seen, skip) /\ (Source(k) = "whole" => skip = 0)
      /\ command.verb = "get" /\ command.names = <<>>
  BY <1>1, <1>2 DEF Asked, Paged
<1>7. Lists' /\ FoundBore' /\ FoundGone' /\ ActsOnTheNamed'
  BY <1>1, <1>4, <1>5, ListsKept, LookupsKept DEF ActsOnTheNamed
<1>8. s \in Seq(Records) /\ n \in Nat
  <2>1. Ordered(k)
    BY <1>1, <1>6 DEF Lists
  <2>2. /\ Batch(k) \in Seq(Records) /\ Len(Batch(k)) \in Nat
        /\ seen \in Seq(Records) /\ skip \in Nat
    BY <1>1, <1>6, <2>1, BatchOf DEF CommandTyped
  <2>3. n \in Nat
    BY <1>3, <2>2
  <2> QED
    BY <1>3, <2>2, <2>3, ConcatProperties
<1>9. CASE LastPage(k, Batch(k))
  <2>1. step' = "done" /\ exit' = 0 /\ failure' = "none"
    BY <1>4, <1>9 DEF Ends
  <2>2. CommandTyped'
    BY <1>1, <1>4, <1>5, <1>8, <2>1 DEF CommandTyped, Steps, Running
  <2>3. Asked'
    BY <1>1, <1>5, <2>1 DEF Asked
  <2>4. /\ (Offsets(k) => "back" \notin shifted) =>
             \A r \in stable : r.kind = k => \E i \in DOMAIN s : Bearing(k, s[i]) = r
        /\ (Offsets(k) => "on" \notin shifted) =>
             \A i, j \in DOMAIN s : s[i].id = s[j].id => i = j
    BY <1>1, <1>3, <1>6, <1>9, AllRead
  <2>5. PICK read : read = {s[i].id : i \in DOMAIN s}
    OBVIOUS
  <2>6. \A r \in stable : r.kind = k /\ r.id \notin read => Offsets(k) /\ "back" \in shifted
    <3> SUFFICES ASSUME NEW r \in stable, r.kind = k, Offsets(k) => "back" \notin shifted
                 PROVE  r.id \in read
      OBVIOUS
    <3>1. PICK i \in DOMAIN s : Bearing(k, s[i]) = r
      BY <2>4
    <3>2. r.id = s[i].id
      BY <3>1 DEF Bearing
    <3> QED
      BY <2>5, <3>2
  <2>7. Cardinality(read) < Len(s) => Offsets(k) /\ "on" \in shifted
    BY <1>8, <2>4, <2>5, IdsCounted
  <2>8. Printed'
    BY <1>2, <1>4, <1>5, <2>5, <2>6, <2>7 DEF Printed, Offsets
  <2>9. Paged' /\ DoneIsDone'
    BY <1>5, <1>6, <2>1 DEF Paged, DoneIsDone
  <2> QED
    BY <1>7, <2>2, <2>3, <2>8, <2>9 DEF CInv
<1>10. CASE ~ LastPage(k, Batch(k))
  <2>1. step' = "list" /\ UNCHANGED <<exit, failure>>
    BY <1>4, <1>10 DEF Goes
  <2>2. CommandTyped'
    BY <1>1, <1>4, <1>5, <1>8, <2>1 DEF CommandTyped, Steps
  <2>3. Asked'
    BY <1>1, <1>5, <2>1 DEF Asked
  <2>4. Source(k) # "whole"
    BY <1>10 DEF LastPage
  <2>5. PagesOf(k, s, n)
    BY <1>1, <1>3, <1>6, <2>4, PageRead
  <2>6. Reading' = k
    BY <1>2, <1>5, <2>1 DEF Reading
  <2>7. Paged'
    BY <1>4, <1>5, <2>4, <2>5, <2>6 DEF Paged, PagesOf
  <2>8. Printed' /\ DoneIsDone'
    BY <1>5, <2>1 DEF Printed, DoneIsDone, Running
  <2> QED
    BY <1>7, <2>2, <2>3, <2>7, <2>8 DEF CInv
<1> QED
  BY <1>9, <1>10

\* Who lacks a name in what was read of a list to its end, lacks it in the list.
LEMMA SearchPageKeeps ==
  ASSUME CInv, SearchPage
  PROVE  CInv'
<1>1. /\ CommandTyped /\ Lists /\ Asked /\ FoundBore /\ FoundGone /\ Paged
      /\ step = "find" /\ UNCHANGED <<command, world, effects, others>>
  BY DEF CInv, SearchPage, Searching
<1>2. PICK k, name : k = Reading /\ name = Head(pending).name
  OBVIOUS
<1>3. /\ k \in Known /\ PagesOf(k, seen, skip) /\ (Source(k) = "whole" => skip = 0)
      /\ KindSpec[k].byName \in {"list", "list, then id"}
  BY <1>1, <1>2, ReadingKnown DEF Paged, SearchPage, Searching
<1>4. PICK s, n : s = seen \o Batch(k) /\ n = skip + Len(Batch(k))
  OBVIOUS
<1>5. PICK id : id = Match(s, k, name)
  OBVIOUS
<1>6. \/ /\ KindSpec[k].byName = "list, then id" /\ id # Missing
         /\ found' = Append(found, id) /\ Goes("fetch") /\ UNCHANGED <<pending, seen, skip>>
      \/ /\ ~ (KindSpec[k].byName = "list, then id" /\ id # Missing)
         /\ LastPage(k, Batch(k)) /\ Resolve(id)
      \/ /\ ~ LastPage(k, Batch(k))
         /\ seen' = s /\ skip' = n
         /\ Goes("find") /\ UNCHANGED <<pending, found>>
  BY <1>2, <1>4, <1>5 DEF SearchPage
<1>7. /\ UNCHANGED <<command, world, deleted, job, named, stable, shifted>>
      /\ deleted = Missing /\ job = Nothing /\ exit = Running /\ failure = "none"
  BY <1>1 DEF effects, others, CommandTyped
<1>8. Lists' /\ ActsOnTheNamed'
  BY <1>1, <1>7, ListsKept DEF ActsOnTheNamed
<1>9. /\ s \in Seq(Records) /\ \A i \in DOMAIN s : Bearing(k, s[i]) \in named
  <2>1. PICK m : m = Start(k) + Len(Batch(k))
    OBVIOUS
  <2> QED
    BY <1>1, <1>3, <1>4, <2>1, ReadOn
<1>10. /\ id \in Nat
       /\ id # Missing /\ KindSpec[k].byName # "list" => Bore(k, id, name)
       /\ id = Missing => \A i \in DOMAIN s : s[i].name # name
  <2>1. /\ id \in Nat
        /\ id # Missing /\ KindSpec[k].byName # "list" =>
             \E i \in DOMAIN s : s[i].id = id /\ s[i].name = name
        /\ id = Missing => \A i \in DOMAIN s : s[i].name # name
    BY <1>5, <1>9, MatchOf
  <2>2. \A i \in DOMAIN s : s[i].id = id /\ s[i].name = name => Bore(k, id, name)
    BY <1>9 DEF Bearing, Bore
  <2> QED
    BY <2>1, <2>2
<1>11. CASE /\ KindSpec[k].byName = "list, then id" /\ id # Missing
            /\ found' = Append(found, id) /\ Goes("fetch") /\ UNCHANGED <<pending, seen, skip>>
  <2>1. PICK f, l : f = found' /\ l = Len(found)
    OBVIOUS
  <2>2. /\ f \in Seq(Nat) /\ Len(f) = l + 1 /\ DOMAIN f = 1..(l + 1) /\ l \in Nat
        /\ DOMAIN found = 1..l /\ f[l + 1] = id /\ \A i \in 1..l : f[i] = found[i]
    <3>1. found \in Seq(Nat) /\ l \in Nat /\ DOMAIN found = 1..l
      BY <1>1, <2>1, LenProperties DEF CommandTyped
    <3>2. /\ f \in Seq(Nat) /\ Len(f) = l + 1 /\ f[l + 1] = id
          /\ \A i \in 1..l : f[i] = found[i]
      <4>1. f = Append(found, id) /\ id \in Nat
        BY <1>10, <1>11, <2>1
      <4> QED
        BY <2>1, <3>1, <4>1, AppendProperties
    <3> QED
      BY <3>1, <3>2, LenProperties
  <2>3. step' = "fetch" /\ UNCHANGED <<exit, failure, pending, seen, skip>>
    BY <1>11 DEF Goes
  <2>4. /\ command.verb \in {"get", "delete", "run"}
        /\ pending \in Seq([name : Nat, kind : Known]) /\ pending # <<>>
        /\ l + Len(pending) = Len(command.names)
        /\ \A i \in 1..Len(pending) : pending[i] = Want(l + i)
    BY <1>1, <2>1 DEF Asked, Turn
  <2>5. Len(pending) \in Nat \ {0} /\ Head(pending) = pending[1]
    BY <2>4, LenProperties, EmptySeq
  <2>6. k = KindAt(l + 1) /\ name = command.names[l + 1] /\ k = Head(pending).kind
    <3>1. pending[1] = Want(l + 1)
      BY <2>4, <2>5
    <3> QED
      BY <1>1, <1>2, <2>5, <3>1 DEF Want, Reading
  <2>7. \A i : KindAt(i)' = KindAt(i) /\ Want(i)' = Want(i)
    BY <1>7 DEF KindAt, Want
  <2>8. \A i \in 1..(l + 1) : i \in 1..l \/ i = l + 1
    BY <2>2
  <2>9. FoundBore'
    <3>1. \A i \in 1..l : f[i] # Missing /\ KindSpec[KindAt(i)].byName # "list"
                           => Bore(KindAt(i), f[i], command.names[i])
      BY <1>1, <2>2 DEF FoundBore
    <3>2. Bore(KindAt(l + 1), f[l + 1], command.names[l + 1])
      BY <1>10, <1>11, <2>2, <2>6
    <3>3. \A i \in DOMAIN f : f[i] # Missing /\ KindSpec[KindAt(i)].byName # "list"
                           => Bore(KindAt(i), f[i], command.names[i])
      BY <2>2, <2>8, <3>1, <3>2
    <3> QED
      BY <1>7, <2>1, <2>7, <3>3 DEF FoundBore, Bore
  <2>10. FoundGone'
    <3>1. \A i \in DOMAIN f : f[i] = Missing => Gone(KindAt(i), command.names[i])
      BY <1>1, <1>11, <2>2, <2>8 DEF FoundGone
    <3> QED
      BY <1>7, <2>1, <2>7, <3>1 DEF FoundGone, Gone, ByOffset, Offsets
  <2>11. CommandTyped'
    BY <1>1, <1>7, <2>1, <2>2, <2>3 DEF CommandTyped, Steps
  <2>12. Asked'
    <3>1. f # <<>> /\ f[Len(f)] # Missing /\ l + 1 <= Len(command.names)
      <4>1. Len(f) # 0 /\ f[Len(f)] = id
        BY <2>2
      <4> QED
        <5>1. l + 1 <= Len(command.names)
          <6>1. PICK m, c : m = Len(pending) /\ c = Len(command.names)
            OBVIOUS
          <6>2. l + m = c /\ m \in Nat \ {0} /\ l \in Nat
            BY <2>2, <2>4, <2>5, <6>1
          <6> QED
            BY <6>1, <6>2
        <5> QED
          BY <1>11, <4>1, <5>1, EmptySeq
    <3>2. Turn' = l
      BY <2>1, <2>2, <2>3 DEF Turn
    <3>3. \A i \in 1..Len(pending) : pending[i] = Want(Turn + i)'
      BY <1>7, <2>4, <3>2 DEF Want, KindAt
    <3>4. Turn' + Len(pending) = Len(command.names)
      BY <2>4, <3>2
    <3> QED
      BY <1>1, <1>7, <1>11, <2>1, <2>2, <2>3, <2>4, <2>6, <3>1, <3>3, <3>4 DEF Asked
  <2>13. Paged' /\ Printed' /\ DoneIsDone'
    BY <1>7, <2>3 DEF Paged, Printed, DoneIsDone, Running
  <2> QED
    BY <1>8, <2>9, <2>10, <2>11, <2>12, <2>13 DEF CInv
<1>12. CASE /\ ~ (KindSpec[k].byName = "list, then id" /\ id # Missing)
            /\ LastPage(k, Batch(k)) /\ Resolve(id)
  <2>1. (Offsets(k) => "back" \notin shifted) =>
          \A r \in stable : r.kind = k => \E i \in DOMAIN s : Bearing(k, s[i]) = r
    BY <1>1, <1>3, <1>4, <1>12, AllRead
  <2>2. id = Missing => Gone(k, name)
    <3> SUFFICES ASSUME id = Missing, ~ (ByOffset(k) /\ "back" \in shifted),
                        NEW r \in stable, r.kind = k, r.name = name
                 PROVE  FALSE
      BY DEF Gone
    <3>1. Offsets(k) => "back" \notin shifted
      BY <1>3 DEF ByOffset
    <3>2. PICK i \in DOMAIN s : Bearing(k, s[i]) = r
      BY <2>1, <3>1
    <3>3. s[i].name = name
      BY <3>2 DEF Bearing
    <3> QED
      BY <1>10, <3>3
  <2> QED
    BY <1>1, <1>2, <1>10, <1>12, <2>2, Resolves
<1>13. CASE /\ ~ LastPage(k, Batch(k))
            /\ seen' = s /\ skip' = n
            /\ Goes("find") /\ UNCHANGED <<pending, found>>
  <2>1. step' = "find" /\ UNCHANGED <<exit, failure, pending, found>>
    BY <1>13 DEF Goes
  <2>2. Source(k) # "whole"
    BY <1>13 DEF LastPage
  <2>3. s \in Seq(Records) /\ n \in Nat /\ PagesOf(k, s, n)
    BY <1>1, <1>3, <1>4, <2>2, PageRead
  <2>4. CommandTyped'
    BY <1>1, <1>7, <1>13, <2>1, <2>3 DEF CommandTyped, Steps
  <2>5. Asked'
    <3>1. Turn' = Turn /\ \A i : Want(i)' = Want(i)
      BY <1>1, <1>7, <2>1 DEF Turn, Want, KindAt
    <3> QED
      BY <1>1, <1>7, <2>1, <3>1 DEF Asked
  <2>6. FoundBore' /\ FoundGone'
    BY <1>1, <1>7, <2>1, LookupsKept
  <2>7. Reading' = k
    BY <1>1, <1>2, <1>7, <2>1 DEF Reading
  <2>8. Paged'
    BY <1>7, <1>13, <2>2, <2>3, <2>7 DEF Paged, PagesOf
  <2>9. Printed' /\ DoneIsDone'
    BY <1>7, <2>1 DEF Printed, DoneIsDone, Running
  <2> QED
    BY <1>8, <2>4, <2>5, <2>6, <2>8, <2>9 DEF CInv
<1> QED
  BY <1>6, <1>11, <1>12, <1>13

LEMMA AskKeeps ==
  ASSUME CInv, Ask
  PROVE  CInv'
<1>1. /\ CommandTyped /\ Lists /\ Asked
      /\ step = "find" /\ UNCHANGED <<command, world, effects, others>>
  BY DEF CInv, Ask, Asking
<1>2. PICK k, name, w : k = Reading /\ name = Head(pending).name /\ w = world[k]
  OBVIOUS
<1>3. k \in Known
  BY <1>1, <1>2, ReadingKnown
<1>4. PICK id : id = Match(w, k, name)
  OBVIOUS
<1>5. Resolve(id)
  BY <1>2, <1>4 DEF Ask
<1>6. /\ w \in Seq(Records) /\ \A j \in DOMAIN w : Bearing(k, w[j]) \in named
  BY <1>1, <1>2, <1>3, Listed
<1>7. /\ id \in Nat
      /\ id # Missing /\ KindSpec[k].byName # "list" =>
           \E i \in DOMAIN w : w[i].id = id /\ w[i].name = name
      /\ id = Missing => \A i \in DOMAIN w : w[i].name # name
  BY <1>4, <1>6, MatchOf
<1>8. id # Missing /\ KindSpec[k].byName # "list" => Bore(k, id, name)
  <2>1. \A i \in DOMAIN w : w[i].id = id /\ w[i].name = name => Bore(k, id, name)
    BY <1>6 DEF Bearing, Bore
  <2> QED
    BY <1>7, <2>1
<1>9. id = Missing => Gone(k, name)
  <2> SUFFICES ASSUME id = Missing, NEW r \in stable, r.kind = k, r.name = name
               PROVE  FALSE
    BY DEF Gone
  <2>1. r \in AllNames(world)
    BY <1>1 DEF Lists
  <2>2. PICK l \in Known : r \in Names(l, world)
    BY <2>1 DEF AllNames
  <2>3. PICK i \in DOMAIN world[l] :
          r = [kind |-> l, id |-> world[l][i].id, name |-> world[l][i].name]
    BY <2>2 DEF Names
  <2>4. l = k /\ world[l][i].name = name
    BY <2>3
  <2> QED
    BY <1>2, <1>7, <2>4
<1> QED
  BY <1>1, <1>2, <1>5, <1>7, <1>8, <1>9, Resolves

LEMMA FetchedKeeps ==
  ASSUME CInv, Fetched
  PROVE  CInv'
<1>0. PICK n, m, c : n = Len(found) /\ m = Len(pending) /\ c = Len(command.names)
  OBVIOUS
<1>1. /\ CommandTyped /\ Lists /\ Asked /\ FoundBore /\ FoundGone
      /\ step = "fetch" /\ UNCHANGED <<command, world, effects, others>>
  BY DEF CInv, Fetched
<1>2. /\ UNCHANGED <<command, world, deleted, job, named, stable, shifted>>
      /\ deleted = Missing /\ job = Nothing /\ exit = Running /\ failure = "none"
  BY <1>1 DEF effects, others, CommandTyped
<1>3. /\ command.verb \in {"get", "delete", "run"}
      /\ pending \in Seq([name : Nat, kind : Known]) /\ pending # <<>>
      /\ n - 1 + m = c
      /\ \A i \in 1..m : pending[i] = Want(n - 1 + i)
      /\ found # <<>> /\ found[n] # Missing
      /\ KindSpec[Head(pending).kind].byName = "list, then id"
      /\ command.verb # "run" => command.kind \in Known
      /\ command.verb = "delete" => KindSpec[command.kind].deletable
  BY <1>0, <1>1 DEF Asked, Turn
<1>4. /\ found \in Seq(Nat) /\ n \in Nat \ {0} /\ m \in Nat \ {0} /\ DOMAIN found = 1..n
  <2>1. found \in Seq(Nat)
    BY <1>1 DEF CommandTyped
  <2> QED
    BY <1>0, <1>3, <2>1, LenProperties, EmptySeq
<1>25. /\ n + (m - 1) = c /\ n <= c /\ c # 0 /\ (~ (m > 1) => m = 1 /\ n = c)
       /\ n - 1 + 1 = n /\ 1 \in 1..m
  <2>1. n - 1 + m = c
    BY <1>3
  <2> QED
    BY <1>4, <2>1
<1>5. PICK k : k = Head(pending).kind
  OBVIOUS
<1>6. k = KindAt(n) /\ k \in Known
  <2>1. Head(pending) \in [name : Nat, kind : Known]
    BY <1>3, HeadTailProperties
  <2>2. Head(pending) = pending[1]
    <3>1. pending \in Seq([name : Nat, kind : Known]) /\ pending # <<>>
      BY <1>3
    <3> QED
      BY <3>1
  <2>3. Head(pending) = Want(n)
    BY <1>3, <1>25, <2>2
  <2> QED
    BY <1>5, <2>1, <2>3 DEF Want
<1>7. PICK id, is : id = found[n] /\ is = (\E r \in Names(k, world) : r.id = id)
  OBVIOUS
<1>8. PICK f, p : f = found' /\ p = pending'
  OBVIOUS
<1>9. /\ f = [found EXCEPT ![n] = IF is THEN id ELSE Missing]
      /\ p = Tail(pending) /\ seen' = <<>> /\ skip' = 0
      /\ IF ~ is THEN Ends(1, "none")
         ELSE IF m > 1 THEN Goes("find")
         ELSE IF command.verb = "get" THEN Ends(0, "none") ELSE Goes(command.verb)
  BY <1>0, <1>5, <1>7, <1>8 DEF Fetched
<1>10. /\ DOMAIN f = 1..n /\ f[n] = (IF is THEN id ELSE Missing) /\ n \in DOMAIN f
       /\ \A i \in 1..n : i # n => f[i] = found[i]
       /\ id \in Nat /\ id # Missing /\ is \in BOOLEAN
  <2>1. n \in 1..n
    BY <1>4
  <2>2. found[n] \in Nat
    BY <1>4, <2>1, ElementOfSeq, <1>0
  <2>3. is \in BOOLEAN
    BY <1>7
  <2> QED
    BY <1>3, <1>4, <1>7, <1>9, <2>1, <2>2, <2>3
<1>11. f \in Seq(Nat) /\ Len(f) = n
  <2>1. \A i \in 1..n : found[i] \in Nat
    BY <1>0, <1>4, ElementOfSeq
  <2>2. f \in [1..n -> Nat]
    BY <1>4, <1>9, <1>10, <2>1 DEF Missing
  <2>3. f \in Seq(Nat)
    BY <1>4, <2>2, SeqDef
  <2> QED
    BY <1>4, <1>10, <2>3, LenProperties
<1>12. /\ p \in Seq([name : Nat, kind : Known]) /\ Len(p) = m - 1
       /\ \A i \in 1..(m - 1) : p[i] = pending[i + 1]
  <2>1. p = Tail(pending)
    BY <1>9
  <2>2. /\ p \in Seq([name : Nat, kind : Known]) /\ Len(p) = m - 1
        /\ \A i \in 1..Len(p) : p[i] = pending[i + 1]
    BY <1>0, <1>3, <2>1, HeadTailProperties
  <2> QED
    BY <2>2
<1>13. \A i : KindAt(i)' = KindAt(i) /\ Want(i)' = Want(i)
  BY <1>2 DEF KindAt, Want
<1>14. FoundBore'
  <2>1. \A i \in 1..n : f[i] # Missing => f[i] = found[i]
    BY <1>7, <1>10
  <2>2. \A i \in DOMAIN f : f[i] # Missing /\ KindSpec[KindAt(i)].byName # "list"
                             => Bore(KindAt(i), f[i], command.names[i])
    BY <1>1, <1>4, <1>10, <2>1 DEF FoundBore
  <2> QED
    BY <1>2, <1>8, <1>13, <2>2 DEF FoundBore, Bore
\* What the list gave a moment ago and is gone was deleted meanwhile.
<1>15. ~ is => ByOffset(KindAt(n)) /\ "back" \in shifted
  <2> SUFFICES ASSUME ~ is PROVE ByOffset(k) /\ "back" \in shifted
    BY <1>6
  <2>1. KindSpec[k].byName = "list, then id" /\ Source(k) = "session"
    BY <1>3, <1>5, <1>6, KindFacts
  <2>2. ByOffset(k)
    BY <2>1 DEF ByOffset, Offsets
  <2>3. n \in DOMAIN found
    BY <1>4, <1>10
  <2>4. Bore(k, id, command.names[n])
    BY <1>1, <1>3, <1>6, <1>7, <2>1, <2>3 DEF FoundBore
  <2>5. PICK r : r = [kind |-> k, id |-> id, name |-> command.names[n]]
    OBVIOUS
  <2>6. r \in named /\ r.kind = k /\ r.id = id
    BY <2>4, <2>5 DEF Bore
  <2>7. ~ Exists(k, id)
    BY <1>7 DEF Exists
  <2> QED
    BY <1>1, <2>2, <2>6, <2>7 DEF Lists
<1>16. FoundGone'
  <2>1. \A i \in DOMAIN f : f[i] = Missing => Gone(KindAt(i), command.names[i])
    <3> SUFFICES ASSUME NEW i \in DOMAIN f, f[i] = Missing
                 PROVE  Gone(KindAt(i), command.names[i])
      OBVIOUS
    <3>1. CASE i = n
      BY <1>10, <1>15, <3>1 DEF Gone
    <3>2. CASE i # n
      BY <1>1, <1>4, <1>10, <3>2 DEF FoundGone
    <3> QED
      BY <3>1, <3>2
  <2> QED
    BY <1>2, <1>8, <1>13, <2>1 DEF FoundGone, Gone, ByOffset, Offsets
<1>17. /\ step' = "done" => exit' \in {0, 1} /\ failure' = "none"
       /\ step' = "done" /\ exit' = 0 => command.verb = "get"
       /\ step' # "done" => /\ exit' = exit /\ failure' = failure /\ is
                            /\ \/ step' = "find" /\ m > 1
                               \/ /\ step' = command.verb /\ command.verb \in {"delete", "run"}
                                  /\ ~ (m > 1)
  <2>1. \/ step' = "done" /\ exit' = 1 /\ failure' = "none"
        \/ step' = "done" /\ exit' = 0 /\ failure' = "none" /\ command.verb = "get"
        \/ step' = "find" /\ exit' = exit /\ failure' = failure /\ m > 1 /\ is
        \/ /\ step' = command.verb /\ exit' = exit /\ failure' = failure
           /\ ~ (m > 1) /\ is /\ command.verb # "get"
    BY <1>9, <1>10 DEF Ends, Goes
  <2>2. command.verb \in {"get", "delete", "run"}
    BY <1>3
  <2> QED
    BY <2>1, <2>2
<1>18. CommandTyped'
  <2>1. step' \in Steps /\ (step' = "apply" <=> command.verb = "apply")
    BY <1>3, <1>17 DEF Steps
  <2>2. seen' \in Seq(Records) /\ skip' \in Nat
    BY <1>9
  <2> QED
    BY <1>1, <1>2, <1>8, <1>11, <1>17, <2>1, <2>2 DEF CommandTyped, Running
<1>19. n <= Len(command.names)
  BY <1>0, <1>25
<1>20. Asked'
  <2>1. CASE step' = "done"
    BY <1>2, <1>8, <1>11, <1>19, <2>1 DEF Asked
  <2>2. CASE step' = "find" /\ m > 1
    <3>1. p # <<>>
      BY <1>4, <1>12, <2>2, EmptySeq
    <3>2. n + (m - 1) = Len(command.names)
      BY <1>0, <1>25
    <3>3. \A i \in 1..(m - 1) : p[i] = Want(n + i)
      <4>1. \A i \in 1..(m - 1) : i + 1 \in 1..m /\ n - 1 + (i + 1) = n + i
        BY <1>4
      <4> QED
        BY <1>3, <1>12, <4>1
    <3>4. Turn' = n
      BY <1>8, <1>11, <2>2 DEF Turn
    <3>5. \A i \in 1..Len(p) : p[i] = Want(Turn + i)'
      BY <1>2, <1>12, <3>3, <3>4 DEF Want, KindAt
    <3>6. Turn' + Len(p) = Len(command.names)
      BY <1>12, <3>2, <3>4
    <3> QED
      BY <1>2, <1>3, <1>8, <1>11, <1>12, <1>19, <2>2, <3>1, <3>5, <3>6 DEF Asked
  <2>3. CASE is /\ step' \in {"delete", "run"} /\ step' = command.verb /\ ~ (m > 1)
    <3>1. m = 1 /\ n = Len(command.names)
      BY <1>0, <1>25, <2>3
    \* A name that is looked up in a list and then by its id comes first.
    <3>2. n = 1
      <4>1. CASE command.verb = "delete"
        BY <1>1, <3>1, <4>1, GivenTypes
      <4>2. CASE command.verb = "run"
        <5>1. KindSpec[KindAt(n)].byName = "list, then id"
          BY <1>3, <1>5, <1>6
        <5>2. KindAt(n) # "Document"
          BY <5>1, KindFacts
        <5> QED
          BY <4>2, <5>2 DEF KindAt
      <4> QED
        BY <2>3, <4>1, <4>2
    <3>3. \A i \in DOMAIN f : f[i] # Missing
      BY <1>10, <2>3, <3>2
    <3> QED
      BY <1>2, <1>3, <1>8, <1>11, <1>19, <2>3, <3>1, <3>3 DEF Asked
  <2> QED
    BY <1>17, <2>1, <2>2, <2>3
<1>21. Paged'
  <2>1. CASE step' = "find" /\ m > 1
    <3>1. PICK l : l = Reading'
      OBVIOUS
    <3>2. p # <<>>
      BY <1>4, <1>12, <2>1, EmptySeq
    <3>3. l = Head(p).kind /\ Head(p) \in [name : Nat, kind : Known]
      BY <1>8, <1>12, <2>1, <3>1, <3>2, HeadTailProperties DEF Reading
    <3>4. world'[l] \in Seq(Records)
      BY <1>18, <3>3 DEF CommandTyped
    <3>5. PICK w, s : w = world'[l] /\ s = seen'
      OBVIOUS
    <3>6. PagesIn(l, w, s, 0, named', stable', shifted')
      BY <1>9, <3>4, <3>5, NothingRead
    <3>7. PagesOf(Reading, seen, skip)'
      BY <1>9, <3>1, <3>5, <3>6 DEF PagesOf
    <3> QED
      BY <1>9, <3>7 DEF Paged
  <2> QED
    BY <1>17, <2>1 DEF Paged
<1>22. Lists'
  BY <1>1, ListsKept
<1>23. Printed' /\ ActsOnTheNamed' /\ DoneIsDone'
  <2>1. command.names # <<>>
    <3>1. Len(command.names) # 0
      BY <1>0, <1>25
    <3> QED
      BY <3>1, EmptySeq
  <2>2. Printed'
    BY <1>2, <2>1 DEF Printed
  <2>3. ActsOnTheNamed'
    BY <1>2 DEF ActsOnTheNamed
  <2>4. DoneIsDone'
    BY <1>2, <1>17 DEF DoneIsDone
  <2> QED
    BY <2>2, <2>3, <2>4
<1> QED
  BY <1>14, <1>16, <1>18, <1>20, <1>21, <1>22, <1>23 DEF CInv

\* A command that ends with its work done: nothing was looked up by that step.
LEMMA Finishes ==
  ASSUME CInv, step \in {"query", "delete", "run"}, step' = "done", exit' # Running,
         UNCHANGED <<command, lookup>>, named \subseteq named', stable' \subseteq stable,
         shifted \subseteq shifted', world' \in [Known -> Seq(Records)], deleted' \in Nat,
         named' = named, ActsOnTheNamed', DoneIsDone'
  PROVE  CInv'
<1>1. /\ CommandTyped /\ Asked /\ FoundBore /\ FoundGone
      /\ UNCHANGED <<command, found, seen, skip>> /\ command.verb # "get"
  BY DEF CInv, lookup, Asked
<1>2. CommandTyped'
  BY <1>1 DEF CommandTyped, Steps
<1>3. Asked'
  BY <1>1 DEF Asked
<1>4. FoundBore' /\ FoundGone'
  BY <1>1, LookupsKept
<1>5. Paged' /\ Printed'
  BY <1>1 DEF Paged, Printed
<1> QED
  BY <1>2, <1>3, <1>4, <1>5 DEF CInv

LEMMA QueryKeeps ==
  ASSUME CInv, Query
  PROVE  CInv'
<1>1. /\ CommandTyped /\ Asked /\ step = "query"
      /\ UNCHANGED <<command, lookup, world, effects, others>>
  BY DEF CInv, Query
<1>2. CASE Ends(0, "none")
  <2>1. /\ command.verb = "query" /\ step' = "done" /\ exit' = 0 /\ failure' = "none"
        /\ deleted' = Missing /\ job' = Nothing
        /\ UNCHANGED <<command, world, deleted, named, stable, shifted>>
    BY <1>1, <1>2 DEF Ends, Asked, CommandTyped, effects, others
  <2>2. DoneIsDone' /\ ActsOnTheNamed'
    BY <2>1 DEF DoneIsDone, ActsOnTheNamed
  <2> QED
    BY <1>1, <2>1, <2>2, Finishes DEF CommandTyped, Running
<1>3. CASE Fails(Uncaught)
  <2>1. step' = "done" /\ exit' = 1
    BY <1>3 DEF Fails, Uncaught, Ends, Traceback
  <2> QED
    BY <1>1, <2>1, Quits
<1> QED
  BY <1>2, <1>3 DEF Query

\* What is deleted is what was named, and it is gone then.
LEMMA DeleteKeeps ==
  ASSUME CInv, Delete
  PROVE  CInv'
<1>1. /\ CommandTyped /\ Lists /\ Asked /\ FoundBore /\ step = "delete"
      /\ UNCHANGED <<command, lookup, job>>
  BY DEF CInv, Delete
<1>2. PICK k, id : k = command.kind /\ id = found[1]
  OBVIOUS
<1>3. /\ command.verb = "delete" /\ k \in Known /\ KindSpec[k].deletable
      /\ deleted = Missing /\ job = Nothing
  BY <1>1, <1>2 DEF Asked, CommandTyped
<1>4. /\ id \in Nat /\ id # Missing /\ Bore(k, id, command.names[1])
  <2>1. Len(found) = 1 /\ \A i \in DOMAIN found : found[i] # Missing
    BY <1>1, <1>3, GivenTypes DEF Asked
  <2>2. found \in Seq(Nat)
    BY <1>1 DEF CommandTyped
  <2>3. 1 \in DOMAIN found /\ 1 \in 1..Len(found)
    BY <2>1, <2>2, LenProperties
  <2>4. id \in Nat /\ id # Missing
    BY <1>2, <2>1, <2>2, <2>3, ElementOfSeq
  <2>5. KindAt(1) = k /\ KindSpec[k].byName # "list"
    BY <1>2, <1>3, KindFacts DEF KindAt
  <2> QED
    BY <1>1, <1>2, <2>3, <2>4, <2>5 DEF FoundBore
<1>5. ASSUME Exists(k, id), Removed(k, id), step' = "done", deleted' = id,
             (exit' = 0 /\ failure' = "none") \/ exit' = 1
      PROVE  CInv'
  <2>1. PICK w : w = world[k]
    OBVIOUS
  <2>2. /\ w \in Seq(Records) /\ DOMAIN w = 1..Len(w) /\ Len(w) \in Nat
        /\ \A i, j \in DOMAIN w : w[i].id = w[j].id => i = j
    BY <1>1, <1>3, <2>1, Listed DEF Lists, Ordered
  <2>3. \E i \in DOMAIN w : w[i].id = id
    BY <1>5, <2>1 DEF Exists, Names
  <2>4. PICK at \in DOMAIN w : at = (CHOOSE i \in DOMAIN w : w[i].id = id) /\ w[at].id = id
    BY <2>3
  <2>5. PICK t : t = RemoveAt(w, at)
    OBVIOUS
  <2>6. /\ t \in Seq(Records) /\ DOMAIN t = 1..(Len(w) - 1)
        /\ \A j \in 1..(Len(w) - 1) : t[j] = IF j < at THEN w[j] ELSE w[j + 1]
    <3>1. /\ t \in Seq(Records) /\ Len(t) = Len(w) - 1
          /\ \A j \in 1..(Len(w) - 1) : t[j] = IF j < at THEN w[j] ELSE w[j + 1]
      <4>1. at \in 1..Len(w)
        BY <2>2, <2>4
      <4> QED
        BY <2>2, <2>5, <4>1, RemoveAtType
    <3> QED
      BY <3>1, LenProperties
  <2>7. \A j \in DOMAIN t : t[j].id # id
    <3> SUFFICES ASSUME NEW j \in DOMAIN t PROVE t[j].id # id
      OBVIOUS
    <3>1. PICK h : h = IF j < at THEN j ELSE j + 1
      OBVIOUS
    <3>2. h \in DOMAIN w /\ h # at
      BY <2>2, <2>4, <2>6, <3>1
    <3>3. t[j] = w[h]
      BY <2>6, <3>1
    <3> QED
      BY <2>2, <2>4, <3>2, <3>3
  <2>8. /\ world' = [world EXCEPT ![k] = t]
        /\ stable' = {r \in stable : r.kind # k \/ r.id # id}
        /\ shifted' = shifted \cup {"back"} /\ named' = named
    BY <1>5, <2>1, <2>4, <2>5 DEF Removed, Without
  <2>9. world' \in [Known -> Seq(Records)] /\ world'[k] = t
    BY <1>1, <1>3, <2>6, <2>8 DEF CommandTyped
  <2>10. PICK x : x = world'
    OBVIOUS
  <2>11. ~ \E r \in Names(k, x) : r.id = id
    BY <2>7, <2>9, <2>10 DEF Names
  <2>12. ~ Exists(command.kind, deleted)'
    BY <1>1, <1>2, <1>5, <2>10, <2>11 DEF Exists
  <2>13. DoneIsDone'
    BY <1>1, <1>3, <1>4, <1>5, <2>12 DEF DoneIsDone
  <2>14. ActsOnTheNamed'
    BY <1>1, <1>2, <1>3, <1>4, <1>5, <2>8 DEF ActsOnTheNamed, Bore
  <2> QED
    BY <1>1, <1>4, <1>5, <2>8, <2>9, <2>13, <2>14, Finishes DEF Running
<1>6. ASSUME NEW why \in Faults \ {"unreadable"},
             Ends(Uncaught(why), why) /\ UNCHANGED <<deleted, world, others>>
      PROVE  CInv'
  <2>1. step' = "done" /\ exit' = 1
    BY <1>6 DEF Uncaught, Ends, Traceback
  <2> QED
    BY <1>1, <1>6, <2>1, Quits DEF effects
<1> QED
  BY <1>2, <1>5, <1>6 DEF Delete, Ends, Uncaught, Traceback

LEMMA RunKeeps ==
  ASSUME CInv, Run
  PROVE  CInv'
<1>1. /\ CommandTyped /\ Lists /\ Asked /\ FoundBore /\ step = "run"
      /\ UNCHANGED <<command, lookup, world, deleted, others>>
  BY DEF CInv, Run
<1>2. /\ command.verb = "run" /\ deleted = Missing /\ job = Nothing
      /\ Len(found) = Len(command.names) /\ \A i \in DOMAIN found : found[i] # Missing
      /\ found \in Seq(Nat)
  BY <1>1 DEF Asked, CommandTyped
<1>3. CASE /\ job' = found
           /\ \/ Ends(0, "none")
              \/ \E why \in {"lost", "unreadable"} : Ends(Uncaught(why), why)
  <2>1. /\ step' = "done" /\ job' = found
        /\ (exit' = 0 /\ failure' = "none") \/ exit' = 1
        /\ UNCHANGED <<command, world, deleted, named, stable, shifted>>
    BY <1>1, <1>3 DEF Ends, Uncaught, Traceback, others
  <2>2. Len(found) # 0 /\ DOMAIN found = 1..Len(found) /\ 1 \in DOMAIN found /\ found # <<>>
    <3>1. Len(found) >= 1 /\ Len(found) \in Nat /\ DOMAIN found = 1..Len(found)
      BY <1>1, <1>2, GivenTypes, LenProperties
    <3> QED
      BY <3>1
  <2>3. \A i \in DOMAIN found : KindAt(i) = IF i = 1 THEN "Workflow" ELSE "Document"
    BY <1>2 DEF KindAt
  <2>4. /\ KindSpec["Workflow"].byName # "list" /\ KindSpec["Document"].byName # "list"
    BY KindFacts
  <2>5. \A i \in DOMAIN found : Bore(KindAt(i), found[i], command.names[i])
    BY <1>1, <1>2, <2>3, <2>4 DEF FoundBore
  <2>6. /\ Bore("Workflow", found[1], command.names[1])
        /\ \A i \in 2..Len(found) : Bore("Document", found[i], command.names[i])
    <3>1. \A i \in 2..Len(found) : i \in DOMAIN found /\ i # 1
      BY <1>2, <2>2
    <3> QED
      BY <2>2, <2>3, <2>5, <3>1
  <2>7. ActsOnTheNamed'
    BY <1>2, <2>1, <2>6 DEF ActsOnTheNamed, Bore
  <2>8. DoneIsDone'
    BY <1>2, <2>1, <2>2 DEF DoneIsDone, Nothing
  <2> QED
    BY <1>1, <2>1, <2>7, <2>8, Finishes DEF CommandTyped, Running
<1>4. CASE Fails(Uncaught) /\ job' = job
  <2>1. step' = "done" /\ exit' = 1
    BY <1>4 DEF Fails, Uncaught, Ends, Traceback
  <2> QED
    BY <1>1, <1>4, <2>1, Quits DEF effects
<1> QED
  BY <1>3, <1>4 DEF Run

LEMMA ApplyKeeps ==
  ASSUME CInv, step = "apply", UNCHANGED cliVars
  PROVE  CInv'
<1>1. /\ CommandTyped /\ Lists /\ Asked /\ FoundBore /\ FoundGone /\ ActsOnTheNamed
      /\ command.verb = "apply"
  BY DEF CInv, CommandTyped
<1>2. UNCHANGED <<command, step, pending, found, seen, skip, world, deleted, job,
                  named, stable, shifted, changes>>
  BY DEF cliVars
<1>3. CommandTyped'
  BY <1>1, <1>2 DEF CommandTyped
<1>4. Lists'
  BY <1>1, <1>2, ListsKept DEF others
<1>5. Asked'
  BY <1>1, <1>2 DEF Asked
<1>6. FoundBore' /\ FoundGone'
  BY <1>1, <1>2, LookupsKept
<1>7. Paged' /\ Printed' /\ DoneIsDone' /\ ActsOnTheNamed'
  BY <1>1, <1>2 DEF Paged, Printed, DoneIsDone, ActsOnTheNamed, Bore
<1> QED
  BY <1>3, <1>4, <1>5, <1>6, <1>7 DEF CInv

LEMMA NamesFinite ==
  ASSUME NEW w \in [Known -> Seq(Records)]
  PROVE  /\ IsFiniteSet(AllNames(w))
         /\ AllNames(w) \subseteq [kind : Known, id : Nat \ {Missing}, name : Nat]
<1>1. ASSUME NEW k \in Known
      PROVE  /\ IsFiniteSet(Names(k, w))
             /\ Names(k, w) \subseteq [kind : Known, id : Nat \ {Missing}, name : Nat]
  <2>1. w[k] \in Seq(Records) /\ DOMAIN w[k] = 1..Len(w[k]) /\ Len(w[k]) \in Nat
    BY <1>1, LenProperties
  <2>2. PICK n, S : n = Len(w[k]) /\ S = Names(k, w)
    OBVIOUS
  <2>3. PICK f : f = [i \in 1..n |-> [kind |-> k, id |-> w[k][i].id, name |-> w[k][i].name]]
    OBVIOUS
  <2>4. f \in Surjection(1..n, S)
    <3>1. S = {f[i] : i \in 1..n}
      BY <2>1, <2>2, <2>3 DEF Names
    <3>2. f \in [1..n -> S] /\ \A t \in S : \E i \in 1..n : f[i] = t
      BY <2>3, <3>1
    <3> QED
      BY <3>2 DEF Surjection
  <2>5. IsFiniteSet(1..n)
    <3>1. 1 \in Int /\ n \in Int
      BY <2>1, <2>2
    <3> QED
      BY <3>1, FS_Interval
  <2>6. IsFiniteSet(S)
    BY <2>4, <2>5, FS_Surjection
  <2>7. \A i \in DOMAIN w[k] : w[k][i] \in Records
    BY <2>1, ElementOfSeq
  <2> QED
    BY <1>1, <2>2, <2>6, <2>7 DEF Names, Records
<1>2. Known = {"Document", "Workflow", "Chunk", "Job", "Skill", "WorkflowArtifact", "AIConfig"}
  BY DEF Known, KindSpec
<1>3. PICK N : N = [k \in Known |-> Names(k, w)]
  OBVIOUS
<1>4. \A k \in Known : IsFiniteSet(N[k])
  BY <1>1, <1>3
<1>5. /\ IsFiniteSet(N["Document"] \cup N["Workflow"])
      /\ IsFiniteSet(N["Chunk"] \cup N["Job"])
      /\ IsFiniteSet(N["Skill"] \cup N["WorkflowArtifact"])
  BY <1>2, <1>4, FS_Union
<1>6. /\ IsFiniteSet((N["Document"] \cup N["Workflow"]) \cup (N["Chunk"] \cup N["Job"]))
      /\ IsFiniteSet((N["Skill"] \cup N["WorkflowArtifact"]) \cup N["AIConfig"])
  BY <1>2, <1>4, <1>5, FS_Union
<1>7. IsFiniteSet(((N["Document"] \cup N["Workflow"]) \cup (N["Chunk"] \cup N["Job"]))
                  \cup ((N["Skill"] \cup N["WorkflowArtifact"]) \cup N["AIConfig"]))
  BY <1>6, FS_Union
<1>8. AllNames(w) = ((N["Document"] \cup N["Workflow"]) \cup (N["Chunk"] \cup N["Job"]))
                    \cup ((N["Skill"] \cup N["WorkflowArtifact"]) \cup N["AIConfig"])
  BY <1>2, <1>3 DEF AllNames
<1>9. AllNames(w) \subseteq [kind : Known, id : Nat \ {Missing}, name : Nat]
  BY <1>1 DEF AllNames
<1> QED
  BY <1>7, <1>8, <1>9

LEMMA CommandStarts ==
  CommandInit => CInv
<1> SUFFICES ASSUME CommandInit PROVE CInv
  OBVIOUS
<1>1. /\ command \in Commands /\ command.verb \in Verbs
      /\ step = IF command.verb = "apply" THEN "apply" ELSE "check"
      /\ exit = Running /\ failure = "none"
      /\ pending = <<>> /\ found = <<>> /\ seen = <<>> /\ skip = 0
      /\ deleted = Missing /\ job = Nothing
      /\ named = AllNames(world) /\ stable = AllNames(world) /\ shifted = {}
  BY CommandAssumption DEF CommandInit, Init
<1>2. /\ world \in [Known -> Seq(Records)]
      /\ \A k \in Known : \A i, j \in DOMAIN world[k] :
           /\ world[k][i].id = world[k][j].id => i = j
           /\ Source(k) = "cursor" /\ i < j => world[k][i].id < world[k][j].id
      /\ \A r \in AllNames(world) : r.id <= Cardinality(AllNames(world))
  <2>1. CASE command.verb = "apply"
    <3>1. world = [k \in Known |-> <<>>]
      BY <2>1 DEF CommandInit
    <3>2. PICK e : e = <<>>
      OBVIOUS
    <3>3. e \in Seq(Records) /\ DOMAIN e = {}
      BY <3>2
    <3>4. world \in [Known -> Seq(Records)] /\ \A k \in Known : DOMAIN world[k] = {}
      BY <3>1, <3>2, <3>3
    <3>5. AllNames(world) = {}
      BY <3>4 DEF AllNames, Names
    <3> QED
      BY <3>4, <3>5
  <2>2. CASE command.verb # "apply"
    <3>1. world \in Worlds
      BY <2>2 DEF CommandInit
    <3> QED
      BY <3>1, CommandAssumption
  <2> QED
    BY <2>1, <2>2
<1>3. /\ IsFiniteSet(named) /\ named \subseteq [kind : Known, id : Nat \ {Missing}, name : Nat]
  BY <1>1, <1>2, NamesFinite
<1>4. CommandTyped
  BY <1>1, <1>2, <1>3 DEF CommandTyped, Steps, Missing
<1>5. Lists
  <2>1. \A k \in Known : Ordered(k)
    BY <1>2 DEF Ordered
  <2>2. \A r \in named : Exists(r.kind, r.id)
    <3> SUFFICES ASSUME NEW l \in Known, NEW r \in Names(l, world) PROVE Exists(r.kind, r.id)
      BY <1>1 DEF AllNames
    <3>1. r.kind = l
      BY DEF Names
    <3> QED
      BY <3>1 DEF Exists
  <2> QED
    BY <1>1, <1>2, <2>1, <2>2 DEF Lists
<1>6. Asked
  <2>1. Len(found) = 0
    BY <1>1
  <2>2. 0 <= Len(command.names)
    BY <1>4, GivenTypes
  <2> QED
    BY <1>1, <2>1, <2>2 DEF Asked, Verbs
<1>7. FoundBore /\ FoundGone
  <2>1. DOMAIN found = {}
    BY <1>1
  <2> QED
    BY <2>1 DEF FoundBore, FoundGone
<1>8. Paged /\ Printed /\ ActsOnTheNamed /\ DoneIsDone
  BY <1>1 DEF Paged, Printed, ActsOnTheNamed, DoneIsDone, Running
<1> QED
  BY <1>4, <1>5, <1>6, <1>7, <1>8 DEF CInv

LEMMA CommandSteps ==
  CInv /\ [CommandNext]_<<vars, cliVars>> => CInv'
<1> SUFFICES ASSUME CInv, [CommandNext]_<<vars, cliVars>> PROVE CInv'
  OBVIOUS
<1>1. CASE Apply
  BY <1>1, ApplyKeeps DEF Apply
<1>2. CASE CommandStep
  BY <1>2, CheckKeeps, OpenKeeps, QuitsKeep, ReadPageKeeps, SearchPageKeeps, FetchedKeeps,
     AskKeeps, QueryKeeps, DeleteKeeps, RunKeeps DEF CommandStep
<1>3. CASE RequestFails
  BY <1>3, QuitsKeep
<1>4. CASE OtherCreates \/ OtherRemoves \/ OtherRenames
  BY <1>4, OthersKeep
<1>5. CASE UNCHANGED <<vars, cliVars>>
  <2>1. CommandTyped /\ (step # "done" => Lists) /\ Asked /\ FoundBore /\ FoundGone
        /\ Paged /\ Printed /\ ActsOnTheNamed /\ DoneIsDone
    BY DEF CInv
  <2>2. UNCHANGED <<command, step, pending, found, seen, skip, world, deleted, job,
                    named, stable, shifted, changes, failure, exit>>
    BY <1>5 DEF vars, cliVars
  <2>3. CommandTyped' /\ Asked'
    BY <2>1, <2>2 DEF CommandTyped, Asked, Turn, Want, KindAt
  <2>4. step' # "done" => Lists'
    BY <2>1, <2>2, ListsKept DEF others
  <2>5. FoundBore' /\ FoundGone'
    BY <2>1, <2>2, LookupsKept
  <2>6. Paged'
    BY <2>1, <2>2 DEF Paged, PagesOf, Reading
  <2>7. Printed' /\ ActsOnTheNamed' /\ DoneIsDone'
    BY <2>1, <2>2 DEF Printed, ActsOnTheNamed, DoneIsDone, Bore, Exists
  <2> QED
    BY <2>3, <2>4, <2>5, <2>6, <2>7 DEF CInv
<1> QED
  BY <1>1, <1>2, <1>3, <1>4, <1>5 DEF CommandNext

LEMMA Looked ==
  CInv => LookupsAreWhole
<1> SUFFICES ASSUME CInv PROVE LookupsAreWhole
  OBVIOUS
<1>1. FoundGone /\ Printed
  BY DEF CInv
<1>2. \A i \in DOMAIN found :
       (step = "done" /\ found[i] = Missing) =>
         LET k == IF command.verb = "run" /\ i > 1 THEN "Document"
                  ELSE IF command.verb = "run" THEN "Workflow" ELSE command.kind
         IN \/ \A r \in stable : ~ (r.kind = k /\ r.name = command.names[i])
            \/ ByOffset(k) /\ "back" \in shifted
  <2> SUFFICES ASSUME NEW i \in DOMAIN found, found[i] = Missing
               PROVE  Gone(IF command.verb = "run" /\ i > 1 THEN "Document"
                           ELSE IF command.verb = "run" THEN "Workflow" ELSE command.kind,
                           command.names[i])
    BY DEF Gone
  <2>1. found \in Seq(Nat)
    BY DEF CInv, CommandTyped
  <2>2. i \in Nat \ {0}
    BY <2>1, LenProperties
  <2>3. i > 1 <=> i # 1
    BY <2>2
  <2> QED
    BY <1>1, <2>3 DEF FoundGone, KindAt
<1> QED
  BY <1>1, <1>2 DEF LookupsAreWhole, Printed

-----------------------------------------------------------------------------

\* Every reachable state of a command is typed.
THEOREM CommandsAreTyped == CommandSpec => []CommandTyped
<1>1. CInv => CommandTyped
  BY DEF CInv
<1> QED
  BY <1>1, CommandStarts, CommandSteps, PTL DEF CommandSpec

\* A name that was not found was on no record during the whole command, but for a
\* deletion that moved the list; and a list that was printed is whole: for every set
\* of invocations and of lists, every size of a page and any number of changes by
\* other clients.
THEOREM FoundOrGone == CommandSpec => []LookupsAreWhole
  BY CommandStarts, CommandSteps, Looked, PTL DEF CommandSpec

\* delete and run act on records that bore the names, one for each, or on nothing.
THEOREM OnTheNamed == CommandSpec => []ActsOnTheNamed
<1>1. CInv => ActsOnTheNamed
  BY DEF CInv
<1> QED
  BY <1>1, CommandStarts, CommandSteps, PTL DEF CommandSpec

\* A step that a failure ends, ends with the exit code for it.
LEMMA FailuresTold ==
  CInv /\ [CommandNext]_<<vars, cliVars>> => [FailureIsTold]_<<vars, cliVars>>
<1> SUFFICES ASSUME CInv, CommandNext, command.verb # "apply", failure' # failure
             PROVE  exit' = IF command.verb = "get" /\ step # "open" /\ failure' # "user"
                            THEN 2 ELSE 1
  BY DEF FailureIsTold
<1>0. /\ CommandTyped /\ Asked
      /\ step \notin {"apply", "done"} => failure = "none"
  BY DEF CInv, CommandTyped
<1>1. CASE Apply
  BY <1>0, <1>1 DEF Apply, CommandTyped
<1>2. CASE Open
  <2>1. step = "open" /\ failure = "none"
    BY <1>0, <1>2 DEF Open
  <2>2. exit' = 1
    BY <1>2, <2>1 DEF Open, Ends, Fails, Goes, Uncaught, Traceback
  <2> QED
    BY <2>1, <2>2
<1>3. CASE RequestFails
  <2>1. PICK why \in Faults : Ends(CodeOf(why), why)
    BY <1>3 DEF RequestFails, Fails
  <2>2. step # "open"
    BY <1>3 DEF RequestFails, Listing, Searching, Asking
  <2> QED
    BY <2>1, <2>2 DEF Ends, CodeOf, ExitCodeFor, Uncaught, Traceback
<1>4. CASE Query \/ Delete \/ Run
  <2>1. failure = "none" /\ command.verb # "get"
    BY <1>0, <1>4 DEF Query, Delete, Run, Asked
  <2>2. exit' = 1
    BY <1>4, <2>1 DEF Query, Delete, Run, Ends, Fails, Uncaught, Traceback
  <2> QED
    BY <2>1, <2>2
<1>5. ASSUME Check \/ Refused \/ ReadPage \/ SearchPage \/ Fetched \/ Ask PROVE FALSE
  <2>1. failure = "none"
    BY <1>0, <1>5 DEF Check, Refused, ReadPage, SearchPage, Fetched, Ask, Listing, Searching, Asking
  <2>2. failure' = "none"
    BY <1>5, <2>1 DEF Check, Refused, ReadPage, SearchPage, Fetched, Ask, Resolve, Ends, Goes
  <2> QED
    BY <2>1, <2>2
<1>6. ASSUME OtherCreates \/ OtherRemoves \/ OtherRenames PROVE FALSE
  BY <1>6 DEF OtherCreates, OtherRemoves, OtherRenames, Change
<1> QED
  BY <1>1, <1>2, <1>3, <1>4, <1>5, <1>6 DEF CommandNext, CommandStep

\* The exit code of every command but apply tells what became of it, and each failure
\* ends it with the code for that failure and that command.
THEOREM CodesAreTrue == CommandSpec => CodesTell
<1>1. CInv => DoneIsDone
  BY DEF CInv
<1> QED
  BY <1>1, CommandStarts, CommandSteps, FailuresTold, PTL DEF CommandSpec, CodesTell

\* A command that is an apply is one to its end, and steps as GitOps does.
LEMMA StartsApply ==
  CommandInit => (command.verb = "apply" => Init /\ step = "apply")
  BY DEF CommandInit

LEMMA StaysApply ==
  step = "apply" /\ [CommandNext]_<<vars, cliVars>> => (step = "apply")' /\ [Next]_vars
<1> SUFFICES ASSUME step = "apply", [CommandNext]_<<vars, cliVars>>
             PROVE  step' = "apply" /\ [Next]_vars
  OBVIOUS
<1>1. CASE Apply \/ UNCHANGED <<vars, cliVars>>
  BY <1>1 DEF Apply, cliVars
<1>2. ~ CommandStep /\ ~ RequestFails
  BY DEF CommandStep, RequestFails, Check, Open, Refused, ReadPage, SearchPage, Fetched,
     Ask, Query, Delete, Run, Listing, Searching, Asking
<1>3. ~ (OtherCreates \/ OtherRemoves \/ OtherRenames)
  BY DEF OtherCreates, OtherRemoves, OtherRenames, Meanwhile
<1> QED
  BY <1>1, <1>2, <1>3 DEF CommandNext

\* The apply of the command line is the apply of GitOps: it starts as that does, and
\* takes no step that is none of it.
THEOREM ApplyIsGitOps ==
  CommandSpec => (command.verb = "apply" => Init /\ [][Next]_vars)
  BY StartsApply, StaysApply, PTL DEF CommandSpec

\* And so it keeps what GitOps promises, next to everything else that may happen: it
\* writes nothing in the clear, one value for a key, and its exit code is true.
THEOREM ApplyPromises ==
  CommandSpec => (command.verb = "apply" => [](NothingInTheClear /\ EveryKeyOneValue /\ ExitTells))
  BY ApplyIsGitOps, InitInv, NextInv, InvClear, InvOne, InvExit, PTL
=============================================================================
