------------------------------ MODULE Clients ------------------------------
(***************************************************************************)
(* Programs that use the low-level client: callers of its methods write    *)
(* records at once, or one submits a manifest, or one reads an answer that *)
(* is streamed, or one makes a client of the environment.                  *)
(***************************************************************************)
EXTENDS RunManifest, Records, EventStreams, ConnectionStrings

VARIABLE program      \* "records", "manifest", "stream" or "configure"
clientVars == <<manifestVars, recordVars, streamVars, configVars, program>>

\* What a program does not use stays at one of its initial values.
ClientInit ==
  /\ program \in {"records", "manifest", "stream", "configure"}
  /\ ManifestInit /\ (program # "manifest" => docs = <<>> /\ rows = <<>> /\ chunk = 1)
  /\ RecordsInit /\ (program # "records" => kind = "Skill")
  /\ StreamInit /\ (program # "stream" => reader = "stream")
  /\ \/ program = "configure" /\ ConfigInit
     \/ program # "configure" /\ environ = NotSet /\ info = NotYet
ClientNext ==
  \/ /\ program = "records" /\ RecordsNext
     /\ UNCHANGED <<manifestVars, streamVars, configVars, program>>
  \/ /\ program = "manifest" /\ ManifestNext
     /\ UNCHANGED <<recordVars, streamVars, configVars, program>>
  \/ /\ program = "stream" /\ StreamNext
     /\ UNCHANGED <<manifestVars, recordVars, configVars, program>>
  \/ /\ program = "configure" /\ Configure
     /\ UNCHANGED <<manifestVars, recordVars, streamVars, program>>
ClientSpec == ClientInit /\ [][ClientNext]_clientVars
=============================================================================
