------------------------------ MODULE Records ------------------------------
(***************************************************************************)
(* Callers create, update and delete records of one kind through the       *)
(* methods of Endpoints: from what a caller wants changed to the           *)
(* arguments, the body and, after refusals and lost answers, the record.   *)
(* A field the run does not watch is treated as the others of its group.   *)
(***************************************************************************)
EXTENDS Endpoints, Naturals, Sequences, FiniteSets

CONSTANTS Callers, KindsUsed, Watched

VARIABLES
  kind,     \* the kind of record all callers work on
  records,  \* the server's records: field -> value; or Gone
  calls,    \* one call of each caller
  log       \* history: requests carried out, in order
recordVars == <<kind, records, calls, log>>

None    == "None"       \* Python's, and JSON's null
Unset   == "UNSET"
\* What a caller wants is a value, that of nobody else.
ASSUME RecordsAssumption == None \notin Callers /\ Unset \notin Callers
Default == "default"    \* of the server
Old     == "old"
Gone    == [deleted |-> "yes"]

Seen(k) == FieldsOf(k) \cap Watched
Idle    == [stage |-> "start", method |-> DeleteSkill, wish |-> <<>>, on |-> 1,
            parts |-> <<>>, lost |-> FALSE]

RecordsInit ==
  /\ kind \in KindsUsed
  /\ records = <<[f \in Seen(kind) |-> Old]>>
  /\ calls = [c \in Callers |-> Idle] /\ log = <<>>

\* What a caller wants of the fields it mentions: a value of its own, or none.
Wishes(c, m) ==
  {w \in UNION {[fs -> {c, None}] : fs \in SUBSET (Fields(m) \cap Watched)} :
     /\ m.always \cap Watched \subseteq DOMAIN w
     /\ \A f \in DOMAIN w : w[f] = None => f \in m.cleared}

\* The arguments: what is not mentioned has the default of the method's signature.
Arguments(m, wish) ==
  [f \in Fields(m) \cap Watched |->
     IF f \in DOMAIN wish THEN wish[f]
     ELSE IF f \in m.cleared /\ m.does # "replace" THEN Unset ELSE None]

\* _body() of what is always sent or kept, _patch_body() of what can be cleared.
Only(b, fs) == [f \in DOMAIN b \cap fs |-> b[f]]
SlipBody(m, args) ==   \* _body() of everything
  Only(args, {f \in DOMAIN args : args[f] \notin {None, Unset}})
Body(m, args) ==
  Only(args, {f \in DOMAIN args : \/ f \notin m.cleared /\ args[f] # None
                                  \/ f \in m.cleared /\ args[f] # Unset})

\* One request; two of the blob update, unless it is of credentials alone or has none.
SlipParts(m, body) ==  \* the settings first
  LET settings == Only(body, DOMAIN body \ {"credentials"})
  IN IF m # UpdateBlob \/ "credentials" \notin DOMAIN body THEN <<body>>
     ELSE <<settings, Only(body, {"credentials"})>>
Parts(m, body) ==
  LET settings == Only(body, DOMAIN body \ {"credentials"})
  IN IF m # UpdateBlob \/ "credentials" \notin DOMAIN body THEN <<body>>
     ELSE <<Only(body, {"credentials"})>>
            \o (IF DOMAIN settings = {} THEN <<>> ELSE <<settings>>)

Call(c) ==
  /\ calls[c].stage = "start"
  /\ \E m \in {n \in Methods : n.kind = kind} : \E wish \in Wishes(c, m) :
       calls' = [calls EXCEPT ![c] =
         [stage |-> "sending", method |-> m, wish |-> wish, lost |-> FALSE,
          on |-> 1, parts |-> Parts(m, Body(m, Arguments(m, wish)))]]
  /\ UNCHANGED <<kind, records, log>>

\* The server: a field set to null has its default where all of them are replaced.
Held(m, record, body) ==
  [f \in DOMAIN record |->
     IF f \in DOMAIN body THEN IF body[f] = None /\ m.does = "replace" THEN Default ELSE body[f]
     ELSE IF m.does \in {"create", "replace"} /\ (m.does = "create" \/ f \in Fields(m)) THEN Default
     ELSE record[f]]
Served(m, body, on) ==
  CASE m.does = "create" -> Append(records, Held(m, [f \in Seen(kind) |-> Default], body))
    [] m.does = "delete" -> [records EXCEPT ![on] = Gone]
    [] OTHER -> [records EXCEPT ![on] = Held(m, @, body)]

\* A request is carried out; its answer arrives or is lost, which raises.
Serve(c) ==
  LET call == calls[c]
      m    == call.method
      on   == IF m.does = "create" THEN Len(records) + 1 ELSE call.on
  IN /\ call.stage = "sending" /\ on \notin {i \in DOMAIN records : records[i] = Gone}
     /\ records' = Served(m, Head(call.parts), on)
     /\ log' = Append(log, [by |-> c, on |-> on,
                            about |-> IF m = UpdateBlob THEN DOMAIN Head(call.parts) ELSE Fields(m)])
     /\ \/ calls' = [calls EXCEPT ![c].parts = Tail(@), ![c].on = on,
                       ![c].stage = IF Len(call.parts) = 1 THEN "returned" ELSE "sending"]
        \/ calls' = [calls EXCEPT ![c].stage = "raised", ![c].on = on, ![c].lost = TRUE]
     /\ UNCHANGED kind

\* The arguments do not fit together, the record is gone, or the server refuses.
Refuse(c) ==
  /\ calls[c].stage = "sending"
  /\ calls' = [calls EXCEPT ![c].stage = "raised"]
  /\ UNCHANGED <<kind, records, log>>

RecordsNext == \E c \in Callers : Call(c) \/ Serve(c) \/ Refuse(c)

-----------------------------------------------------------------------------
(* Every field of every record holds what was wanted by the last call served *)
(* that said anything about it: a value, none, or, of a creation or a       *)
(* replacement that did not mention it, the default.  What concurrent       *)
(* updates do not mention they leave to each other.                         *)
Says(e, f) ==
  LET call == calls[e.by]
  IN \/ f \in DOMAIN call.wish /\ f \in e.about
     \/ call.method.does = "create"
     \/ call.method.does = "replace" /\ f \in e.about
Wanted(e, f) ==
  LET call == calls[e.by]
  IN IF f \notin DOMAIN call.wish \/ (call.wish[f] = None /\ call.method.does = "replace")
     THEN Default ELSE call.wish[f]
AskedIsHeld ==
  \A i \in DOMAIN records : records[i] # Gone => \A f \in DOMAIN records[i] :
    LET ks == {k \in DOMAIN log : log[k].on = i /\ Says(log[k], f)}
    IN records[i][f] = IF ks = {} THEN Old
                       ELSE Wanted(log[CHOOSE k \in ks : \A j \in ks : j <= k], f)

(* A call that returned has done all it was asked; one that was refused has  *)
(* done nothing, or changed the credentials of a blob config alone; and     *)
(* settings are never changed under credentials that were refused.          *)
Done(c) == UNION {log[k].about : k \in {j \in DOMAIN log : log[j].by = c}}
WholeOrCredentials ==
  \A c \in Callers :
    /\ calls[c].stage = "returned" =>
         DOMAIN calls[c].wish \subseteq Done(c) \/ calls[c].method.does = "delete"
    /\ (calls[c].stage = "raised" /\ ~ calls[c].lost) => Done(c) \subseteq {"credentials"}
    /\ (calls[c].method = UpdateBlob /\ "credentials" \in DOMAIN calls[c].wish) =>
         Done(c) = {} \/ "credentials" \in Done(c)
=============================================================================
