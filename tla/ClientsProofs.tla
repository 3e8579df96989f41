--------------------------- MODULE ClientsProofs ---------------------------
(***************************************************************************)
(* What holds of the low-level client for any callers, fields, lists of    *)
(* documents, manifests and streamed answers: what a record holds after    *)
(* concurrent calls, which runs a manifest leaves on the server, on which  *)
(* documents, and which events of an answer are handed on.                 *)
(***************************************************************************)
EXTENDS Clients, QueueTheorems

-----------------------------------------------------------------------------
(* Records: types, and where a call is                                     *)

AllFields == UNION {Fields(m) : m \in Methods}
Values    == Callers \cup {None, Default, Old}
Wants     == UNION {[fs -> Callers \cup {None}] : fs \in SUBSET AllFields}
CallsType == [stage : {"start", "sending", "returned", "raised"}, method : Methods,
              wish : Wants, on : Nat \ {0}, parts : Seq(Wants), lost : BOOLEAN]

RecordsTyped ==
  /\ records \in Seq([Seen(kind) -> Values] \cup {Gone}) /\ Len(records) > 0
  /\ calls \in [Callers -> CallsType]
  /\ log \in Seq([by : Callers, on : Nat \ {0}, about : SUBSET AllFields])
  /\ \A k \in DOMAIN log : log[k].on \in 1..Len(records)

\* The body of a call, and what is left of it when the credentials were served.
BodyOf(c)   == Body(calls[c].method, Arguments(calls[c].method, calls[c].wish))
Settings(b) == Only(b, DOMAIN b \ {"credentials"})

Begun(c) == calls[c].parts = Parts(calls[c].method, BodyOf(c)) /\ Done(c) = {}
Half(c)  ==
  /\ calls[c].method = UpdateBlob /\ "credentials" \in DOMAIN calls[c].wish
  /\ Len(calls[c].parts) = 1 /\ calls[c].parts[1] = Settings(BodyOf(c))
  /\ Done(c) = {"credentials"}

Progress ==
  \A c \in Callers :
    /\ calls[c].stage = "start" => /\ DOMAIN calls[c].wish = {}
                                   /\ \A k \in DOMAIN log : log[k].by # c
    /\ calls[c].stage # "start" => calls[c].wish \in Wishes(c, calls[c].method)
    /\ calls[c].stage = "sending" => calls[c].on = 1 /\ ~ calls[c].lost /\ (Begun(c) \/ Half(c))

\* The last entry of the log that says something of a field of a record tells what it is.
About(k, i, f) == k \in DOMAIN log /\ log[k].on = i /\ Says(log[k], f)
Held1(i, f) ==
  \/ records[i][f] = Old /\ \A k \in DOMAIN log : ~ About(k, i, f)
  \/ \E k \in DOMAIN log : /\ About(k, i, f) /\ records[i][f] = Wanted(log[k], f)
                           /\ \A j \in DOMAIN log : About(j, i, f) => j <= k
Asked ==
  \A i \in 1..Len(records), f \in Seen(kind) : records[i] # Gone => Held1(i, f)

RecordsInv == RecordsTyped /\ Progress /\ Asked /\ WholeOrCredentials

-----------------------------------------------------------------------------
(* From what a caller wants to the body and its parts                      *)

LEMMA WishType ==
  ASSUME NEW c \in Callers, NEW m \in Methods, NEW w \in Wishes(c, m)
  PROVE  /\ DOMAIN w \subseteq Fields(m) \cap Watched
         /\ w \in [DOMAIN w -> {c, None}]
         /\ \A f \in DOMAIN w : w[f] = None => f \in m.cleared
         /\ w \in Wants
<1>1. PICK fs \in SUBSET (Fields(m) \cap Watched) : w \in [fs -> {c, None}]
  BY DEF Wishes
<1>2. DOMAIN w = fs
  BY <1>1
<1>3. \A f \in DOMAIN w : w[f] = None => f \in m.cleared
  BY DEF Wishes
<1>4. fs \in SUBSET AllFields /\ w \in [fs -> Callers \cup {None}]
  BY <1>1 DEF AllFields
<1>5. w \in Wants
  BY <1>4 DEF Wants
<1> QED
  BY <1>1, <1>2, <1>3, <1>5

\* The body has what was mentioned, and nulls where a replacement was told nothing.
LEMMA BodyIs ==
  ASSUME NEW c \in Callers, NEW m \in Methods, NEW w \in Wishes(c, m)
  PROVE  LET b == Body(m, Arguments(m, w))
         IN  /\ DOMAIN b = {f \in Fields(m) \cap Watched :
                              f \in DOMAIN w \/ (m.does = "replace" /\ f \in m.cleared)}
             /\ \A f \in DOMAIN b : b[f] = IF f \in DOMAIN w THEN w[f] ELSE None
             /\ b \in Wants
<1> DEFINE args == Arguments(m, w)
           b == Body(m, args)
           kept == {f \in DOMAIN args : \/ f \notin m.cleared /\ args[f] # None
                                        \/ f \in m.cleared /\ args[f] # Unset}
<1>1. /\ DOMAIN args = Fields(m) \cap Watched
      /\ \A f \in DOMAIN args :
           args[f] = IF f \in DOMAIN w THEN w[f]
                     ELSE IF f \in m.cleared /\ m.does # "replace" THEN Unset ELSE None
  BY DEF Arguments
<1>2. b = [f \in DOMAIN args \cap kept |-> args[f]]
  BY DEF Body, Only
<1> HIDE DEF args, b
<1>3. /\ DOMAIN w \subseteq Fields(m) \cap Watched
      /\ \A f \in DOMAIN w : w[f] \in {c, None} /\ (w[f] = None => f \in m.cleared)
  BY WishType
<1>4. c # None /\ c # Unset /\ None # Unset
  BY RecordsAssumption DEF None, Unset
<1>5. \A f \in DOMAIN args :
        f \in kept <=> f \in DOMAIN w \/ (m.does = "replace" /\ f \in m.cleared)
  BY <1>1, <1>3, <1>4
<1>6. \A f \in kept : args[f] = IF f \in DOMAIN w THEN w[f] ELSE None
  BY <1>1, <1>4, <1>5
<1>7. DOMAIN b = {f \in Fields(m) \cap Watched :
                    f \in DOMAIN w \/ (m.does = "replace" /\ f \in m.cleared)}
  BY <1>1, <1>2, <1>5
<1>8. \A f \in DOMAIN b : b[f] = IF f \in DOMAIN w THEN w[f] ELSE None
  BY <1>2, <1>6
<1>9. b \in [DOMAIN b -> Callers \cup {None}]
  BY <1>2, <1>3, <1>8
<1>10. DOMAIN b \in SUBSET AllFields
  BY <1>7 DEF AllFields
<1> QED
  BY <1>7, <1>8, <1>9, <1>10 DEF args, b, Wants

\* The body of the call of a caller.
LEMMA BodyOfIs ==
  ASSUME NEW c \in Callers, calls[c].method \in Methods,
         calls[c].wish \in Wishes(c, calls[c].method)
  PROVE  /\ BodyOf(c) \in Wants
         /\ DOMAIN BodyOf(c) =
              {f \in Fields(calls[c].method) \cap Watched :
                 \/ f \in DOMAIN calls[c].wish
                 \/ calls[c].method.does = "replace" /\ f \in calls[c].method.cleared}
<1>1. PICK m \in Methods : m = calls[c].method
  OBVIOUS
<1>2. PICK w \in Wishes(c, m) : w = calls[c].wish
  BY <1>1
<1>3. PICK b : b = Body(m, Arguments(m, w))
  OBVIOUS
<1>4. /\ b \in Wants
      /\ DOMAIN b = {f \in Fields(m) \cap Watched :
                       f \in DOMAIN w \/ (m.does = "replace" /\ f \in m.cleared)}
  BY <1>3, BodyIs
<1>5. BodyOf(c) = b
  BY <1>1, <1>2, <1>3 DEF BodyOf
<1> QED
  BY <1>1, <1>2, <1>4, <1>5

LEMMA OnlyType ==
  ASSUME NEW b \in Wants, NEW fs
  PROVE  /\ Only(b, fs) \in Wants /\ DOMAIN Only(b, fs) = DOMAIN b \cap fs
         /\ \A f \in DOMAIN b \cap fs : Only(b, fs)[f] = b[f]
<1>1. PICK d \in SUBSET AllFields : b \in [d -> Callers \cup {None}]
  BY DEF Wants
<1>2. Only(b, fs) \in [d \cap fs -> Callers \cup {None}] /\ d \cap fs \in SUBSET AllFields
  BY <1>1 DEF Only
<1> QED
  BY <1>1, <1>2 DEF Wants, Only

LEMMA BlobIs ==
  UpdateBlob.does = "update" /\ UpdateBlob.cleared = {}
  BY DEF UpdateBlob, Changes, Method

\* A call is one request, or the credentials of a blob config and then its settings.
LEMMA PartsAre ==
  ASSUME NEW m \in Methods, NEW b \in Wants
  PROVE  LET ps == Parts(m, b)
         IN  /\ ps \in Seq(Wants)
             /\ \/ /\ Len(ps) = 1 /\ ps[1] = b
                   /\ m = UpdateBlob => "credentials" \notin DOMAIN b
                \/ /\ m = UpdateBlob /\ "credentials" \in DOMAIN b
                   /\ ps[1] = Only(b, {"credentials"})
                   /\ \/ Len(ps) = 2 /\ ps[2] = Settings(b)
                      \/ Len(ps) = 1 /\ DOMAIN b = {"credentials"}
<1>1. Only(b, {"credentials"}) \in Wants /\ Settings(b) \in Wants
  BY OnlyType DEF Settings
<1>2. DOMAIN Settings(b) = DOMAIN b \ {"credentials"}
  BY OnlyType DEF Settings
<1>3. CASE m # UpdateBlob \/ "credentials" \notin DOMAIN b
  BY <1>3 DEF Parts
<1>4. CASE m = UpdateBlob /\ "credentials" \in DOMAIN b
  <2>1. Parts(m, b) = <<Only(b, {"credentials"})>>
                        \o (IF DOMAIN Settings(b) = {} THEN <<>> ELSE <<Settings(b)>>)
    BY <1>4 DEF Parts, Settings
  <2>2. CASE DOMAIN Settings(b) = {}
    <3>1. Parts(m, b) = <<Only(b, {"credentials"})>>
      BY <1>1, <2>1, <2>2
    <3>2. DOMAIN b = {"credentials"}
      BY <1>2, <1>4, <2>2
    <3> QED
      BY <1>1, <1>4, <3>1, <3>2
  <2>3. CASE DOMAIN Settings(b) # {}
    <3>1. Parts(m, b) = <<Only(b, {"credentials"})>> \o <<Settings(b)>>
      BY <2>1, <2>3
    <3>2. Parts(m, b) = Append(<<Only(b, {"credentials"})>>, Settings(b))
      BY <1>1, <3>1, AppendIsConcat
    <3> QED
      BY <1>1, <1>4, <3>2
  <2> QED
    BY <2>2, <2>3
<1> QED
  BY <1>3, <1>4

-----------------------------------------------------------------------------
(* A request that is carried out                                           *)

\* The part of a call that is sent next.
LEMMA PartIs ==
  ASSUME RecordsInv, NEW c \in Callers, calls[c].stage = "sending"
  PROVE  LET call == calls[c]
             m    == call.method
             p    == Head(call.parts)
         IN  /\ m \in Methods /\ call.wish \in Wishes(c, m) /\ p \in Wants
             /\ call.parts \in Seq(Wants) /\ call.parts # <<>> /\ call.on = 1
             /\ m # UpdateBlob => Len(call.parts) = 1 /\ p = BodyOf(c) /\ Done(c) = {}
             /\ m = UpdateBlob =>
                  \/ /\ Begun(c) /\ Len(call.parts) = 1 /\ p = BodyOf(c)
                     /\ "credentials" \notin DOMAIN BodyOf(c)
                  \/ /\ Begun(c) /\ "credentials" \in DOMAIN BodyOf(c)
                     /\ p = Only(BodyOf(c), {"credentials"})
                     /\ \/ /\ Len(call.parts) = 2
                           /\ Len(Tail(call.parts)) = 1
                           /\ Tail(call.parts)[1] = Settings(BodyOf(c))
                        \/ Len(call.parts) = 1 /\ DOMAIN BodyOf(c) = {"credentials"}
                  \/ Half(c) /\ Len(call.parts) = 1 /\ p = Settings(BodyOf(c))
<1> DEFINE call == calls[c]
           m    == call.method
           ps   == call.parts
<1>1. /\ m \in Methods /\ call.wish \in Wishes(c, m) /\ ps \in Seq(Wants) /\ call.on = 1
      /\ Begun(c) \/ Half(c)
  BY DEF RecordsInv, RecordsTyped, CallsType, Progress
<1>2. BodyOf(c) \in Wants
  BY <1>1, BodyOfIs
<1>3. ps # <<>> => Head(ps) = ps[1] /\ Head(ps) \in Wants
  BY <1>1
<1>4. Len(ps) > 0 => ps # <<>>
  OBVIOUS
<1>5. ASSUME Len(ps) = 2 PROVE Len(Tail(ps)) = 1 /\ Tail(ps)[1] = ps[2]
  BY <1>1, <1>5
<1>6. CASE Begun(c)
  <2>1. ps = Parts(m, BodyOf(c)) /\ Done(c) = {}
    BY <1>6 DEF Begun
  <2> QED
    BY <1>1, <1>2, <1>3, <1>4, <1>5, <1>6, <2>1, PartsAre
<1>7. CASE Half(c)
  BY <1>1, <1>3, <1>4, <1>7 DEF Half
<1> QED
  BY <1>1, <1>6, <1>7

\* What the log has of a request.
Entry(c, on) ==
  [by |-> c, on |-> on,
   about |-> IF calls[c].method = UpdateBlob THEN DOMAIN Head(calls[c].parts)
             ELSE Fields(calls[c].method)]

\* A field of the record is as wanted if the request says anything of it, and else as it was.
LEMMA HeldIs ==
  ASSUME RecordsInv, NEW c \in Callers, calls[c].stage = "sending",
         calls[c].method.does # "delete", NEW on, NEW r, NEW f \in DOMAIN r
  PROVE  Held(calls[c].method, r, Head(calls[c].parts))[f]
           = IF Says(Entry(c, on), f) THEN Wanted(Entry(c, on), f) ELSE r[f]
<1>1. PICK m : m = calls[c].method
  OBVIOUS
<1>2. PICK w : w = calls[c].wish
  OBVIOUS
<1>3. PICK p : p = Head(calls[c].parts)
  OBVIOUS
<1>4. PICK b : b = BodyOf(c)
  OBVIOUS
<1>5. PICK about : about = IF m = UpdateBlob THEN DOMAIN p ELSE Fields(m)
  OBVIOUS
<1>6. m \in Methods /\ w \in Wishes(c, m) /\ p \in Wants /\ (m # UpdateBlob => p = b)
  BY <1>1, <1>2, <1>3, <1>4, PartIs
<1>7. /\ DOMAIN b = {g \in Fields(m) \cap Watched :
                       g \in DOMAIN w \/ (m.does = "replace" /\ g \in m.cleared)}
      /\ \A g \in DOMAIN b : b[g] = IF g \in DOMAIN w THEN w[g] ELSE None
      /\ b \in Wants
  <2>1. b = Body(m, Arguments(m, w))
    BY <1>1, <1>2, <1>4 DEF BodyOf
  <2> QED
    BY <1>6, <2>1, BodyIs
<1>8. DOMAIN w \subseteq Fields(m) \cap Watched
  BY <1>6, WishType
<1>9. DOMAIN p \subseteq DOMAIN b /\ \A g \in DOMAIN p : p[g] = b[g]
  <2>1. ASSUME NEW fs, p = Only(b, fs)
        PROVE  DOMAIN p \subseteq DOMAIN b /\ \A g \in DOMAIN p : p[g] = b[g]
    <3>1. DOMAIN Only(b, fs) = DOMAIN b \cap fs
      BY <1>7, OnlyType
    <3>2. \A g \in DOMAIN b \cap fs : Only(b, fs)[g] = b[g]
      BY <1>7, OnlyType
    <3> QED
      BY <2>1, <3>1, <3>2
  <2>2. p = b \/ p = Only(b, {"credentials"}) \/ p = Only(b, DOMAIN b \ {"credentials"})
    BY <1>1, <1>3, <1>4, PartIs DEF Settings
  <2> QED
    BY <2>1, <2>2
<1>10. m = UpdateBlob => m.does = "update" /\ m.cleared = {}
  BY BlobIs
<1>11. Says(Entry(c, on), f) <=> \/ f \in DOMAIN w /\ f \in about
                                 \/ m.does = "create"
                                 \/ m.does = "replace" /\ f \in about
  BY <1>1, <1>2, <1>3, <1>5 DEF Says, Entry
<1>12. Wanted(Entry(c, on), f)
         = IF f \notin DOMAIN w \/ (w[f] = None /\ m.does = "replace") THEN Default ELSE w[f]
  BY <1>1, <1>2 DEF Wanted, Entry
<1>13. Held(m, r, p)[f]
         = IF f \in DOMAIN p THEN IF p[f] = None /\ m.does = "replace" THEN Default ELSE p[f]
           ELSE IF m.does \in {"create", "replace"} /\ (m.does = "create" \/ f \in Fields(m))
           THEN Default ELSE r[f]
  BY DEF Held
<1>14. Held(m, r, p)[f] = IF Says(Entry(c, on), f) THEN Wanted(Entry(c, on), f) ELSE r[f]
  <2>1. CASE f \in DOMAIN p
    <3>1. f \in DOMAIN b /\ f \in Fields(m) /\ p[f] = IF f \in DOMAIN w THEN w[f] ELSE None
      BY <1>7, <1>9, <2>1
    <3>2. f \in about
      BY <1>5, <2>1, <3>1
    <3>3. f \notin DOMAIN w => m.does = "replace" /\ m # UpdateBlob
      BY <1>7, <1>10, <3>1
    <3>4. Says(Entry(c, on), f)
      BY <1>11, <3>2, <3>3
    <3>5. Wanted(Entry(c, on), f) = IF p[f] = None /\ m.does = "replace" THEN Default ELSE p[f]
      BY <1>12, <3>1, <3>3
    <3> QED
      BY <1>13, <2>1, <3>4, <3>5
  <2>2. CASE f \notin DOMAIN p
    <3>1. f \in DOMAIN w => m = UpdateBlob /\ f \notin about
      BY <1>5, <1>6, <1>7, <1>8, <2>2
    <3>2. f \in about => f \in Fields(m)
      BY <1>5, <2>2
    <3>3. f \in Fields(m) /\ m.does = "replace" => f \in about
      BY <1>5, <1>10, <2>2
    <3>4. f \in DOMAIN w => m.does = "update"
      BY <1>10, <3>1
    <3>5. Says(Entry(c, on), f) => Wanted(Entry(c, on), f) = Default
      BY <1>11, <1>12, <3>1, <3>4
    <3>6. Says(Entry(c, on), f)
            <=> m.does \in {"create", "replace"} /\ (m.does = "create" \/ f \in Fields(m))
      BY <1>11, <3>1, <3>2, <3>3, <3>4
    <3> QED
      BY <1>13, <2>2, <3>5, <3>6
  <2> QED
    BY <2>1, <2>2
<1> QED
  BY <1>1, <1>3, <1>14

\* What the log has.
LEMMA LogIs ==
  ASSUME RecordsTyped
  PROVE  /\ Len(log) \in Nat /\ DOMAIN log = 1..Len(log)
         /\ \A k \in DOMAIN log : log[k].by \in Callers /\ log[k].about \subseteq AllFields
<1>1. log \in Seq([by : Callers, on : Nat \ {0}, about : SUBSET AllFields])
  BY DEF RecordsTyped
<1>2. Len(log) \in Nat /\ DOMAIN log = 1..Len(log)
  BY <1>1, LenProperties
<1>3. \A k \in 1..Len(log) : log[k] \in [by : Callers, on : Nat \ {0}, about : SUBSET AllFields]
  BY <1>1, ElementOfSeq
<1> QED
  BY <1>2, <1>3

\* One entry more.
LEMMA Logged ==
  ASSUME RecordsTyped, NEW e \in [by : Callers, on : Nat \ {0}, about : SUBSET AllFields],
         log' = Append(log, e)
  PROVE  /\ log' \in Seq([by : Callers, on : Nat \ {0}, about : SUBSET AllFields])
         /\ Len(log) \in Nat /\ DOMAIN log = 1..Len(log) /\ DOMAIN log' = 1..(Len(log) + 1)
         /\ \A k \in DOMAIN log : log'[k] = log[k]
         /\ log'[Len(log) + 1] = e
         /\ \A d \in Callers : Done(d)' = IF d = e.by THEN Done(d) \cup e.about ELSE Done(d)
<1>1. /\ log' \in Seq([by : Callers, on : Nat \ {0}, about : SUBSET AllFields])
      /\ Len(log) \in Nat /\ DOMAIN log = 1..Len(log) /\ DOMAIN log' = 1..(Len(log) + 1)
      /\ \A k \in DOMAIN log : log'[k] = log[k]
      /\ log'[Len(log) + 1] = e
  BY AppendProperties, LenProperties DEF RecordsTyped
<1>2. ASSUME NEW d \in Callers
      PROVE  Done(d)' = IF d = e.by THEN Done(d) \cup e.about ELSE Done(d)
  <2>1. \A k \in DOMAIN log' : k \in DOMAIN log \/ k = Len(log) + 1
    BY <1>1
  <2>2. DOMAIN log \subseteq DOMAIN log' /\ Len(log) + 1 \in DOMAIN log'
    BY <1>1
  <2>3. \A x : x \in Done(d)' <=> x \in Done(d) \/ (d = e.by /\ x \in e.about)
    BY <1>1, <2>1, <2>2 DEF Done
  <2> QED
    BY <2>3
<1> QED
  BY <1>1, <1>2

LEMMA RecordsStart ==
  RecordsInit => RecordsInv
<1> SUFFICES ASSUME RecordsInit PROVE RecordsInv
  OBVIOUS
<1>1. DeleteSkill \in Methods
  BY DEF Methods
<1>2. <<>> \in Wants
  <2>1. {} \in SUBSET AllFields /\ <<>> \in [{} -> Callers \cup {None}]
    OBVIOUS
  <2> QED
    BY <2>1 DEF Wants
<1>3. /\ records = <<[f \in Seen(kind) |-> Old]>> /\ log = <<>>
      /\ calls = [c \in Callers |-> Idle]
  BY DEF RecordsInit
<1>4. RecordsTyped
  <2>1. Idle \in CallsType
    BY <1>1, <1>2 DEF Idle, CallsType
  <2>2. [f \in Seen(kind) |-> Old] \in [Seen(kind) -> Values]
    BY DEF Values
  <2> QED
    BY <1>3, <2>1, <2>2 DEF RecordsTyped
<1>5. \A c \in Callers : calls[c].stage = "start" /\ DOMAIN calls[c].wish = {} /\ Done(c) = {}
  BY <1>3 DEF Idle, Done
<1>6. Progress
  BY <1>3, <1>5 DEF Progress
<1>7. Asked
  BY <1>3 DEF Asked, Held1, About
<1>8. WholeOrCredentials
  BY <1>5 DEF WholeOrCredentials
<1> QED
  BY <1>4, <1>6, <1>7, <1>8 DEF RecordsInv

-----------------------------------------------------------------------------
(* The steps                                                               *)

LEMMA CallStep ==
  ASSUME RecordsInv, NEW c \in Callers, Call(c)
  PROVE  RecordsInv'
<1>1. PICK m \in Methods : \E w \in Wishes(c, m) :
        calls' = [calls EXCEPT ![c] =
          [stage |-> "sending", method |-> m, wish |-> w, lost |-> FALSE,
           on |-> 1, parts |-> Parts(m, Body(m, Arguments(m, w)))]]
  BY DEF Call
<1>2. PICK w \in Wishes(c, m) :
        calls' = [calls EXCEPT ![c] =
          [stage |-> "sending", method |-> m, wish |-> w, lost |-> FALSE,
           on |-> 1, parts |-> Parts(m, Body(m, Arguments(m, w)))]]
  BY <1>1
<1>3. calls \in [Callers -> CallsType] /\ calls[c].stage = "start"
  BY DEF RecordsInv, RecordsTyped, Call
<1>4. UNCHANGED <<kind, records, log>>
  BY DEF Call
<1>5. \A k \in DOMAIN log : log[k].by # c /\ log[k].by \in Callers
  BY <1>3, LogIs DEF RecordsInv, Progress
<1>6. /\ calls'[c].stage = "sending" /\ calls'[c].method = m /\ calls'[c].wish = w
      /\ ~ calls'[c].lost /\ calls'[c].on = 1
      /\ calls'[c].parts = Parts(m, Body(m, Arguments(m, w)))
  BY <1>2, <1>3
<1>7. \A d \in Callers \ {c} : calls'[d] = calls[d]
  BY <1>2, <1>3
<1>8. \A d \in Callers : Done(d)' = Done(d)
  BY <1>4 DEF Done
<1>9. Done(c) = {}
  BY <1>5 DEF Done
<1>10. RecordsTyped'
  <2>1. w \in Wants
    BY WishType
  <2>2. Parts(m, Body(m, Arguments(m, w))) \in Seq(Wants)
    BY BodyIs, PartsAre
  <2>3. calls'[c] \in CallsType
    BY <1>2, <1>3, <2>1, <2>2 DEF CallsType
  <2>4. calls' \in [Callers -> CallsType]
    BY <1>2, <1>3, <2>3
  <2>5. records' \in Seq([Seen(kind) -> Values] \cup {Gone})' /\ Len(records') > 0
    BY <1>4 DEF RecordsInv, RecordsTyped, Seen
  <2> QED
    BY <1>4, <2>4, <2>5 DEF RecordsInv, RecordsTyped, Seen
<1>11. Progress'
  <2> SUFFICES ASSUME NEW d \in Callers
               PROVE  /\ calls'[d].stage = "start" =>
                            /\ DOMAIN calls'[d].wish = {}
                            /\ \A k \in DOMAIN log' : log'[k].by # d
                      /\ calls'[d].stage # "start" =>
                            calls'[d].wish \in Wishes(d, calls'[d].method)
                      /\ calls'[d].stage = "sending" =>
                            calls'[d].on = 1 /\ ~ calls'[d].lost /\ (Begun(d)' \/ Half(d)')
    BY DEF Progress
  <2>1. CASE d = c
    <3>1. Begun(c)'
      BY <1>6, <1>8, <1>9 DEF Begun, BodyOf
    <3> QED
      BY <1>6, <2>1, <3>1
  <2>2. CASE d # c
    <3>1. calls'[d] = calls[d]
      BY <1>7, <2>2
    <3>2. (Begun(d) => Begun(d)') /\ (Half(d) => Half(d)')
      BY <1>8, <3>1 DEF Begun, Half, BodyOf
    <3> QED
      BY <1>4, <3>1, <3>2 DEF RecordsInv, Progress
  <2> QED
    BY <2>1, <2>2
<1>12. Asked'
  <2>1. \A k \in DOMAIN log : calls'[log[k].by] = calls[log[k].by]
    BY <1>5, <1>7
  <2>2. \A k, i, f : About(k, i, f)' <=> About(k, i, f)
    BY <1>4, <2>1 DEF About, Says
  <2>3. \A f : \A k \in DOMAIN log : Wanted(log[k], f)' = Wanted(log[k], f)
    BY <1>4, <2>1 DEF Wanted
  <2>4. \A i \in 1..Len(records), f \in Seen(kind) : Held1(i, f) => Held1(i, f)'
    BY <1>4, <2>2, <2>3 DEF Held1
  <2> QED
    BY <1>4, <2>4 DEF RecordsInv, Asked, Seen
<1>13. WholeOrCredentials'
  BY <1>6, <1>7, <1>8, <1>9 DEF RecordsInv, WholeOrCredentials
<1> QED
  BY <1>10, <1>11, <1>12, <1>13 DEF RecordsInv

LEMMA RefuseStep ==
  ASSUME RecordsInv, NEW c \in Callers, Refuse(c)
  PROVE  RecordsInv'
<1>1. /\ calls \in [Callers -> CallsType] /\ calls[c].stage = "sending"
      /\ calls' = [calls EXCEPT ![c].stage = "raised"]
      /\ UNCHANGED <<kind, records, log>>
  BY DEF RecordsInv, RecordsTyped, Refuse
<1>2. /\ calls'[c].stage = "raised" /\ calls' \in [Callers -> CallsType]
      /\ \A d \in Callers : /\ calls'[d].method = calls[d].method
                            /\ calls'[d].wish = calls[d].wish
                            /\ calls'[d].parts = calls[d].parts /\ calls'[d].lost = calls[d].lost
                            /\ calls'[d].on = calls[d].on
                            /\ d # c => calls'[d].stage = calls[d].stage
  BY <1>1 DEF CallsType
<1>3. \A d \in Callers : Done(d)' = Done(d)
  BY <1>1 DEF Done
<1>4. Done(c) \subseteq {"credentials"}
  BY <1>1 DEF RecordsInv, Progress, Begun, Half
<1>5. RecordsTyped'
  BY <1>1, <1>2 DEF RecordsInv, RecordsTyped, Seen
<1>6. Progress'
  <2>1. \A d \in Callers : (Begun(d) => Begun(d)') /\ (Half(d) => Half(d)')
    BY <1>2, <1>3 DEF Begun, Half, BodyOf
  <2>2. \A d \in Callers : calls'[d].stage = "start" => calls[d].stage = "start"
    BY <1>2
  <2>3. \A d \in Callers : calls'[d].stage = "sending" => calls[d].stage = "sending"
    BY <1>2
  <2>4. \A d \in Callers : calls'[d].stage # "start" => calls[d].stage # "start"
    BY <1>1, <1>2
  <2> QED
    BY <1>1, <1>2, <2>1, <2>2, <2>3, <2>4 DEF RecordsInv, Progress
<1>7. Asked'
  <2>1. \A k \in DOMAIN log : log[k].by \in Callers
    BY LogIs DEF RecordsInv
  <2>2. \A k, i, f : About(k, i, f)' <=> About(k, i, f)
    BY <1>1, <1>2, <2>1 DEF About, Says
  <2>3. \A f : \A k \in DOMAIN log : Wanted(log[k], f)' = Wanted(log[k], f)
    BY <1>1, <1>2, <2>1 DEF Wanted
  <2>4. \A i \in 1..Len(records), f \in Seen(kind) : Held1(i, f) => Held1(i, f)'
    BY <1>1, <2>2, <2>3 DEF Held1
  <2> QED
    BY <1>1, <2>4 DEF RecordsInv, Asked, Seen
<1>8. WholeOrCredentials'
  BY <1>2, <1>3, <1>4 DEF RecordsInv, WholeOrCredentials
<1> QED
  BY <1>5, <1>6, <1>7, <1>8 DEF RecordsInv

\* What a record becomes has a value in every field.
LEMMA HeldType ==
  ASSUME RecordsInv, NEW c \in Callers, calls[c].stage = "sending",
         NEW r \in [Seen(kind) -> Values]
  PROVE  Held(calls[c].method, r, Head(calls[c].parts)) \in [Seen(kind) -> Values]
<1>1. Head(calls[c].parts) \in Wants
  BY PartIs
<1>2. PICK d \in SUBSET AllFields : Head(calls[c].parts) \in [d -> Callers \cup {None}]
  BY <1>1 DEF Wants
<1> QED
  BY <1>2 DEF Held, Values

LEMMA ServeStep ==
  ASSUME RecordsInv, NEW c \in Callers, Serve(c)
  PROVE  RecordsInv'
<1>1. PICK m : m = calls[c].method
  OBVIOUS
<1>2. PICK p : p = Head(calls[c].parts)
  OBVIOUS
<1>3. PICK on : on = IF m.does = "create" THEN Len(records) + 1 ELSE calls[c].on
  OBVIOUS
<1>4. PICK e : e = Entry(c, on)
  OBVIOUS
<1>5. /\ calls[c].stage = "sending" /\ on \notin {i \in DOMAIN records : records[i] = Gone}
      /\ records' = Served(m, p, on) /\ log' = Append(log, e) /\ kind' = kind
  BY <1>1, <1>2, <1>3, <1>4 DEF Serve, Entry
<1>6. \/ calls' = [calls EXCEPT ![c].parts = Tail(@), ![c].on = on,
                      ![c].stage = IF Len(calls[c].parts) = 1 THEN "returned" ELSE "sending"]
      \/ calls' = [calls EXCEPT ![c].stage = "raised", ![c].on = on, ![c].lost = TRUE]
  BY <1>1, <1>3 DEF Serve
<1>7. /\ calls \in [Callers -> CallsType]
      /\ records \in Seq([Seen(kind) -> Values] \cup {Gone})
      /\ Len(records) \in Nat /\ Len(records) > 0 /\ DOMAIN records = 1..Len(records)
  BY LenProperties DEF RecordsInv, RecordsTyped
<1>8. /\ m \in Methods /\ calls[c].wish \in Wishes(c, m) /\ p \in Wants /\ calls[c].on = 1
      /\ calls[c].parts \in Seq(Wants) /\ calls[c].parts # <<>>
  BY <1>1, <1>2, <1>5, PartIs
<1>9. on \in 1..(Len(records) + 1) /\ (m.does # "create" => on = 1)
  BY <1>3, <1>7, <1>8
<1>10. /\ e.by = c /\ e.on = on
       /\ e.about = IF m = UpdateBlob THEN DOMAIN p ELSE Fields(m)
  BY <1>1, <1>2, <1>4 DEF Entry
<1>11. e \in [by : Callers, on : Nat \ {0}, about : SUBSET AllFields]
  <2>1. DOMAIN p \in SUBSET AllFields
    BY <1>8 DEF Wants
  <2>2. Fields(m) \in SUBSET AllFields
    BY <1>8 DEF AllFields
  <2>3. on \in Nat \ {0}
    BY <1>7, <1>9
  <2> QED
    BY <1>1, <1>2, <1>4, <2>1, <2>2, <2>3 DEF Entry
<1>12. /\ log' \in Seq([by : Callers, on : Nat \ {0}, about : SUBSET AllFields])
       /\ Len(log) \in Nat /\ DOMAIN log = 1..Len(log) /\ DOMAIN log' = 1..(Len(log) + 1)
       /\ \A k \in DOMAIN log : log'[k] = log[k]
       /\ log'[Len(log) + 1] = e
       /\ \A d \in Callers : Done(d)' = IF d = c THEN Done(d) \cup e.about ELSE Done(d)
  BY <1>5, <1>10, <1>11, Logged DEF RecordsInv
<1>13. /\ calls' \in [Callers -> CallsType]
       /\ \A d \in Callers : d # c => calls'[d] = calls[d]
       /\ calls'[c].method = calls[c].method /\ calls'[c].wish = calls[c].wish
       /\ calls'[c].on = on
       /\ \/ /\ calls'[c].parts = Tail(calls[c].parts) /\ calls'[c].lost = calls[c].lost
             /\ calls'[c].stage = IF Len(calls[c].parts) = 1 THEN "returned" ELSE "sending"
          \/ calls'[c].stage = "raised" /\ calls'[c].lost
  <2>1. Tail(calls[c].parts) \in Seq(Wants)
    BY <1>8
  <2>2. on \in Nat \ {0}
    BY <1>7, <1>9
  <2>3. calls[c] \in CallsType
    BY <1>7
  <2>4. CASE calls' = [calls EXCEPT ![c].parts = Tail(@), ![c].on = on,
                         ![c].stage = IF Len(calls[c].parts) = 1 THEN "returned" ELSE "sending"]
    <3>1. PICK new : new = [calls[c] EXCEPT !.parts = Tail(@), !.on = on,
                              !.stage = IF Len(calls[c].parts) = 1 THEN "returned" ELSE "sending"]
      OBVIOUS
    <3>2. calls' = [calls EXCEPT ![c] = new]
      BY <1>7, <2>4, <3>1
    <3>3. /\ new.parts = Tail(calls[c].parts) /\ new.on = on /\ new.lost = calls[c].lost
          /\ new.stage = IF Len(calls[c].parts) = 1 THEN "returned" ELSE "sending"
          /\ new.method = calls[c].method /\ new.wish = calls[c].wish
      BY <2>3, <3>1 DEF CallsType
    <3>4. new \in CallsType
      BY <2>1, <2>2, <2>3, <3>1 DEF CallsType
    <3> QED
      BY <1>7, <3>2, <3>3, <3>4
  <2>5. CASE calls' = [calls EXCEPT ![c].stage = "raised", ![c].on = on, ![c].lost = TRUE]
    <3>1. PICK new : new = [calls[c] EXCEPT !.stage = "raised", !.on = on, !.lost = TRUE]
      OBVIOUS
    <3>2. calls' = [calls EXCEPT ![c] = new]
      BY <1>7, <2>5, <3>1
    <3>3. /\ new.on = on /\ new.lost /\ new.stage = "raised"
          /\ new.method = calls[c].method /\ new.wish = calls[c].wish
      BY <2>3, <3>1 DEF CallsType
    <3>4. new \in CallsType
      BY <2>2, <2>3, <3>1 DEF CallsType
    <3> QED
      BY <1>7, <3>2, <3>3, <3>4
  <2> QED
    BY <1>6, <2>4, <2>5
<1>14. \A d \in Callers : calls'[d].method = calls[d].method /\ calls'[d].wish = calls[d].wish
  BY <1>13
<1>15. \A k \in DOMAIN log : log[k].by \in Callers /\ log[k].on \in 1..Len(records)
  BY LogIs DEF RecordsInv, RecordsTyped
\* The records but this one are as they were, and this one is there.
<1>16. /\ records' \in Seq([Seen(kind) -> Values] \cup {Gone})
       /\ Len(records') = IF m.does = "create" THEN Len(records) + 1 ELSE Len(records)
       /\ \A i \in 1..Len(records) : i # on => records'[i] = records[i]
       /\ m.does = "create" => records'[on] = Held(m, [f \in Seen(kind) |-> Default], p)
       /\ m.does = "delete" => records'[on] = Gone
       /\ m.does \notin {"create", "delete"} =>
            /\ records'[on] = Held(m, records[on], p)
            /\ records[on] \in [Seen(kind) -> Values]
  <2>1. CASE m.does = "create"
    <3>1. [f \in Seen(kind) |-> Default] \in [Seen(kind) -> Values]
      BY DEF Values
    <3>2. Held(m, [f \in Seen(kind) |-> Default], p) \in [Seen(kind) -> Values]
      BY <1>1, <1>2, <1>5, <3>1, HeldType
    <3>3. records' = Append(records, Held(m, [f \in Seen(kind) |-> Default], p))
      BY <1>5, <2>1 DEF Served
    <3>4. on = Len(records) + 1
      BY <1>3, <2>1
    <3> HIDE DEF Held
    <3> QED
      BY <1>7, <2>1, <3>2, <3>3, <3>4, AppendProperties
  <2>2. CASE m.does = "delete"
    <3>1. records' = [records EXCEPT ![on] = Gone]
      BY <1>5, <2>2 DEF Served
    <3>2. on \in 1..Len(records)
      BY <1>7, <1>9, <2>2
    <3> QED
      BY <1>7, <2>2, <3>1, <3>2
  <2>3. CASE m.does \notin {"create", "delete"}
    <3>1. on \in 1..Len(records)
      BY <1>7, <1>9, <2>3
    <3>2. records[on] \in [Seen(kind) -> Values]
      BY <1>5, <1>7, <3>1
    <3>3. Held(m, records[on], p) \in [Seen(kind) -> Values]
      BY <1>1, <1>2, <1>5, <3>2, HeldType
    <3>4. records' = [records EXCEPT ![on] = Held(m, records[on], p)]
      BY <1>5, <2>3 DEF Served
    <3>5. PICK h : h = Held(m, records[on], p)
      OBVIOUS
    <3>6. /\ records' \in Seq([Seen(kind) -> Values] \cup {Gone}) /\ Len(records') = Len(records)
          /\ records'[on] = h /\ \A i \in 1..Len(records) : i # on => records'[i] = records[i]
      BY <1>7, <3>1, <3>3, <3>4, <3>5
    <3> QED
      BY <2>3, <3>2, <3>5, <3>6
  <2> QED
    BY <2>1, <2>2, <2>3
<1>17. RecordsTyped'
  <2>1. \A k \in DOMAIN log' : k \in DOMAIN log \/ k = Len(log) + 1
    BY <1>12
  <2>2. \A k \in DOMAIN log : log'[k].on \in 1..Len(records')
    BY <1>7, <1>12, <1>15, <1>16
  <2>3. on \in 1..Len(records')
    BY <1>3, <1>7, <1>9, <1>16
  <2>4. \A k \in DOMAIN log' : log'[k].on \in 1..Len(records')
    BY <1>10, <1>12, <2>1, <2>2, <2>3
  <2> QED
    BY <1>5, <1>7, <1>12, <1>13, <1>16, <2>4 DEF RecordsTyped, Seen
<1>18. \A d \in Callers \ {c} : /\ Done(d)' = Done(d) /\ calls'[d] = calls[d]
  BY <1>12, <1>13
<1>19. /\ m # UpdateBlob => Len(calls[c].parts) = 1 /\ Done(c) = {}
       /\ m = UpdateBlob =>
            \/ /\ Done(c) = {} /\ Len(calls[c].parts) = 1 /\ p = BodyOf(c)
               /\ "credentials" \notin DOMAIN BodyOf(c)
            \/ /\ Done(c) = {} /\ "credentials" \in DOMAIN BodyOf(c)
               /\ DOMAIN p = {"credentials"}
               /\ \/ /\ Len(calls[c].parts) = 2 /\ Len(Tail(calls[c].parts)) = 1
                     /\ Tail(calls[c].parts)[1] = Settings(BodyOf(c))
                  \/ Len(calls[c].parts) = 1 /\ DOMAIN BodyOf(c) = {"credentials"}
            \/ /\ Done(c) = {"credentials"} /\ Len(calls[c].parts) = 1
               /\ DOMAIN p = DOMAIN BodyOf(c) \ {"credentials"}
  <2>1. BodyOf(c) \in Wants
    BY <1>1, <1>8, BodyOfIs
  <2>2. DOMAIN Settings(BodyOf(c)) = DOMAIN BodyOf(c) \ {"credentials"}
    BY <2>1, OnlyType DEF Settings
  <2>3. "credentials" \in DOMAIN BodyOf(c) =>
          DOMAIN Only(BodyOf(c), {"credentials"}) = {"credentials"}
    <3>1. DOMAIN Only(BodyOf(c), {"credentials"}) = DOMAIN BodyOf(c) \cap {"credentials"}
      BY <2>1, OnlyType
    <3> QED
      BY <3>1
  <2> QED
    BY <1>1, <1>2, <1>5, <2>2, <2>3, PartIs DEF Begun, Half
<1>20. m = UpdateBlob => DOMAIN BodyOf(c) = DOMAIN calls[c].wish
  <2>1. DOMAIN BodyOf(c) = {g \in Fields(m) \cap Watched :
                             g \in DOMAIN calls[c].wish \/ (m.does = "replace" /\ g \in m.cleared)}
    BY <1>1, <1>8, BodyOfIs
  <2>2. DOMAIN calls[c].wish \subseteq Fields(m) \cap Watched
    BY <1>8, WishType
  <2> QED
    BY <2>1, <2>2, BlobIs
<1>21. Progress'
  <2> SUFFICES ASSUME NEW d \in Callers
               PROVE  /\ calls'[d].stage = "start" =>
                            /\ DOMAIN calls'[d].wish = {}
                            /\ \A k \in DOMAIN log' : log'[k].by # d
                      /\ calls'[d].stage # "start" =>
                            calls'[d].wish \in Wishes(d, calls'[d].method)
                      /\ calls'[d].stage = "sending" =>
                            calls'[d].on = 1 /\ ~ calls'[d].lost /\ (Begun(d)' \/ Half(d)')
    BY DEF Progress
  <2>1. CASE d = c
    <3>1. calls'[c].stage # "start"
      BY <1>13
    <3>2. ASSUME calls'[c].stage = "sending"
          PROVE  calls'[c].on = 1 /\ ~ calls'[c].lost /\ Half(c)'
      <4>1. /\ Len(calls[c].parts) # 1 /\ calls'[c].parts = Tail(calls[c].parts)
            /\ calls'[c].lost = calls[c].lost
        BY <1>13, <3>2
      <4>2. /\ m = UpdateBlob /\ Done(c) = {} /\ "credentials" \in DOMAIN BodyOf(c)
            /\ DOMAIN p = {"credentials"} /\ Len(Tail(calls[c].parts)) = 1
            /\ Tail(calls[c].parts)[1] = Settings(BodyOf(c))
        BY <1>19, <4>1
      <4>3. Done(c)' = {"credentials"}
        BY <1>10, <1>12, <4>2
      <4>4. BodyOf(c)' = BodyOf(c)
        BY <1>13 DEF BodyOf
      <4>5. calls'[c].on = 1
        BY <1>9, <1>13, <4>2, BlobIs
      <4>6. ~ calls'[c].lost
        BY <1>5, <4>1 DEF RecordsInv, Progress
      <4>7. Half(c)'
        BY <1>1, <1>13, <1>20, <4>1, <4>2, <4>3, <4>4 DEF Half
      <4> QED
        BY <4>5, <4>6, <4>7
    <3> QED
      BY <1>1, <1>8, <1>13, <2>1, <3>1, <3>2
  <2>2. CASE d # c
    <3>1. calls'[d] = calls[d] /\ Done(d)' = Done(d)
      BY <1>18, <2>2
    <3>2. (Begun(d) => Begun(d)') /\ (Half(d) => Half(d)')
      BY <3>1 DEF Begun, Half, BodyOf
    <3>3. (\A k \in DOMAIN log : log[k].by # d) => \A k \in DOMAIN log' : log'[k].by # d
      BY <1>10, <1>12, <2>2
    <3> QED
      BY <3>1, <3>2, <3>3 DEF RecordsInv, Progress
  <2> QED
    BY <2>1, <2>2
<1>22. \A f : /\ Says(e, f)' <=> Says(e, f)
              /\ Wanted(e, f)' = Wanted(e, f)
  BY <1>10, <1>14 DEF Says, Wanted
<1>23. \A f : \A k \in DOMAIN log : /\ Says(log[k], f)' <=> Says(log[k], f)
                                /\ Wanted(log[k], f)' = Wanted(log[k], f)
  BY <1>12, <1>14, <1>15 DEF Says, Wanted
<1>n. PICK n : n = Len(log)
  OBVIOUS
<1>24. \A i, f : \A k \in DOMAIN log : About(k, i, f)' <=> About(k, i, f)
  BY <1>12, <1>23 DEF About
<1>25. \A i, f : About(n + 1, i, f)' <=> i = on /\ Says(e, f)
  BY <1>10, <1>12, <1>22, <1>n DEF About
<1>26. ASSUME NEW i, NEW f, Held1(i, f), records'[i][f] = records[i][f], i # on \/ ~ Says(e, f)
       PROVE  Held1(i, f)'
  <2>1. \A k \in DOMAIN log' : About(k, i, f)' => k \in DOMAIN log /\ About(k, i, f)
    BY <1>12, <1>24, <1>25, <1>26, <1>n
  <2>2. CASE records[i][f] = Old /\ \A k \in DOMAIN log : ~ About(k, i, f)
    BY <1>26, <2>1, <2>2 DEF Held1
  <2>3. CASE \E k \in DOMAIN log : /\ About(k, i, f) /\ records[i][f] = Wanted(log[k], f)
                                   /\ \A j \in DOMAIN log : About(j, i, f) => j <= k
    <3>1. PICK k \in DOMAIN log : /\ About(k, i, f) /\ records[i][f] = Wanted(log[k], f)
                                  /\ \A j \in DOMAIN log : About(j, i, f) => j <= k
      BY <2>3
    <3>2. k \in DOMAIN log' /\ About(k, i, f)'
      BY <1>12, <1>24, <3>1
    <3>3. records'[i][f] = Wanted(log[k], f)'
      BY <1>12, <1>23, <1>26, <3>1
    <3> QED
      BY <2>1, <3>1, <3>2, <3>3 DEF Held1
  <2> QED
    BY <1>26, <2>2, <2>3 DEF Held1
<1>27. ASSUME NEW f, Says(e, f), records'[on][f] = Wanted(e, f) PROVE Held1(on, f)'
  <2>1. About(n + 1, on, f)' /\ n + 1 \in DOMAIN log'
    BY <1>12, <1>25, <1>27, <1>n
  <2>2. Wanted(log[n + 1], f)' = Wanted(e, f)
    BY <1>12, <1>22, <1>n
  <2>3. \A j \in DOMAIN log' : j <= n + 1
    BY <1>12, <1>n
  <2> QED
    BY <1>27, <2>1, <2>2, <2>3 DEF Held1
<1>28. ASSUME m.does # "delete", NEW r, NEW f \in DOMAIN r
       PROVE  Held(m, r, p)[f] = IF Says(e, f) THEN Wanted(e, f) ELSE r[f]
  <2>1. calls[c].method.does # "delete"
    BY <1>1, <1>28
  <2>2. Held(calls[c].method, r, Head(calls[c].parts))[f]
          = IF Says(Entry(c, on), f) THEN Wanted(Entry(c, on), f) ELSE r[f]
    BY <1>5, <1>28, <2>1, HeldIs
  <2> QED
    BY <1>1, <1>2, <1>4, <2>2
<1>29. Asked'
  <2> SUFFICES ASSUME NEW i \in 1..Len(records'), NEW f \in Seen(kind), records'[i] # Gone
               PROVE  Held1(i, f)'
    BY <1>5 DEF Asked, Seen
  <2>1. CASE i # on
    <3>1. i \in 1..Len(records)
      BY <1>3, <1>7, <1>16, <2>1
    <3>2. records'[i] = records[i] /\ Held1(i, f)
      BY <1>16, <2>1, <3>1 DEF RecordsInv, Asked
    <3> QED
      BY <1>26, <2>1, <3>2
  <2>2. CASE i = on /\ m.does = "create"
    <3>1. Says(e, f)
      BY <1>1, <1>10, <2>2 DEF Says
    <3>2. records'[on][f] = Wanted(e, f)
      <4>1. f \in DOMAIN [g \in Seen(kind) |-> Default]
        OBVIOUS
      <4> QED
        BY <1>16, <1>28, <2>2, <3>1, <4>1
    <3> QED
      BY <1>27, <2>2, <3>1, <3>2
  <2>3. CASE i = on /\ m.does \notin {"create", "delete"}
    <3>1. on \in 1..Len(records) /\ records[on] # Gone
      BY <1>5, <1>7, <1>9, <2>3
    <3>2. f \in DOMAIN records[on] /\ records'[on] = Held(m, records[on], p)
      BY <1>16, <2>3
    <3>3. records'[on][f] = IF Says(e, f) THEN Wanted(e, f) ELSE records[on][f]
      BY <1>28, <2>3, <3>2
    <3>4. Held1(on, f)
      BY <3>1 DEF RecordsInv, Asked
    <3> QED
      BY <1>26, <1>27, <2>3, <3>3, <3>4
  <2> QED
    BY <1>16, <2>1, <2>2, <2>3
<1>30. WholeOrCredentials'
  <2> SUFFICES ASSUME NEW d \in Callers
               PROVE  /\ calls'[d].stage = "returned" =>
                           DOMAIN calls'[d].wish \subseteq Done(d)' \/ calls'[d].method.does = "delete"
                      /\ (calls'[d].stage = "raised" /\ ~ calls'[d].lost) =>
                           Done(d)' \subseteq {"credentials"}
                      /\ (calls'[d].method = UpdateBlob /\ "credentials" \in DOMAIN calls'[d].wish) =>
                           Done(d)' = {} \/ "credentials" \in Done(d)'
    BY DEF WholeOrCredentials
  <2>1. CASE d # c
    BY <1>18, <2>1 DEF RecordsInv, WholeOrCredentials
  <2>2. CASE d = c
    <3>1. Done(c)' = Done(c) \cup e.about
      BY <1>12
    <3>2. calls'[c].stage = "returned" => DOMAIN calls[c].wish \subseteq Done(c)'
      <4>1. m # UpdateBlob => DOMAIN calls[c].wish \subseteq Done(c)'
        BY <1>8, <1>10, <3>1, WishType
      <4>2. (m = UpdateBlob /\ Len(calls[c].parts) = 1) => DOMAIN BodyOf(c) \subseteq Done(c)'
        BY <1>10, <1>19, <3>1
      <4> QED
        BY <1>13, <1>20, <4>1, <4>2
    <3>3. (m = UpdateBlob /\ "credentials" \in DOMAIN calls[c].wish) => "credentials" \in Done(c)'
      BY <1>10, <1>19, <1>20, <3>1
    <3> QED
      BY <1>1, <1>13, <2>2, <3>2, <3>3
  <2> QED
    BY <2>1, <2>2
<1> QED
  BY <1>17, <1>21, <1>29, <1>30 DEF RecordsInv

-----------------------------------------------------------------------------
(* The program                                                             *)

LEMMA RecordsAlways ==
  ClientSpec => []RecordsInv
<1>1. ClientInit => RecordsInv
  BY RecordsStart DEF ClientInit
<1>2. RecordsInv /\ [ClientNext]_clientVars => RecordsInv'
  <2> SUFFICES ASSUME RecordsInv, [ClientNext]_clientVars PROVE RecordsInv'
    OBVIOUS
  <2>1. CASE RecordsNext
    <3>1. PICK c \in Callers : Call(c) \/ Serve(c) \/ Refuse(c)
      BY <2>1 DEF RecordsNext
    <3> QED
      BY <3>1, CallStep, ServeStep, RefuseStep
  <2>2. CASE UNCHANGED recordVars
    <3>1. UNCHANGED <<kind, records, calls, log>>
      BY <2>2 DEF recordVars
    <3>2. RecordsTyped'
      BY <3>1 DEF RecordsInv, RecordsTyped, Seen
    <3>3. Progress' /\ WholeOrCredentials'
      BY <3>1 DEF RecordsInv, Progress, Begun, Half, BodyOf, Done, WholeOrCredentials
    <3>4. Asked'
      BY <3>1 DEF RecordsInv, Asked, Held1, About, Says, Wanted, Seen
    <3> QED
      BY <3>2, <3>3, <3>4 DEF RecordsInv
  <2> QED
    BY <2>1, <2>2 DEF ClientNext, clientVars
<1> QED
  BY <1>1, <1>2, PTL DEF ClientSpec

\* Every field of every record holds what the last call that spoke of it wanted, whatever
\* the callers, their methods and fields, and the order in which requests are served.
THEOREM RecordsHoldWhatWasAsked ==
  ClientSpec => []AskedIsHeld
<1>1. RecordsInv => AskedIsHeld
  <2> SUFFICES ASSUME RecordsInv, NEW i \in DOMAIN records, records[i] # Gone,
                      NEW f \in DOMAIN records[i]
               PROVE  LET ks == {k \in DOMAIN log : log[k].on = i /\ Says(log[k], f)}
                      IN  records[i][f] = IF ks = {} THEN Old
                            ELSE Wanted(log[CHOOSE k \in ks : \A j \in ks : j <= k], f)
    BY DEF AskedIsHeld
  <2> DEFINE ks == {k \in DOMAIN log : log[k].on = i /\ Says(log[k], f)}
             last == CHOOSE k \in ks : \A j \in ks : j <= k
  <2>1. i \in 1..Len(records) /\ f \in Seen(kind)
    BY LenProperties DEF RecordsInv, RecordsTyped
  <2>2. Held1(i, f)
    BY <2>1 DEF RecordsInv, Asked
  <2>3. \A k : k \in ks <=> k \in DOMAIN log /\ About(k, i, f)
    BY DEF About
  <2>4. CASE records[i][f] = Old /\ \A k \in DOMAIN log : ~ About(k, i, f)
    BY <2>3, <2>4
  <2>5. CASE \E k \in DOMAIN log : /\ About(k, i, f) /\ records[i][f] = Wanted(log[k], f)
                                   /\ \A j \in DOMAIN log : About(j, i, f) => j <= k
    <3>1. PICK k \in DOMAIN log : /\ About(k, i, f) /\ records[i][f] = Wanted(log[k], f)
                                  /\ \A j \in DOMAIN log : About(j, i, f) => j <= k
      BY <2>5
    <3>2. k \in ks /\ \A j \in ks : j <= k
      BY <2>3, <3>1
    <3>3. last \in ks /\ \A j \in ks : j <= last
      BY <3>2
    <3>4. ks \subseteq Nat
      BY LogIs DEF RecordsInv
    <3> HIDE DEF ks, last
    <3>5. last = k
      BY <3>2, <3>3, <3>4
    <3>6. ks # {} /\ records[i][f] = Wanted(log[last], f)
      BY <3>1, <3>2, <3>5
    <3> QED
      BY <3>6 DEF last, ks
  <2> QED
    BY <2>2, <2>4, <2>5 DEF Held1
<1> QED
  BY <1>1, RecordsAlways, PTL

\* A call that returned has done all it was asked, one that was refused nothing, or the
\* credentials of a blob config alone: for any callers and fields.
THEOREM CallsAreWholeOrCredentials ==
  ClientSpec => []WholeOrCredentials
<1>1. RecordsInv => WholeOrCredentials
  BY DEF RecordsInv
<1> QED
  BY <1>1, RecordsAlways, PTL

-----------------------------------------------------------------------------
(* Manifests: the list of documents, the index of their names, and the runs *)

Names == UNION {{l[i].name : i \in DOMAIN l} : l \in Lists}
Docs  == [id : DocumentIds, name : Names]
Runs  == [row : Nat, doc : Nat]

ManifestTyped ==
  /\ rows \in ManifestRows /\ chunk \in ChunkSizes /\ docs \in Seq(Docs)
  /\ group \in 1..MaxCalls /\ moves \in 0..MaxMoves /\ skipped \in Nat /\ at \in Nat \ {0}
  /\ nameToId \subseteq borne /\ borne \subseteq Docs
  /\ runs \in [1..MaxCalls -> Seq(Runs)]

\* Ids are given once.
IdGiven(i, n) == i \in 1..(FirstIds + n)
ListInv ==
  /\ \A i, j \in DOMAIN docs : docs[i].id = docs[j].id => i = j
  /\ \A d \in borne : IdGiven(d.id, moves)
  /\ ToSet(docs) \subseteq borne /\ lasting \subseteq ToSet(docs)

\* What the index has of the list: two documents of a name make it ambiguous, one that lasted
\* is missed only after a deletion, and nothing is read twice unless the list moved.
IndexInv ==
  /\ \A d, e \in nameToId : d.name = e.name /\ d # e => d.name \in ambiguous
  /\ "back" \notin moved =>
       \A i \in DOMAIN docs : docs[i] \in lasting => docs[i] \in nameToId \/ i > skipped
  /\ moved = {} =>
       /\ \A n \in ambiguous : \E d, e \in borne : d # e /\ d.name = n /\ e.name = n
       /\ \A d \in nameToId : \E i \in DOMAIN docs : i <= skipped /\ docs[i].id = d.id
  /\ stage = "call" => nameToId = {} /\ ambiguous = {} /\ skipped = 0 /\ moved = {}
  /\ stage \in {"resolve", "submit"} /\ Needed # {} => skipped >= Len(docs)

RunsInv ==
  /\ \A g \in 1..MaxCalls : g > group => runs[g] = <<>>
  /\ verdict # "none" => stage = "done"
  /\ stage \in {"call", "index", "resolve"} => runs[group] = <<>> /\ told = <<>> /\ at = 1
  /\ stage \in {"index", "resolve", "submit"} => chunk > 0
  /\ stage = "submit" =>
       /\ (at - 1) % chunk = 0
       /\ Len(runs[group]) = IF at - 1 <= Len(rows) THEN at - 1 ELSE Len(rows)
       /\ told = [i \in 1..Len(runs[group]) |-> i]
       /\ \A n \in Needed : Lookup(n) # Unknown

ManifestInv ==
  ManifestTyped /\ ListInv /\ IndexInv /\ RunsInv /\ RunsArePrefix /\ RightDocument

\* Whole chunks, and one more.
LEMMA WholeChunks ==
  ASSUME NEW n \in Nat, NEW c \in Nat \ {0}
  PROVE  /\ (n * c) % c = 0
         /\ 0 % c = 0
         /\ n % c = 0 => (n + c) % c = 0
<1>1. \A k \in Nat : (k * c) % c = 0
  BY SMT
<1>2. ASSUME n % c = 0 PROVE (n + c) % c = 0
  <2>1. PICK q \in Nat : n = q * c
    <3>1. n \div c \in Nat
      OBVIOUS
    <3>2. n = (n \div c) * c
      BY <1>2
    <3> QED
      BY <3>1, <3>2
  <2>2. PICK r \in Nat : r = q + 1
    OBVIOUS
  <2>3. n + c = r * c
    BY <2>1, <2>2
  <2>4. (r * c) % c = 0
    BY <1>1
  <2> QED
    BY <2>3, <2>4, Zenon
<1> QED
  BY <1>1, <1>2

LEMMA RowsAre ==
  ASSUME ManifestTyped
  PROVE  /\ Len(rows) \in Nat /\ DOMAIN rows = 1..Len(rows)
         /\ \A i \in DOMAIN rows : rows[i] \in Needed \/ IsId(rows[i]) \/ rows[i] = NoDocument
         /\ chunk \in Int /\ Len(docs) \in Nat /\ DOMAIN docs = 1..Len(docs)
         /\ ToSet(docs) \subseteq Docs
         /\ MaxMoves \in Nat /\ FirstIds \in Nat /\ MaxCalls \in Nat \ {0} /\ DocumentPage \in Nat \ {0}
<1>1. /\ rows \in Seq({rows[i] : i \in DOMAIN rows}) /\ chunk \in Int
      /\ MaxMoves \in Nat /\ FirstIds \in Nat /\ MaxCalls \in Nat \ {0} /\ DocumentPage \in Nat \ {0}
  BY ManifestAssumption DEF ManifestTyped
<1>2. Len(rows) \in Nat /\ DOMAIN rows = 1..Len(rows)
  BY <1>1, LenProperties
<1>3. \A i \in DOMAIN rows : rows[i] \in Needed \/ IsId(rows[i]) \/ rows[i] = NoDocument
  BY DEF Needed, IsId
<1>4. /\ Len(docs) \in Nat /\ DOMAIN docs = 1..Len(docs)
      /\ \A i \in DOMAIN docs : docs[i] \in Docs
  BY LenProperties, ElementOfSeq DEF ManifestTyped
<1> QED
  BY <1>1, <1>2, <1>3, <1>4 DEF ToSet

\* What a row is resolved to: a document of the index that bears its name, not an ambiguous one.
LEMMA LookupIs ==
  ASSUME ManifestTyped, NEW x
  PROVE  /\ Lookup(x) \in Nat
         /\ x = NoDocument \/ IsId(x) => Lookup(x) = x
         /\ ~ (x = NoDocument \/ IsId(x)) /\ Lookup(x) # Unknown =>
              /\ x \notin ambiguous
              /\ \E d \in nameToId : d.name = x /\ d.id = Lookup(x)
         /\ Lookup(x) = Unknown =>
              x = NoDocument \/ x \in ambiguous \/ \A d \in nameToId : d.name # x
<1>1. CASE x = NoDocument \/ IsId(x)
  BY <1>1 DEF Lookup, NoDocument, IsId, Unknown, DocumentIds
<1>2. CASE /\ ~ (x = NoDocument \/ IsId(x))
           /\ x \in ambiguous \/ ~ \E d \in nameToId : d.name = x
  BY <1>2 DEF Lookup, Unknown
<1>3. CASE /\ ~ (x = NoDocument \/ IsId(x))
           /\ ~ (x \in ambiguous \/ ~ \E d \in nameToId : d.name = x)
  <2>1. PICK d : d = CHOOSE e \in nameToId : e.name = x
    OBVIOUS
  <2>2. d \in nameToId /\ d.name = x
    BY <1>3, <2>1
  <2>3. Lookup(x) = d.id
    BY <1>3, <2>1 DEF Lookup
  <2>4. d.id \in DocumentIds
    BY <2>2 DEF ManifestTyped, Docs
  <2> QED
    BY <1>3, <2>2, <2>3, <2>4 DEF Unknown, DocumentIds
<1> QED
  BY <1>1, <1>2, <1>3

\* A page is what the list has next; the final one reaches the end of the list.
LEMMA PageIs ==
  ASSUME ManifestTyped
  PROVE  /\ Len(Page) \in Nat /\ DOMAIN Page = 1..Len(Page)
         /\ \A i \in DOMAIN Page : skipped + i \in DOMAIN docs /\ Page[i] = docs[skipped + i]
         /\ \A i \in DOMAIN docs :
              i > skipped /\ i <= skipped + Len(Page) => docs[i] \in ToSet(Page)
         /\ Final => skipped + Len(Page) >= Len(docs)
<1>1. PICK hi : hi = IF Len(docs) < skipped + DocumentPage THEN Len(docs) ELSE skipped + DocumentPage
  OBVIOUS
<1>2. /\ Len(docs) \in Nat /\ DOMAIN docs = 1..Len(docs) /\ skipped \in Nat
      /\ DocumentPage \in Nat \ {0} /\ docs \in Seq(Docs)
  BY RowsAre DEF ManifestTyped
<1>3. hi \in Nat /\ hi <= Len(docs)
  BY <1>1, <1>2
<1>4. Page = SubSeq(docs, skipped + 1, hi)
  BY <1>1 DEF Page
<1>5. \A i \in (skipped + 1)..hi : docs[i] \in Docs
  BY <1>2, <1>3, ElementOfSeq
<1>6. /\ Page \in Seq(Docs)
      /\ Len(Page) = IF skipped + 1 <= hi THEN hi - (skipped + 1) + 1 ELSE 0
      /\ \A i \in 1..(hi - (skipped + 1) + 1) : Page[i] = docs[(skipped + 1) + i - 1]
  BY <1>2, <1>3, <1>4, <1>5, SubSeqProperties
<1>7. Len(Page) = IF skipped < hi THEN hi - skipped ELSE 0
  BY <1>2, <1>3, <1>6
<1>8. Len(Page) \in Nat /\ DOMAIN Page = 1..Len(Page)
  BY <1>6, LenProperties
<1>9. ASSUME NEW i \in DOMAIN Page
      PROVE  skipped + i \in DOMAIN docs /\ Page[i] = docs[skipped + i]
  <2>1. skipped < hi /\ i \in 1..(hi - skipped)
    BY <1>2, <1>3, <1>7, <1>8
  <2>2. i \in 1..(hi - (skipped + 1) + 1) /\ (skipped + 1) + i - 1 = skipped + i
    BY <1>2, <1>3, <2>1
  <2>3. Page[i] = docs[skipped + i]
    BY <1>6, <2>2
  <2> QED
    BY <1>2, <1>3, <2>1, <2>3
<1>10. ASSUME NEW i \in DOMAIN docs, i > skipped, i <= skipped + Len(Page)
       PROVE  docs[i] \in ToSet(Page)
  <2>1. i - skipped \in DOMAIN Page /\ skipped + (i - skipped) = i
    BY <1>2, <1>8, <1>10
  <2> QED
    BY <1>9, <2>1 DEF ToSet
<1>11. ASSUME Final PROVE skipped + Len(Page) >= Len(docs)
  <2>1. CASE Page = <<>>
    <3>1. Len(Page) = 0
      BY <2>1
    <3>2. hi <= skipped
      BY <1>2, <1>3, <1>7, <3>1
    <3>a. hi = Len(docs) \/ hi = skipped + DocumentPage
      BY <1>1
    <3>b. PICK end : end = skipped + DocumentPage
      OBVIOUS
    <3>c. ~ (end <= skipped)
      BY <1>2, <3>b
    <3>3. hi = Len(docs)
      BY <3>2, <3>a, <3>b, <3>c
    <3> QED
      BY <1>2, <3>1, <3>2, <3>3
  <2> QED
    BY <1>11, <2>1 DEF Final
<1> QED
  BY <1>8, <1>9, <1>10, <1>11

LEMMA ManifestStart ==
  ManifestInit => ManifestInv
<1> SUFFICES ASSUME ManifestInit PROVE ManifestInv
  OBVIOUS
<1>1. MaxMoves \in Nat /\ FirstIds \in Nat /\ MaxCalls \in Nat \ {0}
  BY ManifestAssumption
<1>2. /\ docs \in Seq([id : 1..FirstIds, name : {docs[i].name : i \in DOMAIN docs}])
      /\ \A i, j \in DOMAIN docs : docs[i].id = docs[j].id => i = j
  BY ManifestAssumption DEF ManifestInit
<1>3. {docs[i].name : i \in DOMAIN docs} \subseteq Names
  BY DEF Names, ManifestInit
<1>4. 1..FirstIds \subseteq DocumentIds
  BY <1>1 DEF DocumentIds
<1>5. [id : 1..FirstIds, name : {docs[i].name : i \in DOMAIN docs}] \subseteq Docs
  BY <1>3, <1>4 DEF Docs
<1>a. PICK first : first = [id : 1..FirstIds, name : {docs[i].name : i \in DOMAIN docs}]
  OBVIOUS
<1>b. docs \in Seq(first) /\ first \subseteq Docs
  BY <1>2, <1>5, <1>a
<1>6. docs \in Seq(Docs)
  BY <1>b
<1>c. \A i \in DOMAIN docs : docs[i] \in first
  BY <1>b, ElementOfSeq, LenProperties
<1>7. \A i \in DOMAIN docs : docs[i] \in Docs /\ docs[i].id \in 1..FirstIds
  BY <1>a, <1>b, <1>c
<1>8. /\ rows \in ManifestRows /\ chunk \in ChunkSizes
      /\ at = 1 /\ nameToId = {} /\ ambiguous = {} /\ skipped = 0
      /\ stage = "call" /\ group = 1 /\ runs = [g \in 1..MaxCalls |-> <<>>] /\ told = <<>>
      /\ verdict = "none"
      /\ borne = ToSet(docs) /\ lasting = ToSet(docs) /\ moved = {} /\ moves = 0
  BY DEF ManifestInit
<1>9. borne \subseteq Docs /\ \A d \in borne : d.id \in 1..FirstIds
  BY <1>7, <1>8 DEF ToSet
<1>10. ManifestTyped
  BY <1>1, <1>6, <1>8, <1>9 DEF ManifestTyped
<1>11. ListInv
  BY <1>1, <1>2, <1>8, <1>9 DEF ListInv, IdGiven
<1>12. IndexInv
  <2>1. \A i \in DOMAIN docs : i > skipped
    BY <1>8, <1>10, RowsAre
  <2> QED
    BY <1>8, <2>1 DEF IndexInv
<1>13. RunsInv
  BY <1>1, <1>8 DEF RunsInv
<1>14. RunsArePrefix
  <2>1. chunk > 0 => 0 % chunk = 0
    BY <1>10, RowsAre, WholeChunks
  <2>2. \A g \in 1..MaxCalls : runs[g] = <<>> /\ Len(runs[g]) = 0 /\ DOMAIN runs[g] = {}
    BY <1>8
  <2> QED
    BY <1>8, <2>1, <2>2 DEF RunsArePrefix, Of
<1>15. RightDocument
  BY <1>1, <1>8 DEF RightDocument, Of
<1> QED
  BY <1>10, <1>11, <1>12, <1>13, <1>14, <1>15 DEF ManifestInv

\* The call goes on or ends without touching anything else.
Quiet == UNCHANGED <<docs, rows, chunk, at, index, group, runs, told, history>>

LEMMA QuietStep ==
  ASSUME ManifestInv, Quiet
  PROVE  /\ ManifestTyped' /\ ListInv'
         /\ Needed' = Needed /\ \A x : Lookup(x)' = Lookup(x)
         /\ \A g : Of(g)' = Of(g)
<1>1. UNCHANGED <<docs, rows, chunk, at, nameToId, ambiguous, skipped, group, runs, told,
                  borne, lasting, moved, moves>>
  BY DEF Quiet, index, history
<1>2. ManifestTyped'
  BY <1>1 DEF ManifestInv, ManifestTyped
<1>3. ListInv'
  BY <1>1 DEF ManifestInv, ListInv, IdGiven
<1>4. Needed' = Needed /\ \A x : Lookup(x)' = Lookup(x)
  BY <1>1 DEF Needed, Lookup
<1> QED
  BY <1>1, <1>2, <1>3, <1>4 DEF Of

LEMMA BeginStep ==
  ASSUME ManifestInv, Begin
  PROVE  ManifestInv'
<1>1. Quiet /\ stage = "call"
  BY DEF Begin, Quiet
<1>2. \/ chunk < 1 /\ stage' = "done" /\ verdict' = "value error"
      \/ stage' = "done" /\ verdict' = "raised"
      \/ /\ ~ (chunk < 1) /\ verdict' = verdict
         /\ stage' = IF Needed = {} THEN "submit" ELSE "index"
  BY DEF Begin, Raise, Proceed
<1>3. UNCHANGED <<docs, rows, chunk, at, nameToId, ambiguous, skipped, group, runs, told,
                  borne, lasting, moved, moves>>
  BY <1>1 DEF Quiet, index, history
<1>4. /\ verdict = "none" /\ nameToId = {} /\ ambiguous = {} /\ skipped = 0 /\ moved = {}
      /\ runs[group] = <<>> /\ told = <<>> /\ at = 1
  BY <1>1 DEF ManifestInv, IndexInv, RunsInv, RunsArePrefix
<1>5. ManifestTyped' /\ ListInv' /\ Needed' = Needed /\ \A x : Lookup(x)' = Lookup(x)
  BY <1>1, QuietStep
<1>6. /\ Len(rows) \in Nat /\ chunk \in Int
      /\ ~ (chunk < 1) => chunk > 0
      /\ chunk < 1 => ~ (chunk > 0)
  <2>1. Len(rows) \in Nat /\ chunk \in Int
    BY RowsAre DEF ManifestInv
  <2> QED
    BY <2>1
<1>7. IndexInv'
  BY <1>2, <1>3, <1>4, <1>5 DEF ManifestInv, IndexInv
<1>8. RunsInv'
  <2>1. \A g \in 1..MaxCalls : g > group' => runs'[g] = <<>>
    BY <1>3 DEF ManifestInv, RunsInv
  <2>2. verdict' # "none" => stage' = "done"
    BY <1>2, <1>4
  <2>3. stage' \in {"index", "resolve", "submit"} => chunk' > 0
    BY <1>2, <1>3, <1>6
  <2>4. runs'[group'] = <<>> /\ told' = <<>> /\ at' = 1
    BY <1>3, <1>4
  <2>5. stage' = "submit" => Needed' = {}
    BY <1>2, <1>5
  <2>6. stage' = "submit" =>
          /\ (at' - 1) % chunk' = 0
          /\ Len(runs'[group']) = IF at' - 1 <= Len(rows') THEN at' - 1 ELSE Len(rows')
          /\ told' = [i \in 1..Len(runs'[group']) |-> i]
    <3>1. chunk > 0 => 0 % chunk = 0
      BY <1>6, WholeChunks
    <3>2. at - 1 = 0 /\ Len(runs[group]) = 0 /\ told = [i \in 1..0 |-> i]
      BY <1>4
    <3> QED
      BY <1>3, <1>6, <2>3, <3>1, <3>2
  <2> QED
    BY <2>1, <2>2, <2>3, <2>4, <2>5, <2>6 DEF RunsInv
<1>9. RunsArePrefix'
  <2>1. verdict' # "returned" /\ runs'[group'] = <<>>
    BY <1>2, <1>3, <1>4
  <2> QED
    BY <1>3, <2>1 DEF ManifestInv, RunsArePrefix, Of
<1>10. RightDocument'
  <2>1. DOMAIN Of(group)' = {}
    BY <1>3, <1>4 DEF Of
  <2>2. ~ (verdict' = "value error" /\ chunk' > 0)
    BY <1>2, <1>3, <1>4, <1>6
  <2> QED
    BY <2>1, <2>2 DEF RightDocument
<1> QED
  BY <1>5, <1>7, <1>8, <1>9, <1>10 DEF ManifestInv

LEMMA ReadingFailsStep ==
  ASSUME ManifestInv, ReadingFails
  PROVE  ManifestInv'
<1>1. Quiet /\ stage = "index" /\ stage' = "done" /\ verdict' = "raised"
  BY DEF ReadingFails, Quiet, Raise
<1>3. UNCHANGED <<docs, rows, chunk, at, nameToId, ambiguous, skipped, group, runs, told,
                  borne, lasting, moved, moves>>
  BY <1>1 DEF Quiet, index, history
<1>5. ManifestTyped' /\ ListInv'
  BY <1>1, QuietStep
<1>6. IndexInv'
  BY <1>1, <1>3 DEF ManifestInv, IndexInv
<1>7. RunsInv'
  BY <1>1, <1>3 DEF ManifestInv, RunsInv
<1>8. RunsArePrefix'
  BY <1>1, <1>3 DEF ManifestInv, RunsArePrefix, Of
<1>9. RightDocument'
  <2>1. DOMAIN Of(group)' = {}
    BY <1>1, <1>3 DEF Of, ManifestInv, RunsInv
  <2> QED
    BY <1>1, <2>1 DEF RightDocument
<1> QED
  BY <1>5, <1>6, <1>7, <1>8, <1>9 DEF ManifestInv

\* A row is refused when its name is ambiguous, or no document of the index bears it; and
\* unless the list moved no document alone bore that name throughout.
LEMMA ResolveRowsStep ==
  ASSUME ManifestInv, ResolveRows
  PROVE  ManifestInv'
<1>1. /\ Quiet /\ stage = "resolve"
      /\ \/ stage' = "submit" /\ verdict' = verdict /\ \A i \in DOMAIN rows : Resolves(rows[i])
         \/ /\ stage' = "done" /\ verdict' = "value error"
            /\ \E i \in DOMAIN rows : ~ Resolves(rows[i])
  BY DEF ResolveRows, Quiet, Raise, Proceed
<1>2. UNCHANGED <<docs, rows, chunk, at, nameToId, ambiguous, skipped, group, runs, told,
                  borne, lasting, moved, moves>>
  BY <1>1 DEF Quiet, index, history
<1>3. /\ runs[group] = <<>> /\ told = <<>> /\ at = 1 /\ chunk > 0 /\ verdict = "none"
      /\ \A g \in 1..MaxCalls : g > group => runs[g] = <<>>
  BY <1>1 DEF ManifestInv, RunsInv
<1>4. ManifestTyped' /\ ListInv' /\ Needed' = Needed /\ \A x : Lookup(x)' = Lookup(x)
  BY <1>1, QuietStep
<1>5. /\ Len(rows) \in Nat /\ chunk \in Int /\ DOMAIN docs = 1..Len(docs) /\ Len(docs) \in Nat
      /\ \A i \in DOMAIN rows : rows[i] \in Needed \/ IsId(rows[i]) \/ rows[i] = NoDocument
      /\ skipped \in Nat
  BY RowsAre DEF ManifestInv, ManifestTyped
<1>6. \A n \in Needed : n # NoDocument /\ ~ IsId(n) /\ \E i \in DOMAIN rows : n = rows[i]
  BY DEF Needed, IsId
<1>7. IndexInv'
  BY <1>1, <1>2, <1>4 DEF ManifestInv, IndexInv
<1>8. RunsInv'
  <2>1. 0 % chunk = 0
    BY <1>3, <1>5, WholeChunks
  <2>2. at - 1 = 0 /\ Len(runs[group]) = 0 /\ told = [i \in 1..0 |-> i]
    BY <1>3
  <2>3. stage' = "submit" => \A n \in Needed : Lookup(n)' # Unknown
    <3>1. \A i \in DOMAIN rows : Resolves(rows[i]) /\ rows[i] # NoDocument => Lookup(rows[i]) # Unknown
      BY DEF Resolves
    <3> QED
      BY <1>1, <1>4, <1>6, <3>1
  <2>4. /\ (at' - 1) % chunk' = 0
        /\ Len(runs'[group']) = IF at' - 1 <= Len(rows') THEN at' - 1 ELSE Len(rows')
        /\ told' = [i \in 1..Len(runs'[group']) |-> i]
    BY <1>2, <1>5, <2>1, <2>2
  <2> QED
    BY <1>1, <1>2, <1>3, <1>4, <2>3, <2>4 DEF RunsInv
<1>9. RunsArePrefix'
  <2>1. verdict' # "returned" /\ runs'[group'] = <<>>
    BY <1>1, <1>2, <1>3
  <2> QED
    BY <1>2, <2>1 DEF ManifestInv, RunsArePrefix, Of
<1>10. RightDocument'
  <2>1. DOMAIN Of(group)' = {}
    BY <1>2, <1>3 DEF Of
  <2>2. ASSUME verdict' = "value error", moved = {}
        PROVE  \E n \in Needed : \A d \in lasting : Bearers(n, borne) # {d}
    <3>1. PICK i \in DOMAIN rows : ~ Resolves(rows[i])
      BY <1>1, <1>3, <2>2
    <3>2. rows[i] # NoDocument /\ Lookup(rows[i]) = Unknown
      BY <3>1 DEF Resolves
    <3>3. PICK n : n = rows[i]
      OBVIOUS
    <3>4. n \in Needed
      <4>1. IsId(n) => Lookup(n) = n
        BY LookupIs DEF ManifestInv
      <4> QED
        BY <1>5, <3>2, <3>3, <4>1 DEF IsId, Unknown, DocumentIds
    <3>5. n \in ambiguous \/ \A d \in nameToId : d.name # n
      BY <3>2, <3>3, LookupIs DEF ManifestInv
    <3>6. ASSUME NEW d \in lasting, Bearers(n, borne) = {d} PROVE FALSE
      <4>1. d.name = n
        BY <3>6 DEF Bearers
      <4>2. PICK j \in DOMAIN docs : docs[j] = d
        BY <3>6 DEF ManifestInv, ListInv, ToSet
      <4>3. skipped >= Len(docs)
        BY <1>1, <3>4 DEF ManifestInv, IndexInv
      <4>4. d \in nameToId
        <5>1. ~ (j > skipped)
          BY <1>5, <4>2, <4>3
        <5> QED
          BY <2>2, <3>6, <4>2, <5>1 DEF ManifestInv, IndexInv
      <4>5. PICK e1, e2 \in borne : e1 # e2 /\ e1.name = n /\ e2.name = n
        BY <2>2, <3>5, <4>1, <4>4 DEF ManifestInv, IndexInv
      <4> QED
        BY <3>6, <4>5 DEF Bearers
    <3> QED
      BY <3>4, <3>6
  <2> QED
    BY <1>2, <1>4, <2>1, <2>2 DEF RightDocument, Bearers
<1> QED
  BY <1>4, <1>7, <1>8, <1>9, <1>10 DEF ManifestInv

LEMMA ReturnStep ==
  ASSUME ManifestInv, Return
  PROVE  ManifestInv'
<1>1. Quiet /\ stage = "submit" /\ stage' = "done" /\ verdict' = "returned" /\ at > Len(rows)
  BY DEF Return, Quiet, Raise
<1>2. UNCHANGED <<docs, rows, chunk, at, nameToId, ambiguous, skipped, group, runs, told,
                  borne, lasting, moved, moves>>
  BY <1>1 DEF Quiet, index, history
<1>3. ManifestTyped' /\ ListInv'
  BY <1>1, QuietStep
<1>4. Len(rows) \in Nat /\ at \in Nat \ {0} /\ DOMAIN rows = 1..Len(rows)
  BY RowsAre DEF ManifestInv, ManifestTyped
<1>5. Len(runs[group]) = Len(rows) /\ told = [i \in DOMAIN rows |-> i]
  <2>1. /\ Len(runs[group]) = IF at - 1 <= Len(rows) THEN at - 1 ELSE Len(rows)
        /\ told = [i \in 1..Len(runs[group]) |-> i]
    BY <1>1 DEF ManifestInv, RunsInv
  <2>2. Len(runs[group]) = Len(rows)
    BY <1>1, <1>4, <2>1
  <2> QED
    BY <1>4, <2>1, <2>2
<1>6. IndexInv'
  BY <1>1, <1>2 DEF ManifestInv, IndexInv
<1>7. RunsInv'
  BY <1>1, <1>2 DEF ManifestInv, RunsInv
<1>8. RunsArePrefix'
  BY <1>1, <1>2, <1>5 DEF ManifestInv, RunsArePrefix, Of
<1>9. RightDocument'
  BY <1>1, <1>2 DEF ManifestInv, RightDocument, Of, Bearers, IsId
<1> QED
  BY <1>3, <1>6, <1>7, <1>8, <1>9 DEF ManifestInv

LEMMA CallAgainStep ==
  ASSUME ManifestInv, CallAgain
  PROVE  ManifestInv'
<1>1. /\ group < MaxCalls /\ group' = group + 1 /\ at' = 1 /\ told' = <<>>
      /\ nameToId' = {} /\ ambiguous' = {} /\ skipped' = 0
      /\ stage' = "call" /\ verdict' = "none" /\ borne' = ToSet(docs) /\ lasting' = ToSet(docs)
      /\ moved' = {}
      /\ UNCHANGED <<docs, rows, chunk, runs, moves>>
  BY DEF CallAgain, NoIndex
<1>2. /\ DOMAIN docs = 1..Len(docs) /\ Len(docs) \in Nat /\ ToSet(docs) \subseteq Docs
      /\ MaxCalls \in Nat /\ group \in 1..MaxCalls
  BY RowsAre DEF ManifestInv, ManifestTyped
<1>3. ManifestTyped'
  BY <1>1, <1>2 DEF ManifestInv, ManifestTyped
<1>4. ListInv'
  BY <1>1 DEF ManifestInv, ListInv, IdGiven
<1>5. IndexInv'
  <2>1. \A i \in DOMAIN docs : i > 0
    BY <1>2
  <2> QED
    BY <1>1, <2>1 DEF IndexInv
<1>6. runs[group'] = <<>>
  BY <1>1, <1>2 DEF ManifestInv, RunsInv
<1>7. RunsInv'
  <2>1. \A g \in 1..MaxCalls : g > group' => g > group
    BY <1>1, <1>2
  <2> QED
    BY <1>1, <1>6, <2>1 DEF ManifestInv, RunsInv
<1>8. RunsArePrefix'
  BY <1>1 DEF ManifestInv, RunsArePrefix, Of
<1>9. RightDocument'
  <2>1. DOMAIN Of(group)' = {}
    BY <1>1, <1>6 DEF Of
  <2> QED
    BY <1>1, <2>1 DEF RightDocument
<1> QED
  BY <1>3, <1>4, <1>5, <1>7, <1>8, <1>9 DEF ManifestInv

LEMMA IndexPageStep ==
  ASSUME ManifestInv, IndexPage
  PROVE  ManifestInv'
<1>1. /\ stage = "index" /\ nameToId' = nameToId \cup ToSet(Page)
      /\ ambiguous' = ambiguous \cup {d.name : d \in {p \in ToSet(Page) : SeenBefore(p.name, Page)}}
      /\ skipped' = skipped + Len(Page)
      /\ stage' = (IF Final THEN "resolve" ELSE "index") /\ verdict' = verdict
      /\ UNCHANGED <<docs, rows, chunk, at, group, runs, told, borne, lasting, moved, moves>>
  BY DEF IndexPage, Proceed, history
<1>2. PICK page : page = Page
  OBVIOUS
<1>3. /\ Len(page) \in Nat /\ DOMAIN page = 1..Len(page)
      /\ \A i \in DOMAIN page : skipped + i \in DOMAIN docs /\ page[i] = docs[skipped + i]
      /\ \A i \in DOMAIN docs :
           i > skipped /\ i <= skipped + Len(page) => docs[i] \in ToSet(page)
      /\ Final => skipped + Len(page) >= Len(docs)
  BY <1>2, PageIs DEF ManifestInv
<1>4. /\ DOMAIN docs = 1..Len(docs) /\ Len(docs) \in Nat /\ skipped \in Nat
      /\ ToSet(docs) \subseteq borne /\ nameToId \subseteq borne
  BY RowsAre DEF ManifestInv, ManifestTyped, ListInv
<1>5. ToSet(page) \subseteq ToSet(docs)
  BY <1>3 DEF ToSet
<1>6. ManifestTyped'
  <2>1. skipped' \in Nat /\ nameToId' \subseteq borne
    BY <1>1, <1>2, <1>3, <1>4, <1>5
  <2> QED
    BY <1>1, <2>1 DEF ManifestInv, ManifestTyped
<1>7. ListInv'
  BY <1>1 DEF ManifestInv, ListInv, IdGiven
<1>8. ASSUME NEW d \in nameToId', NEW e \in nameToId', d.name = e.name, d # e
      PROVE  d.name \in ambiguous'
  <2>1. CASE d \in nameToId /\ e \in nameToId
    BY <1>1, <1>8, <2>1 DEF ManifestInv, IndexInv
  <2>2. CASE d \in nameToId /\ e \in ToSet(page)
    BY <1>1, <1>2, <1>8, <2>2 DEF SeenBefore
  <2>3. CASE e \in nameToId /\ d \in ToSet(page)
    BY <1>1, <1>2, <1>8, <2>3 DEF SeenBefore
  <2>4. CASE d \in ToSet(page) /\ e \in ToSet(page)
    <3>1. PICK i, j \in DOMAIN page : page[i] = d /\ page[j] = e
      BY <2>4 DEF ToSet
    <3>2. i # j
      BY <1>8, <3>1
    <3>3. SeenBefore(d.name, page)
      BY <1>8, <3>1, <3>2 DEF SeenBefore
    <3> QED
      BY <1>1, <1>2, <2>4, <3>3
  <2> QED
    BY <1>1, <1>2, <2>1, <2>2, <2>3, <2>4
<1>9. ASSUME "back" \notin moved, NEW i \in DOMAIN docs, docs[i] \in lasting
      PROVE  docs[i] \in nameToId' \/ i > skipped'
  <2>1. docs[i] \in nameToId \/ i > skipped
    BY <1>9 DEF ManifestInv, IndexInv
  <2>2. CASE i > skipped /\ i <= skipped + Len(page)
    BY <1>1, <1>2, <1>3, <2>2
  <2> QED
    BY <1>1, <1>2, <1>3, <1>4, <2>1, <2>2
<1>10. ASSUME moved = {}, NEW n \in ambiguous'
       PROVE  \E d, e \in borne : d # e /\ d.name = n /\ e.name = n
  <2>1. CASE n \in ambiguous
    BY <1>10, <2>1 DEF ManifestInv, IndexInv
  <2>2. CASE n \notin ambiguous
    <3>1. PICK p \in ToSet(page) : p.name = n /\ SeenBefore(n, page)
      BY <1>1, <1>2, <1>10, <2>2
    <3>2. PICK i \in DOMAIN page : page[i] = p
      BY <3>1 DEF ToSet
    <3>3. skipped + i \in DOMAIN docs /\ docs[skipped + i] = p
      BY <1>3, <3>2
    <3>4. CASE \E e \in nameToId : e.name = n
      <4>1. PICK e \in nameToId : e.name = n
        BY <3>4
      <4>2. PICK j \in DOMAIN docs : j <= skipped /\ docs[j].id = e.id
        BY <1>10 DEF ManifestInv, IndexInv
      <4>3. j # skipped + i
        BY <1>3, <1>4, <4>2
      <4>4. p # e
        BY <3>3, <4>2, <4>3 DEF ManifestInv, ListInv
      <4> QED
        BY <1>4, <1>5, <3>1, <4>1, <4>4
    <3>5. CASE \E j, k \in DOMAIN page : j # k /\ page[j].name = n /\ page[k].name = n
      <4>1. PICK j, k \in DOMAIN page : j # k /\ page[j].name = n /\ page[k].name = n
        BY <3>5
      <4>2. /\ skipped + j # skipped + k
            /\ skipped + j \in DOMAIN docs /\ page[j] = docs[skipped + j]
            /\ skipped + k \in DOMAIN docs /\ page[k] = docs[skipped + k]
        BY <1>3, <1>4, <4>1
      <4>3. page[j] # page[k]
        BY <4>2 DEF ManifestInv, ListInv
      <4>4. page[j] \in borne /\ page[k] \in borne
        BY <1>4, <1>5, <4>1 DEF ToSet
      <4> QED
        BY <4>1, <4>3, <4>4
    <3> QED
      BY <3>1, <3>4, <3>5 DEF SeenBefore
  <2> QED
    BY <2>1, <2>2
<1>11. ASSUME moved = {}, NEW d \in nameToId'
       PROVE  \E i \in DOMAIN docs : i <= skipped' /\ docs[i].id = d.id
  <2>1. CASE d \in nameToId
    <3>1. PICK i \in DOMAIN docs : i <= skipped /\ docs[i].id = d.id
      BY <1>11, <2>1 DEF ManifestInv, IndexInv
    <3>2. i <= skipped'
      BY <1>1, <1>2, <1>3, <1>4, <3>1
    <3> QED
      BY <3>1, <3>2
  <2>2. CASE d \in ToSet(page)
    <3>1. PICK i \in DOMAIN page : page[i] = d
      BY <2>2 DEF ToSet
    <3>2. /\ skipped + i \in DOMAIN docs /\ docs[skipped + i].id = d.id
          /\ skipped + i <= skipped'
      BY <1>1, <1>2, <1>3, <1>4, <3>1
    <3> QED
      BY <3>2
  <2> QED
    BY <1>1, <1>2, <2>1, <2>2
<1>12. stage' \in {"resolve", "submit"} => skipped' >= Len(docs)
  BY <1>1, <1>2, <1>3
<1>13. IndexInv'
  <2>1. stage' # "call" /\ UNCHANGED <<moved, docs, lasting, borne>>
    BY <1>1
  <2> QED
    BY <1>8, <1>9, <1>10, <1>11, <1>12, <2>1 DEF IndexInv
<1>14. RunsInv'
  BY <1>1 DEF ManifestInv, RunsInv
<1>15. RunsArePrefix'
  BY <1>1 DEF ManifestInv, RunsArePrefix, Of
<1>16. RightDocument'
  <2>1. runs[group] = <<>> /\ verdict = "none"
    BY <1>1 DEF ManifestInv, RunsInv
  <2>2. DOMAIN Of(group)' = {} /\ verdict' = "none"
    BY <1>1, <2>1 DEF Of
  <2> QED
    BY <2>2 DEF RightDocument
<1> QED
  BY <1>6, <1>7, <1>13, <1>14, <1>15, <1>16 DEF ManifestInv

\* The documents after a change by another client, and where each was.
LEMMA OtherClientsStep ==
  ASSUME ManifestInv, OtherClients
  PROVE  ManifestInv'
<1>1. /\ stage = "index" /\ moves < MaxMoves /\ moves' = moves + 1
      /\ borne' = borne \cup ToSet(docs') /\ lasting' = lasting \cap ToSet(docs')
      /\ UNCHANGED <<rows, chunk, at, nameToId, ambiguous, skipped, stage, group, runs, told, verdict>>
  BY DEF OtherClients, index
<1>2. PICK i \in 1..(Len(docs) + 1) :
       \/ \E n \in {d.name : d \in borne} :
            /\ docs' = InsertAt(docs, i, [id |-> NewId(moves), name |-> n])
            /\ moved' = moved \cup (IF i <= Len(docs) THEN {"on"} ELSE {})
       \/ /\ i <= Len(docs) /\ docs' = RemoveAt(docs, i)
          /\ moved' = moved \cup {"back"}
       \/ /\ i <= Len(docs) /\ moved' = moved
          /\ \E n \in {d.name : d \in borne} \ {docs[i].name} :
               docs' = [docs EXCEPT ![i].name = n]
  BY DEF OtherClients
<1>3. /\ DOMAIN docs = 1..Len(docs) /\ Len(docs) \in Nat /\ docs \in Seq(Docs)
      /\ skipped \in Nat /\ MaxMoves \in Nat /\ FirstIds \in Nat /\ moves \in 0..MaxMoves
      /\ borne \subseteq Docs /\ nameToId \subseteq borne
  BY RowsAre DEF ManifestInv, ManifestTyped
<1>4. /\ \A j, k \in DOMAIN docs : docs[j].id = docs[k].id => j = k
      /\ \A d \in borne : IdGiven(d.id, moves)
      /\ ToSet(docs) \subseteq borne /\ lasting \subseteq ToSet(docs)
  BY DEF ManifestInv, ListInv
<1>5. NewId(moves) \in DocumentIds /\ ~ IdGiven(NewId(moves), moves)
  BY <1>1, <1>3 DEF NewId, IdGiven, DocumentIds
<1>6. ASSUME NEW x \in Int, IdGiven(x, moves) PROVE IdGiven(x, moves + 1)
  BY <1>1, <1>3, <1>6 DEF IdGiven, NewId
<1>7. /\ \A j \in DOMAIN docs : /\ docs[j] \in Docs /\ docs[j] \in borne
                                /\ docs[j].id \in Int /\ IdGiven(docs[j].id, moves)
      /\ IdGiven(NewId(moves), moves + 1)
  <2>1. \A j \in DOMAIN docs : docs[j] \in borne
    BY <1>4 DEF ToSet
  <2>2. IdGiven(NewId(moves), moves + 1)
    BY <1>1, <1>3 DEF IdGiven, NewId
  <2> QED
    BY <1>3, <1>4, <2>1, <2>2 DEF Docs, DocumentIds
<1>8. \A n \in {d.name : d \in borne} : n \in Names
  BY <1>3 DEF Docs
\* Ids are still given once; what lasts has not come nearer; at best all is in its place.
<1> DEFINE Ids   == \A j, k \in DOMAIN docs' : docs'[j].id = docs'[k].id => j = k
           Known == \A j \in DOMAIN docs' : IdGiven(docs'[j].id, moves + 1)
           Later == "back" \notin moved' =>
                      \A j \in DOMAIN docs' : docs'[j] \in lasting =>
                        \E k \in DOMAIN docs : k <= j /\ docs[k] = docs'[j]
           Still == moved' = {} =>
                      \A k \in DOMAIN docs : k \in DOMAIN docs' /\ docs'[k].id = docs[k].id
           Found == docs' \in Seq(Docs) /\ Ids /\ Known /\ Later /\ Still
<1>9. ASSUME \E n \in {d.name : d \in borne} :
             /\ docs' = InsertAt(docs, i, [id |-> NewId(moves), name |-> n])
             /\ moved' = moved \cup (IF i <= Len(docs) THEN {"on"} ELSE {})
      PROVE  Found
  <2>1. PICK n \in {d.name : d \in borne} :
             /\ docs' = InsertAt(docs, i, [id |-> NewId(moves), name |-> n])
             /\ moved' = moved \cup (IF i <= Len(docs) THEN {"on"} ELSE {})
    BY <1>9
  <2>2. PICK new : new = [id |-> NewId(moves), name |-> n]
    OBVIOUS
  <2>3. new \in Docs /\ new.id = NewId(moves)
    BY <1>5, <1>8, <2>2 DEF Docs
  <2>4. docs' = InsertAt(docs, i, new)
    BY <2>1, <2>2
  <2>5. /\ docs' \in Seq(Docs) /\ Len(docs') = Len(docs) + 1
        /\ \A k \in 1..(Len(docs) + 1) :
             docs'[k] = IF k < i THEN docs[k] ELSE IF k = i THEN new ELSE docs[k - 1]
    <3>1. /\ InsertAt(docs, i, new) \in Seq(Docs) /\ Len(InsertAt(docs, i, new)) = Len(docs) + 1
          /\ \A k \in 1..(Len(docs) + 1) :
               InsertAt(docs, i, new)[k]
                 = IF k < i THEN docs[k] ELSE IF k = i THEN new ELSE docs[k - 1]
      BY <1>3, <2>3, InsertAtType
    <3> QED
      BY <2>4, <3>1
  <2>6. DOMAIN docs' = 1..(Len(docs) + 1)
    BY <2>5, LenProperties
  <2>7. \A k \in DOMAIN docs' :
          \/ k < i /\ k \in DOMAIN docs /\ docs'[k] = docs[k]
          \/ k = i /\ docs'[k] = new
          \/ k > i /\ k - 1 \in DOMAIN docs /\ docs'[k] = docs[k - 1]
    BY <1>3, <2>5, <2>6
  <2>8. \A k \in DOMAIN docs : docs[k].id # new.id
    BY <1>5, <1>7, <2>3
  <2>9. Ids
    <3> SUFFICES ASSUME NEW j \in DOMAIN docs', NEW k \in DOMAIN docs', docs'[j].id = docs'[k].id
                 PROVE  j = k
      OBVIOUS
    <3>1. j \in Int /\ k \in Int /\ i \in Int
      BY <1>3, <2>6
    <3>2. CASE j = i \/ k = i
      BY <2>7, <2>8, <3>1, <3>2
    <3>3. CASE j # i /\ k # i
      <4>1. PICK a : a = IF j < i THEN j ELSE j - 1
        OBVIOUS
      <4>2. PICK b : b = IF k < i THEN k ELSE k - 1
        OBVIOUS
      <4>3. a \in DOMAIN docs /\ docs'[j] = docs[a] /\ b \in DOMAIN docs /\ docs'[k] = docs[b]
        BY <2>7, <3>1, <3>3, <4>1, <4>2
      <4>4. a = b
        BY <1>4, <4>3
      <4> QED
        BY <3>1, <3>3, <4>1, <4>2, <4>4
    <3> QED
      BY <3>2, <3>3
  <2>10. Known
    BY <1>6, <1>7, <2>3, <2>7
  <2>11. Later
    <3> SUFFICES ASSUME NEW j \in DOMAIN docs', docs'[j] \in lasting
                 PROVE  \E k \in DOMAIN docs : k <= j /\ docs[k] = docs'[j]
      OBVIOUS
    <3>1. docs'[j] # new
      BY <1>4, <2>8 DEF ToSet
    <3> QED
      BY <1>3, <2>6, <2>7, <3>1
  <2>12. Still
    <3>0. i <= Len(docs) => "on" \in moved'
      BY <2>1
    <3>1. moved' = {} => i = Len(docs) + 1
      BY <1>3, <3>0
    <3> QED
      BY <1>3, <2>5, <2>6, <3>1
  <2> QED
    BY <2>5, <2>9, <2>10, <2>11, <2>12
<1>10. ASSUME i <= Len(docs), docs' = RemoveAt(docs, i), moved' = moved \cup {"back"}
       PROVE  Found
  <2>1. /\ docs' \in Seq(Docs) /\ Len(docs') = Len(docs) - 1
        /\ \A k \in 1..(Len(docs) - 1) : docs'[k] = IF k < i THEN docs[k] ELSE docs[k + 1]
    <3>1. i \in 1..Len(docs)
      BY <1>3, <1>10
    <3>2. /\ RemoveAt(docs, i) \in Seq(Docs) /\ Len(RemoveAt(docs, i)) = Len(docs) - 1
          /\ \A k \in 1..(Len(docs) - 1) :
               RemoveAt(docs, i)[k] = IF k < i THEN docs[k] ELSE docs[k + 1]
      BY <1>3, <3>1, RemoveAtType
    <3> QED
      BY <1>10, <3>2
  <2>2. DOMAIN docs' = 1..(Len(docs) - 1)
    BY <2>1, LenProperties
  <2>3. \A k \in DOMAIN docs' :
          \/ k < i /\ k \in DOMAIN docs /\ docs'[k] = docs[k]
          \/ k >= i /\ k + 1 \in DOMAIN docs /\ docs'[k] = docs[k + 1]
    BY <1>3, <2>1, <2>2
  <2>4. Ids
    <3> SUFFICES ASSUME NEW j \in DOMAIN docs', NEW k \in DOMAIN docs', docs'[j].id = docs'[k].id
                 PROVE  j = k
      OBVIOUS
    <3>1. PICK a : a = IF j < i THEN j ELSE j + 1
      OBVIOUS
    <3>2. PICK b : b = IF k < i THEN k ELSE k + 1
      OBVIOUS
    <3>3. j \in Int /\ k \in Int /\ i \in Int
      BY <1>3, <2>2
    <3>4. a \in DOMAIN docs /\ docs'[j] = docs[a] /\ b \in DOMAIN docs /\ docs'[k] = docs[b]
      BY <2>3, <3>1, <3>2, <3>3
    <3>5. a = b
      BY <1>4, <3>4
    <3> QED
      BY <3>1, <3>2, <3>3, <3>5
  <2>5. Known
    BY <1>6, <1>7, <2>3
  <2> QED
    BY <1>10, <2>1, <2>4, <2>5
<1>11. ASSUME i <= Len(docs), moved' = moved,
              \E n \in {d.name : d \in borne} \ {docs[i].name} :
                 docs' = [docs EXCEPT ![i].name = n]
       PROVE  Found
  <2>1. PICK n \in {d.name : d \in borne} \ {docs[i].name} : docs' = [docs EXCEPT ![i].name = n]
    BY <1>11
  <2>2. PICK new : new = [docs[i] EXCEPT !.name = n]
    OBVIOUS
  <2>3. i \in DOMAIN docs /\ docs[i] \in Docs /\ n \in Names
    BY <1>3, <1>7, <1>8, <1>11
  <2>4. new \in Docs /\ new.id = docs[i].id /\ new.name = n /\ n # docs[i].name
    BY <2>1, <2>2, <2>3 DEF Docs
  <2>5. docs' = [docs EXCEPT ![i] = new]
    BY <2>1, <2>2, <2>3
  <2>6. /\ docs' \in Seq(Docs) /\ DOMAIN docs' = DOMAIN docs /\ docs'[i] = new
        /\ \A k \in DOMAIN docs : k # i => docs'[k] = docs[k]
    BY <1>3, <2>3, <2>4, <2>5
  <2>7. \A k \in DOMAIN docs : docs'[k].id = docs[k].id
    BY <2>4, <2>6
  <2>8. Ids /\ Known /\ Still
    BY <1>4, <1>6, <1>7, <2>6, <2>7
  <2>9. new \notin lasting
    <3>1. ASSUME NEW k \in DOMAIN docs, docs[k] = new PROVE FALSE
      <4>1. k = i
        BY <1>4, <2>3, <2>4, <3>1
      <4> QED
        BY <2>4, <3>1, <4>1
    <3> QED
      BY <1>4, <3>1 DEF ToSet
  <2>10. Later
    <3> SUFFICES ASSUME NEW j \in DOMAIN docs', docs'[j] \in lasting
                 PROVE  \E k \in DOMAIN docs : k <= j /\ docs[k] = docs'[j]
      OBVIOUS
    <3>1. j \in DOMAIN docs /\ j # i /\ j <= j
      BY <1>3, <2>6, <2>9
    <3> QED
      BY <2>6, <3>1
  <2> QED
    BY <1>11, <2>6, <2>8, <2>10
<1>12. /\ docs' \in Seq(Docs) /\ Ids /\ Known /\ Later /\ Still
       /\ moved' = {} => moved = {}
       /\ "back" \notin moved' => "back" \notin moved
  <2>1. Found
    <3> HIDE DEF Found
    <3> QED
      BY <1>2, <1>9, <1>10, <1>11
  <2>2. moved \subseteq moved'
    BY <1>2
  <2> QED
    BY <2>1, <2>2
<1>13. ToSet(docs') \subseteq Docs
  BY <1>12, ElementOfSeq, LenProperties DEF ToSet
<1>14. ManifestTyped'
  <2>1. moves' \in 0..MaxMoves
    BY <1>1, <1>3
  <2>2. borne' \subseteq Docs /\ nameToId' \subseteq borne'
    BY <1>1, <1>3, <1>13
  <2> QED
    BY <1>1, <1>12, <2>1, <2>2 DEF ManifestInv, ManifestTyped
<1>15. ListInv'
  <2>1. ASSUME NEW d \in borne' PROVE IdGiven(d.id, moves + 1)
    <3>1. CASE d \in borne
      <4>1. d.id \in Int
        BY <1>3, <3>1 DEF Docs, DocumentIds
      <4> QED
        BY <1>4, <1>6, <3>1, <4>1
    <3>2. CASE d \in ToSet(docs')
      BY <1>12, <3>2 DEF ToSet
    <3> QED
      BY <1>1, <2>1, <3>1, <3>2
  <2>2. ToSet(docs') \subseteq borne' /\ lasting' \subseteq ToSet(docs')
    BY <1>1
  <2> QED
    BY <1>1, <1>12, <2>1, <2>2 DEF ListInv
<1>16. IndexInv'
  <2>1. ASSUME "back" \notin moved', NEW j \in DOMAIN docs', docs'[j] \in lasting'
        PROVE  docs'[j] \in nameToId \/ j > skipped
    <3>1. PICK k \in DOMAIN docs : k <= j /\ docs[k] = docs'[j]
      BY <1>1, <1>12, <2>1
    <3>2. docs[k] \in nameToId \/ k > skipped
      BY <1>1, <1>12, <2>1, <3>1 DEF ManifestInv, IndexInv
    <3>3. j \in Int
      BY <1>12, LenProperties
    <3> QED
      BY <1>3, <3>1, <3>2, <3>3
  <2>2. ASSUME moved' = {}, NEW n \in ambiguous
        PROVE  \E d, e \in borne' : d # e /\ d.name = n /\ e.name = n
    BY <1>1, <1>12, <2>2 DEF ManifestInv, IndexInv
  <2>3. ASSUME moved' = {}, NEW d \in nameToId
        PROVE  \E k \in DOMAIN docs' : k <= skipped /\ docs'[k].id = d.id
    BY <1>12, <2>3 DEF ManifestInv, IndexInv
  <2>4. \A d, e \in nameToId : d.name = e.name /\ d # e => d.name \in ambiguous
    BY DEF ManifestInv, IndexInv
  <2> QED
    BY <1>1, <2>1, <2>2, <2>3, <2>4 DEF IndexInv
<1>17. RunsInv'
  BY <1>1 DEF ManifestInv, RunsInv
<1>18. RunsArePrefix'
  BY <1>1 DEF ManifestInv, RunsArePrefix, Of
<1>19. RightDocument'
  <2>1. runs[group] = <<>> /\ verdict = "none"
    BY <1>1 DEF ManifestInv, RunsInv
  <2>2. DOMAIN Of(group)' = {} /\ verdict' = "none"
    BY <1>1, <2>1 DEF Of
  <2> QED
    BY <2>2 DEF RightDocument
<1> QED
  BY <1>14, <1>15, <1>16, <1>17, <1>18, <1>19 DEF ManifestInv

\* A name that was needed was resolved to a document that bore it; and to the only one that
\* lasted unless a deletion hid another.
LEMMA NamesAreRight ==
  ASSUME ManifestInv, stage = "submit", NEW x \in Needed
  PROVE  /\ [id |-> Lookup(x), name |-> x] \in borne
         /\ "back" \notin moved => \A d \in Bearers(x, lasting) : d.id = Lookup(x)
<1>1. x # NoDocument /\ ~ IsId(x)
  BY DEF Needed, IsId
<1>2. Lookup(x) # Unknown
  BY DEF ManifestInv, RunsInv
<1>3. x \notin ambiguous /\ \E d \in nameToId : d.name = x /\ d.id = Lookup(x)
  BY <1>1, <1>2, LookupIs DEF ManifestInv
<1>4. PICK e \in nameToId : e.name = x /\ e.id = Lookup(x)
  BY <1>3
<1>5. [id |-> Lookup(x), name |-> x] \in borne
  <2>1. e \in Docs /\ e \in borne
    BY <1>4 DEF ManifestInv, ManifestTyped
  <2>2. e = [id |-> Lookup(x), name |-> x]
    BY <1>4, <2>1 DEF Docs
  <2> QED
    BY <2>1, <2>2
<1>6. ASSUME "back" \notin moved, NEW d \in Bearers(x, lasting) PROVE d.id = Lookup(x)
  <2>1. d \in lasting /\ d.name = x
    BY <1>6 DEF Bearers
  <2>2. PICK i \in DOMAIN docs : docs[i] = d
    BY <2>1 DEF ManifestInv, ListInv, ToSet
  <2>3. skipped >= Len(docs)
    BY DEF ManifestInv, IndexInv
  <2>4. ~ (i > skipped)
    <3>1. DOMAIN docs = 1..Len(docs) /\ Len(docs) \in Nat /\ skipped \in Nat
      BY RowsAre DEF ManifestInv, ManifestTyped
    <3> QED
      BY <2>2, <2>3, <3>1
  <2>5. d \in nameToId
    BY <1>6, <2>1, <2>2, <2>4 DEF ManifestInv, IndexInv
  <2>6. d = e
    BY <1>3, <1>4, <2>1, <2>5 DEF ManifestInv, IndexInv
  <2> QED
    BY <1>4, <2>6
<1> QED
  BY <1>5, <1>6

LEMMA SubmitStep ==
  ASSUME ManifestInv, Submit
  PROVE  ManifestInv'
<1>1. /\ stage = "submit" /\ at <= Len(rows)
      /\ \/ /\ runs' = Accepted /\ told' = Told /\ at' = at + chunk
            /\ stage' = "submit" /\ verdict' = verdict
         \/ /\ runs' \in {runs, Accepted} /\ stage' = "done" /\ verdict' = "raised"
            /\ UNCHANGED <<at, told>>
      /\ UNCHANGED <<docs, rows, chunk, nameToId, ambiguous, skipped, group,
                     borne, lasting, moved, moves>>
  BY DEF Submit, Proceed, Raise, index, history
<1>2. /\ Len(rows) \in Nat /\ DOMAIN rows = 1..Len(rows) /\ chunk \in Int
      /\ at \in Nat \ {0} /\ runs \in [1..MaxCalls -> Seq(Runs)] /\ group \in 1..MaxCalls
      /\ \A i \in DOMAIN rows : rows[i] \in Needed \/ IsId(rows[i]) \/ rows[i] = NoDocument
  BY RowsAre DEF ManifestInv, ManifestTyped
<1>3. /\ chunk > 0 /\ (at - 1) % chunk = 0
      /\ Len(runs[group]) = IF at - 1 <= Len(rows) THEN at - 1 ELSE Len(rows)
      /\ told = [i \in 1..Len(runs[group]) |-> i]
  BY <1>1 DEF ManifestInv, RunsInv
<1>4. PICK n : n = NextRows
  OBVIOUS
<1>5. PICK q : q = runs[group]
  OBVIOUS
<1>6. PICK old : old = Len(q)
  OBVIOUS
<1>7. /\ q \in Seq(Runs) /\ old = at - 1 /\ old \in Nat /\ DOMAIN q = 1..old
      /\ \A i \in DOMAIN q : q[i].row = i
  <2>1. q \in Seq(Runs)
    BY <1>2, <1>5
  <2>2. old \in Nat /\ DOMAIN q = 1..old
    BY <1>6, <2>1, LenProperties
  <2>3. old = at - 1
    BY <1>1, <1>2, <1>3, <1>5, <1>6
  <2>4. \A i \in DOMAIN q : q[i].row = i
    BY <1>2, <1>5 DEF ManifestInv, RunsArePrefix, Of
  <2> QED
    BY <2>1, <2>2, <2>3, <2>4
<1>8. n \in Nat /\ old + n = IF Len(rows) < old + chunk THEN Len(rows) ELSE old + chunk
  <2>1. at = old + 1 /\ old + 1 <= Len(rows)
    BY <1>1, <1>2, <1>7
  <2>2. CASE Len(rows) < at + chunk - 1
    <3>1. n = Len(rows) - at + 1
      BY <1>4, <2>2 DEF NextRows
    <3> QED
      BY <1>2, <1>3, <1>7, <2>1, <2>2, <3>1
  <2>3. CASE ~ (Len(rows) < at + chunk - 1)
    <3>1. n = (at + chunk - 1) - at + 1
      BY <1>4, <2>3 DEF NextRows
    <3> QED
      BY <1>2, <1>3, <1>7, <2>1, <2>3, <3>1
  <2> QED
    BY <2>2, <2>3
<1>9. PICK more : more = [i \in 1..n |-> [row |-> at + i - 1, doc |-> Lookup(rows[at + i - 1])]]
  OBVIOUS
<1>10. /\ more \in Seq(Runs) /\ Len(more) = n
       /\ \A i \in 1..n : more[i] = [row |-> at + i - 1, doc |-> Lookup(rows[at + i - 1])]
  <2>1. \A i \in 1..n : [row |-> at + i - 1, doc |-> Lookup(rows[at + i - 1])] \in Runs
    BY <1>2, <1>8, LookupIs DEF ManifestInv, Runs
  <2>2. more \in [1..n -> Runs]
    BY <1>9, <2>1
  <2> QED
    BY <1>8, <1>9, <2>2
<1>11. PICK new : new = q \o more
  OBVIOUS
<1>12. /\ new \in Seq(Runs) /\ Len(new) = old + n /\ DOMAIN new = 1..(old + n)
       /\ \A i \in 1..(old + n) : new[i] = IF i <= old THEN q[i] ELSE more[i - old]
  <2>1. /\ new \in Seq(Runs) /\ Len(new) = Len(q) + Len(more)
        /\ \A i \in 1..(Len(q) + Len(more)) : new[i] = IF i <= Len(q) THEN q[i] ELSE more[i - Len(q)]
    BY <1>7, <1>10, <1>11, ConcatProperties
  <2> QED
    BY <1>6, <1>10, <2>1, LenProperties
<1>13. Accepted = [runs EXCEPT ![group] = new]
  BY <1>4, <1>5, <1>9, <1>11 DEF Accepted
\* The runs on the server are those of the rows up to there, each on the document of its row.
<1>14. ASSUME NEW i \in 1..(old + n)
       PROVE  new[i].row = i /\ (i <= old => new[i] = q[i])
              /\ (i > old => i \in DOMAIN rows /\ new[i].doc = Lookup(rows[i]))
  <2>1. CASE i <= old
    BY <1>7, <1>12, <2>1
  <2>2. CASE ~ (i <= old)
    <3>1. i - old \in 1..n /\ at + (i - old) - 1 = i /\ i \in 1..Len(rows)
      BY <1>2, <1>7, <1>8, <2>2
    <3>2. new[i] = [row |-> i, doc |-> Lookup(rows[i])]
      BY <1>10, <1>12, <2>2, <3>1
    <3> QED
      BY <1>2, <2>2, <3>1, <3>2
  <2> QED
    BY <2>1, <2>2
<1>15. runs' \in {runs, Accepted} /\ verdict' # "returned" /\ verdict' # "value error"
  BY <1>1 DEF ManifestInv, RunsInv
<1>16. /\ runs' \in [1..MaxCalls -> Seq(Runs)]
       /\ \A g \in 1..MaxCalls : g # group => runs'[g] = runs[g]
       /\ runs'[group] \in {q, new}
       /\ runs' = Accepted => runs'[group] = new
  BY <1>2, <1>5, <1>12, <1>13, <1>15
<1>17. ManifestTyped'
  <2>1. at' \in Nat \ {0}
    BY <1>1, <1>2, <1>3
  <2> QED
    BY <1>1, <1>16, <2>1 DEF ManifestInv, ManifestTyped
<1>18. ListInv'
  BY <1>1 DEF ManifestInv, ListInv, Given
<1>19. IndexInv'
  <2>1. Needed' = Needed
    BY <1>1 DEF Needed
  <2> QED
    BY <1>1, <2>1 DEF ManifestInv, IndexInv
<1>20. (at + chunk - 1) % chunk = 0
  <2>1. PICK m \in Nat : m = at - 1
    BY <1>2
  <2>2. PICK c \in Nat \ {0} : c = chunk
    BY <1>2, <1>3
  <2>3. (m + c) % c = 0
    BY <1>3, <2>1, <2>2, WholeChunks
  <2>4. m + c = at + chunk - 1
    BY <1>2, <2>1, <2>2
  <2> QED
    BY <2>2, <2>3, <2>4
<1>21. (old + n) % chunk = 0 \/ old + n = Len(rows)
  <2>1. old + chunk = at + chunk - 1
    BY <1>2, <1>7
  <2> QED
    BY <1>8, <1>20, <2>1
<1>22. RunsInv'
  <2>1. \A g \in 1..MaxCalls : g > group => runs'[g] = <<>>
    <3>1. \A g \in 1..MaxCalls : g > group => g # group
      BY <1>2
    <3> QED
      BY <1>16, <3>1 DEF ManifestInv, RunsInv
  <2>2. verdict' # "none" => stage' = "done"
    BY <1>1 DEF ManifestInv, RunsInv
  <2>3. ASSUME stage' = "submit"
        PROVE  /\ (at' - 1) % chunk = 0
               /\ Len(runs'[group]) = IF at' - 1 <= Len(rows) THEN at' - 1 ELSE Len(rows)
               /\ told' = [i \in 1..Len(runs'[group]) |-> i]
    <3>1. at' = at + chunk /\ told' = Told /\ runs'[group] = new
      BY <1>1, <1>16, <2>3
    <3>2. Len(runs'[group]) = IF at' - 1 <= Len(rows) THEN at' - 1 ELSE Len(rows)
      BY <1>2, <1>7, <1>8, <1>12, <3>1
    <3>3. told' = [i \in 1..(old + n) |-> i]
      <4>1. PICK a : a = [i \in 1..old |-> i]
        OBVIOUS
      <4>2. PICK b : b = [i \in 1..n |-> at + i - 1]
        OBVIOUS
      <4>3. a \in Seq(Nat) /\ Len(a) = old /\ \A i \in 1..old : a[i] = i
        BY <1>7, <4>1
      <4>4. b \in Seq(Nat) /\ Len(b) = n /\ \A i \in 1..n : b[i] = at + i - 1
        <5>1. \A i \in 1..n : at + i - 1 \in Nat
          BY <1>2, <1>8
        <5>2. b \in [1..n -> Nat]
          BY <4>2, <5>1
        <5> QED
          BY <1>8, <4>2, <5>2
      <4>5. told' = a \o b
        BY <1>3, <1>4, <1>5, <1>6, <3>1, <4>1, <4>2 DEF Told
      <4>6. /\ told' \in Seq(Nat) /\ Len(told') = old + n
            /\ \A i \in 1..(old + n) : told'[i] = IF i <= old THEN a[i] ELSE b[i - old]
        <5>1. /\ a \o b \in Seq(Nat) /\ Len(a \o b) = Len(a) + Len(b)
              /\ \A i \in 1..(Len(a) + Len(b)) :
                   (a \o b)[i] = IF i <= Len(a) THEN a[i] ELSE b[i - Len(a)]
          BY <4>3, <4>4, ConcatProperties
        <5> QED
          BY <4>3, <4>4, <4>5, <5>1
      <4>7. \A i \in 1..(old + n) : told'[i] = i
        <5>1. \A i \in 1..(old + n) : ~ (i <= old) => i - old \in 1..n /\ at + (i - old) - 1 = i
          BY <1>2, <1>7, <1>8
        <5>2. \A i \in 1..(old + n) : i <= old => i \in 1..old
          BY <1>7, <1>8
        <5> QED
          BY <4>3, <4>4, <4>6, <5>1, <5>2
      <4>8. DOMAIN told' = 1..(old + n) /\ told' \in [1..(old + n) -> Nat]
        BY <4>6, LenProperties
      <4> QED
        BY <4>7, <4>8
    <3>4. told' = [i \in 1..Len(runs'[group]) |-> i]
      BY <1>12, <3>1, <3>3
    <3>5. at' - 1 = at + chunk - 1
      BY <1>2, <3>1
    <3>6. (at' - 1) % chunk = 0
      BY <1>20, <3>5, Zenon
    <3> QED
      BY <3>2, <3>4, <3>6
  <2>4. Needed' = Needed /\ \A x : Lookup(x)' = Lookup(x)
    BY <1>1 DEF Needed, Lookup
  <2>5. \A x \in Needed : Lookup(x) # Unknown
    BY <1>1 DEF ManifestInv, RunsInv
  <2>6. stage' \in {"submit", "done"} /\ chunk' > 0
    BY <1>1, <1>3
  <2> QED
    BY <1>1, <2>1, <2>2, <2>3, <2>4, <2>5, <2>6 DEF RunsInv
<1>23. RunsArePrefix'
  <2> SUFFICES ASSUME NEW g \in 1..MaxCalls
               PROVE  /\ \A i \in DOMAIN runs'[g] : runs'[g][i].row = i
                      /\ chunk > 0 => Len(runs'[g]) % chunk = 0 \/ Len(runs'[g]) = Len(rows)
    BY <1>1, <1>15 DEF RunsArePrefix, Of
  <2>1. CASE runs'[g] = runs[g]
    BY <2>1 DEF ManifestInv, RunsArePrefix, Of
  <2>2. CASE runs'[g] = new
    BY <1>12, <1>14, <1>21, <2>2
  <2> QED
    BY <1>5, <1>16, <2>1, <2>2
<1>24. RightDocument'
  <2> SUFFICES ASSUME NEW i \in DOMAIN runs'[group], rows[i] # NoDocument, ~ IsId(rows[i])
               PROVE  /\ [id |-> runs'[group][i].doc, name |-> rows[i]] \in borne
                      /\ "back" \notin moved =>
                           \A d \in Bearers(rows[i], lasting) : d.id = runs'[group][i].doc
    BY <1>1, <1>15 DEF RightDocument, Of, Bearers, IsId
  <2>1. CASE i \in DOMAIN q /\ runs'[group][i] = q[i]
    BY <1>5, <2>1 DEF ManifestInv, RightDocument, Of
  <2>2. CASE i \in DOMAIN rows /\ runs'[group][i].doc = Lookup(rows[i])
    <3>1. rows[i] \in Needed
      BY <1>2, <2>2
    <3> QED
      BY <1>1, <2>2, <3>1, NamesAreRight
  <2>3. \/ i \in DOMAIN q /\ runs'[group][i] = q[i]
        \/ i \in DOMAIN rows /\ runs'[group][i].doc = Lookup(rows[i])
    <3>1. CASE runs'[group] = q
      BY <3>1
    <3>2. CASE runs'[group] = new
      <4>1. i \in 1..(old + n)
        BY <1>12, <3>2
      <4>2. i <= old => i \in DOMAIN q
        BY <1>7, <1>8, <4>1
      <4>3. i <= old \/ i > old
        BY <1>7, <1>8, <4>1
      <4> QED
        BY <1>14, <3>2, <4>1, <4>2, <4>3
    <3> QED
      BY <1>16, <3>1, <3>2
  <2> QED
    BY <2>1, <2>2, <2>3
<1> QED
  BY <1>17, <1>18, <1>19, <1>22, <1>23, <1>24 DEF ManifestInv

LEMMA ManifestAlways ==
  ClientSpec => []ManifestInv
<1>1. ClientInit => ManifestInv
  BY ManifestStart DEF ClientInit
<1>2. ManifestInv /\ [ClientNext]_clientVars => ManifestInv'
  <2> SUFFICES ASSUME ManifestInv, [ClientNext]_clientVars PROVE ManifestInv'
    OBVIOUS
  <2>1. CASE ManifestNext
    BY <2>1, BeginStep, IndexPageStep, ResolveRowsStep, SubmitStep, ReturnStep,
       ReadingFailsStep, CallAgainStep, OtherClientsStep DEF ManifestNext
  <2>2. CASE UNCHANGED manifestVars
    <3>1. UNCHANGED <<docs, rows, chunk, at, nameToId, ambiguous, skipped, stage, group, runs,
                      told, verdict, borne, lasting, moved, moves>>
      BY <2>2 DEF manifestVars
    <3>2. Quiet
      BY <3>1 DEF Quiet, index, history
    <3>3. IndexInv' /\ RunsInv' /\ ManifestTyped' /\ ListInv'
      BY <3>1, <3>2, QuietStep DEF ManifestInv, IndexInv, RunsInv
    <3>4. RunsArePrefix'
      BY <3>1 DEF ManifestInv, RunsArePrefix, Of
    <3>5. RightDocument'
      <4>1. Of(group)' = Of(group) /\ Needed' = Needed
        BY <3>1 DEF Of, Needed
      <4>2. RightDocument
        BY DEF ManifestInv
      <4> QED
        BY <3>1, <4>1, <4>2 DEF RightDocument, Bearers
    <3> QED
      BY <3>3, <3>4, <3>5 DEF ManifestInv
  <2> QED
    BY <2>1, <2>2 DEF ClientNext, clientVars
<1> QED
  BY <1>1, <1>2, PTL DEF ClientSpec

\* A call submits the rows from the first on, once each, in whole chunks unless it comes to the
\* end, none when a name cannot be resolved: for any manifests and any chunk size.
THEOREM ManifestRunsArePrefix ==
  ClientSpec => []RunsArePrefix
<1>1. ManifestInv => RunsArePrefix
  BY DEF ManifestInv
<1> QED
  BY <1>1, ManifestAlways, PTL

\* A run is on a document that bore the name of its row, whatever other clients do to the list
\* while it is read; on the only one unless a deletion hid another.
THEOREM RunsAreOnTheRightDocument ==
  ClientSpec => []RightDocument
<1>1. ManifestInv => RightDocument
  BY DEF ManifestInv
<1> QED
  BY <1>1, ManifestAlways, PTL

-----------------------------------------------------------------------------
(* Streamed answers                                                        *)

EventPart  == [event : Nat, kind : EventKinds \cup {"none"}, nr : Nat, of : Nat]
AnswerLine == [field : {"", ":", "data"}, part : EventPart, whole : BOOLEAN]

\* The first n data lines of an event.
Text(p, n) == [i \in 1..n |-> Line("data", [p EXCEPT !.nr = i])]

StreamTyped ==
  /\ reader \in {"stream", "input"}
  /\ sent \in EventPart /\ sent.nr <= sent.of /\ (sent.nr = 0 => sent.of = 0)
  /\ lastLine \in AnswerLine
  /\ arrived \in Seq(Nat) /\ yielded \in Seq(Nat)
  /\ buffer \in Seq(AnswerLine) /\ texts \in Nat
  /\ outcome \in {"reading", "ended", "raised", "broken"}

CutInside == lastLine.field = "data" /\ ~ lastLine.whole

\* stream() while it reads: the buffer is what arrived of the event begun, and of the events
\* that arrived only this one is not handed on yet.
StreamReads ==
  /\ texts = 0
  /\ CutInside => /\ \E i \in DOMAIN buffer : ~ buffer[i].whole
                  /\ arrived = yielded
  /\ ~ CutInside =>
       /\ buffer = Text(sent, sent.nr)
       /\ arrived = (IF sent.nr = sent.of /\ sent.nr # 0 /\ sent.kind \in KnownKinds
                     THEN Append(yielded, sent.event) ELSE yielded)

\* stream_input() while it reads: each line is dealt with as it comes.
InputReads ==
  /\ arrived = yielded /\ sent.nr = sent.of
  /\ texts # 0 => CutInside

StreamInv ==
  /\ StreamTyped
  /\ outcome = "reading" /\ reader = "stream" => StreamReads
  /\ outcome = "reading" /\ reader = "input" => InputReads
  /\ WholeEventsOnly

\* Any sequence is a prefix of itself and of itself with something behind it.
LEMMA PrefixOfSelf ==
  ASSUME NEW S, NEW s \in Seq(S)
  PROVE  IsPrefix(s, s)
BY DEF IsPrefix

LEMMA PrefixOfLonger ==
  ASSUME NEW S, NEW s \in Seq(S), NEW x \in S
  PROVE  /\ IsPrefix(s, Append(s, x))
         /\ Len(Append(s, x)) - 1 <= Len(s)
<1>1. Len(s) \in Nat /\ Len(Append(s, x)) = Len(s) + 1
  OBVIOUS
<1>2. SubSeq(s, 1, Len(s)) = s
  OBVIOUS
<1>3. SubSeq(Append(s, x), 1, Len(s)) = s
  OBVIOUS
<1> QED
  BY <1>1, <1>2, <1>3 DEF IsPrefix

\* The first lines of an event are JSON when they are all of them.
LEMMA WholeTextIsJson ==
  ASSUME NEW p \in EventPart, p.nr # 0, p.nr <= p.of
  PROVE  /\ IsJson(Text(p, p.nr)) <=> p.nr = p.of
         /\ Text(p, p.nr) # <<>>
         /\ Text(p, p.nr)[1].part.event = p.event
         /\ Text(p, p.nr)[1].part.kind = p.kind
<1> DEFINE t == Text(p, p.nr)
<1>1. p.nr \in Nat /\ p.of \in Nat /\ 1 \in 1..p.nr
  BY DEF EventPart
<1>2. DOMAIN t = 1..p.nr /\ \A i \in 1..p.nr : t[i] = Line("data", [p EXCEPT !.nr = i])
  BY DEF Text
<1>3. Len(t) = p.nr /\ t # <<>>
  BY <1>1, <1>2 DEF Text
<1>4. \A i \in 1..p.nr : /\ t[i].whole
                         /\ t[i].part = [p EXCEPT !.nr = i]
  <2> SUFFICES ASSUME NEW i \in 1..p.nr
               PROVE  t[i].whole /\ t[i].part = [p EXCEPT !.nr = i]
    OBVIOUS
  <2>1. t[i] = Line("data", [p EXCEPT !.nr = i])
    BY <1>2
  <2> HIDE DEF t
  <2> QED
    BY <2>1 DEF Line
<1>5. t[1].part = [p EXCEPT !.nr = 1]
  BY <1>1, <1>4
<1>6. t[1].part.of = p.of /\ t[1].part.event = p.event /\ t[1].part.kind = p.kind
  BY <1>5 DEF EventPart
<1>7. \A i \in 1..p.nr : [p EXCEPT !.nr = i] = [t[1].part EXCEPT !.nr = i]
  BY <1>5 DEF EventPart
<1> HIDE DEF t
<1>8. IsJson(t) <=> p.nr = p.of
  BY <1>2, <1>3, <1>4, <1>6, <1>7 DEF IsJson
<1> QED
  BY <1>3, <1>6, <1>8 DEF t

\* One more line of the event.
LEMMA TextGrows ==
  ASSUME NEW p \in EventPart, NEW q \in EventPart, q = [p EXCEPT !.nr = p.nr + 1]
  PROVE  Append(Text(p, p.nr), Line("data", q)) = Text(q, q.nr)
<1>1. p.nr \in Nat /\ q.nr = p.nr + 1
  BY DEF EventPart
<1>2. \A i \in 1..p.nr : [p EXCEPT !.nr = i] = [q EXCEPT !.nr = i]
  BY DEF EventPart
<1>3. q = [q EXCEPT !.nr = q.nr]
  BY DEF EventPart
<1>4. Text(p, p.nr) = [i \in 1..p.nr |-> Line("data", [q EXCEPT !.nr = i])]
  BY <1>2 DEF Text
<1> DEFINE L(i) == Line("data", [q EXCEPT !.nr = i])
<1>5. Line("data", q) = L(p.nr + 1)
  BY <1>1, <1>3
<1> HIDE DEF L
<1>6. Append([i \in 1..p.nr |-> L(i)], L(p.nr + 1)) = [i \in 1..(p.nr + 1) |-> L(i)]
  BY <1>1
<1> QED
  BY <1>1, <1>4, <1>5, <1>6 DEF Text, L

\* The first line of an event, on its own.
LEMMA TextBegins ==
  ASSUME NEW p \in EventPart, NEW q \in EventPart, p.nr = 0, q.nr = 1
  PROVE  Append(Text(p, p.nr), Line("data", q)) = Text(q, q.nr)
<1>1. Text(p, p.nr) = <<>>
  BY DEF Text
<1>2. q = [q EXCEPT !.nr = 1]
  BY DEF EventPart
<1>3. Text(q, q.nr) = <<Line("data", q)>>
  BY <1>2 DEF Text
<1>4. Append(<<>>, Line("data", q)) = <<Line("data", q)>>
  OBVIOUS
<1> QED
  BY <1>1, <1>3, <1>4
-----------------------------------------------------------------------------
LEMMA StreamStart ==
  ASSUME StreamInit
  PROVE  StreamInv
<1>1. reader \in {"stream", "input"} /\ sent = NoPart /\ lastLine = Blank /\ arrived = <<>>
      /\ buffer = <<>> /\ yielded = <<>> /\ texts = 0 /\ outcome = "reading"
  BY DEF StreamInit
<1>2. NoPart \in EventPart /\ NoPart.nr = 0 /\ NoPart.of = 0 /\ Blank \in AnswerLine
  BY DEF NoPart, EventPart, Blank, Line, AnswerLine
<1>3. StreamTyped
  BY <1>1, <1>2 DEF StreamTyped
<1>4. Text(sent, sent.nr) = <<>>
  BY <1>1, <1>2 DEF Text
<1>5. ~ CutInside
  BY <1>1 DEF CutInside, Blank, Line
<1>6. StreamReads /\ InputReads
  BY <1>1, <1>2, <1>4, <1>5 DEF StreamReads, InputReads
<1>7. IsPrefix(yielded, arrived) /\ Len(arrived) - 1 <= Len(yielded)
  BY <1>1 DEF IsPrefix
<1> QED
  BY <1>1, <1>3, <1>6, <1>7 DEF StreamInv, WholeEventsOnly

\* The line holds the part under "data", whole or cut off.
Carries(line, p) ==
  /\ line.field = "data" /\ line.part = p
  /\ line \in {Line("data", p), CutOff(Line("data", p))}
  /\ line.whole => line = Line("data", p)

\* The lines that can arrive: a comment, a blank line between events, and a line with the
\* next part, whole or cut off.
LEMMA ArrivingLines ==
  ASSUME NEW line \in NextLines \cup LastLines
  PROVE  \/ reader = "stream" /\ line.field = ":"
         \/ line.field = "" /\ line = Blank /\ sent.nr = sent.of
         \/ \E p \in NextParts : Carries(line, p)
<1>1. \/ reader = "stream" /\ line \in {Comment, CutOff(Comment)}
      \/ line = Blank /\ sent.nr = sent.of
      \/ \E p \in NextParts : line \in {Line("data", p), CutOff(Line("data", p))}
  BY DEF NextLines, LastLines, Comments
<1>2. Comment.field = ":" /\ CutOff(Comment).field = ":" /\ Blank.field = ""
  BY DEF Comment, CutOff, Blank, Line
<1>3. ASSUME NEW p \in NextParts, line = Line("data", p)  PROVE Carries(line, p)
  BY <1>3 DEF Line, Carries
<1>4. ASSUME NEW p \in NextParts, line = CutOff(Line("data", p))  PROVE Carries(line, p)
  <2>1. Line("data", p) = [field |-> "data", part |-> p, whole |-> TRUE]
    BY DEF Line
  <2>2. line.field = "data" /\ line.part = p /\ ~ line.whole
    BY <1>4, <2>1 DEF CutOff
  <2>3. Line("data", p).whole = TRUE
    BY DEF Line
  <2>4. line # Line("data", p)
    BY <2>2, <2>3
  <2> QED
    BY <1>4, <2>2, <2>4 DEF Carries
<1>5. \A p \in NextParts : line \in {Line("data", p), CutOff(Line("data", p))} => Carries(line, p)
  BY <1>3, <1>4
<1>6. CASE \E p \in NextParts : line \in {Line("data", p), CutOff(Line("data", p))}
  <2>1. PICK p \in NextParts : Carries(line, p)
    BY <1>5, <1>6
  <2> QED
    BY <2>1
<1> QED
  BY <1>1, <1>2, <1>6

\* Whatever line the server sends next, it sends what comes after the lines before.
LEMMA SendTyped ==
  ASSUME StreamTyped, NEW line \in NextLines \cup LastLines, Send(line)
  PROVE  /\ line \in AnswerLine
         /\ sent' \in EventPart /\ sent'.nr <= sent'.of /\ (sent'.nr = 0 => sent'.of = 0)
         /\ arrived' \in Seq(Nat) /\ lastLine' \in AnswerLine
<1>1. sent \in EventPart /\ sent.nr <= sent.of /\ sent.nr \in Nat /\ sent.of \in Nat
      /\ sent.event \in Nat /\ arrived \in Seq(Nat) /\ (sent.nr = 0 => sent.of = 0)
  BY DEF StreamTyped, EventPart
<1>2. NextParts \subseteq {p \in EventPart : p.nr <= p.of /\ p.nr # 0}
  BY <1>1, StreamBounds DEF NextParts, EventPart
<1>3. Comment \in AnswerLine /\ Blank \in AnswerLine /\ CutOff(Comment) \in AnswerLine
  BY DEF Comment, Blank, Line, CutOff, NoPart, AnswerLine, EventPart
<1>4. \A p \in NextParts : Line("data", p) \in AnswerLine /\ CutOff(Line("data", p)) \in AnswerLine
  BY <1>2 DEF Line, CutOff, AnswerLine
<1>5. line \in AnswerLine
  BY <1>3, <1>4 DEF NextLines, LastLines, Comments
<1>6. line.field = "data" => line.part \in NextParts
  <2> SUFFICES ASSUME line.field = "data" PROVE line.part \in NextParts
    OBVIOUS
  <2>1. \E p \in NextParts : Carries(line, p)
    BY ArrivingLines
  <2> QED
    BY <2>1 DEF Carries
<1>7. sent' \in EventPart /\ sent'.nr <= sent'.of /\ (sent'.nr = 0 => sent'.of = 0)
  <2>1. [sent EXCEPT !.nr = 0, !.of = 0] \in EventPart
    BY <1>1 DEF EventPart
  <2>2. /\ [sent EXCEPT !.nr = 0, !.of = 0].nr <= [sent EXCEPT !.nr = 0, !.of = 0].of
        /\ [sent EXCEPT !.nr = 0, !.of = 0].of = 0
    BY <1>1 DEF EventPart
  <2> QED
    BY <1>1, <1>2, <1>6, <2>1, <2>2 DEF Send
<1>8. arrived' \in Seq(Nat)
  <2>1. line.part.event \in Nat
    BY <1>5 DEF AnswerLine, EventPart
  <2>2. Append(arrived, line.part.event) \in Seq(Nat)
    BY <1>1, <2>1
  <2>3. arrived' \in {arrived, Append(arrived, line.part.event)}
    BY DEF Send
  <2> QED
    BY <1>1, <2>2, <2>3
<1> QED
  BY <1>5, <1>7, <1>8 DEF Send

-----------------------------------------------------------------------------
\* A cut-off line leaves no JSON.
LEMMA CutIsNoJson ==
  ASSUME NEW text \in Seq(AnswerLine), NEW i \in DOMAIN text, ~ text[i].whole
  PROVE  ~ IsJson(text)
BY DEF IsJson

\* What comes next of an event begun, or the begin of the next one.
LEMMA NextPart ==
  ASSUME StreamTyped, NEW p \in NextParts
  PROVE  /\ p \in EventPart /\ p.nr # 0 /\ p.nr <= p.of
         /\ sent.nr # sent.of => p = [sent EXCEPT !.nr = sent.nr + 1]
         /\ sent.nr = sent.of => p.nr = 1
         /\ sent.nr = sent.of /\ reader = "stream" => sent.nr = 0
         /\ sent.nr = sent.of /\ reader = "input" => p.of = 1
<1>1. sent \in EventPart /\ sent.nr <= sent.of /\ sent.nr \in Nat /\ sent.of \in Nat
      /\ sent.event \in Nat
  BY DEF StreamTyped, EventPart
<1>2. CASE sent.nr < sent.of
  <2>1. p = [sent EXCEPT !.nr = sent.nr + 1]
    BY <1>2 DEF NextParts
  <2> QED
    BY <1>1, <1>2, <2>1 DEF EventPart
<1>3. CASE ~ sent.nr < sent.of
  <2>1. sent.nr = sent.of
    BY <1>1, <1>3
  <2>2. /\ p \in [event : {sent.event + 1}, kind : EventKinds, nr : {1}, of : 1..MaxLines]
        /\ IF reader = "stream" THEN sent.of = 0 ELSE p.of = 1
    BY <1>3 DEF NextParts
  <2>3. p \in EventPart /\ p.nr = 1 /\ 1 <= p.of
    BY <1>1, <2>2, StreamBounds DEF EventPart
  <2> QED
    BY <2>1, <2>2, <2>3
<1> QED
  BY <1>2, <1>3

\* stream() reads a line.
LEMMA StreamReadsLine ==
  ASSUME StreamInv, ReadLine, reader = "stream"
  PROVE  StreamInv'
<1>1. /\ outcome = "reading" /\ lastLine.whole /\ reader' = "stream" /\ texts' = texts
      /\ StreamTyped /\ StreamReads
  BY DEF ReadLine, StreamInv
<1>2. PICK line \in NextLines \cup LastLines : Send(line) /\ SseLine(line)
  BY DEF ReadLine
<1>3. /\ line \in AnswerLine
      /\ sent' \in EventPart /\ sent'.nr <= sent'.of /\ (sent'.nr = 0 => sent'.of = 0)
      /\ arrived' \in Seq(Nat) /\ lastLine' \in AnswerLine
  BY <1>1, <1>2, SendTyped
<1>4. /\ sent \in EventPart /\ sent.nr <= sent.of /\ yielded \in Seq(Nat)
      /\ buffer \in Seq(AnswerLine) /\ texts = 0 /\ sent.event \in Nat
      /\ arrived \in Seq(Nat) /\ sent.nr \in Nat /\ sent.of \in Nat
  BY <1>1 DEF StreamTyped, StreamReads, EventPart
<1>5. /\ buffer = Text(sent, sent.nr)
      /\ arrived = (IF sent.nr = sent.of /\ sent.nr # 0 /\ sent.kind \in KnownKinds
                    THEN Append(yielded, sent.event) ELSE yielded)
  BY <1>1 DEF StreamReads, CutInside
<1> USE DEF StreamTyped, StreamReads
<1>6. CASE line.field = ":"
  <2>1. UNCHANGED <<buffer, yielded, outcome, sent, arrived>> /\ lastLine' = line
    BY <1>2, <1>6 DEF SseLine, Send
  <2>2. ~ CutInside'
    BY <1>6, <2>1 DEF CutInside
  <2>3. StreamTyped' /\ StreamReads'
    BY <1>1, <1>3, <1>5, <2>1, <2>2
  <2>4. WholeEventsOnly'
    BY <1>1, <2>1 DEF StreamInv, WholeEventsOnly
  <2> QED
    BY <1>1, <2>1, <2>3, <2>4 DEF StreamInv
<1>7. CASE line.field = "" /\ sent.nr = sent.of
  <2>1. sent' = [sent EXCEPT !.nr = 0, !.of = 0] /\ arrived' = arrived /\ lastLine' = line
    BY <1>2, <1>7 DEF Send
  <2>2. sent'.nr = 0 /\ sent'.of = 0
    BY <1>4, <2>1 DEF EventPart
  <2>3. ~ CutInside'
    BY <1>7, <2>1 DEF CutInside
  <2>4. Text(sent, sent.nr)' = <<>>
    BY <2>2 DEF Text
  <2>5. outcome' = "reading" /\ buffer' = <<>> /\ yielded' = arrived
    <3>1. CASE buffer = <<>>
      <4>1. UNCHANGED <<buffer, yielded, outcome>>
        BY <1>2, <1>7, <3>1 DEF SseLine
      <4>2. sent.nr = 0
        BY <1>4, <1>5, <3>1, WholeTextIsJson
      <4> QED
        BY <1>1, <1>5, <3>1, <4>1, <4>2
    <3>2. CASE buffer # <<>>
      <4>1. ParseEvent(buffer, "reading") /\ buffer' = <<>>
        BY <1>2, <1>7, <3>2 DEF SseLine
      <4>2. sent.nr # 0
        <5>1. SUFFICES ASSUME sent.nr = 0 PROVE FALSE
          OBVIOUS
        <5>2. Text(sent, sent.nr) = <<>>
          BY <5>1 DEF Text
        <5> QED
          BY <1>5, <3>2, <5>2
      <4>3. IsJson(buffer) /\ buffer[1].part.event = sent.event /\ buffer[1].part.kind = sent.kind
        BY <1>4, <1>5, <1>7, <4>2, WholeTextIsJson
      <4> QED
        BY <1>5, <1>7, <4>1, <4>2, <4>3 DEF ParseEvent
    <3> QED
      BY <3>1, <3>2
  <2>6. yielded' \in Seq(Nat) /\ buffer' \in Seq(AnswerLine)
    BY <1>4, <2>5
  <2>7. StreamTyped' /\ StreamReads'
    BY <1>1, <1>3, <1>4, <2>1, <2>2, <2>3, <2>4, <2>5, <2>6
  <2>8. IsPrefix(yielded, arrived)' /\ (Len(arrived) - 1 <= Len(yielded))'
    <3>1. IsPrefix(yielded', yielded')
      BY <2>6, PrefixOfSelf
    <3>2. Len(yielded') \in Nat
      BY <2>6
    <3> QED
      BY <2>1, <2>5, <3>1, <3>2
  <2>9. WholeEventsOnly'
    BY <1>1, <1>4, <2>5, <2>8 DEF WholeEventsOnly
  <2> QED
    BY <1>1, <2>5, <2>7, <2>9 DEF StreamInv
<1>8. CASE \E p \in NextParts : Carries(line, p)
  <2>1. PICK p \in NextParts : Carries(line, p)
    BY <1>8
  <2> USE DEF Carries
  <2>2. /\ p \in EventPart /\ p.nr # 0 /\ p.nr <= p.of
        /\ sent.nr # sent.of => p = [sent EXCEPT !.nr = sent.nr + 1]
        /\ sent.nr = sent.of => p.nr = 1
        /\ sent.nr = sent.of => sent.nr = 0
    BY <1>1, <2>1, NextPart
  <2>3. /\ sent' = p /\ lastLine' = line
        /\ buffer' = Append(buffer, line) /\ UNCHANGED <<yielded, outcome>>
    BY <1>2, <2>1 DEF Send, SseLine
  <2>4. arrived = yielded
    BY <1>4, <1>5, <2>2
  <2>5. Append(Text(sent, sent.nr), Line("data", p)) = Text(p, p.nr)
    <3>1. CASE sent.nr = sent.of
      BY <1>4, <2>2, <3>1, TextBegins
    <3>2. CASE sent.nr # sent.of
      BY <1>4, <2>2, <3>2, TextGrows
    <3> QED
      BY <3>1, <3>2
  <2>6. buffer' \in Seq(AnswerLine)
    BY <1>3, <1>4, <2>3
  <2>7. StreamTyped'
    BY <1>1, <1>3, <1>4, <2>3, <2>6
  <2>8. Skipped(p.kind) <=> p.kind \notin KnownKinds
    BY DEF Skipped
  <2>9. arrived' = (IF line.whole /\ p.nr = p.of /\ p.kind \in KnownKinds
                    THEN Append(arrived, p.event) ELSE arrived)
    BY <1>2, <2>1, <2>8 DEF Send
  <2>10. StreamReads'
    <3>1. CASE line.whole
      <4>1. ~ CutInside'
        BY <2>3, <3>1 DEF CutInside
      <4>2. buffer' = Text(p, p.nr)
        BY <1>5, <2>1, <2>3, <2>5, <3>1
      <4> QED
        BY <1>1, <1>4, <2>2, <2>3, <2>4, <2>9, <3>1, <4>1, <4>2
    <3>2. CASE ~ line.whole
      <4>1. arrived' = yielded'
        BY <2>3, <2>4, <2>9, <3>2
      <4>2. Len(buffer) \in Nat /\ Len(buffer') = Len(buffer) + 1
        BY <1>4, <2>3
      <4>3. buffer'[Len(buffer) + 1] = line /\ Len(buffer) + 1 \in DOMAIN buffer'
        BY <1>3, <1>4, <2>3, <4>2
      <4>4. ~ buffer'[Len(buffer) + 1].whole
        BY <3>2, <4>3
      <4>5. (\E i \in DOMAIN buffer : ~ buffer[i].whole)'
        BY <4>3, <4>4
      <4>6. CutInside'
        BY <2>1, <2>3, <3>2 DEF CutInside
      <4> QED
        BY <1>1, <1>4, <4>1, <4>5, <4>6
    <3> QED
      BY <3>1, <3>2
  <2>11. IsPrefix(yielded, arrived)' /\ (Len(arrived) - 1 <= Len(yielded))'
    <3>1. p.event \in Nat
      BY <2>2 DEF EventPart
    <3>2. IsPrefix(yielded, yielded) /\ IsPrefix(yielded, Append(yielded, p.event))
      BY <1>4, <3>1, PrefixOfSelf, PrefixOfLonger
    <3>3. Len(yielded) - 1 <= Len(yielded) /\ Len(Append(yielded, p.event)) - 1 <= Len(yielded)
      BY <1>4, <3>1
    <3> QED
      BY <2>3, <2>4, <2>9, <3>2, <3>3
  <2>12. WholeEventsOnly'
    BY <1>1, <1>4, <2>3, <2>11 DEF WholeEventsOnly
  <2> QED
    BY <1>1, <2>3, <2>7, <2>10, <2>12 DEF StreamInv
<1> QED
  BY <1>2, <1>6, <1>7, <1>8, ArrivingLines

\* stream_input() reads a line.
LEMMA InputReadsLine ==
  ASSUME StreamInv, ReadLine, reader = "input"
  PROVE  StreamInv'
<1>1. /\ outcome = "reading" /\ lastLine.whole /\ reader' = "input"
      /\ StreamTyped /\ InputReads
  BY DEF ReadLine, StreamInv
<1>2. PICK line \in NextLines \cup LastLines : Send(line) /\ NdjsonLine(line)
  BY <1>1 DEF ReadLine
<1>3. /\ line \in AnswerLine
      /\ sent' \in EventPart /\ sent'.nr <= sent'.of /\ (sent'.nr = 0 => sent'.of = 0)
      /\ arrived' \in Seq(Nat) /\ lastLine' \in AnswerLine
  BY <1>1, <1>2, SendTyped
<1>4. /\ sent \in EventPart /\ yielded \in Seq(Nat) /\ texts \in Nat
      /\ arrived = yielded /\ sent.nr = sent.of /\ texts = 0
  BY <1>1 DEF StreamTyped, InputReads, CutInside
<1>5. outcome' = "reading" /\ buffer' = buffer /\ lastLine' = line
  BY <1>1, <1>2 DEF NdjsonLine, Send
<1>6. CASE line.field = ""
  <2>1. sent' = [sent EXCEPT !.nr = 0, !.of = 0] /\ arrived' = arrived
    BY <1>2, <1>6 DEF Send
  <2>2. sent'.nr = sent'.of
    BY <1>4, <2>1 DEF EventPart
  <2>3. yielded' = yielded /\ texts' = texts
    BY <1>2, <1>6 DEF NdjsonLine
  <2>4. StreamTyped' /\ InputReads'
    BY <1>1, <1>3, <1>4, <1>5, <2>1, <2>2, <2>3 DEF StreamTyped, InputReads
  <2>5. WholeEventsOnly'
    BY <1>1, <1>4, <1>5, <2>1, <2>3 DEF StreamInv, WholeEventsOnly
  <2> QED
    BY <1>1, <2>4, <2>5 DEF StreamInv
<1>7. CASE \E p \in NextParts : Carries(line, p)
  <2>1. PICK p \in NextParts : Carries(line, p)
    BY <1>7
  <2>2. line.field = "data" /\ line.part = p
    BY <2>1 DEF Carries
  <2>3. p \in EventPart /\ p.nr = 1 /\ p.of = 1 /\ p.event \in Nat
    BY <1>1, <1>4, <2>1, NextPart DEF EventPart
  <2>4. IsJson(<<line>>) <=> line.whole
    <3>1. p = [p EXCEPT !.nr = 1]
      BY <2>3 DEF EventPart
    <3>2. Len(<<line>>) = 1 /\ <<line>>[1] = line /\ <<line>> # <<>> /\ DOMAIN <<line>> = {1}
      OBVIOUS
    <3> QED
      BY <2>2, <2>3, <3>1, <3>2 DEF IsJson
  <2>5. sent' = p
    BY <1>2, <2>2 DEF Send
  <2>6. CASE line.whole
    <3>1. ~ Skipped(p.kind)
      BY <1>1 DEF Skipped
    <3>2. arrived' = Append(arrived, p.event) /\ yielded' = Append(yielded, p.event) /\ texts' = texts
      BY <1>2, <2>2, <2>3, <2>4, <2>6, <3>1 DEF Send, NdjsonLine
    <3>3. yielded' = arrived' /\ yielded' \in Seq(Nat)
      BY <1>3, <1>4, <3>2
    <3>4. StreamTyped' /\ InputReads'
      BY <1>1, <1>3, <1>4, <1>5, <2>3, <2>5, <3>2, <3>3 DEF StreamTyped, InputReads
    <3>5. IsPrefix(yielded, arrived)' /\ (Len(arrived) - 1 <= Len(yielded))'
      BY <3>3, PrefixOfSelf
    <3>6. WholeEventsOnly'
      BY <1>1, <1>4, <1>5, <3>2, <3>5 DEF WholeEventsOnly
    <3> QED
      BY <1>1, <3>4, <3>6 DEF StreamInv
  <2>7. CASE ~ line.whole
    <3>1. arrived' = arrived /\ yielded' = yielded /\ texts' = 1
      BY <1>2, <1>4, <2>2, <2>4, <2>7 DEF Send, NdjsonLine
    <3>2. CutInside' /\ InsideEvent'
      BY <1>5, <2>2, <2>7 DEF CutInside, InsideEvent
    <3>3. StreamTyped' /\ InputReads'
      BY <1>1, <1>3, <1>4, <1>5, <2>3, <2>5, <3>1, <3>2 DEF StreamTyped, InputReads
    <3>4. IsPrefix(yielded, arrived)' /\ (Len(arrived) - 1 <= Len(yielded))'
      BY <1>4, <3>1, PrefixOfSelf
    <3>5. WholeEventsOnly'
      BY <1>1, <1>5, <3>2, <3>4 DEF WholeEventsOnly
    <3> QED
      BY <1>1, <3>3, <3>5 DEF StreamInv
  <2> QED
    BY <2>6, <2>7
<1> QED
  BY <1>1, <1>2, <1>6, <1>7, ArrivingLines

\* The answer ends in order: what is in the buffer is the last event, or raises.
LEMMA ClosedStep ==
  ASSUME StreamInv, Closed
  PROVE  StreamInv'
<1>1. /\ outcome = "reading" /\ StreamTyped /\ reader \in {"stream", "input"}
      /\ UNCHANGED <<reader, sent, lastLine, arrived, texts>>
  BY DEF Closed, StreamInv, StreamTyped
<1>2. InsideEvent' <=> InsideEvent
  BY <1>1 DEF InsideEvent
<1>3. /\ sent \in EventPart /\ sent.nr <= sent.of /\ yielded \in Seq(Nat) /\ arrived \in Seq(Nat)
      /\ buffer \in Seq(AnswerLine) /\ sent.event \in Nat
  BY <1>1 DEF StreamTyped, EventPart
<1>4. CASE reader = "input"
  <2>1. outcome' = "ended" /\ buffer' = buffer /\ yielded' = yielded /\ arrived = yielded
    BY <1>1, <1>4 DEF Closed, StreamInv, InputReads
  <2>2. StreamTyped'
    BY <1>1, <2>1 DEF StreamTyped
  <2>3. WholeEventsOnly'
    BY <1>1, <1>2, <1>4, <2>1 DEF StreamInv, WholeEventsOnly
  <2> QED
    BY <2>1, <2>2, <2>3 DEF StreamInv
<1>5. CASE reader = "stream"
  <2>1. SseEnd /\ StreamReads /\ texts = 0
    BY <1>1, <1>5 DEF Closed, StreamInv, StreamReads
  <2>2. \/ outcome' = "ended" /\ ~ InsideEvent /\ yielded' = arrived
        \/ outcome' = "raised" /\ InsideEvent /\ yielded' = yielded /\ arrived = yielded
    <3>1. CASE CutInside
      <4>1. PICK i \in DOMAIN buffer : ~ buffer[i].whole
        BY <2>1, <3>1 DEF StreamReads
      <4>2. buffer # <<>> /\ ~ IsJson(buffer)
        BY <1>3, <4>1, CutIsNoJson
      <4> QED
        BY <2>1, <3>1, <4>2 DEF SseEnd, ParseEvent, StreamReads, CutInside, InsideEvent
    <3>2. CASE ~ CutInside
      <4>1. /\ buffer = Text(sent, sent.nr)
            /\ arrived = (IF sent.nr = sent.of /\ sent.nr # 0 /\ sent.kind \in KnownKinds
                          THEN Append(yielded, sent.event) ELSE yielded)
            /\ InsideEvent <=> sent.nr # sent.of
        BY <2>1, <3>2 DEF StreamReads, CutInside, InsideEvent
      <4>2. CASE sent.nr = 0
        <5>1. buffer = <<>>
          BY <4>1, <4>2 DEF Text
        <5>2. sent.of = 0 /\ ~ InsideEvent
          BY <1>1, <4>1, <4>2 DEF StreamTyped
        <5> QED
          BY <2>1, <4>1, <4>2, <5>1, <5>2 DEF SseEnd
      <4>3. CASE sent.nr # 0
        <5>1. /\ IsJson(buffer) <=> sent.nr = sent.of
              /\ buffer # <<>> /\ buffer[1].part.event = sent.event
              /\ buffer[1].part.kind = sent.kind
          BY <1>3, <4>1, <4>3, WholeTextIsJson
        <5> QED
          BY <2>1, <4>1, <4>3, <5>1 DEF SseEnd, ParseEvent
      <4> QED
        BY <4>2, <4>3
    <3> QED
      BY <3>1, <3>2
  <2>3. buffer' = buffer /\ yielded' \in Seq(Nat)
    BY <1>3, <2>1, <2>2 DEF SseEnd
  <2>4. StreamTyped'
    BY <1>1, <2>2, <2>3 DEF StreamTyped
  <2>5. IsPrefix(yielded, arrived)' /\ (Len(arrived) - 1 <= Len(yielded))'
    BY <1>1, <1>3, <2>2, PrefixOfSelf
  <2>6. WholeEventsOnly'
    BY <1>1, <1>2, <1>5, <2>1, <2>2, <2>5 DEF WholeEventsOnly
  <2> QED
    BY <2>2, <2>4, <2>6 DEF StreamInv
<1> QED
  BY <1>1, <1>4, <1>5

LEMMA BrokenStep ==
  ASSUME StreamInv, Broken
  PROVE  StreamInv'
<1>1. outcome' = "broken" /\ UNCHANGED <<reader, sent, lastLine, arrived, buffer, yielded, texts>>
  BY DEF Broken
<1>2. StreamTyped'
  BY <1>1 DEF StreamInv, StreamTyped
<1>3. InsideEvent' <=> InsideEvent
  BY <1>1 DEF InsideEvent
<1>4. WholeEventsOnly'
  BY <1>1, <1>3 DEF StreamInv, WholeEventsOnly
<1> QED
  BY <1>1, <1>2, <1>4 DEF StreamInv

LEMMA StreamStays ==
  ASSUME StreamInv, UNCHANGED streamVars
  PROVE  StreamInv'
<1>1. UNCHANGED <<reader, sent, lastLine, arrived, buffer, yielded, texts, outcome>>
  BY DEF streamVars
<1>2. (InsideEvent' <=> InsideEvent) /\ (CutInside' <=> CutInside)
  BY <1>1 DEF InsideEvent, CutInside
<1> QED
  BY <1>1, <1>2 DEF StreamInv, StreamTyped, StreamReads, InputReads, WholeEventsOnly

LEMMA StreamsAlways ==
  ClientSpec => []StreamInv
<1>1. ClientInit => StreamInv
  BY StreamStart DEF ClientInit
<1>2. StreamInv /\ [ClientNext]_clientVars => StreamInv'
  <2> SUFFICES ASSUME StreamInv, [ClientNext]_clientVars PROVE StreamInv'
    OBVIOUS
  <2>1. CASE StreamNext
    <3>1. reader = "stream" \/ reader = "input"
      BY DEF StreamInv, StreamTyped
    <3> QED
      BY <2>1, <3>1, StreamReadsLine, InputReadsLine, ClosedStep, BrokenStep DEF StreamNext
  <2>2. CASE UNCHANGED streamVars
    BY <2>2, StreamStays
  <2> QED
    BY <2>1, <2>2 DEF ClientNext, clientVars
<1> QED
  BY <1>1, <1>2, PTL DEF ClientSpec

\* A reader hands on the events that arrived, each once, whole and in order, and raises only
\* when the answer ended inside one: for answers of any events, each of any number of lines,
\* with comments anywhere, that end or break off after any line or inside one.
THEOREM StreamsAreWhole ==
  ClientSpec => []WholeEventsOnly
<1>1. StreamInv => WholeEventsOnly
  BY DEF StreamInv
<1> QED
  BY <1>1, StreamsAlways, PTL

-----------------------------------------------------------------------------
(* Connection strings                                                      *)

LEMMA GreatestUpTo ==
  ASSUME NEW n \in Nat, NEW T \in SUBSET (1..n), T # {}
  PROVE  \E m \in T : \A k \in T : m >= k
<1> DEFINE R == {i \in Nat : n - i \in T}
<1>1. PICK t \in T : TRUE
  OBVIOUS
<1>2. n - t \in R
  BY <1>1
<1>3. PICK r \in R : \A q \in R : r <= q
  BY <1>2, LeastOf
<1>4. n - r \in T
  BY <1>3
<1>5. ASSUME NEW k \in T PROVE n - r >= k
  <2>1. n - k \in R /\ k \in Nat
    OBVIOUS
  <2>2. r <= n - k /\ r \in Nat
    BY <1>3, <2>1
  <2> QED
    BY <2>1, <2>2
<1> QED
  BY <1>4, <1>5

\* The first and the last place of a set of places.
LEMMA FirstAndLast ==
  ASSUME NEW n \in Nat, NEW T \in SUBSET (1..n), T # {}
  PROVE  /\ Min(T) \in T /\ \A k \in T : Min(T) <= k
         /\ Max(T) \in T /\ \A k \in T : k <= Max(T)
<1>1. T \in SUBSET Nat
  OBVIOUS
<1>2. \E m \in T : \A k \in T : m <= k
  BY <1>1, LeastOf
<1>3. \E m \in T : \A k \in T : m >= k
  BY GreatestUpTo
<1>4. Min(T) \in T /\ \A k \in T : Min(T) <= k
  BY <1>2 DEF Min
<1>5. Max(T) \in T /\ \A k \in T : Max(T) >= k
  BY <1>3 DEF Max
<1> QED
  BY <1>1, <1>4, <1>5

LEMMA NotSetIsNone ==
  NotSet # <<>> /\ NotSet \notin Strings /\ <<>> \in Strings
<1>1. <<>> \in Strings
  BY DEF Strings
<1> QED
  BY <1>1, EnvironmentsAreStrings

LEMMA PlainWords ==
  ASSUME NEW c \in Chars
  PROVE  /\ Plain(c) \in Word /\ <<Plain(c)>> \in Strings /\ Len(<<Plain(c)>>) = 1
         /\ <<Plain(c)>>[1] = Plain(c)
         /\ \A C : Is(Plain(c), C) <=> c \in C
<1>1. Plain(c) \in Word
  BY DEF Plain, Word
<1> QED
  BY <1>1 DEF Plain, Is, Strings

\* Two texts, one behind the other.
LEMMA Joined ==
  ASSUME NEW a \in Strings, NEW b \in Strings
  PROVE  /\ a \o b \in Strings /\ Len(a \o b) = Len(a) + Len(b)
         /\ Len(a) \in Nat /\ Len(b) \in Nat
         /\ \A i \in 1..Len(a) : (a \o b)[i] = a[i]
         /\ \A i \in 1..Len(b) : (a \o b)[Len(a) + i] = b[i]
         /\ DOMAIN (a \o b) = 1..(Len(a) + Len(b))
<1>1. a \in Seq(Word) /\ b \in Seq(Word) /\ Len(a) \in Nat /\ Len(b) \in Nat
  BY DEF Strings
<1>2. /\ a \o b \in Seq(Word)
      /\ Len(a \o b) = Len(a) + Len(b)
      /\ \A i \in 1 .. Len(a) + Len(b) : (a \o b)[i] = IF i <= Len(a) THEN a[i] ELSE b[i - Len(a)]
  BY <1>1, ConcatProperties
<1>3. ASSUME NEW i \in 1..Len(a) PROVE (a \o b)[i] = a[i]
  BY <1>1, <1>2
<1>4. ASSUME NEW i \in 1..Len(b) PROVE (a \o b)[Len(a) + i] = b[i]
  <2>1. Len(a) + i \in 1..(Len(a) + Len(b)) /\ ~ (Len(a) + i <= Len(a)) /\ (Len(a) + i) - Len(a) = i
    BY <1>1
  <2> QED
    BY <1>2, <2>1
<1> QED
  BY <1>1, <1>2, <1>3, <1>4 DEF Strings

LEMMA Regrouped ==
  ASSUME NEW a \in Strings, NEW b \in Strings, NEW c \in Strings
  PROVE  (a \o b) \o c = a \o (b \o c)
<1>1. a \in Seq(Word) /\ b \in Seq(Word) /\ c \in Seq(Word)
  BY DEF Strings
<1> QED
  BY <1>1, ConcatAssociative

LEMMA TailOf ==
  ASSUME NEW s \in Strings, s # <<>>
  PROVE  /\ Tail(s) \in Strings /\ Len(Tail(s)) = Len(s) - 1
         /\ \A i \in 1..Len(Tail(s)) : Tail(s)[i] = s[i + 1]
<1>1. s \in Seq(Word)
  BY DEF Strings
<1> QED
  BY <1>1, HeadTailProperties DEF Strings

LEMMA MarksAre ==
  ASSUME NEW s \in Strings, NEW C
  PROVE  /\ Marks(s, C) \in SUBSET (1..Len(s)) /\ Len(s) \in Nat
         /\ Marks(s, C) = {} <=> \A i \in 1..Len(s) : ~ Is(s[i], C)
         /\ \A i \in 1..Len(s) : i \in Marks(s, C) <=> Is(s[i], C)
BY DEF Marks, Strings

LEMMA FirstMark ==
  ASSUME NEW s \in Strings, NEW C, Marks(s, C) # {}
  PROVE  /\ Min(Marks(s, C)) \in 1..Len(s) /\ Is(s[Min(Marks(s, C))], C)
         /\ \A i \in 1..Len(s) : i < Min(Marks(s, C)) => ~ Is(s[i], C)
         /\ Max(Marks(s, C)) \in 1..Len(s) /\ Is(s[Max(Marks(s, C))], C)
         /\ \A i \in 1..Len(s) : Max(Marks(s, C)) < i => ~ Is(s[i], C)
<1> DEFINE T == Marks(s, C)
           m == Min(T)
           x == Max(T)
<1>1. T \in SUBSET (1..Len(s)) /\ Len(s) \in Nat /\ \A i \in 1..Len(s) : i \in T <=> Is(s[i], C)
  BY MarksAre
<1>2. T # {}
  OBVIOUS
<1> HIDE DEF T
<1>3. /\ m \in T /\ \A k \in T : m <= k
      /\ x \in T /\ \A k \in T : k <= x
  BY <1>1, <1>2, FirstAndLast
<1> HIDE DEF m, x
<1>4. /\ m \in 1..Len(s) /\ Is(s[m], C)
      /\ x \in 1..Len(s) /\ Is(s[x], C)
  BY <1>1, <1>3
<1>5. \A i \in 1..Len(s) : i < m => ~ Is(s[i], C)
  BY <1>1, <1>3, <1>4
<1>6. \A i \in 1..Len(s) : x < i => ~ Is(s[i], C)
  BY <1>1, <1>3, <1>4
<1> QED
  BY <1>4, <1>5, <1>6 DEF m, x, T

\* A part of a text.
LEMMA PartOf ==
  ASSUME NEW s \in Strings, NEW m \in Nat, NEW n \in Nat, 1 <= m, n <= Len(s)
  PROVE  /\ SubSeq(s, m, n) \in Strings
         /\ Len(SubSeq(s, m, n)) = (IF m <= n THEN n - m + 1 ELSE 0)
         /\ \A i \in 1..(n - m + 1) : SubSeq(s, m, n)[i] = s[m + i - 1]
<1>1. s \in Seq(Word) /\ Len(s) \in Nat /\ \A i \in 1..Len(s) : s[i] \in Word
  BY DEF Strings
<1>2. \A i \in m..n : s[i] \in Word
  BY <1>1
<1> QED
  BY <1>1, <1>2, SubSeqProperties DEF Strings

\* Texts with the same words are the same.
LEMMA SameText ==
  ASSUME NEW s \in Strings, NEW t \in Strings, Len(s) = Len(t), \A i \in 1..Len(s) : s[i] = t[i]
  PROVE  s = t
BY SeqEqual DEF Strings

LEMMA JoinedMarks ==
  ASSUME NEW a \in Strings, NEW b \in Strings, NEW C
  PROVE  Marks(a \o b, C) = {} <=> Marks(a, C) = {} /\ Marks(b, C) = {}
<1> DEFINE s == a \o b
<1>1. /\ s \in Strings /\ Len(s) = Len(a) + Len(b) /\ Len(a) \in Nat /\ Len(b) \in Nat
      /\ \A i \in 1..Len(a) : s[i] = a[i]
      /\ \A i \in 1..Len(b) : s[Len(a) + i] = b[i]
  BY Joined
<1> HIDE DEF s
<1>2. /\ Marks(s, C) = {} <=> \A i \in 1..Len(s) : ~ Is(s[i], C)
      /\ Marks(a, C) = {} <=> \A i \in 1..Len(a) : ~ Is(a[i], C)
      /\ Marks(b, C) = {} <=> \A i \in 1..Len(b) : ~ Is(b[i], C)
  BY <1>1, MarksAre
<1>3. ASSUME \A i \in 1..Len(s) : ~ Is(s[i], C)
      PROVE  /\ \A i \in 1..Len(a) : ~ Is(a[i], C)
             /\ \A i \in 1..Len(b) : ~ Is(b[i], C)
  <2>1. ASSUME NEW i \in 1..Len(a) PROVE ~ Is(a[i], C)
    BY <1>1, <1>3, <2>1
  <2>2. ASSUME NEW i \in 1..Len(b) PROVE ~ Is(b[i], C)
    <3>1. Len(a) + i \in 1..Len(s)
      BY <1>1
    <3> QED
      BY <1>1, <1>3, <3>1
  <2> QED
    BY <2>1, <2>2
<1>4. ASSUME /\ \A i \in 1..Len(a) : ~ Is(a[i], C)
             /\ \A i \in 1..Len(b) : ~ Is(b[i], C)
      PROVE  \A i \in 1..Len(s) : ~ Is(s[i], C)
  <2> SUFFICES ASSUME NEW i \in 1..Len(s) PROVE ~ Is(s[i], C)
    OBVIOUS
  <2>1. CASE i <= Len(a)
    BY <1>1, <1>4, <2>1
  <2>2. CASE ~ i <= Len(a)
    <3>1. PICK j : j = i - Len(a)
      OBVIOUS
    <3>2. j \in 1..Len(b) /\ i = Len(a) + j
      BY <1>1, <2>2, <3>1
    <3> QED
      BY <1>1, <1>4, <3>2
  <2> QED
    BY <2>1, <2>2
<1> QED
  BY <1>2, <1>3, <1>4 DEF s

\* The parts of a text at its first mark, k.
LEMMA SplitAt ==
  ASSUME NEW s \in Strings, NEW C, NEW k \in 1..Len(s), Is(s[k], C),
         \A i \in 1..Len(s) : i < k => ~ Is(s[i], C)
  PROVE  /\ Marks(s, C) # {}
         /\ Before(s, C) = SubSeq(s, 1, k - 1)
         /\ From(s, C) = SubSeq(s, k, Len(s))
         /\ After(s, C) = Tail(SubSeq(s, k, Len(s)))
<1>1. Len(s) \in Nat /\ k - 1 \in Nat /\ k \in Nat
  BY DEF Strings
<1>2. Marks(s, C) # {}
  BY MarksAre
<1>3. PICK m : m = Min(Marks(s, C))
  OBVIOUS
<1>4. m \in 1..Len(s) /\ Is(s[m], C) /\ \A i \in 1..Len(s) : i < m => ~ Is(s[i], C)
  BY <1>2, <1>3, FirstMark
<1>5. m = k
  BY <1>1, <1>4
<1>6. Before(s, C) = SubSeq(s, 1, k - 1)
  BY <1>2, <1>3, <1>5 DEF Before
<1>7. Len(SubSeq(s, 1, k - 1)) = k - 1
  <2>1. 1 \in Nat /\ k - 1 <= Len(s)
    BY <1>1
  <2>2. Len(SubSeq(s, 1, k - 1)) = (IF 1 <= k - 1 THEN (k - 1) - 1 + 1 ELSE 0)
    BY <1>1, <2>1, PartOf
  <2> QED
    BY <1>1, <2>2
<1>8. From(s, C) = SubSeq(s, k, Len(s))
  BY <1>1, <1>6, <1>7 DEF From
<1> QED
  BY <1>2, <1>6, <1>8 DEF After

\* What is before the first mark has none, and a text without one ends before it.
LEMMA BeforeHasNone ==
  ASSUME NEW s \in Strings, NEW C
  PROVE  /\ Before(s, C) \in Strings /\ Marks(Before(s, C), C) = {}
         /\ Marks(s, C) = {} => Before(s, C) = s /\ From(s, C) = <<>> /\ After(s, C) = NotSet
         /\ Len(Before(s, C)) <= Len(s)
         /\ \A i \in 1..Len(Before(s, C)) : Before(s, C)[i] = s[i]
         /\ \A D : Marks(s, D) = {} => Marks(Before(s, C), D) = {}
<1>1. Len(s) \in Nat /\ s \in Seq(Word)
  BY DEF Strings
<1>2. CASE Marks(s, C) = {}
  <2>1. Before(s, C) = s /\ After(s, C) = NotSet
    BY <1>2 DEF Before, After
  <2>2. From(s, C) = <<>>
    BY <1>1, <2>1, SubSeqEmpty DEF From
  <2> QED
    BY <1>1, <1>2, <2>1, <2>2
<1>3. CASE Marks(s, C) # {}
  <2>1. PICK m : m = Min(Marks(s, C))
    OBVIOUS
  <2>2. m \in 1..Len(s) /\ \A i \in 1..Len(s) : i < m => ~ Is(s[i], C)
    BY <1>3, <2>1, FirstMark
  <2>3. PICK b : b = Before(s, C)
    OBVIOUS
  <2>4. b = SubSeq(s, 1, m - 1) /\ m - 1 \in Nat /\ m - 1 <= Len(s)
    BY <1>1, <1>3, <2>1, <2>2, <2>3 DEF Before
  <2>5. /\ b \in Strings
        /\ Len(b) = (IF 1 <= m - 1 THEN m - 1 - 1 + 1 ELSE 0)
        /\ \A i \in 1..(m - 1 - 1 + 1) : b[i] = s[1 + i - 1]
    BY <2>4, PartOf
  <2>6. Len(b) = m - 1 /\ \A i \in 1..(m - 1) : b[i] = s[i]
    BY <2>2, <2>4, <2>5
  <2>7. \A i \in 1..Len(b) : ~ Is(b[i], C)
    BY <1>1, <2>2, <2>6
  <2>8. Marks(b, C) = {}
    BY <2>5, <2>7, MarksAre
  <2>9. ASSUME NEW D, Marks(s, D) = {} PROVE Marks(b, D) = {}
    <3>1. \A i \in 1..Len(s) : ~ Is(s[i], D)
      BY <2>9, MarksAre
    <3>2. \A i \in 1..Len(b) : ~ Is(b[i], D)
      BY <1>1, <2>4, <2>6, <3>1
    <3> QED
      BY <2>5, <3>2, MarksAre
  <2> QED
    BY <1>3, <2>3, <2>4, <2>5, <2>6, <2>8, <2>9
<1> QED
  BY <1>2, <1>3

\* A text without marks, and one that begins with a mark behind it.
LEMMA SplitJoined ==
  ASSUME NEW a \in Strings, NEW b \in Strings, NEW C, Marks(a, C) = {},
         b = <<>> \/ Is(b[1], C)
  PROVE  /\ Before(a \o b, C) = a /\ From(a \o b, C) = b
         /\ After(a \o b, C) = (IF b = <<>> THEN NotSet ELSE Tail(b))
<1> DEFINE s == a \o b
<1>1. /\ s \in Strings /\ Len(s) = Len(a) + Len(b) /\ Len(a) \in Nat /\ Len(b) \in Nat
      /\ \A i \in 1..Len(a) : s[i] = a[i]
      /\ \A i \in 1..Len(b) : s[Len(a) + i] = b[i]
  BY Joined
<1>2. a \in Seq(Word) /\ b \in Seq(Word)
  BY DEF Strings
<1>3. CASE b = <<>>
  <2>1. s = a
    BY <1>2, <1>3, ConcatEmptySeq
  <2> QED
    BY <1>3, <2>1, BeforeHasNone
<1>4. CASE b # <<>>
  <2> DEFINE k == Len(a) + 1
  <2>1. Len(b) >= 1 /\ k \in 1..Len(s) /\ k \in Nat
    BY <1>1, <1>2, <1>4
  <2>2. s[k] = b[1]
    BY <1>1, <2>1
  <2>3. \A i \in 1..Len(a) : ~ Is(a[i], C)
    BY MarksAre
  <2>4. \A i \in 1..Len(s) : i < k => ~ Is(s[i], C)
    BY <1>1, <2>3
  <2>5. k - 1 = Len(a)
    BY <1>1
  <2> HIDE DEF s
  <2>6. /\ Before(s, C) = SubSeq(s, 1, k - 1)
        /\ Marks(s, C) # {}
        /\ From(s, C) = SubSeq(s, k, Len(s))
        /\ After(s, C) = Tail(SubSeq(s, k, Len(s)))
    BY <1>1, <1>4, <2>1, <2>2, <2>4, SplitAt
  <2>7. SubSeq(s, 1, k - 1) = a
    <3>1. PICK t : t = SubSeq(s, 1, Len(a))
      OBVIOUS
    <3>2. /\ t \in Strings
          /\ Len(t) = (IF 1 <= Len(a) THEN Len(a) - 1 + 1 ELSE 0)
          /\ \A i \in 1..(Len(a) - 1 + 1) : t[i] = s[1 + i - 1]
      BY <1>1, <3>1, PartOf
    <3>3. Len(t) = Len(a) /\ \A i \in 1..Len(a) : t[i] = a[i]
      BY <1>1, <3>2
    <3>4. t = a
      BY <3>2, <3>3, SameText
    <3> QED
      BY <2>5, <3>1, <3>4
  <2>8. SubSeq(s, k, Len(s)) = b
    <3>1. PICK t : t = SubSeq(s, k, Len(s))
      OBVIOUS
    <3>2. /\ t \in Strings
          /\ Len(t) = (IF k <= Len(s) THEN Len(s) - k + 1 ELSE 0)
          /\ \A i \in 1..(Len(s) - k + 1) : t[i] = s[k + i - 1]
      BY <1>1, <2>1, <3>1, PartOf
    <3>3. Len(t) = Len(b)
      BY <1>1, <2>1, <3>2
    <3>4. ASSUME NEW i \in 1..Len(b) PROVE t[i] = b[i]
      <4>1. i \in 1..(Len(s) - k + 1) /\ k + i - 1 = Len(a) + i
        BY <1>1, <2>1
      <4> QED
        BY <1>1, <3>2, <4>1
    <3>5. t = b
      BY <3>2, <3>3, <3>4, SameText
    <3> QED
      BY <3>1, <3>5
  <2> QED
    BY <1>4, <2>6, <2>7, <2>8 DEF s
<1> QED
  BY <1>3, <1>4

\* A mark in the first of two texts ends it, whatever is behind.
LEMMA SplitFirst ==
  ASSUME NEW a \in Strings, NEW b \in Strings, NEW C, Marks(a, C) # {}
  PROVE  Before(a \o b, C) = Before(a, C)
<1> DEFINE s == a \o b
<1>1. /\ s \in Strings /\ Len(s) = Len(a) + Len(b) /\ Len(a) \in Nat /\ Len(b) \in Nat
      /\ \A i \in 1..Len(a) : s[i] = a[i]
  BY Joined
<1>2. PICK m : m = Min(Marks(a, C))
  OBVIOUS
<1>3. m \in 1..Len(a) /\ Is(a[m], C) /\ \A i \in 1..Len(a) : i < m => ~ Is(a[i], C)
  BY <1>2, FirstMark
<1> HIDE DEF s
<1>4. m \in 1..Len(s) /\ Is(s[m], C) /\ \A i \in 1..Len(s) : i < m => ~ Is(s[i], C)
  BY <1>1, <1>3
<1>5. Before(s, C) = SubSeq(s, 1, m - 1) /\ Before(a, C) = SubSeq(a, 1, m - 1)
  BY <1>1, <1>3, <1>4, SplitAt
<1>6. SubSeq(s, 1, m - 1) = SubSeq(a, 1, m - 1)
  <2>1. PICK t, u : t = SubSeq(s, 1, m - 1) /\ u = SubSeq(a, 1, m - 1)
    OBVIOUS
  <2>2. m - 1 \in Nat /\ m - 1 <= Len(a) /\ m - 1 <= Len(s)
    BY <1>1, <1>3
  <2>3. /\ t \in Strings
        /\ Len(t) = (IF 1 <= m - 1 THEN m - 1 - 1 + 1 ELSE 0)
        /\ \A i \in 1..(m - 1 - 1 + 1) : t[i] = s[1 + i - 1]
    BY <1>1, <2>1, <2>2, PartOf
  <2>4. /\ u \in Strings
        /\ Len(u) = (IF 1 <= m - 1 THEN m - 1 - 1 + 1 ELSE 0)
        /\ \A i \in 1..(m - 1 - 1 + 1) : u[i] = a[1 + i - 1]
    BY <1>1, <2>1, <2>2, PartOf
  <2>5. Len(t) = m - 1 /\ Len(u) = m - 1 /\ \A i \in 1..(m - 1) : t[i] = a[i] /\ u[i] = a[i]
    BY <1>1, <1>3, <2>2, <2>3, <2>4
  <2>6. t = u
    BY <2>3, <2>4, <2>5, SameText
  <2> QED
    BY <2>1, <2>6
<1> QED
  BY <1>5, <1>6 DEF s

\* The parts of a text at its last mark, k.
LEMMA SplitAtLast ==
  ASSUME NEW s \in Strings, NEW C, NEW k \in 1..Len(s), Is(s[k], C),
         \A i \in 1..Len(s) : k < i => ~ Is(s[i], C)
  PROVE  /\ Marks(s, C) # {}
         /\ UpToLast(s, C) = SubSeq(s, 1, k - 1)
         /\ AfterLast(s, C) = SubSeq(s, k + 1, Len(s))
<1>1. Len(s) \in Nat /\ k \in Nat
  BY DEF Strings
<1>2. Marks(s, C) # {}
  BY MarksAre
<1>3. PICK m : m = Max(Marks(s, C))
  OBVIOUS
<1>4. m \in 1..Len(s) /\ Is(s[m], C) /\ \A i \in 1..Len(s) : m < i => ~ Is(s[i], C)
  BY <1>2, <1>3, FirstMark
<1>5. m = k
  BY <1>1, <1>4
<1> QED
  BY <1>2, <1>3, <1>5 DEF UpToLast, AfterLast

\* What is behind the last mark has none; a text has words only of its own.
LEMMA AfterLastHasNone ==
  ASSUME NEW s \in Strings, NEW C
  PROVE  /\ AfterLast(s, C) \in Strings /\ Marks(AfterLast(s, C), C) = {}
         /\ UpToLast(s, C) \in Strings \cup {NotSet}
         /\ \A D : Marks(s, D) = {} => Marks(AfterLast(s, C), D) = {}
<1>1. Len(s) \in Nat
  BY DEF Strings
<1>2. CASE Marks(s, C) = {}
  BY <1>2 DEF AfterLast, UpToLast
<1>3. CASE Marks(s, C) # {}
  <2>1. PICK m : m = Max(Marks(s, C))
    OBVIOUS
  <2>2. m \in 1..Len(s) /\ \A i \in 1..Len(s) : m < i => ~ Is(s[i], C)
    BY <1>3, <2>1, FirstMark
  <2>3. PICK t, u : t = AfterLast(s, C) /\ u = UpToLast(s, C)
    OBVIOUS
  <2>4. t = SubSeq(s, m + 1, Len(s)) /\ u = SubSeq(s, 1, m - 1)
    BY <1>3, <2>1, <2>3 DEF AfterLast, UpToLast
  <2>5. m - 1 \in Nat /\ m + 1 \in Nat /\ m - 1 <= Len(s) /\ 1 <= m + 1
    BY <1>1, <2>2
  <2>6. u \in Strings
    BY <2>4, <2>5, PartOf
  <2>7. /\ t \in Strings
        /\ Len(t) = (IF m + 1 <= Len(s) THEN Len(s) - (m + 1) + 1 ELSE 0)
        /\ \A i \in 1..(Len(s) - (m + 1) + 1) : t[i] = s[(m + 1) + i - 1]
    BY <1>1, <2>4, <2>5, PartOf
  <2>8. ASSUME NEW i \in 1..Len(t)
        PROVE  t[i] = s[m + i] /\ m + i \in 1..Len(s) /\ m < m + i
    <3>1. i \in 1..(Len(s) - (m + 1) + 1)
      BY <1>1, <2>2, <2>7
    <3>2. (m + 1) + i - 1 = m + i /\ m + i \in 1..Len(s) /\ m < m + i
      BY <1>1, <2>2, <3>1
    <3> QED
      BY <2>7, <3>1, <3>2
  <2>9. Marks(t, C) = {}
    <3>1. \A i \in 1..Len(t) : ~ Is(t[i], C)
      BY <2>2, <2>8
    <3> QED
      BY <2>7, <3>1, MarksAre
  <2>10. ASSUME NEW D, Marks(s, D) = {} PROVE Marks(t, D) = {}
    <3>1. \A i \in 1..Len(s) : ~ Is(s[i], D)
      BY <2>10, MarksAre
    <3>2. \A i \in 1..Len(t) : ~ Is(t[i], D)
      BY <2>8, <3>1
    <3> QED
      BY <2>7, <3>2, MarksAre
  <2> QED
    BY <2>3, <2>6, <2>7, <2>9, <2>10
<1> QED
  BY <1>2, <1>3

\* Behind a text that ends with a mark only what follows counts.
LEMMA LastJoined ==
  ASSUME NEW a \in Strings, NEW c \in Chars, NEW b \in Strings
  PROVE  /\ AfterLast((a \o <<Plain(c)>>) \o b, {c}) = AfterLast(b, {c})
         /\ Marks(b, {c}) = {} => UpToLast((a \o <<Plain(c)>>) \o b, {c}) = a
<1> DEFINE p == a \o <<Plain(c)>>
           s == p \o b
<1>1. /\ <<Plain(c)>> \in Strings /\ Len(<<Plain(c)>>) = 1 /\ <<Plain(c)>>[1] = Plain(c)
      /\ Is(Plain(c), {c})
  BY PlainWords
<1>2. /\ p \in Strings /\ Len(p) = Len(a) + 1 /\ Len(a) \in Nat /\ p[Len(a) + 1] = Plain(c)
      /\ \A i \in 1..Len(a) : p[i] = a[i]
  <2>1. PICK w : w = <<Plain(c)>>
    OBVIOUS
  <2>2. w \in Strings /\ Len(w) = 1 /\ w[1] = Plain(c) /\ p = a \o w
    BY <1>1, <2>1
  <2> HIDE DEF p
  <2>3. /\ p \in Strings /\ Len(p) = Len(a) + Len(w) /\ Len(a) \in Nat
        /\ \A i \in 1..Len(a) : p[i] = a[i]
        /\ \A i \in 1..Len(w) : p[Len(a) + i] = w[i]
    BY <2>2, Joined
  <2>4. 1 \in 1..Len(w)
    BY <2>2
  <2>5. p[Len(a) + 1] = Plain(c)
    BY <2>2, <2>3, <2>4
  <2> QED
    BY <2>2, <2>3, <2>5
<1> HIDE DEF p
<1>3. /\ s \in Strings /\ Len(s) = Len(p) + Len(b) /\ Len(b) \in Nat
      /\ \A i \in 1..Len(p) : s[i] = p[i]
      /\ \A i \in 1..Len(b) : s[Len(p) + i] = b[i]
  BY <1>2, Joined
<1> HIDE DEF s
<1>4. CASE Marks(b, {c}) = {}
  <2>1. \A i \in 1..Len(b) : ~ Is(b[i], {c})
    BY <1>4, MarksAre
  <2>2. Len(p) \in 1..Len(s) /\ Is(s[Len(p)], {c})
    <3>1. Len(p) \in 1..Len(p) /\ Len(p) \in 1..Len(s)
      BY <1>2, <1>3
    <3>2. s[Len(p)] = Plain(c)
      BY <1>2, <1>3, <3>1
    <3> QED
      BY <1>1, <3>1, <3>2
  <2>3. ASSUME NEW i \in 1..Len(s), Len(p) < i PROVE ~ Is(s[i], {c})
    <3>1. PICK j : j = i - Len(p)
      OBVIOUS
    <3>2. j \in 1..Len(b) /\ i = Len(p) + j
      BY <1>2, <1>3, <2>3, <3>1
    <3> QED
      BY <1>3, <2>1, <3>2
  <2>4. UpToLast(s, {c}) = SubSeq(s, 1, Len(p) - 1) /\ AfterLast(s, {c}) = SubSeq(s, Len(p) + 1, Len(s))
    BY <1>3, <2>2, <2>3, SplitAtLast
  <2>5. SubSeq(s, 1, Len(p) - 1) = a
    <3>1. PICK t : t = SubSeq(s, 1, Len(a))
      OBVIOUS
    <3>2. Len(p) - 1 = Len(a) /\ Len(a) <= Len(s)
      BY <1>2, <1>3
    <3>3. /\ t \in Strings
          /\ Len(t) = (IF 1 <= Len(a) THEN Len(a) - 1 + 1 ELSE 0)
          /\ \A i \in 1..(Len(a) - 1 + 1) : t[i] = s[1 + i - 1]
      BY <1>2, <1>3, <3>1, <3>2, PartOf
    <3>4. Len(t) = Len(a) /\ \A i \in 1..Len(a) : t[i] = a[i]
      BY <1>2, <1>3, <3>3
    <3>5. t = a
      BY <3>3, <3>4, SameText
    <3> QED
      BY <3>1, <3>2, <3>5
  <2>6. SubSeq(s, Len(p) + 1, Len(s)) = b
    <3>1. PICK t : t = SubSeq(s, Len(p) + 1, Len(s))
      OBVIOUS
    <3>2. Len(p) + 1 \in Nat /\ Len(s) \in Nat /\ 1 <= Len(p) + 1
      BY <1>2, <1>3
    <3>3. /\ t \in Strings
          /\ Len(t) = (IF Len(p) + 1 <= Len(s) THEN Len(s) - (Len(p) + 1) + 1 ELSE 0)
          /\ \A i \in 1..(Len(s) - (Len(p) + 1) + 1) : t[i] = s[(Len(p) + 1) + i - 1]
      BY <1>3, <3>1, <3>2, PartOf
    <3>4. Len(t) = Len(b)
      BY <1>2, <1>3, <3>3
    <3>5. ASSUME NEW i \in 1..Len(b) PROVE t[i] = b[i]
      <4>1. i \in 1..(Len(s) - (Len(p) + 1) + 1) /\ (Len(p) + 1) + i - 1 = Len(p) + i
        BY <1>2, <1>3
      <4> QED
        BY <1>3, <3>3, <4>1
    <3>6. t = b
      BY <3>3, <3>4, <3>5, SameText
    <3> QED
      BY <3>1, <3>6
  <2>7. AfterLast(b, {c}) = b
    BY <1>4 DEF AfterLast
  <2> QED
    BY <1>4, <2>4, <2>5, <2>6, <2>7 DEF s, p
<1>5. CASE Marks(b, {c}) # {}
  <2>1. PICK m : m = Max(Marks(b, {c}))
    OBVIOUS
  <2>2. m \in 1..Len(b) /\ Is(b[m], {c}) /\ \A i \in 1..Len(b) : m < i => ~ Is(b[i], {c})
    BY <1>5, <2>1, FirstMark
  <2>3. Len(p) + m \in 1..Len(s) /\ Is(s[Len(p) + m], {c})
    BY <1>2, <1>3, <2>2
  <2>4. ASSUME NEW i \in 1..Len(s), Len(p) + m < i PROVE ~ Is(s[i], {c})
    <3>1. PICK j : j = i - Len(p)
      OBVIOUS
    <3>2. j \in 1..Len(b) /\ i = Len(p) + j /\ m < j
      BY <1>2, <1>3, <2>2, <2>4, <3>1
    <3> QED
      BY <1>3, <2>2, <3>2
  <2>5. PICK k : k = Len(p) + m
    OBVIOUS
  <2>6. AfterLast(s, {c}) = SubSeq(s, k + 1, Len(s))
    BY <1>3, <2>3, <2>4, <2>5, SplitAtLast
  <2>7. AfterLast(b, {c}) = SubSeq(b, m + 1, Len(b))
    BY <2>2, SplitAtLast
  <2>8. PICK t, u : t = SubSeq(s, k + 1, Len(s)) /\ u = SubSeq(b, m + 1, Len(b))
    OBVIOUS
  <2>9. k + 1 \in Nat /\ m + 1 \in Nat /\ Len(s) \in Nat /\ 1 <= k + 1 /\ 1 <= m + 1
    BY <1>2, <1>3, <2>2, <2>5
  <2>10. /\ t \in Strings
         /\ Len(t) = (IF k + 1 <= Len(s) THEN Len(s) - (k + 1) + 1 ELSE 0)
         /\ \A i \in 1..(Len(s) - (k + 1) + 1) : t[i] = s[(k + 1) + i - 1]
    BY <1>3, <2>8, <2>9, PartOf
  <2>11. /\ u \in Strings
         /\ Len(u) = (IF m + 1 <= Len(b) THEN Len(b) - (m + 1) + 1 ELSE 0)
         /\ \A i \in 1..(Len(b) - (m + 1) + 1) : u[i] = b[(m + 1) + i - 1]
    BY <1>3, <2>8, <2>9, PartOf
  <2>12. Len(t) = Len(u)
    BY <1>2, <1>3, <2>2, <2>5, <2>10, <2>11
  <2>13. ASSUME NEW i \in 1..Len(t) PROVE t[i] = u[i]
    <3>1. i \in 1..(Len(s) - (k + 1) + 1) /\ i \in 1..(Len(b) - (m + 1) + 1)
      BY <1>2, <1>3, <2>2, <2>5, <2>10
    <3>2. PICK j : j = m + i
      OBVIOUS
    <3>3. (k + 1) + i - 1 = Len(p) + j /\ (m + 1) + i - 1 = j /\ j \in 1..Len(b)
      BY <1>2, <1>3, <2>2, <2>5, <3>1, <3>2
    <3> QED
      BY <1>3, <2>10, <2>11, <3>1, <3>3
  <2>14. t = u
    BY <2>10, <2>11, <2>12, <2>13, SameText
  <2> QED
    BY <1>5, <2>6, <2>7, <2>8, <2>14 DEF s, p
<1> QED
  BY <1>4, <1>5

\* A text at its last mark, and more without a mark behind it.
LEMMA LastExtended ==
  ASSUME NEW s \in Strings, NEW c \in Chars, NEW t \in Strings, Marks(t, {c}) = {}
  PROVE  AfterLast(s \o t, {c}) = AfterLast(s, {c}) \o t
<1>1. s \in Seq(Word) /\ t \in Seq(Word) /\ Len(s) \in Nat
  BY DEF Strings
<1>2. CASE Marks(s, {c}) = {}
  <2>1. Marks(s \o t, {c}) = {}
    BY <1>2, JoinedMarks
  <2> QED
    BY <1>2, <2>1 DEF AfterLast
<1>3. CASE Marks(s, {c}) # {}
  <2>1. PICK m : m = Max(Marks(s, {c}))
    OBVIOUS
  <2>2. m \in 1..Len(s) /\ Is(s[m], {c})
    BY <1>3, <2>1, FirstMark
  <2>3. PICK a, d : a = SubSeq(s, 1, m - 1) /\ d = AfterLast(s, {c})
    OBVIOUS
  <2>4. d = SubSeq(s, m + 1, Len(s)) /\ d \in Strings /\ Marks(d, {c}) = {}
    BY <1>3, <2>1, <2>3, AfterLastHasNone DEF AfterLast
  <2>5. s[m] = Plain(c)
    <3>1. s[m] \in Word
      BY <1>1, <2>2
    <3> QED
      BY <2>2, <3>1 DEF Is, Plain, Word
  <2>6. a \in Strings
    BY <1>1, <2>2, <2>3, PartOf
  <2>7. s = (a \o <<Plain(c)>>) \o d
    <3>1. SubSeq(s, 1, m) = a \o <<Plain(c)>>
      <4>1. SubSeq(s, 1, m - 1) \o SubSeq(s, m, m) = SubSeq(s, 1, m)
        <5>1. 1 \in 1..Len(s) + 1 /\ m - 1 \in (1 - 1)..Len(s) /\ m \in (m - 1)..Len(s) /\ (m - 1) + 1 = m
          BY <1>1, <2>2
        <5> QED
          BY <1>1, <5>1, ConcatAdjacentSubSeq
      <4>2. SubSeq(s, m, m) = <<s[m]>>
        <5>1. PICK w : w = SubSeq(s, m, m)
          OBVIOUS
        <5>2. m \in Nat /\ 1 <= m /\ m <= Len(s)
          BY <1>1, <2>2
        <5>3. /\ w \in Strings /\ Len(w) = (IF m <= m THEN m - m + 1 ELSE 0)
              /\ \A i \in 1..(m - m + 1) : w[i] = s[m + i - 1]
          BY <5>1, <5>2, PartOf
        <5>4. Len(w) = 1 /\ 1 \in 1..(m - m + 1) /\ m + 1 - 1 = m
          BY <5>2, <5>3
        <5>5. w[1] = s[m]
          BY <5>3, <5>4
        <5>6. PICK u : u = <<s[m]>>
          OBVIOUS
        <5>7. u \in Strings /\ Len(u) = 1 /\ u[1] = s[m]
          BY <1>1, <2>2, <5>6 DEF Strings
        <5>8. w = u
          BY <5>3, <5>4, <5>5, <5>7, SameText
        <5> QED
          BY <5>1, <5>6, <5>8
      <4> QED
        BY <2>3, <2>5, <4>1, <4>2
    <3>2. SubSeq(s, 1, m) \o SubSeq(s, m + 1, Len(s)) = SubSeq(s, 1, Len(s))
      <4>1. 1 \in 1..Len(s) + 1 /\ m \in (1 - 1)..Len(s) /\ Len(s) \in m..Len(s)
        BY <1>1, <2>2
      <4> QED
        BY <1>1, <4>1, ConcatAdjacentSubSeq
    <3>3. SubSeq(s, 1, Len(s)) = s
      BY <1>1, SubSeqFull
    <3> QED
      BY <2>4, <3>1, <3>2, <3>3
  <2>8. <<Plain(c)>> \in Strings /\ a \o <<Plain(c)>> \in Strings /\ d \o t \in Strings
    BY <2>4, <2>6, PlainWords, Joined
  <2>9. s \o t = (a \o <<Plain(c)>>) \o (d \o t)
    <3>1. PICK p : p = a \o <<Plain(c)>>
      OBVIOUS
    <3>2. p \in Seq(Word) /\ d \in Seq(Word) /\ s = p \o d
      BY <2>4, <2>7, <2>8, <3>1 DEF Strings
    <3>3. (p \o d) \o t = p \o (d \o t)
      BY <1>1, <3>2, ConcatAssociative
    <3> QED
      BY <3>1, <3>2, <3>3
  <2>10. AfterLast(s \o t, {c}) = AfterLast(d \o t, {c})
    BY <2>6, <2>8, <2>9, LastJoined
  <2>11. Marks(d \o t, {c}) = {}
    BY <2>4, JoinedMarks
  <2> QED
    BY <2>3, <2>10, <2>11 DEF AfterLast
<1> QED
  BY <1>2, <1>3

\* A text is what is before its first mark and what is from there.
LEMMA Rejoined ==
  ASSUME NEW s \in Strings, NEW C
  PROVE  /\ From(s, C) \in Strings /\ s = Before(s, C) \o From(s, C)
         /\ From(s, C) = <<>> \/ Is(From(s, C)[1], C)
         /\ Marks(s, C) # {} => From(s, C) # <<>>
<1>1. s \in Seq(Word) /\ Len(s) \in Nat
  BY DEF Strings
<1>2. CASE Marks(s, C) = {}
  <2>1. Before(s, C) = s /\ From(s, C) = <<>>
    BY <1>2, BeforeHasNone
  <2>2. s \o <<>> = s /\ <<>> \in Strings
    BY <1>1, ConcatEmptySeq DEF Strings
  <2> QED
    BY <1>2, <2>1, <2>2
<1>3. CASE Marks(s, C) # {}
  <2>1. PICK m : m = Min(Marks(s, C))
    OBVIOUS
  <2>2. m \in 1..Len(s) /\ Is(s[m], C) /\ \A i \in 1..Len(s) : i < m => ~ Is(s[i], C)
    BY <1>3, <2>1, FirstMark
  <2>3. Before(s, C) = SubSeq(s, 1, m - 1) /\ From(s, C) = SubSeq(s, m, Len(s))
    BY <2>2, SplitAt
  <2>4. PICK t : t = SubSeq(s, m, Len(s))
    OBVIOUS
  <2>5. /\ t \in Strings
        /\ Len(t) = (IF m <= Len(s) THEN Len(s) - m + 1 ELSE 0)
        /\ \A i \in 1..(Len(s) - m + 1) : t[i] = s[m + i - 1]
    BY <1>1, <2>2, <2>4, PartOf
  <2>6. 1 \in 1..(Len(s) - m + 1) /\ m + 1 - 1 = m /\ Len(t) > 0
    BY <1>1, <2>2, <2>5
  <2>7. Is(t[1], C) /\ t # <<>>
    BY <2>2, <2>5, <2>6 DEF Strings
  <2>8. SubSeq(s, 1, m - 1) \o SubSeq(s, m, Len(s)) = s
    <3>1. SubSeq(s, 1, m - 1) \o SubSeq(s, (m - 1) + 1, Len(s)) = SubSeq(s, 1, Len(s))
      <4>1. 1 \in 1..Len(s) + 1 /\ m - 1 \in (1 - 1)..Len(s) /\ Len(s) \in (m - 1)..Len(s)
        BY <1>1, <2>2
      <4> QED
        BY <1>1, <4>1, ConcatAdjacentSubSeq
    <3>2. (m - 1) + 1 = m
      BY <1>1, <2>2
    <3>3. SubSeq(s, 1, Len(s)) = s
      BY <1>1, SubSeqFull
    <3> QED
      BY <3>1, <3>2, <3>3
  <2> QED
    BY <2>3, <2>4, <2>5, <2>7, <2>8
<1> QED
  BY <1>2, <1>3

\* A text without marks in front changes nothing of what is behind the first mark.
LEMMA SplitBehind ==
  ASSUME NEW a \in Strings, NEW x \in Strings, NEW C, Marks(a, C) = {}
  PROVE  Before(a \o x, C) = a \o Before(x, C) /\ From(a \o x, C) = From(x, C)
<1>1. PICK b, f : b = Before(x, C) /\ f = From(x, C)
  OBVIOUS
<1>2. /\ b \in Strings /\ f \in Strings /\ x = b \o f /\ (f = <<>> \/ Is(f[1], C))
      /\ Marks(b, C) = {}
  BY <1>1, Rejoined, BeforeHasNone
<1>3. a \o b \in Strings /\ Marks(a \o b, C) = {}
  BY <1>2, Joined, JoinedMarks
<1>4. a \o x = (a \o b) \o f
  BY <1>2, ConcatAssociative DEF Strings
<1>5. PICK ab : ab = a \o b
  OBVIOUS
<1>6. Before(ab \o f, C) = ab /\ From(ab \o f, C) = f
  BY <1>2, <1>3, <1>5, SplitJoined
<1> QED
  BY <1>1, <1>4, <1>5, <1>6

\* quote() leaves no character that is reserved, and unquote() undoes it.
LEMMA QuoteBack ==
  ASSUME NEW t \in Strings
  PROVE  /\ Quote(t) \in Strings /\ Len(Quote(t)) = Len(t) /\ Unquote(Quote(t)) = t
         /\ \A C \in SUBSET Reserved : Marks(Quote(t), C) = {}
<1> DEFINE Q(w) == IF w.encoded > 0 \/ w.c \in Reserved THEN [w EXCEPT !.encoded = @ + 1] ELSE w
           U(w) == IF w.encoded > 0 THEN [w EXCEPT !.encoded = @ - 1] ELSE w
<1>1. t \in Seq(Word) /\ Len(t) \in Nat /\ DOMAIN t = 1..Len(t) /\ \A i \in 1..Len(t) : t[i] \in Word
  BY DEF Strings
<1>2. ASSUME NEW w \in Word
      PROVE  /\ Q(w) \in Word /\ U(Q(w)) = w
             /\ Q(w).encoded = 0 => Q(w).c \notin Reserved
  <2>1. w.encoded \in Nat /\ w.c \in Chars
    BY DEF Word
  <2>2. CASE w.encoded > 0 \/ w.c \in Reserved
    <3>1. Q(w) = [w EXCEPT !.encoded = w.encoded + 1]
      BY <2>2
    <3>2. Q(w) \in Word /\ Q(w).encoded = w.encoded + 1 /\ Q(w).c = w.c /\ Q(w).encoded > 0
      BY <2>1, <3>1 DEF Word
    <3>3. U(Q(w)) = [Q(w) EXCEPT !.encoded = Q(w).encoded - 1]
      BY <3>2
    <3>4. U(Q(w)) \in Word /\ U(Q(w)).encoded = w.encoded /\ U(Q(w)).c = w.c
      BY <2>1, <3>2, <3>3 DEF Word
    <3>5. U(Q(w)) = w
      BY <3>4 DEF Word
    <3> QED
      BY <2>1, <3>2, <3>5
  <2>3. CASE ~ (w.encoded > 0 \/ w.c \in Reserved)
    <3>1. Q(w) = w
      BY <2>3
    <3> QED
      BY <2>3, <3>1
  <2> QED
    BY <2>2, <2>3
<1>3. Quote(t) = [i \in 1..Len(t) |-> Q(t[i])]
  BY <1>1 DEF Quote
<1> HIDE DEF Q, U
<1>4. PICK q : q = Quote(t)
  OBVIOUS
<1>5. q \in Strings /\ Len(q) = Len(t) /\ \A i \in 1..Len(t) : q[i] = Q(t[i])
  BY <1>1, <1>2, <1>3, <1>4 DEF Strings
<1>6. Unquote(q) = t
  <2>1. PICK u : u = Unquote(q)
    OBVIOUS
  <2>2. u = [i \in 1..Len(q) |-> U(q[i])]
    BY <1>5, <2>1 DEF Unquote, U, Strings
  <2>3. \A i \in 1..Len(t) : u[i] = t[i]
    BY <1>1, <1>2, <1>5, <2>2
  <2>4. u \in Strings /\ Len(u) = Len(t)
    BY <1>1, <1>2, <1>5, <2>2 DEF Strings
  <2>5. u = t
    BY <1>5, <2>3, <2>4, SameText
  <2> QED
    BY <2>1, <2>5
<1>7. ASSUME NEW C \in SUBSET Reserved PROVE Marks(q, C) = {}
  <2>1. \A i \in 1..Len(q) : ~ Is(q[i], C)
    BY <1>1, <1>2, <1>5 DEF Is
  <2> QED
    BY <1>5, <2>1, MarksAre
<1> QED
  BY <1>4, <1>5, <1>6, <1>7

\* A slash in front of a project is stripped again.
LEMMA SlashStripped ==
  ASSUME NEW q \in Strings
  PROVE  StripSlash(<<Plain("/")>> \o q) = StripSlash(q)
<1>1. PICK l : l = <<Plain("/")>>
  OBVIOUS
<1>2. l \in Strings /\ Len(l) = 1 /\ Is(l[1], {"/"})
  <2>1. PICK c \in Chars : c = "/"
    BY EnvironmentsAreStrings DEF Reserved
  <2>2. /\ <<Plain(c)>> \in Strings /\ Len(<<Plain(c)>>) = 1 /\ <<Plain(c)>>[1] = Plain(c)
        /\ Is(Plain(c), {c})
    BY PlainWords
  <2> QED
    BY <1>1, <2>1, <2>2
<1>3. PICK s : s = l \o q
  OBVIOUS
<1>4. /\ s \in Strings /\ Len(s) = 1 + Len(q) /\ Len(q) \in Nat
      /\ s[1] = l[1]
      /\ \A i \in 1..Len(q) : s[1 + i] = q[i]
  <2>1. /\ s \in Strings /\ Len(s) = Len(l) + Len(q) /\ Len(q) \in Nat
        /\ \A i \in 1..Len(l) : s[i] = l[i]
        /\ \A i \in 1..Len(q) : s[Len(l) + i] = q[i]
    BY <1>2, <1>3, Joined
  <2> QED
    BY <1>2, <2>1
<1>5. PICK S, T : /\ S = {i \in DOMAIN s : ~ Is(s[i], {"/"})}
                  /\ T = {i \in DOMAIN q : ~ Is(q[i], {"/"})}
  OBVIOUS
<1>6. DOMAIN s = 1..Len(s) /\ DOMAIN q = 1..Len(q)
  BY <1>4 DEF Strings
<1>7. S \in SUBSET (1..Len(s)) /\ T \in SUBSET (1..Len(q))
  BY <1>5, <1>6
<1>8. \A i \in T : 1 + i \in S
  BY <1>4, <1>5, <1>6
<1>9. ASSUME NEW i \in S PROVE i - 1 \in T
  <2>1. i # 1
    BY <1>2, <1>4, <1>5
  <2>2. PICK j : j = i - 1
    OBVIOUS
  <2>3. j \in 1..Len(q) /\ i = 1 + j
    BY <1>4, <1>7, <2>1, <2>2
  <2> QED
    BY <1>4, <1>5, <1>6, <2>2, <2>3
<1>10. StripSlash(s) = (IF S = {} THEN <<>> ELSE SubSeq(s, Min(S), Max(S)))
  BY <1>5 DEF StripSlash
<1>11. StripSlash(q) = (IF T = {} THEN <<>> ELSE SubSeq(q, Min(T), Max(T)))
  BY <1>5 DEF StripSlash
<1>12. CASE T = {}
  <2>1. S = {}
    BY <1>9, <1>12
  <2> QED
    BY <1>1, <1>3, <1>10, <1>11, <1>12, <2>1
<1>13. CASE T # {}
  <2>1. S # {} /\ Len(s) \in Nat
    BY <1>4, <1>8, <1>13
  <2>2. PICK a, b, c, d : a = Min(S) /\ b = Max(S) /\ c = Min(T) /\ d = Max(T)
    OBVIOUS
  <2>3. a \in S /\ b \in S /\ \A k \in S : a <= k /\ k <= b
    BY <1>7, <2>1, <2>2, FirstAndLast
  <2>4. c \in T /\ d \in T /\ \A k \in T : c <= k /\ k <= d
    BY <1>4, <1>7, <1>13, <2>2, FirstAndLast
  <2>5. /\ a \in 1..Len(s) /\ b \in 1..Len(s) /\ c \in 1..Len(q) /\ d \in 1..Len(q)
        /\ 1 + c \in S /\ 1 + d \in S /\ a - 1 \in T /\ b - 1 \in T
    BY <1>7, <1>8, <1>9, <2>3, <2>4
  <2>6. a = 1 + c /\ b = 1 + d
    <3>1. a <= 1 + c /\ 1 + d <= b /\ c <= a - 1 /\ b - 1 <= d
      BY <2>3, <2>4, <2>5
    <3> QED
      BY <2>5, <3>1
  <2>7. PICK t, u : t = SubSeq(s, a, b) /\ u = SubSeq(q, c, d)
    OBVIOUS
  <2>8. /\ t \in Strings /\ Len(t) = (IF a <= b THEN b - a + 1 ELSE 0)
        /\ \A i \in 1..(b - a + 1) : t[i] = s[a + i - 1]
    BY <1>4, <2>5, <2>7, PartOf
  <2>9. /\ u \in Strings /\ Len(u) = (IF c <= d THEN d - c + 1 ELSE 0)
        /\ \A i \in 1..(d - c + 1) : u[i] = q[c + i - 1]
    BY <1>4, <2>5, <2>7, PartOf
  <2>10. Len(t) = Len(u)
    BY <2>5, <2>6, <2>8, <2>9
  <2>11. ASSUME NEW i \in 1..Len(t) PROVE t[i] = u[i]
    <3>1. i \in 1..(b - a + 1) /\ i \in 1..(d - c + 1)
      BY <2>5, <2>6, <2>8
    <3>2. PICK j : j = c + i - 1
      OBVIOUS
    <3>3. a + i - 1 = 1 + j /\ j \in 1..Len(q)
      BY <1>4, <2>5, <2>6, <3>1, <3>2
    <3> QED
      BY <1>4, <2>8, <2>9, <3>1, <3>2, <3>3
  <2>12. t = u
    BY <2>8, <2>9, <2>10, <2>11, SameText
  <2> QED
    BY <1>1, <1>3, <1>10, <1>11, <1>13, <2>1, <2>2, <2>7, <2>12
<1> QED
  BY <1>12, <1>13

-----------------------------------------------------------------------------
\* The text between the last "@" before the first "/" or "?" and those.
HostInfo(rest) == AfterLast(Before(rest, {"/", "?"}), {"@"})
UserInfo(rest) == UpToLast(Before(rest, {"/", "?"}), {"@"})

LEMMA Parsed ==
  ASSUME NEW rest \in Strings, NEW p, p = UrlParse(rest)
  PROVE  /\ p.username = (IF UserInfo(rest) = NotSet THEN NotSet ELSE Before(UserInfo(rest), {":"}))
         /\ p.password = (IF UserInfo(rest) = NotSet THEN NotSet ELSE After(UserInfo(rest), {":"}))
         /\ p.hostname = OrNone(Before(HostInfo(rest), {":"}))
         /\ p.port = (IF After(HostInfo(rest), {":"}) = <<>> THEN NotSet ELSE After(HostInfo(rest), {":"}))
         /\ p.path = Before(From(rest, {"/", "?"}), {"?"})
BY DEF UrlParse, HostInfo, UserInfo

\* The host information has none of the characters that end it.
LEMMA HostInfoIs ==
  ASSUME NEW rest \in Strings
  PROVE  /\ HostInfo(rest) \in Strings /\ UserInfo(rest) \in Strings \cup {NotSet}
         /\ Marks(HostInfo(rest), {"/", "?"}) = {} /\ Marks(HostInfo(rest), {"@"}) = {}
<1>1. Before(rest, {"/", "?"}) \in Strings /\ Marks(Before(rest, {"/", "?"}), {"/", "?"}) = {}
  BY BeforeHasNone
<1> QED
  BY <1>1, AfterLastHasNone DEF HostInfo, UserInfo

\* User information without "/" and "?" leaves host and path what they are behind it.
LEMMA BehindUser ==
  ASSUME NEW u \in Strings, NEW x \in Strings, Marks(u, {"/", "?"}) = {},
         NEW rest, rest = (u \o <<Plain("@")>>) \o x
  PROVE  /\ rest \in Strings /\ HostInfo(rest) = HostInfo(x)
         /\ From(rest, {"/", "?"}) = From(x, {"/", "?"})
         /\ Marks(Before(x, {"/", "?"}), {"@"}) = {} => UserInfo(rest) = u
<1>1. PICK c \in Chars : c = "@"
  BY EnvironmentsAreStrings DEF Reserved
<1>2. PICK p : p = u \o <<Plain(c)>>
  OBVIOUS
<1>3. PICK l : l = <<Plain(c)>>
  OBVIOUS
<1>4. l \in Strings /\ Len(l) = 1 /\ l[1] = Plain(c) /\ ~ Is(Plain(c), {"/", "?"})
  BY <1>1, <1>3, PlainWords
<1>5. Marks(l, {"/", "?"}) = {}
  BY <1>4, MarksAre
<1>6. p \in Strings /\ Marks(p, {"/", "?"}) = {} /\ rest = p \o x
  BY <1>1, <1>2, <1>3, <1>4, <1>5, Joined, JoinedMarks
<1>7. rest \in Strings
  BY <1>6, Joined
<1>8. PICK b : b = Before(x, {"/", "?"})
  OBVIOUS
<1>9. Before(rest, {"/", "?"}) = p \o b /\ From(rest, {"/", "?"}) = From(x, {"/", "?"})
  <2>1. /\ Before(p \o x, {"/", "?"}) = p \o Before(x, {"/", "?"})
        /\ From(p \o x, {"/", "?"}) = From(x, {"/", "?"})
    BY <1>6, SplitBehind
  <2> QED
    BY <1>6, <1>8, <2>1
<1>10. b \in Strings
  BY <1>8, BeforeHasNone
<1>11. AfterLast((u \o <<Plain(c)>>) \o b, {c}) = AfterLast(b, {c})
       /\ (Marks(b, {c}) = {} => UpToLast((u \o <<Plain(c)>>) \o b, {c}) = u)
  BY <1>10, LastJoined
<1> QED
  BY <1>1, <1>2, <1>7, <1>8, <1>9, <1>11 DEF HostInfo, UserInfo

\* A host, a port and a path, of which each ends where the next one begins.
LEMMA HostPortPath ==
  ASSUME NEW h \in Strings, NEW pt \in Strings, NEW path \in Strings,
         Marks(h, {"/", "?"}) = {}, Marks(h, {"@"}) = {},
         Marks(pt, {"/", "?"}) = {}, Marks(pt, {"@"}) = {},
         path = <<>> \/ Is(path[1], {"/", "?"})
  PROVE  /\ (h \o pt) \o path \in Strings
         /\ HostInfo((h \o pt) \o path) = h \o pt
         /\ From((h \o pt) \o path, {"/", "?"}) = path
         /\ Marks(Before((h \o pt) \o path, {"/", "?"}), {"@"}) = {}
<1>1. PICK hp : hp = h \o pt
  OBVIOUS
<1>2. hp \in Strings /\ Marks(hp, {"/", "?"}) = {} /\ Marks(hp, {"@"}) = {}
  BY <1>1, Joined, JoinedMarks
<1>3. hp \o path \in Strings
  BY <1>2, Joined
<1>4. Before(hp \o path, {"/", "?"}) = hp /\ From(hp \o path, {"/", "?"}) = path
  BY <1>2, SplitJoined
<1>5. AfterLast(hp, {"@"}) = hp
  BY <1>2 DEF AfterLast
<1> QED
  BY <1>1, <1>2, <1>3, <1>4, <1>5 DEF HostInfo

\* A host of which urllib finds no name has none with a port and a path behind it either.
LEMMA NoName ==
  ASSUME NEW h \in Strings, NEW pt \in Strings, NEW path \in Strings,
         Before(HostInfo(h), {":"}) = <<>>,
         Marks(pt, {"/", "?"}) = {}, Marks(pt, {"@"}) = {}, pt = <<>> \/ Is(pt[1], {":"}),
         path = <<>> \/ Is(path[1], {"/", "?"}),
         NEW x, x = h \o (pt \o path)
  PROVE  x \in Strings /\ Before(HostInfo(x), {":"}) = <<>>
<1>1. PICK n, f : n = Before(h, {"/", "?"}) /\ f = From(h, {"/", "?"})
  OBVIOUS
<1>2. /\ n \in Strings /\ f \in Strings /\ h = n \o f /\ (f = <<>> \/ Is(f[1], {"/", "?"}))
      /\ Marks(n, {"/", "?"}) = {}
  BY <1>1, Rejoined, BeforeHasNone
<1>3. PICK hi : hi = HostInfo(h)
  OBVIOUS
<1>4. hi \in Strings /\ hi = AfterLast(n, {"@"}) /\ Before(hi, {":"}) = <<>>
  BY <1>1, <1>3, HostInfoIs DEF HostInfo
<1>5. PICK pp : pp = pt \o path
  OBVIOUS
<1>6. pp \in Strings /\ x = h \o pp /\ x \in Strings
  BY <1>5, Joined
<1>7. CASE f # <<>>
  <2>1. Marks(h, {"/", "?"}) # {}
    BY <1>1, <1>7, BeforeHasNone
  <2>2. Before(x, {"/", "?"}) = n
    BY <1>1, <1>6, <2>1, SplitFirst
  <2> QED
    BY <1>4, <1>6, <2>2 DEF HostInfo
<1>8. CASE f = <<>>
  <2>1. h = n
    BY <1>2, <1>8, ConcatEmptySeq DEF Strings
  <2>2. PICK np : np = n \o pt
    OBVIOUS
  <2>3. np \in Strings /\ Marks(np, {"/", "?"}) = {}
    BY <1>2, <2>2, Joined, JoinedMarks
  <2>11. x = np \o path
    <3>1. (n \o pt) \o path = n \o (pt \o path)
      BY <1>2, Regrouped
    <3> QED
      BY <1>5, <1>6, <2>1, <2>2, <3>1
  <2>4. Before(x, {"/", "?"}) = np
    BY <2>3, <2>11, SplitJoined
  <2>5. HostInfo(x) = hi \o pt
    <3>1. PICK c \in Chars : c = "@"
      BY EnvironmentsAreStrings DEF Reserved
    <3>2. AfterLast(n \o pt, {c}) = AfterLast(n, {c}) \o pt
      BY <1>2, <3>1, LastExtended
    <3> QED
      BY <1>4, <2>2, <2>4, <3>1, <3>2 DEF HostInfo
  <2>6. hi = <<>> \/ Is(hi[1], {":"})
    <3>1. PICK g : g = From(hi, {":"})
      OBVIOUS
    <3>2. g \in Strings /\ hi = <<>> \o g /\ (g = <<>> \/ Is(g[1], {":"}))
      BY <1>4, <3>1, Rejoined
    <3>3. <<>> \o g = g
      BY <3>2, ConcatEmptySeq DEF Strings
    <3> QED
      BY <3>2, <3>3
  <2>7. PICK y : y = hi \o pt
    OBVIOUS
  <2>8. y \in Strings /\ (y = <<>> \/ Is(y[1], {":"}))
    <3>1. CASE hi = <<>>
      <4>1. y = pt
        BY <2>7, <3>1, ConcatEmptySeq DEF Strings
      <4> QED
        BY <4>1
    <3>2. CASE hi # <<>>
      <4>1. y \in Strings /\ Len(hi) \in Nat /\ \A i \in 1..Len(hi) : y[i] = hi[i]
        BY <1>4, <2>7, Joined
      <4>2. 1 \in 1..Len(hi)
        BY <1>4, <3>2 DEF Strings
      <4> QED
        BY <2>6, <3>2, <4>1, <4>2
    <3> QED
      BY <3>1, <3>2
  <2>9. Before(<<>> \o y, {":"}) = <<>>
    <3>1. <<>> \in Strings /\ Marks(<<>>, {":"}) = {}
      BY DEF Strings, Marks
    <3> QED
      BY <2>8, <3>1, SplitJoined
  <2>10. <<>> \o y = y
    BY <2>8, ConcatEmptySeq DEF Strings
  <2> QED
    BY <1>6, <2>5, <2>7, <2>9, <2>10
<1> QED
  BY <1>7, <1>8

-----------------------------------------------------------------------------
BadPort(host) == LET port == UrlParse(host).port IN port # NotSet /\ ~ IsPort(port)
PortText(host) == IF UrlParse(host).port \in {NotSet, <<Plain("0")>>} THEN <<>>
                  ELSE <<Plain(":")>> \o UrlParse(host).port
PathText(project) == IF Given(project) THEN <<Plain("/")>> \o project ELSE <<>>

\* The text of the port: a port that is valid has no character that ends another part.
LEMMA PortTextIs ==
  ASSUME NEW host \in Strings, ~ BadPort(host), NEW pt, pt = PortText(host),
         NEW port, port = UrlParse(host).port
  PROVE  /\ pt \in Strings /\ Marks(pt, {"/", "?"}) = {} /\ Marks(pt, {"@"}) = {}
         /\ pt = <<>> \/ Is(pt[1], {":"})
         /\ port \in Strings \cup {NotSet} /\ port # <<>>
         /\ IF port = <<Plain("0")>> \/ port = NotSet THEN pt = <<>>
            ELSE pt # <<>> /\ Tail(pt) = port /\ IsPort(port)
<1>1. PICK hi : hi = HostInfo(host)
  OBVIOUS
<1>2. hi \in Strings
  BY <1>1, HostInfoIs
<1>3. PICK af : af = After(hi, {":"})
  OBVIOUS
<1>4. port = (IF af = <<>> THEN NotSet ELSE af)
  BY <1>1, <1>3, Parsed
<1>5. af \in Strings \cup {NotSet}
  <2>1. CASE Marks(hi, {":"}) = {}
    BY <1>3, <2>1 DEF After
  <2>2. CASE Marks(hi, {":"}) # {}
    <3>1. PICK f : f = From(hi, {":"})
      OBVIOUS
    <3>2. f \in Strings /\ f # <<>> /\ af = Tail(f)
      BY <1>2, <1>3, <2>2, <3>1, Rejoined DEF After
    <3> QED
      BY <3>2 DEF Strings
  <2> QED
    BY <2>1, <2>2
<1>6. port \in Strings \cup {NotSet} /\ port # <<>>
  <2>1. NotSet # <<>>
    BY NotSetIsNone
  <2> QED
    BY <1>4, <1>5, <2>1
<1>7. CASE port \in {NotSet, <<Plain("0")>>}
  <2>1. pt = <<>>
    BY <1>7 DEF PortText
  <2>2. pt \in Strings /\ Marks(pt, {"/", "?"}) = {} /\ Marks(pt, {"@"}) = {}
    BY <2>1 DEF Strings, Marks
  <2> QED
    BY <1>6, <1>7, <2>1, <2>2
<1>8. CASE port \notin {NotSet, <<Plain("0")>>}
  <2>1. pt = <<Plain(":")>> \o port /\ port \in Strings
    BY <1>6, <1>8 DEF PortText
  <2>2. IsPort(port)
    BY <1>8 DEF BadPort
  <2>3. Len(port) = 1 /\ Is(port[1], {"0", "443", "8080"})
    BY <2>2 DEF IsPort
  <2>4. ~ Is(port[1], {"/", "?"}) /\ ~ Is(port[1], {"@"})
    BY <2>3 DEF Is
  <2>5. PICK c \in Chars : c = ":"
    BY EnvironmentsAreStrings DEF Reserved
  <2>6. PICK l : l = <<Plain(c)>>
    OBVIOUS
  <2>7. l \in Strings /\ Len(l) = 1 /\ l[1] = Plain(c)
    BY <2>6, PlainWords
  <2>8. Is(l[1], {":"}) /\ ~ Is(l[1], {"/", "?"}) /\ ~ Is(l[1], {"@"})
    BY <2>5, <2>7 DEF Is, Plain
  <2>9. /\ Marks(l, {"/", "?"}) = {} /\ Marks(l, {"@"}) = {}
        /\ Marks(port, {"/", "?"}) = {} /\ Marks(port, {"@"}) = {}
    BY <2>1, <2>3, <2>4, <2>7, <2>8, MarksAre
  <2>10. pt = l \o port
    BY <2>1, <2>5, <2>6
  <2>11. pt \in Strings /\ Marks(pt, {"/", "?"}) = {} /\ Marks(pt, {"@"}) = {}
    BY <2>1, <2>7, <2>9, <2>10, Joined, JoinedMarks
  <2>12. Len(pt) = 2 /\ pt[1] = l[1] /\ pt[2] = port[1]
    <3>1. /\ Len(pt) = Len(l) + Len(port)
          /\ \A i \in 1..Len(l) : pt[i] = l[i]
          /\ \A i \in 1..Len(port) : pt[Len(l) + i] = port[i]
      <4>1. /\ Len(l \o port) = Len(l) + Len(port)
            /\ \A i \in 1..Len(l) : (l \o port)[i] = l[i]
            /\ \A i \in 1..Len(port) : (l \o port)[Len(l) + i] = port[i]
        BY <2>1, <2>7, Joined
      <4> QED
        BY <2>10, <4>1
    <3>2. 1 \in 1..Len(l) /\ 1 \in 1..Len(port) /\ Len(l) + 1 = 2
      BY <2>3, <2>7
    <3>3. pt[Len(l) + 1] = port[1] /\ pt[1] = l[1]
      BY <3>1, <3>2
    <3> QED
      BY <2>3, <2>7, <3>1, <3>2, <3>3
  <2>13. Tail(pt) = port
    <3>1. PICK t : t = Tail(pt)
      OBVIOUS
    <3>2. t \in Strings /\ Len(t) = 1 /\ t[1] = pt[2]
      <4>1. pt # <<>>
        BY <2>12
      <4>2. /\ t \in Strings /\ Len(t) = Len(pt) - 1
            /\ \A i \in 1..Len(t) : t[i] = pt[i + 1]
        BY <2>11, <3>1, <4>1, TailOf
      <4> QED
        BY <2>12, <4>2
    <3>3. t = port
      BY <2>1, <2>3, <2>12, <3>2, SameText
    <3> QED
      BY <3>1, <3>3
  <2>14. pt # <<>>
    BY <2>12
  <2> QED
    BY <1>6, <1>8, <2>2, <2>8, <2>11, <2>12, <2>13, <2>14
<1> QED
  BY <1>7, <1>8

LEMMA PathTextIs ==
  ASSUME NEW project \in Variable, NEW path, path = PathText(project)
  PROVE  /\ path \in Strings /\ (path = <<>> \/ Is(path[1], {"/", "?"}))
         /\ OrNone(StripSlash(Before(path, {"?"}))) =
              (IF Given(project) THEN OrNone(StripSlash(Before(project, {"?"}))) ELSE NotSet)
<1>1. CASE ~ Given(project)
  <2>1. path = <<>> /\ path \in Strings
    BY <1>1 DEF PathText, Strings
  <2>2. Before(path, {"?"}) = <<>>
    BY <2>1 DEF Before, Marks
  <2>3. StripSlash(<<>>) = <<>>
    BY DEF StripSlash
  <2> QED
    BY <1>1, <2>1, <2>2, <2>3 DEF OrNone
<1>2. CASE Given(project)
  <2>1. project \in Strings /\ path = <<Plain("/")>> \o project
    BY <1>2 DEF Given, Variable, PathText
  <2>2. PICK c \in Chars : c = "/"
    BY EnvironmentsAreStrings DEF Reserved
  <2>3. PICK l : l = <<Plain(c)>>
    OBVIOUS
  <2>4. l \in Strings /\ Len(l) = 1 /\ l[1] = Plain(c)
    BY <2>3, PlainWords
  <2>5. Is(l[1], {"/", "?"}) /\ ~ Is(l[1], {"?"})
    BY <2>2, <2>4 DEF Is, Plain
  <2>6. Marks(l, {"?"}) = {}
    BY <2>4, <2>5, MarksAre
  <2>7. path = l \o project
    BY <2>1, <2>2, <2>3
  <2>8. path \in Strings /\ \A i \in 1..Len(l) : path[i] = l[i]
    <3>1. l \o project \in Strings /\ \A i \in 1..Len(l) : (l \o project)[i] = l[i]
      BY <2>1, <2>4, Joined
    <3> QED
      BY <2>7, <3>1
  <2>9. 1 \in 1..Len(l)
    BY <2>4
  <2>10. Is(path[1], {"/", "?"})
    BY <2>5, <2>8, <2>9
  <2>11. Before(l \o project, {"?"}) = l \o Before(project, {"?"})
    BY <2>1, <2>4, <2>6, SplitBehind
  <2>12. Before(project, {"?"}) \in Strings
    BY <2>1, BeforeHasNone
  <2>13. StripSlash(l \o Before(project, {"?"})) = StripSlash(Before(project, {"?"}))
    BY <2>2, <2>3, <2>12, SlashStripped
  <2> QED
    BY <1>2, <2>7, <2>8, <2>10, <2>11, <2>13
<1> QED
  BY <1>1, <1>2

\* What is assembled of a host, a project and user information without "/" and "?" has the host
\* and the port that urllib finds in the host, the project and the user information.
LEMMA ParseAssembled ==
  ASSUME NEW host \in Strings, NEW project \in Variable, NEW u \in Strings,
         Marks(u, {"/", "?"}) = {}, ~ BadPort(host),
         NEW rest, rest = Assemble(host, project, u),
         NEW p, p = UrlParse(rest), NEW named, named = UrlParse(host)
  PROVE  /\ named.hostname = NotSet => p.hostname = NotSet
         /\ named.hostname # NotSet =>
              /\ p.hostname = named.hostname
              /\ p.port = (IF named.port = <<Plain("0")>> THEN NotSet ELSE named.port)
              /\ OrNone(StripSlash(p.path)) =
                   (IF Given(project) THEN OrNone(StripSlash(Before(project, {"?"}))) ELSE NotSet)
              /\ p.username = Before(u, {":"}) /\ p.password = After(u, {":"})
<1>1. PICK h, pt, path : /\ h = (IF named.hostname = NotSet THEN host ELSE named.hostname)
                        /\ pt = PortText(host) /\ path = PathText(project)
  OBVIOUS
<1>2. rest = (((u \o <<Plain("@")>>) \o h) \o pt) \o path
  BY <1>1 DEF Assemble, PortText, PathText
<1>3. PICK hi : hi = HostInfo(host)
  OBVIOUS
<1>4. /\ hi \in Strings /\ Marks(hi, {"/", "?"}) = {} /\ Marks(hi, {"@"}) = {}
      /\ named.hostname = OrNone(Before(hi, {":"}))
  BY <1>3, HostInfoIs, Parsed
<1>5. NotSet # <<>> /\ NotSet \notin Strings
  BY NotSetIsNone
<1>6. /\ pt \in Strings /\ Marks(pt, {"/", "?"}) = {} /\ Marks(pt, {"@"}) = {}
      /\ pt = <<>> \/ Is(pt[1], {":"})
      /\ named.port # <<>>
      /\ IF named.port = <<Plain("0")>> \/ named.port = NotSet THEN pt = <<>>
         ELSE pt # <<>> /\ Tail(pt) = named.port
  BY <1>1, PortTextIs
<1>7. /\ path \in Strings /\ (path = <<>> \/ Is(path[1], {"/", "?"}))
      /\ OrNone(StripSlash(Before(path, {"?"}))) =
              (IF Given(project) THEN OrNone(StripSlash(Before(project, {"?"}))) ELSE NotSet)
  BY <1>1, PathTextIs
<1>8. PICK b : b = Before(hi, {":"})
  OBVIOUS
<1>9. /\ b \in Strings /\ Marks(b, {":"}) = {} /\ Marks(b, {"/", "?"}) = {} /\ Marks(b, {"@"}) = {}
  BY <1>4, <1>8, BeforeHasNone
<1>10. h \in Strings
  BY <1>1, <1>4, <1>8, <1>9 DEF OrNone
<1>11. PICK x : x = h \o (pt \o path)
  OBVIOUS
<1>12. PICK ua : ua = u \o <<Plain("@")>>
  OBVIOUS
<1>13. ua \in Strings
  <2>1. <<Plain("@")>> \in Strings
    BY PlainWords, EnvironmentsAreStrings DEF Reserved
  <2> QED
    BY <1>12, <2>1, Joined
<1>14. rest = ua \o x
  <2>1. PICK pp : pp = pt \o path
    OBVIOUS
  <2>2. PICK v : v = ua \o h
    OBVIOUS
  <2>3. v \in Strings /\ pp \in Strings
    BY <1>6, <1>7, <1>10, <1>13, <2>1, <2>2, Joined
  <2>4. (v \o pt) \o path = v \o (pt \o path)
    BY <1>6, <1>7, <2>3, Regrouped
  <2>5. (ua \o h) \o pp = ua \o (h \o pp)
    BY <1>10, <1>13, <2>3, Regrouped
  <2> QED
    BY <1>2, <1>11, <1>12, <2>1, <2>2, <2>4, <2>5
<1>15. CASE named.hostname = NotSet
  <2>1. h = host /\ b = <<>>
    BY <1>1, <1>4, <1>5, <1>8, <1>9, <1>15 DEF OrNone
  <2>2. x \in Strings /\ Before(HostInfo(x), {":"}) = <<>>
    <3>1. x = host \o (pt \o path) /\ Before(HostInfo(host), {":"}) = <<>>
      BY <1>3, <1>8, <1>11, <2>1
    <3> QED
      BY <1>6, <1>7, <3>1, NoName
  <2>3. rest \in Strings /\ HostInfo(rest) = HostInfo(x)
    BY <1>12, <1>14, <2>2, BehindUser
  <2>4. p.hostname = NotSet
    BY <2>2, <2>3, Parsed DEF OrNone
  <2> QED
    BY <1>15, <2>4
<1>16. CASE named.hostname # NotSet
  <2>1. h = b /\ named.hostname = b /\ b # <<>>
    BY <1>1, <1>4, <1>5, <1>8, <1>9, <1>16 DEF OrNone
  <2>2. /\ x \in Strings /\ HostInfo(x) = b \o pt /\ From(x, {"/", "?"}) = path
        /\ Marks(Before(x, {"/", "?"}), {"@"}) = {}
    <3>1. x = (b \o pt) \o path
      BY <1>6, <1>7, <1>9, <1>11, <2>1, Regrouped
    <3>2. /\ (b \o pt) \o path \in Strings
          /\ HostInfo((b \o pt) \o path) = b \o pt
          /\ From((b \o pt) \o path, {"/", "?"}) = path
          /\ Marks(Before((b \o pt) \o path, {"/", "?"}), {"@"}) = {}
      BY <1>6, <1>7, <1>9, HostPortPath
    <3> QED
      BY <3>1, <3>2
  <2>3. /\ rest \in Strings /\ HostInfo(rest) = b \o pt
        /\ From(rest, {"/", "?"}) = path /\ UserInfo(rest) = u
    BY <1>12, <1>14, <2>2, BehindUser
  <2>4. Before(b \o pt, {":"}) = b /\ After(b \o pt, {":"}) = (IF pt = <<>> THEN NotSet ELSE Tail(pt))
    BY <1>6, <1>9, SplitJoined
  <2>5. /\ p.username = Before(u, {":"}) /\ p.password = After(u, {":"})
        /\ p.hostname = OrNone(b)
        /\ p.port = (IF After(b \o pt, {":"}) = <<>> THEN NotSet ELSE After(b \o pt, {":"}))
        /\ p.path = Before(path, {"?"})
    <3>1. u # NotSet
      BY <1>5
    <3> QED
      BY <2>3, <2>4, <3>1, Parsed
  <2>6. p.hostname = named.hostname
    BY <2>1, <2>5 DEF OrNone
  <2>7. p.port = (IF named.port = <<Plain("0")>> THEN NotSet ELSE named.port)
    BY <1>5, <1>6, <2>4, <2>5
  <2> QED
    BY <1>7, <1>16, <2>5, <2>6, <2>7
<1> QED
  BY <1>15, <1>16

\* What is made of a connection string that is accepted.
LEMMA ParseIs ==
  ASSUME NEW scheme, NEW rest, NEW envToken, NEW required, NEW p, p = UrlParse(rest),
         NEW i, i = Parse(scheme, rest, envToken, required), i # Malformed
  PROVE  /\ p.hostname # NotSet
         /\ i.kind = "info" /\ i.host = p.hostname /\ i.port = p.port
         /\ i.project = OrNone(StripSlash(p.path)) /\ (required => i.project # NotSet)
         /\ IF p.username # <<Plain("token")>> /\ Given(p.username)
            THEN /\ i.email = p.username /\ i.password = p.password /\ i.token = NotSet
                 /\ Given(p.password) /\ envToken = NotSet /\ p.username # NotSet
            ELSE /\ i.email = NotSet /\ i.token # NotSet
                 /\ i.token = (IF p.username = <<Plain("token")>> THEN Unquote(p.password) ELSE envToken)
                 /\ p.username = <<Plain("token")>> => Given(p.password)
<1>1. PICK isToken \in BOOLEAN, isEmail \in BOOLEAN :
        /\ isToken <=> p.username = <<Plain("token")>>
        /\ isEmail <=> p.username # <<Plain("token")>> /\ Given(p.username)
  OBVIOUS
<1>2. PICK token, project : /\ token = (IF isToken THEN Unquote(p.password) ELSE envToken)
                           /\ project = OrNone(StripSlash(p.path))
  OBVIOUS
<1>3. /\ ~ \/ scheme # "ragnerock"
           \/ p.hostname = NotSet
           \/ required /\ project = NotSet
           \/ (isToken \/ isEmail) /\ ~ Given(p.password)
           \/ ~ isToken /\ ~ isEmail /\ Given(p.password)
           \/ isEmail /\ envToken # NotSet
           \/ ~ isEmail /\ token = NotSet
           \/ p.port # NotSet /\ ~ IsPort(p.port)
      /\ i = [kind |-> "info",
              scheme |-> IF p.hostname \in {<<Plain("localhost")>>, <<Plain("127.0.0.1")>>}
                         THEN "http" ELSE "https",
              host |-> p.hostname, port |-> p.port, project |-> project,
              email |-> IF isEmail THEN p.username ELSE NotSet,
              password |-> IF isEmail THEN p.password ELSE NotSet,
              token |-> IF isEmail THEN NotSet ELSE token]
  BY <1>1, <1>2 DEF Parse
<1>4. isEmail => p.username # NotSet
  BY <1>1 DEF Given
<1> QED
  BY <1>1, <1>2, <1>3, <1>4

\* What is assembled begins with the user information.
LEMMA AssembledBehind ==
  ASSUME NEW host \in Strings, NEW project \in Variable, NEW u \in Strings, ~ BadPort(host)
  PROVE  \E x \in Strings : Assemble(host, project, u) = u \o x
<1>1. PICK named : named = UrlParse(host)
  OBVIOUS
<1>2. PICK h, pt, path, l :
         /\ h = (IF named.hostname = NotSet THEN host ELSE named.hostname)
         /\ pt = PortText(host) /\ path = PathText(project) /\ l = <<Plain("@")>>
  OBVIOUS
<1>3. Assemble(host, project, u) = (((u \o l) \o h) \o pt) \o path
  BY <1>1, <1>2 DEF Assemble, PortText, PathText
<1>4. pt \in Strings /\ path \in Strings
  BY <1>2, PortTextIs, PathTextIs
<1>5. h \in Strings
  <2>1. named.hostname = OrNone(Before(HostInfo(host), {":"})) /\ HostInfo(host) \in Strings
    BY <1>1, Parsed, HostInfoIs
  <2>2. Before(HostInfo(host), {":"}) \in Strings
    BY <2>1, BeforeHasNone
  <2> QED
    BY <1>2, <2>1, <2>2 DEF OrNone
<1>6. l \in Strings
  BY <1>2, PlainWords, EnvironmentsAreStrings DEF Reserved
<1>7. PICK a, b, c : a = u \o l /\ b = h \o pt /\ c = b \o path
  OBVIOUS
<1>8. a \in Strings /\ b \in Strings /\ c \in Strings
  <2>1. a \in Strings /\ b \in Strings
    BY <1>4, <1>5, <1>6, <1>7, Joined
  <2>2. c \in Strings
    BY <1>4, <1>7, <2>1, Joined
  <2> QED
    BY <2>1, <2>2
<1>9. ((a \o h) \o pt) \o path = a \o c
  <2>1. (a \o h) \o pt = a \o (h \o pt)
    <3>1. a \in Strings /\ h \in Strings /\ pt \in Strings
      BY <1>4, <1>5, <1>8
    <3> QED
      BY <3>1, Regrouped
  <2>2. (a \o b) \o path = a \o (b \o path)
    <3>1. a \in Strings /\ b \in Strings /\ path \in Strings
      BY <1>4, <1>8
    <3> QED
      BY <3>1, Regrouped
  <2> QED
    BY <1>7, <2>1, <2>2
<1>10. (u \o l) \o c = u \o (l \o c)
  <2>1. u \in Strings /\ l \in Strings /\ c \in Strings
    BY <1>6, <1>8
  <2> QED
    BY <2>1, Regrouped
<1>11. l \o c \in Strings
  BY <1>6, <1>8, Joined
<1> QED
  BY <1>3, <1>7, <1>9, <1>10, <1>11

\* The email and the password, one behind the other.
EmailUser(email, password) == (email \o <<Plain(":")>>) \o password

LEMMA UserText ==
  ASSUME NEW email \in Strings, NEW password \in Strings,
         NEW u, u = EmailUser(email, password)
  PROVE  /\ u \in Strings /\ Len(email) \in Nat /\ Len(password) \in Nat
         /\ Len(u) = Len(email) + 1 + Len(password)
         /\ u[Len(email) + 1] = Plain(":")
         /\ Marks(email, {":"}) = {} => Before(u, {":"}) = email /\ After(u, {":"}) = password
<1>1. PICK c \in Chars : c = ":"
  BY EnvironmentsAreStrings DEF Reserved
<1>2. PICK l : l = <<Plain(c)>>
  OBVIOUS
<1>3. l \in Strings /\ Len(l) = 1 /\ l[1] = Plain(c) /\ Is(l[1], {":"})
  <2>1. /\ <<Plain(c)>> \in Strings /\ Len(<<Plain(c)>>) = 1 /\ <<Plain(c)>>[1] = Plain(c)
        /\ Is(Plain(c), {c})
    BY PlainWords
  <2> QED
    BY <1>1, <1>2, <2>1
<1>4. PICK e : e = email \o l
  OBVIOUS
<1>5. /\ e \in Strings /\ Len(e) = Len(email) + Len(l) /\ Len(email) \in Nat
      /\ \A i \in 1..Len(email) : e[i] = email[i]
      /\ \A i \in 1..Len(l) : e[Len(email) + i] = l[i]
  BY <1>3, <1>4, Joined
<1>6. u = e \o password
  BY <1>1, <1>2, <1>4 DEF EmailUser
<1>7. /\ u \in Strings /\ Len(u) = Len(e) + Len(password) /\ Len(password) \in Nat
      /\ \A i \in 1..Len(e) : u[i] = e[i]
      /\ \A i \in 1..Len(password) : u[Len(e) + i] = password[i]
  <2>1. /\ e \o password \in Strings /\ Len(e \o password) = Len(e) + Len(password)
        /\ Len(password) \in Nat
        /\ \A i \in 1..Len(e) : (e \o password)[i] = e[i]
        /\ \A i \in 1..Len(password) : (e \o password)[Len(e) + i] = password[i]
    BY <1>5, Joined
  <2> QED
    BY <1>6, <2>1
<1>8. Len(e) = Len(email) + 1
  BY <1>3, <1>5
<1>9. u[Len(email) + 1] = Plain(":")
  <2>1. 1 \in 1..Len(l) /\ Len(email) + 1 \in 1..Len(e)
    BY <1>3, <1>5, <1>8
  <2>2. e[Len(email) + 1] = l[1]
    BY <1>5, <2>1
  <2> QED
    BY <1>1, <1>3, <1>7, <2>1, <2>2
<1>10. ASSUME Marks(email, {":"}) = {}
       PROVE  Before(u, {":"}) = email /\ After(u, {":"}) = password
  <2>1. PICK b : b = l \o password
    OBVIOUS
  <2>2. b \in Strings /\ Len(b) = 1 + Len(password) /\ b[1] = l[1]
        /\ \A i \in 1..Len(password) : b[1 + i] = password[i]
    <3>1. /\ l \o password \in Strings /\ Len(l \o password) = Len(l) + Len(password)
          /\ \A i \in 1..Len(l) : (l \o password)[i] = l[i]
          /\ \A i \in 1..Len(password) : (l \o password)[Len(l) + i] = password[i]
      BY <1>3, Joined
    <3>2. 1 \in 1..Len(l)
      BY <1>3
    <3> QED
      BY <1>3, <2>1, <3>1, <3>2
  <2>3. u = email \o b
    <3>1. (email \o l) \o password = email \o (l \o password)
      BY <1>3, Regrouped
    <3> QED
      BY <1>4, <1>6, <2>1, <3>1
  <2>4. Is(b[1], {":"}) /\ b # <<>>
    BY <1>3, <1>7, <2>2
  <2>5. Before(email \o b, {":"}) = email /\ After(email \o b, {":"}) = Tail(b)
    BY <1>10, <2>2, <2>4, SplitJoined
  <2>6. Tail(b) = password
    <3>1. PICK t : t = Tail(b)
      OBVIOUS
    <3>2. /\ t \in Strings /\ Len(t) = Len(b) - 1
          /\ \A i \in 1..Len(t) : t[i] = b[i + 1]
      BY <2>2, <2>4, <3>1, TailOf
    <3>3. Len(t) = Len(password) /\ \A i \in 1..Len(password) : t[i] = password[i]
      BY <1>7, <2>2, <3>2
    <3>4. t = password
      BY <3>2, <3>3, SameText
    <3> QED
      BY <3>1, <3>4
  <2> QED
    BY <2>3, <2>5, <2>6
<1> QED
  BY <1>7, <1>8, <1>9, <1>10

LEMMA UserBegins ==
  ASSUME NEW email \in Strings, NEW password \in Strings,
         NEW i \in DOMAIN email
  PROVE  EmailUser(email, password)[i] = email[i]
<1>1. PICK l : l = <<Plain(":")>>
  OBVIOUS
<1>2. PICK e : e = email \o l
  OBVIOUS
<1>3. l \in Strings
  BY <1>1, PlainWords, EnvironmentsAreStrings DEF Reserved
<1>4. i \in 1..Len(email) /\ Len(email) \in Nat
  BY DEF Strings
<1>5. e \in Strings /\ e[i] = email[i] /\ i \in 1..Len(e)
  <2>1. e \in Strings /\ Len(e) = Len(email) + Len(l) /\ Len(l) \in Nat
        /\ \A k \in 1..Len(email) : e[k] = email[k]
    BY <1>2, <1>3, Joined
  <2> QED
    BY <1>4, <2>1
<1>6. (e \o password)[i] = e[i]
  BY <1>5, Joined
<1> QED
  BY <1>1, <1>2, <1>5, <1>6 DEF EmailUser

LEMMA UserEnds ==
  ASSUME NEW email \in Strings, NEW password \in Strings,
         NEW i \in DOMAIN password
  PROVE  EmailUser(email, password)[Len(email) + 1 + i] = password[i]
<1>1. PICK l : l = <<Plain(":")>>
  OBVIOUS
<1>2. PICK e : e = email \o l
  OBVIOUS
<1>3. l \in Strings /\ Len(l) = 1
  BY <1>1, PlainWords, EnvironmentsAreStrings DEF Reserved
<1>4. e \in Strings /\ Len(e) = Len(email) + 1
  <2>1. e \in Strings /\ Len(e) = Len(email) + Len(l)
    BY <1>2, <1>3, Joined
  <2> QED
    BY <1>3, <2>1
<1>5. i \in 1..Len(password)
  BY DEF Strings
<1>6. (e \o password)[Len(e) + i] = password[i]
  BY <1>4, <1>5, Joined
<1> QED
  BY <1>1, <1>2, <1>4, <1>6 DEF EmailUser

\* An email or a password that is not ambiguous but has a "/" or "?" leaves no password.
LEMMA NoPassword ==
  ASSUME NEW email \in Strings, NEW password \in Strings, ~ Ambiguous(email, password),
         NEW u, u = EmailUser(email, password), Marks(u, {"/", "?"}) # {},
         NEW x \in Strings, NEW rest, rest = u \o x, NEW p, p = UrlParse(rest)
  PROVE  ~ Given(p.password)
<1>1. /\ u \in Strings /\ Len(email) \in Nat /\ Len(password) \in Nat
      /\ Len(u) = Len(email) + 1 + Len(password)
      /\ u[Len(email) + 1] = Plain(":")
      /\ \A i \in 1..Len(password) : u[Len(email) + 1 + i] = password[i]
      /\ Marks(email, {":"}) = {} => Before(u, {":"}) = email /\ After(u, {":"}) = password
  <2>1. /\ u \in Strings /\ Len(email) \in Nat /\ Len(password) \in Nat
        /\ Len(u) = Len(email) + 1 + Len(password)
    BY UserText
  <2>2. u[Len(email) + 1] = Plain(":")
    BY UserText
  <2>3. ASSUME NEW i \in 1..Len(password) PROVE u[Len(email) + 1 + i] = password[i]
    <3>1. i \in DOMAIN password
      BY DEF Strings
    <3> QED
      BY <3>1, UserEnds
  <2>4. Marks(email, {":"}) = {} => Before(u, {":"}) = email /\ After(u, {":"}) = password
    BY UserText
  <2> QED
    BY <2>1, <2>2, <2>3, <2>4
<1>2. PICK n : n = Before(u, {"/", "?"})
  OBVIOUS
<1>3. rest \in Strings /\ Before(rest, {"/", "?"}) = n
  <2>1. u \in Strings
    BY <1>1
  <2>2. u \o x \in Strings
    BY <2>1, Joined
  <2>3. Before(u \o x, {"/", "?"}) = Before(u, {"/", "?"})
    BY <2>1, SplitFirst
  <2> QED
    BY <1>2, <2>2, <2>3
<1>4. PICK m : m = Min(Marks(u, {"/", "?"}))
  OBVIOUS
<1>5. m \in 1..Len(u) /\ Is(u[m], {"/", "?"})
  BY <1>1, <1>4, FirstMark
<1>6. n \in Strings /\ Len(n) = m - 1 /\ \A i \in 1..Len(n) : n[i] = u[i]
  <2>1. n \in Strings /\ \A i \in 1..Len(n) : n[i] = u[i]
    BY <1>1, <1>2, BeforeHasNone
  <2>4. n = SubSeq(u, 1, m - 1)
    BY <1>2, <1>4 DEF Before
  <2>5. m - 1 \in Nat /\ m - 1 <= Len(u)
    BY <1>1, <1>5
  <2>2. n = SubSeq(u, 1, m - 1) /\ m - 1 \in Nat /\ m - 1 <= Len(u)
    BY <2>4, <2>5
  <2>3. Len(n) = (IF 1 <= m - 1 THEN m - 1 - 1 + 1 ELSE 0)
    BY <1>1, <2>2, PartOf
  <2> QED
    BY <1>5, <2>1, <2>2, <2>3
<1>7. PICK ui : ui = UpToLast(n, {"@"})
  OBVIOUS
<1>8. p.password = (IF ui = NotSet THEN NotSet ELSE After(ui, {":"}))
  BY <1>3, <1>7, Parsed DEF UserInfo
<1>9. CASE Marks(n, {"@"}) = {}
  BY <1>7, <1>8, <1>9 DEF UpToLast, Given
<1>10. CASE Marks(n, {"@"}) # {}
  <2>1. PICK k : k = Max(Marks(n, {"@"}))
    OBVIOUS
  <2>2. k \in 1..Len(n) /\ Is(n[k], {"@"})
    BY <1>6, <1>10, <2>1, FirstMark
  <2>3. k \in 1..Len(u) /\ k < m /\ Is(u[k], {"@"})
    BY <1>1, <1>5, <1>6, <2>2
  <2>4. k # Len(email) + 1
    <3>1. ~ Is(Plain(":"), {"@"})
      BY DEF Is, Plain
    <3> QED
      BY <1>1, <2>3, <3>1
  <2>5. k <= Len(email)
    <3>1. SUFFICES ASSUME ~ (k <= Len(email)) PROVE FALSE
      OBVIOUS
    <3>2. PICK j, q : j = k - (Len(email) + 1) /\ q = m - (Len(email) + 1)
      OBVIOUS
    <3>3. /\ j \in 1..Len(password) /\ q \in 1..Len(password) /\ j < q
          /\ Len(email) + 1 + j = k /\ Len(email) + 1 + q = m
      BY <1>1, <1>5, <2>3, <2>4, <3>1, <3>2
    <3>4. Is(password[j], {"@"}) /\ Is(password[q], {"/", "?"})
      BY <1>1, <1>5, <2>3, <3>3
    <3>5. DOMAIN password = 1..Len(password)
      BY DEF Strings
    <3> QED
      BY <3>3, <3>4, <3>5 DEF Ambiguous
  <2>6. ui = SubSeq(n, 1, k - 1) /\ k - 1 \in Nat /\ k - 1 <= Len(n)
    BY <1>6, <1>7, <1>10, <2>1, <2>2 DEF UpToLast
  <2>7. /\ ui \in Strings
        /\ Len(ui) = (IF 1 <= k - 1 THEN k - 1 - 1 + 1 ELSE 0)
        /\ \A i \in 1..(k - 1 - 1 + 1) : ui[i] = n[1 + i - 1]
    BY <1>6, <2>6, PartOf
  <2>8. ASSUME NEW i \in 1..Len(ui) PROVE ~ Is(ui[i], {":"})
    <3>1. /\ i \in 1..(k - 1 - 1 + 1) /\ 1 + i - 1 = i
          /\ i \in 1..Len(n) /\ i \in 1..Len(email)
      BY <1>1, <1>6, <2>2, <2>5, <2>7
    <3>2. ui[i] = email[i]
      <4>1. i \in DOMAIN email
        BY <3>1 DEF Strings
      <4>2. u[i] = email[i]
        BY <4>1, UserBegins
      <4> QED
        BY <1>6, <2>7, <3>1, <4>2
    <3>3. Marks(email, {":"}) = {}
      BY DEF Ambiguous
    <3>4. ~ Is(email[i], {":"})
      BY <3>1, <3>3, MarksAre
    <3> QED
      BY <3>2, <3>4
  <2>9. Marks(ui, {":"}) = {}
    BY <2>7, <2>8, MarksAre
  <2>10. After(ui, {":"}) = NotSet
    BY <2>9 DEF After
  <2> QED
    BY <1>8, <2>10 DEF Given
<1> QED
  BY <1>9, <1>10

TokenUser(token) == <<Plain("token"), Plain(":")>> \o Quote(token)

\* The token is encoded: user information made of it reads as it was.
LEMMA TokenText ==
  ASSUME NEW t \in Strings, t # <<>>, NEW u, u = TokenUser(t)
  PROVE  /\ u \in Strings /\ Marks(u, {"/", "?"}) = {}
         /\ Before(u, {":"}) = <<Plain("token")>> /\ After(u, {":"}) = Quote(t)
         /\ Given(Quote(t)) /\ Unquote(Quote(t)) = t
<1>1. PICK q : q = Quote(t)
  OBVIOUS
<1>2. /\ q \in Strings /\ Len(q) = Len(t) /\ Unquote(q) = t
      /\ Marks(q, {"/", "?"}) = {} /\ Marks(q, {":"}) = {}
  <2>1. {"/", "?"} \in SUBSET Reserved /\ {":"} \in SUBSET Reserved
    BY DEF Reserved
  <2> QED
    BY <1>1, <2>1, QuoteBack
<1>3. q # <<>>
  BY <1>2 DEF Strings
<1>4. PICK w, l : w = <<Plain("token")>> /\ l = <<Plain(":")>>
  OBVIOUS
<1>5. /\ w \in Strings /\ Len(w) = 1 /\ w[1] = Plain("token")
      /\ l \in Strings /\ Len(l) = 1 /\ l[1] = Plain(":")
  <2>1. "token" \in Chars /\ ":" \in Chars
    BY EnvironmentsAreStrings DEF Reserved
  <2>2. /\ <<Plain("token")>> \in Strings /\ Len(<<Plain("token")>>) = 1
        /\ <<Plain("token")>>[1] = Plain("token")
    BY <2>1, PlainWords
  <2>3. /\ <<Plain(":")>> \in Strings /\ Len(<<Plain(":")>>) = 1
        /\ <<Plain(":")>>[1] = Plain(":")
    BY <2>1, PlainWords
  <2> QED
    BY <1>4, <2>2, <2>3
<1>6. ~ Is(w[1], {":"}) /\ ~ Is(w[1], {"/", "?"}) /\ Is(l[1], {":"}) /\ ~ Is(l[1], {"/", "?"})
  BY <1>5 DEF Is, Plain
<1>7. Marks(w, {":"}) = {} /\ Marks(w, {"/", "?"}) = {} /\ Marks(l, {"/", "?"}) = {}
  BY <1>5, <1>6, MarksAre
<1>8. PICK b : b = l \o q
  OBVIOUS
<1>9. /\ b \in Strings /\ Marks(b, {"/", "?"}) = {}
      /\ Len(b) = 1 + Len(q) /\ b[1] = l[1] /\ \A i \in 1..Len(q) : b[1 + i] = q[i]
  <2>1. /\ l \o q \in Strings /\ Len(l \o q) = Len(l) + Len(q)
        /\ \A i \in 1..Len(l) : (l \o q)[i] = l[i]
        /\ \A i \in 1..Len(q) : (l \o q)[Len(l) + i] = q[i]
    BY <1>2, <1>5, Joined
  <2>2. Marks(l \o q, {"/", "?"}) = {}
    BY <1>2, <1>5, <1>7, JoinedMarks
  <2>3. 1 \in 1..Len(l)
    BY <1>5
  <2> QED
    BY <1>5, <1>8, <2>1, <2>2, <2>3
<1>10. u = w \o b
  <2>1. PICK tl : tl = <<Plain("token"), Plain(":")>>
    OBVIOUS
  <2>2. tl = w \o l
    <3>1. PICK x : x = w \o l
      OBVIOUS
    <3>2. x \in Strings /\ Len(x) = 2 /\ x[1] = w[1] /\ x[2] = l[1]
      <4>1. /\ x \in Strings /\ Len(x) = Len(w) + Len(l)
            /\ \A i \in 1..Len(w) : x[i] = w[i]
            /\ \A i \in 1..Len(l) : x[Len(w) + i] = l[i]
        BY <1>5, <3>1, Joined
      <4>2. 1 \in 1..Len(w) /\ 1 \in 1..Len(l) /\ Len(w) + 1 = 2 /\ Len(w) + Len(l) = 2
        BY <1>5
      <4>3. x[Len(w) + 1] = l[1]
        BY <4>1, <4>2
      <4> QED
        BY <4>1, <4>2, <4>3
    <3>3. Len(tl) = 2 /\ tl[1] = w[1] /\ tl[2] = l[1]
      BY <1>5, <2>1
    <3>4. tl \in Strings
      <4>1. Plain("token") \in Word /\ Plain(":") \in Word
        BY PlainWords, EnvironmentsAreStrings DEF Reserved
      <4> QED
        BY <2>1, <4>1 DEF Strings
    <3>5. \A i \in 1..Len(tl) : tl[i] = x[i]
      BY <3>2, <3>3
    <3>6. tl = x
      BY <3>2, <3>3, <3>4, <3>5, SameText
    <3> QED
      BY <3>1, <3>6
  <2>3. (w \o l) \o q = w \o (l \o q)
    BY <1>2, <1>5, Regrouped
  <2> QED
    BY <1>1, <1>8, <2>1, <2>2, <2>3 DEF TokenUser
<1>11. u \in Strings /\ Marks(u, {"/", "?"}) = {}
  <2>1. w \o b \in Strings
    BY <1>5, <1>9, Joined
  <2>2. Marks(w \o b, {"/", "?"}) = {}
    BY <1>5, <1>7, <1>9, JoinedMarks
  <2> QED
    BY <1>10, <2>1, <2>2
<1>12. b # <<>> /\ Is(b[1], {":"})
  BY <1>2, <1>6, <1>9 DEF Strings
<1>13. Before(u, {":"}) = w /\ After(u, {":"}) = Tail(b)
  <2>1. Before(w \o b, {":"}) = w /\ After(w \o b, {":"}) = Tail(b)
    BY <1>5, <1>7, <1>9, <1>12, SplitJoined
  <2> QED
    BY <1>10, <2>1
<1>14. Tail(b) = q
  <2>1. PICK r : r = Tail(b)
    OBVIOUS
  <2>2. /\ r \in Strings /\ Len(r) = Len(b) - 1
        /\ \A i \in 1..Len(r) : r[i] = b[i + 1]
    BY <1>9, <1>12, <2>1, TailOf
  <2>3. Len(q) \in Nat
    BY <1>2 DEF Strings
  <2>4. Len(r) = Len(q) /\ \A i \in 1..Len(q) : r[i] = q[i]
    BY <1>9, <2>2, <2>3
  <2>5. r = q
    BY <1>2, <2>2, <2>4, SameText
  <2> QED
    BY <2>1, <2>5
<1>15. Given(q)
  BY <1>2, <1>3, NotSetIsNone DEF Given
<1> QED
  BY <1>1, <1>2, <1>4, <1>11, <1>13, <1>14, <1>15

-----------------------------------------------------------------------------
\* AcceptedAsGiven, of an environment and what is made of it.
Separate(v, i) ==
  LET named == UrlParse(v.host)
  IN /\ i.host = named.hostname
     /\ i.port = (IF named.port = <<Plain("0")>> THEN NotSet ELSE named.port)
     /\ i.project = (IF Given(v.project) THEN OrNone(StripSlash(Before(v.project, {"?"})))
                     ELSE NotSet)
     /\ IF Given(v.token) THEN i.token = v.token /\ i.email = NotSet
        ELSE i.token = NotSet /\ i.email = v.email /\ i.password = v.password
ConfiguredAsGiven(e, i) ==
  i.kind = "info" =>
    /\ ~ Given(e.vars.conn) /\ (Given(e.vars.token) \/ ~ Ambiguous(e.vars.email, e.vars.password)) =>
         Separate(e.vars, i)
    /\ (i.token = NotSet) <=> (i.email # NotSet)
    /\ Given(e.vars.conn) /\ Given(e.vars.token) => i.email = NotSet
    /\ e.project => i.project # NotSet

\* Whatever is parsed and accepted has one kind of credentials, and a project where one is required.
LEMMA OneKind ==
  ASSUME NEW scheme, NEW rest, NEW envToken, NEW required,
         NEW i, i = Parse(scheme, rest, envToken, required), i # Malformed
  PROVE  /\ (i.token = NotSet) <=> (i.email # NotSet)
         /\ envToken # NotSet => i.email = NotSet
         /\ required => i.project # NotSet
<1>1. PICK p : p = UrlParse(rest)
  OBVIOUS
<1> QED
  BY <1>1, ParseIs

\* A token of its own variable.
LEMMA TokenRoute ==
  ASSUME NEW v \in Vars, NEW required, Given(v.host), Given(v.token), ~ BadPort(v.host),
         NEW u, u = TokenUser(v.token),
         NEW i, i = Parse("ragnerock", Assemble(v.host, v.project, u), v.token, required), i # Malformed
  PROVE  Separate(v, i)
<1>1. PICK host, project, t, named, rest :
        /\ host = v.host /\ project = v.project /\ t = v.token
        /\ named = UrlParse(host) /\ rest = Assemble(host, project, u)
  OBVIOUS
<1>2. host \in Strings /\ project \in Variable /\ t \in Strings /\ t # <<>> /\ ~ BadPort(host)
  BY <1>1 DEF Vars, Variable, Given
<1>3. /\ u \in Strings /\ Marks(u, {"/", "?"}) = {}
      /\ Before(u, {":"}) = <<Plain("token")>> /\ After(u, {":"}) = Quote(t)
      /\ Given(Quote(t)) /\ Unquote(Quote(t)) = t
  BY <1>1, <1>2, TokenText
<1>4. PICK p : p = UrlParse(rest)
  OBVIOUS
<1>5. i = Parse("ragnerock", rest, t, required)
  BY <1>1
<1>6. /\ p.hostname # NotSet
      /\ i.host = p.hostname /\ i.port = p.port
      /\ i.project = OrNone(StripSlash(p.path))
      /\ IF p.username # <<Plain("token")>> /\ Given(p.username)
         THEN t = NotSet
         ELSE /\ i.email = NotSet
              /\ i.token = (IF p.username = <<Plain("token")>> THEN Unquote(p.password) ELSE t)
  BY <1>4, <1>5, ParseIs
<1>7. named.hostname # NotSet
  BY <1>1, <1>2, <1>3, <1>4, <1>6, ParseAssembled
<1>8. /\ p.hostname = named.hostname
      /\ p.port = (IF named.port = <<Plain("0")>> THEN NotSet ELSE named.port)
      /\ OrNone(StripSlash(p.path)) =
           (IF Given(project) THEN OrNone(StripSlash(Before(project, {"?"}))) ELSE NotSet)
      /\ p.username = Before(u, {":"}) /\ p.password = After(u, {":"})
  BY <1>1, <1>2, <1>3, <1>4, <1>7, ParseAssembled
<1>9. i.email = NotSet /\ i.token = t
  BY <1>3, <1>6, <1>8
<1> QED
  BY <1>1, <1>6, <1>8, <1>9 DEF Separate

\* An email and a password of their own variables.
LEMMA EmailRoute ==
  ASSUME NEW v \in Vars, NEW required, Given(v.host), ~ Given(v.token), ~ BadPort(v.host),
         Given(v.email), Given(v.password), ~ Ambiguous(v.email, v.password),
         NEW u, u = EmailUser(v.email, v.password),
         NEW i, i = Parse("ragnerock", Assemble(v.host, v.project, u), NotSet, required), i # Malformed
  PROVE  Separate(v, i)
<1>1. PICK host, project, email, password, named, rest :
        /\ host = v.host /\ project = v.project /\ email = v.email /\ password = v.password
        /\ named = UrlParse(host) /\ rest = Assemble(host, project, u)
  OBVIOUS
<1>2. /\ host \in Strings /\ project \in Variable /\ ~ BadPort(host)
      /\ email \in Strings /\ email # <<>> /\ password \in Strings
      /\ ~ Ambiguous(email, password) /\ u = EmailUser(email, password)
  BY <1>1 DEF Vars, Variable, Given
<1>3. PICK p : p = UrlParse(rest)
  OBVIOUS
<1>4. i = Parse("ragnerock", rest, NotSet, required)
  BY <1>1
<1>5. /\ p.hostname # NotSet
      /\ i.host = p.hostname /\ i.port = p.port
      /\ i.project = OrNone(StripSlash(p.path))
      /\ IF p.username # <<Plain("token")>> /\ Given(p.username)
         THEN i.email = p.username /\ i.password = p.password /\ i.token = NotSet /\ Given(p.password)
         ELSE /\ i.token # NotSet
              /\ i.token = (IF p.username = <<Plain("token")>> THEN Unquote(p.password) ELSE NotSet)
              /\ p.username = <<Plain("token")>> => Given(p.password)
  BY <1>3, <1>4, ParseIs
<1>6. Given(p.password)
  BY <1>5
<1>7. Marks(email, {":"}) = {} /\ email # <<Plain("token")>>
  BY <1>2 DEF Ambiguous
<1>8. u \in Strings
  BY <1>2, UserText
<1>9. Before(u, {":"}) = email /\ After(u, {":"}) = password
  BY <1>2, <1>7, UserText
<1>10. Marks(u, {"/", "?"}) = {}
  <2>1. SUFFICES ASSUME Marks(u, {"/", "?"}) # {} PROVE FALSE
    OBVIOUS
  <2>4. \E x \in Strings : Assemble(host, project, u) = u \o x
    BY <1>2, <1>8, AssembledBehind
  <2>2. PICK x \in Strings : rest = u \o x
    BY <1>1, <2>4
  <2>3. ~ Given(p.password)
    BY <1>2, <1>3, <2>1, <2>2, NoPassword
  <2> QED
    BY <1>6, <2>3
<1>11. named.hostname # NotSet
  BY <1>1, <1>2, <1>3, <1>5, <1>8, <1>10, ParseAssembled
<1>12. /\ p.hostname = named.hostname
       /\ p.port = (IF named.port = <<Plain("0")>> THEN NotSet ELSE named.port)
       /\ OrNone(StripSlash(p.path)) =
            (IF Given(project) THEN OrNone(StripSlash(Before(project, {"?"}))) ELSE NotSet)
       /\ p.username = Before(u, {":"}) /\ p.password = After(u, {":"})
  BY <1>1, <1>2, <1>3, <1>8, <1>10, <1>11, ParseAssembled
<1>13. p.username = email /\ p.password = password /\ Given(email)
  BY <1>1, <1>9, <1>12
<1>14. i.email = email /\ i.password = password /\ i.token = NotSet
  BY <1>5, <1>7, <1>13
<1> QED
  BY <1>1, <1>5, <1>12, <1>14 DEF Separate

\* What build_engine() and build_client() make of an environment.
LEMMA ConfigurationIs ==
  ASSUME NEW e \in Environments
  PROVE  ConfiguredAsGiven(e, FromEnvironment(e.vars, e.project))
<1>1. PICK v, i, required : v = e.vars /\ i = FromEnvironment(v, required) /\ required = e.project
  OBVIOUS
<1>2. v \in Vars /\ v.token \in Variable
  BY <1>1, EnvironmentsAreStrings DEF Vars
<1>3. SUFFICES ASSUME i.kind = "info" PROVE ConfiguredAsGiven(e, i)
  BY <1>1 DEF ConfiguredAsGiven
<1>4. PICK token, ready, u, w :
        /\ token = OrNone(v.token)
        /\ ready = (Given(v.host) /\ (required => Given(v.project)))
        /\ u = TokenUser(token)
        /\ w = EmailUser(v.email, v.password)
  OBVIOUS
<1>5. NotSet # <<>>
  BY NotSetIsNone
<1>6. /\ Given(v.token) <=> token # NotSet
      /\ Given(v.token) => token = v.token
  BY <1>4, <1>5 DEF OrNone, Given
<1>7. PICK conn, ofToken, ofEmail :
         /\ conn = Parse(v.scheme, v.conn, token, required)
         /\ ofToken = Parse("ragnerock", Assemble(v.host, v.project, u), token, required)
         /\ ofEmail = Parse("ragnerock", Assemble(v.host, v.project, w), token, required)
  OBVIOUS
<1>8. i = (IF Given(v.conn) THEN IF conn = Malformed THEN ConfigError ELSE conn
           ELSE IF ready /\ token # NotSet
           THEN IF BadPort(v.host) THEN Malformed ELSE IF ofToken = Malformed THEN ConfigError ELSE ofToken
           ELSE IF ready /\ Given(v.email) /\ Given(v.password)
           THEN IF BadPort(v.host) THEN Malformed ELSE IF ofEmail = Malformed THEN ConfigError ELSE ofEmail
           ELSE ConfigError)
  BY <1>1, <1>4, <1>7 DEF FromEnvironment, BadPort, EmailUser, TokenUser
<1>9. i # ConfigError /\ i # Malformed
  BY <1>3 DEF ConfigError, Malformed
<1>10. CASE Given(v.conn)
  <2>1. i = conn
    BY <1>8, <1>9, <1>10
  <2>2. /\ (i.token = NotSet) <=> (i.email # NotSet)
        /\ token # NotSet => i.email = NotSet
        /\ required => i.project # NotSet
    BY <1>7, <1>9, <2>1, OneKind
  <2> QED
    BY <1>1, <1>6, <1>10, <2>2 DEF ConfiguredAsGiven
<1>11. CASE ~ Given(v.conn) /\ ready /\ token # NotSet
  <2>1. i = ofToken /\ ~ BadPort(v.host)
    BY <1>8, <1>9, <1>11
  <2>2. /\ (i.token = NotSet) <=> (i.email # NotSet)
        /\ required => i.project # NotSet
    BY <1>7, <1>9, <2>1, OneKind
  <2>3. Separate(v, i)
    <3>1. Given(v.host) /\ Given(v.token) /\ token = v.token
      BY <1>4, <1>6, <1>11
    <3>2. u = TokenUser(v.token)
          /\ i = Parse("ragnerock", Assemble(v.host, v.project, u), v.token, required)
      BY <1>4, <1>7, <2>1, <3>1
    <3> QED
      BY <1>2, <1>9, <2>1, <3>1, <3>2, TokenRoute
  <2> QED
    BY <1>1, <1>11, <2>2, <2>3 DEF ConfiguredAsGiven
<1>12. CASE ~ Given(v.conn) /\ ~ (ready /\ token # NotSet)
  <2>1. ready /\ Given(v.email) /\ Given(v.password) /\ ~ BadPort(v.host) /\ i = ofEmail
    BY <1>8, <1>9, <1>12
  <2>2. /\ (i.token = NotSet) <=> (i.email # NotSet)
        /\ required => i.project # NotSet
    BY <1>7, <1>9, <2>1, OneKind
  <2>3. ~ Given(v.token) /\ token = NotSet /\ Given(v.host)
    BY <1>4, <1>6, <1>12, <2>1
  <2>4. ASSUME ~ Ambiguous(v.email, v.password) PROVE Separate(v, i)
    <3>1. i = Parse("ragnerock", Assemble(v.host, v.project, w), NotSet, required)
      BY <1>7, <2>1, <2>3
    <3> QED
      BY <1>2, <1>4, <1>9, <2>1, <2>3, <2>4, <3>1, EmailRoute
  <2> QED
    BY <1>1, <1>12, <2>2, <2>3, <2>4 DEF ConfiguredAsGiven
<1> QED
  BY <1>10, <1>11, <1>12

-----------------------------------------------------------------------------
\* What a program of the client knows of its configuration.
ConfigInv ==
  /\ program = "configure" => environ \in Environments
  /\ program # "configure" => info = NotYet
  /\ ConfiguredAsGiven(environ, info)

LEMMA ConfigAlways == ClientSpec => []ConfigInv
<1>1. ClientInit => ConfigInv
  <2>1. SUFFICES ASSUME ClientInit PROVE ConfigInv
    OBVIOUS
  <2>2. info = NotYet /\ (program = "configure" => environ \in Environments)
    BY <2>1 DEF ClientInit, ConfigInit
  <2>3. ConfiguredAsGiven(environ, info)
    BY <2>2 DEF ConfiguredAsGiven, NotYet
  <2> QED
    BY <2>2, <2>3 DEF ConfigInv
<1>2. ConfigInv /\ [ClientNext]_clientVars => ConfigInv'
  <2>1. SUFFICES ASSUME ConfigInv, [ClientNext]_clientVars PROVE ConfigInv'
    OBVIOUS
  <2>2. CASE program = "configure" /\ Configure /\ UNCHANGED program
    <3>1. environ \in Environments /\ environ' = environ /\ program' = program
      BY <2>1, <2>2 DEF ConfigInv, Configure
    <3>2. info' = FromEnvironment(environ.vars, environ.project)
      BY <2>2 DEF Configure
    <3>3. ConfiguredAsGiven(environ, FromEnvironment(environ.vars, environ.project))
      BY <3>1, ConfigurationIs
    <3>4. ConfiguredAsGiven(environ, info)'
      BY <3>1, <3>2, <3>3 DEF ConfiguredAsGiven, Separate
    <3> QED
      BY <2>2, <3>1, <3>4 DEF ConfigInv
  <2>3. CASE UNCHANGED <<environ, info, program>>
    BY <2>1, <2>3 DEF ConfigInv, ConfiguredAsGiven, Separate
  <2> QED
    BY <2>1, <2>2, <2>3 DEF ClientNext, clientVars, configVars
<1> QED
  BY <1>1, <1>2, PTL DEF ClientSpec

(* A configuration that is accepted is the one that was given, of any      *)
(* texts: build_engine() and build_client() of cli/config.py, and          *)
(* parse_connection_string() of engine.py behind them, keep host, port,    *)
(* project and credentials apart.                                          *)
THEOREM ConfigurationIsAsGiven == ClientSpec => []AcceptedAsGiven
<1>1. ConfigInv => AcceptedAsGiven
  BY DEF ConfigInv, ConfiguredAsGiven, Separate, AcceptedAsGiven
<1> QED
  BY <1>1, ConfigAlways, PTL
=============================================================================
