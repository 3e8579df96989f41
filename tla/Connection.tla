----------------------------- MODULE Connection -----------------------------
(***************************************************************************)
(* How a call on a Session reaches the API: the lazy connection of the     *)
(* Engine (log in, look the project up), the request of the client with    *)
(* its retries on 429 Too Many Requests, and the streaming request that    *)
(* holds a pooled connection while its body is read.                       *)
(* ragnerock/engine.py, client/auth.py and client/_client.py.              *)
(***************************************************************************)
EXTENDS Integers

CONSTANTS
  MaxRetries, \* max_rate_limit_retries of the client
  Login,      \* TRUE: email and password; FALSE: an API token
  Calls,      \* the calls the program makes: see CallKinds
  Env         \* what may happen: see EnvEvents

\* enter:   with Session(engine)
\* list:    a read that names the project
\* get:     a read by id, which does not
\* create:  a write that names the project
\* update:  a write by id, which does not
\* stream:  a read whose body is consumed while the connection is open
CallKinds == {"enter", "list", "get", "create", "update", "stream"}

\* lost:     a request does not arrive, or its answer does not
\* limited:  the server answers 429
\* unparsed: ... with a Retry-After that is neither a number nor a date
\* revoked:  the server stops accepting the token
\* namesake: several projects have the configured name
EnvEvents == {"lost", "limited", "unparsed", "revoked", "namesake"}

ASSUME ConnectionAssumption ==
  /\ MaxRetries \in Nat
  /\ Login \in BOOLEAN
  /\ Calls \subseteq CallKinds
  /\ Env \subseteq EnvEvents

Scoped(c) == c \in {"enter", "list", "create"}
Writes(c) == c \in {"create", "update"}

VARIABLES
  token,     \* the client carries an Authorization header
  connected, \* Engine._connected
  project,   \* how many projects the lookup behind _project_id found; 0: none yet
  accepted,  \* the server accepts the token
  call,      \* the call in progress
  stage,     \* its request: "login", "project" or "main"; "idle" between calls
  step,      \* "send", "reply" (answer received), "sleep", "body" (stream open)
  attempt,   \* retries made of this request
  status,    \* of the answer: "ok", "denied", "limited", "error"
  parsed,    \* the answer's Retry-After can be parsed, or is absent
  matches,   \* projects in the answer of the lookup
  open,      \* pooled connections held by a streaming request
  outcome,   \* how the last call ended: "none", "ok" or an exception
  limits,    \* history: 429 answers to this request, counted to one over the budget
  applied    \* history: writes of this call the server carried out

engine == <<token, connected, project>>
answer == <<status, parsed, matches>>
vars   == <<engine, accepted, call, stage, step, attempt, answer, open, outcome,
            limits, applied>>

Init ==
  /\ token = ~ Login
  /\ connected = FALSE
  /\ project = 0
  /\ accepted \in BOOLEAN
  /\ call \in Calls
  /\ stage = "idle"
  /\ step = "send"
  /\ attempt = 0
  /\ status = "ok" /\ parsed = TRUE /\ matches = 0
  /\ open = 0
  /\ outcome = "none"
  /\ limits = 0
  /\ applied = 0

-----------------------------------------------------------------------------
(* A call and its requests *)

\* The next request of the call, from its first attempt.
Begin(s) ==
  /\ stage' = s
  /\ step' = "send"
  /\ attempt' = 0
  /\ limits' = 0

End(o) ==
  /\ stage' = "idle"
  /\ step' = "send"
  /\ attempt' = 0
  /\ limits' = 0
  /\ open' = 0
  /\ outcome' = o

\* _ensure_connected() logs in again unless the whole of it succeeded before.
Call(c) ==
  /\ stage = "idle"
  /\ ~ (c = "enter" /\ connected)      \* nothing to do
  /\ call' = c
  /\ outcome' = "none"
  /\ applied' = 0
  /\ Begin(IF ~ Scoped(c) \/ connected THEN "main"
           ELSE IF Login THEN "login" ELSE "project")
  /\ UNCHANGED <<engine, accepted, answer, open>>

-----------------------------------------------------------------------------
(* The server *)

\* A request without a token it accepts is never carried out.
Admitted == stage = "login" \/ (token /\ accepted)

TooMany == MaxRetries + 2

Carried == IF stage = "main" /\ Writes(call) THEN applied + 1 ELSE applied

\* Carried out or not: nobody can tell.
Perhaps == {applied} \cup (IF Admitted THEN {Carried} ELSE {})

Answer ==
  /\ stage # "idle" /\ step = "send"
  /\ \/ Admitted /\ status' = "ok" /\ applied' = Carried
     \/ status' = "denied" /\ UNCHANGED applied
     \/ status' = "error" /\ applied' \in Perhaps     \* as a gateway's 502 or 504
     \/ "limited" \in Env /\ status' = "limited" /\ UNCHANGED applied
  /\ limits' = IF status' = "limited" /\ limits < TooMany THEN limits + 1 ELSE limits
  /\ parsed' \in IF "unparsed" \in Env /\ status' = "limited" THEN BOOLEAN ELSE {TRUE}
  /\ matches' \in IF stage # "project" \/ status' # "ok" THEN {0}
                  ELSE IF "namesake" \in Env THEN 0..2 ELSE 0..1
  /\ step' = "reply"
  /\ open' = IF call = "stream" THEN 1 ELSE 0
  /\ UNCHANGED <<engine, accepted, call, stage, attempt, outcome>>

\* httpx raises: the request did not arrive, or its answer did not.  Nothing on
\* the way catches it.
Lost ==
  /\ "lost" \in Env
  /\ stage # "idle" /\ step = "send"
  /\ applied' \in Perhaps
  /\ End("TransportError")
  /\ UNCHANGED <<engine, accepted, answer, call>>

Revoke ==
  /\ "revoked" \in Env
  /\ accepted' = FALSE
  /\ UNCHANGED <<engine, call, stage, step, attempt, answer, open, outcome, limits,
                 applied>>

-----------------------------------------------------------------------------
(* Login: sent past the retrying request; every refusal is an authentication *)
(* failure.                                                                   *)

LoggedIn ==
  /\ stage = "login" /\ step = "reply" /\ status = "ok"
  /\ token' = TRUE
  /\ accepted' = TRUE
  /\ Begin("project")
  /\ UNCHANGED <<connected, project, call, answer, open, outcome, applied>>

LoginFails ==
  /\ stage = "login" /\ step = "reply" /\ status # "ok"
  /\ End("AuthenticationError")
  /\ UNCHANGED <<engine, accepted, call, answer, applied>>

-----------------------------------------------------------------------------
(* _request and _stream *)

Requesting == stage \in {"project", "main"} /\ step = "reply"

SlipTryErrors ==          \* errors of the server are tried again, too
  status \in {"limited", "error"} /\ attempt < MaxRetries

TryAgain == status = "limited" /\ attempt < MaxRetries

SlipSleep ==              \* the pause is inside the with block of the stream
  /\ Requesting /\ TryAgain /\ parsed
  /\ step' = "sleep"
  /\ UNCHANGED <<engine, accepted, call, stage, attempt, answer, open, outcome, limits,
                 applied>>

\* The streaming request has left its with block before it pauses.
Sleep ==
  /\ Requesting /\ TryAgain /\ parsed
  /\ step' = "sleep"
  /\ open' = 0
  /\ UNCHANGED <<engine, accepted, call, stage, attempt, answer, outcome, limits, applied>>

SlipWake ==               \* the attempt is not counted
  /\ step = "sleep"
  /\ step' = "send"
  /\ UNCHANGED <<engine, accepted, call, stage, attempt, answer, open, outcome, limits,
                 applied>>

Wake ==
  /\ step = "sleep"
  /\ step' = "send"
  /\ attempt' = attempt + 1
  /\ UNCHANGED <<engine, accepted, call, stage, answer, open, outcome, limits, applied>>

\* parsedate_to_datetime raises on a date it cannot read, and nothing catches it.
ParseFails ==
  /\ Requesting /\ status = "limited" /\ ~ parsed
  /\ End("ValueError")
  /\ UNCHANGED <<engine, accepted, call, answer, applied>>

\* raise_for_status.
Raises ==
  /\ Requesting /\ ~ TryAgain /\ parsed
  /\ \/ status = "denied" /\ End("AuthenticationError")
     \/ status = "limited" /\ End("RateLimitError")
     \/ status = "error" /\ End("RagnerockError")
  /\ UNCHANGED <<engine, accepted, call, answer, applied>>

SlipProject ==            \* connected before it is known that the project exists
  /\ Requesting /\ stage = "project" /\ status = "ok"
  /\ connected' = TRUE
  /\ IF matches = 0
     THEN End("NotFoundError") /\ UNCHANGED project
     ELSE /\ project' = matches
          /\ IF call = "enter" THEN End("ok") ELSE Begin("main") /\ UNCHANGED <<open, outcome>>
  /\ UNCHANGED <<token, accepted, call, answer, applied>>

\* _project_id is the first of the projects found, however many there are.
ProjectFound ==
  /\ Requesting /\ stage = "project" /\ status = "ok"
  /\ IF matches = 0
     THEN End("NotFoundError") /\ UNCHANGED <<connected, project>>
     ELSE /\ project' = matches
          /\ connected' = TRUE
          /\ IF call = "enter" THEN End("ok") ELSE Begin("main") /\ UNCHANGED <<open, outcome>>
  /\ UNCHANGED <<token, accepted, call, answer, applied>>

Done ==
  /\ Requesting /\ stage = "main" /\ status = "ok" /\ call # "stream"
  /\ End("ok")
  /\ UNCHANGED <<engine, accepted, call, answer, applied>>

\* The body is yielded to the caller.
Body ==
  /\ Requesting /\ stage = "main" /\ status = "ok" /\ call = "stream"
  /\ step' = "body"
  /\ UNCHANGED <<engine, accepted, call, stage, attempt, answer, open, outcome, limits,
                 applied>>

\* The caller has read enough, or the body breaks off: the with block is left.
BodyEnds ==
  /\ step = "body"
  /\ End("ok") \/ ("lost" \in Env /\ End("TransportError"))
  /\ UNCHANGED <<engine, accepted, call, answer, applied>>

Progress ==
  \/ Answer \/ Lost
  \/ LoggedIn \/ LoginFails
  \/ Sleep \/ Wake \/ ParseFails \/ Raises \/ ProjectFound \/ Done \/ Body \/ BodyEnds

Next == Progress \/ Revoke \/ \E c \in Calls : Call(c)

Spec == Init /\ [][Next]_vars

\* Requests time out, sleeps end, and the caller reads its streams to the end.
FairSpec == Spec /\ WF_vars(Progress)

-----------------------------------------------------------------------------
(* Properties *)

Stages == {"idle", "login", "project", "main"}
Refusals == {"AuthenticationError", "NotFoundError", "RateLimitError"}
Errors   == Refusals \cup {"RagnerockError"}

TypeOK ==
  /\ token \in BOOLEAN /\ connected \in BOOLEAN /\ project \in Nat
  /\ accepted \in BOOLEAN
  /\ call \in CallKinds
  /\ stage \in Stages
  /\ step \in {"send", "reply", "sleep", "body"}
  /\ attempt \in 0..MaxRetries
  /\ status \in {"ok", "denied", "limited", "error"}
  /\ parsed \in BOOLEAN /\ matches \in Nat
  /\ open \in {0, 1}
  /\ outcome \in Errors \cup {"none", "ok", "TransportError", "ValueError"}
  /\ limits \in Nat
  /\ applied \in Nat

\* One call writes at most once, however often its request is sent; a write that
\* returned was carried out, and one that was refused or limited was not.
WrittenOnce ==
  /\ applied <= 1
  /\ stage = "idle" /\ Writes(call) /\ outcome = "ok" => applied = 1
  /\ outcome \in Refusals => applied = 0

\* The retries of a request are its 429 answers but the last, within the budget.
BudgetKept ==
  /\ stage # "idle" => limits <= MaxRetries + 1
  /\ stage # "idle" /\ step = "send" => limits = attempt

\* A request raises RateLimitError only when its whole budget is used up.
LimitIsFinal ==
  [][outcome = "none" /\ outcome' = "RateLimitError" => limits = MaxRetries + 1]_vars

\* A stream holds its connection only while its answer is read: never while it
\* pauses before a retry, nor after the call, whatever ended it.
NoConnectionHeld == open = 1 => call = "stream" /\ stage = "main" /\ step \in {"reply", "body"}

\* Connecting is all or nothing: what half of it leaves behind when it fails is
\* never taken for a connection.
ConnectedIsScoped ==
  /\ connected <=> project # 0
  /\ connected => token
  /\ stage = "main" /\ Scoped(call) => connected

\* Every call ends.
CallEnds == stage # "idle" ~> stage = "idle"

\* A Retry-After that cannot be parsed is documented to count as none.
UnparsedIsNone == outcome # "ValueError"
=============================================================================
