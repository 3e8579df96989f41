-------------------------- MODULE ConnectionProofs --------------------------
(* Proofs about Connection: what a call writes, how often it retries and    *)
(* what a connected engine knows, for every budget and every environment.   *)
EXTENDS Connection, TLAPS

-----------------------------------------------------------------------------
(* The inductive invariant *)

\* Which step belongs to which request; a call in progress has no outcome.
Flow ==
  /\ stage = "idle" => step = "send"
  /\ stage # "idle" => outcome = "none"
  /\ step = "sleep" => stage \in {"project", "main"} /\ attempt < MaxRetries
  /\ step = "body" => stage = "main" /\ call = "stream"

\* A write is carried out with the answer that says so, or perhaps with one that
\* tells of an error, which ends the call.
Effect ==
  /\ WrittenOnce
  /\ stage # "idle" /\ step # "reply" => applied = 0
  /\ stage # "idle" /\ step = "reply" =>
       /\ applied \in {0, 1}
       /\ applied = 1 => stage = "main" /\ Writes(call) /\ status \in {"ok", "error"}
       /\ stage = "main" /\ Writes(call) /\ status = "ok" => applied = 1

\* Each 429 so far was retried, except the one just received.
Budget ==
  stage # "idle" =>
    /\ step \in {"send", "body"} => limits = attempt
    /\ step = "sleep" => limits = attempt + 1
    /\ step = "reply" => limits = IF status = "limited" THEN attempt + 1 ELSE attempt

\* Only a request that logs in is sent without a token for the connection.
Scope ==
  /\ ConnectedIsScoped
  /\ token \/ Login
  /\ stage = "project" => token

IInv == TypeOK /\ Flow /\ Effect /\ Budget /\ Scope

\* TypeOK in three parts: flags, numbers, and the names of things.
Flags   == /\ token \in BOOLEAN /\ connected \in BOOLEAN
           /\ accepted \in BOOLEAN /\ parsed \in BOOLEAN
Numbers == /\ project \in Nat /\ attempt \in 0..MaxRetries /\ matches \in Nat
           /\ open \in {0, 1} /\ limits \in Nat /\ applied \in Nat
Names   == /\ call \in CallKinds /\ stage \in Stages
           /\ step \in {"send", "reply", "sleep", "body"}
           /\ status \in {"ok", "denied", "limited", "error"}
           /\ outcome \in Errors \cup {"none", "ok", "TransportError", "ValueError"}

LEMMA TypeParts == TypeOK <=> Flags /\ Numbers /\ Names
  BY DEF TypeOK, Flags, Numbers, Names

LEMMA InitInv == Init => IInv
<1> SUFFICES ASSUME Init PROVE IInv
  OBVIOUS
<1>1. Flags
  BY ConnectionAssumption, Zenon DEF Init, Flags
<1>2. Numbers /\ Names
  BY ConnectionAssumption DEF Init, Numbers, Names, Stages
<1>3. Flow /\ Effect /\ Budget
  BY DEF Init, Flow, Effect, Budget, WrittenOnce, Refusals
<1>4. Scope
  BY ConnectionAssumption DEF Init, Scope, ConnectedIsScoped
<1> QED
  BY <1>1, <1>2, <1>3, <1>4, TypeParts DEF IInv

LEMMA CallInv ==
  ASSUME IInv, NEW c \in Calls, Call(c)
  PROVE  IInv'
<1> USE DEF IInv
<1>1. /\ call' = c /\ outcome' = "none" /\ applied' = 0
      /\ step' = "send" /\ attempt' = 0 /\ limits' = 0
      /\ UNCHANGED <<token, connected, project, accepted, status, parsed, matches, open>>
  BY DEF Call, Begin, engine, answer
<1>2. stage' = IF ~ Scoped(c) \/ connected THEN "main"
               ELSE IF Login THEN "login" ELSE "project"
  BY DEF Call, Begin
<1>3. stage' \in {"login", "project", "main"}
  BY <1>2
<1>4. TypeOK'
  BY <1>1, <1>3, ConnectionAssumption, SMT DEF TypeOK, Stages
<1>5. Flow' /\ Effect' /\ Budget'
  BY <1>1, <1>3 DEF Flow, Effect, Budget, WrittenOnce, Refusals
<1>6. (stage' = "project" => token) /\ (stage' = "main" /\ Scoped(c) => connected)
  BY <1>2 DEF Scope
<1>7. Scope'
  BY <1>1, <1>6 DEF Scope, ConnectedIsScoped, Scoped
<1> QED
  BY <1>4, <1>5, <1>7

LEMMA AnswerInv ==
  ASSUME IInv, Answer
  PROVE  IInv'
<1> USE DEF IInv
<1>1. /\ stage # "idle" /\ step = "send" /\ step' = "reply"
      /\ UNCHANGED <<token, connected, project, accepted, call, stage, attempt, outcome>>
      /\ status' \in {"ok", "denied", "limited", "error"}
      /\ \/ status' = "ok" /\ applied' = Carried
         \/ status' = "error" /\ applied' \in {applied, Carried}
         \/ status' \in {"denied", "limited"} /\ applied' = applied
      /\ parsed' \in BOOLEAN /\ open' \in {0, 1}
  BY DEF Answer, engine, Perhaps
<1>0. limits' = IF status' = "limited" THEN limits + 1 ELSE limits
  <2>1. limits < TooMany
    BY <1>1, ConnectionAssumption DEF Budget, TypeOK, TooMany
  <2> QED
    BY <2>1 DEF Answer
<1>2. matches' \in Nat
  BY DEF Answer
<1>3. applied = 0
  BY <1>1 DEF Effect
<1>4. /\ applied' \in {0, 1}
      /\ applied' = 1 => stage = "main" /\ Writes(call) /\ status' \in {"ok", "error"}
      /\ stage = "main" /\ Writes(call) /\ status' = "ok" => applied' = 1
  BY <1>1, <1>3 DEF Carried
<1>5. applied' \in Nat /\ limits' \in Nat
  BY <1>0, <1>1, <1>4 DEF TypeOK
<1>6. TypeOK'
  BY <1>1, <1>2, <1>5 DEF TypeOK
<1>7. Flow' /\ Budget'
  BY <1>0, <1>1 DEF Flow, Budget, TypeOK
<1>8. Effect'
  BY <1>1, <1>4 DEF Effect, WrittenOnce, Refusals, Flow, Writes
<1>9. Scope'
  BY <1>1 DEF Scope, ConnectedIsScoped
<1> QED
  BY <1>6, <1>7, <1>8, <1>9

LEMMA LostInv ==
  ASSUME IInv, Lost
  PROVE  IInv'
<1> USE DEF IInv
<1>1. /\ stage # "idle" /\ step = "send"
      /\ stage' = "idle" /\ step' = "send" /\ attempt' = 0 /\ limits' = 0 /\ open' = 0
      /\ outcome' = "TransportError"
      /\ UNCHANGED <<token, connected, project, accepted, call, status, parsed, matches>>
      /\ applied' = applied \/ applied' = Carried
  BY DEF Lost, Perhaps, End, engine, answer
<1>2. applied = 0
  BY <1>1 DEF Effect
<1>3. applied' \in {0, 1}
  BY <1>1, <1>2 DEF Carried
<1>4. TypeOK'
  BY <1>1, <1>3, ConnectionAssumption DEF TypeOK, Stages
<1>5. Flow' /\ Budget'
  BY <1>1 DEF Flow, Budget
<1>6. Effect'
  BY <1>1, <1>3 DEF Effect, WrittenOnce, Refusals
<1>7. Scope'
  BY <1>1 DEF Scope, ConnectedIsScoped
<1> QED
  BY <1>4, <1>5, <1>6, <1>7

LEMMA RevokeInv ==
  ASSUME IInv, Revoke
  PROVE  IInv'
<1>1. accepted' = FALSE
  BY DEF Revoke
<1>2. UNCHANGED <<engine, call, stage, step, attempt, answer, open, outcome, limits,
                  applied>>
  BY DEF Revoke
<1>3. TypeOK'
  BY <1>1, <1>2 DEF IInv, TypeOK, engine, answer
<1>4. Flow' /\ Effect' /\ Budget' /\ Scope'
  BY <1>2 DEF IInv, Flow, Effect, Budget, Scope, WrittenOnce, ConnectedIsScoped,
              engine, answer
<1> QED
  BY <1>3, <1>4 DEF IInv

LEMMA ConnectInv ==
  ASSUME IInv, LoggedIn \/ LoginFails \/ ProjectFound
  PROVE  IInv'
<1> USE ConnectionAssumption
    DEF IInv, LoggedIn, LoginFails, ProjectFound, Requesting, Begin, End, engine, answer
<1>1. TypeOK'
  <2>1. /\ token' \in BOOLEAN /\ connected' \in BOOLEAN
        /\ accepted' \in BOOLEAN /\ parsed' \in BOOLEAN
    BY DEF TypeOK
  <2>2. /\ project' \in Nat /\ matches' \in Nat /\ open' \in {0, 1} /\ applied' \in Nat
        /\ attempt' = 0 /\ limits' = 0
    BY DEF TypeOK
  <2>3. /\ call' \in CallKinds /\ stage' \in Stages /\ step' = "send"
        /\ status' \in {"ok", "denied", "limited", "error"}
        /\ outcome' \in Errors \cup {"none", "ok", "TransportError", "ValueError"}
    BY DEF TypeOK, Stages, Errors, Refusals
  <2> QED
    BY <2>1, <2>2, <2>3 DEF TypeOK
<1>2. Flow'
  BY DEF Flow
<1>3. Effect'
  BY DEF Effect, WrittenOnce, Refusals, Writes
<1>4. Budget'
  BY DEF Budget
<1>5. Scope'
  BY DEF Scope, ConnectedIsScoped, TypeOK
<1> QED
  BY <1>1, <1>2, <1>3, <1>4, <1>5

LEMMA RequestInv ==
  ASSUME IInv, Sleep \/ Wake \/ ParseFails \/ Raises \/ Done \/ Body \/ BodyEnds
  PROVE  IInv'
<1> USE ConnectionAssumption
    DEF IInv, Sleep, Wake, ParseFails, Raises, Done, Body, BodyEnds, Requesting,
        TryAgain, End, engine, answer
<1>1. TypeOK'
  BY DEF TypeOK, Stages, Errors, Refusals, Flow
<1>2. Flow'
  BY DEF Flow, TypeOK
<1>3. Effect'
  BY DEF Effect, WrittenOnce, Refusals, Writes, Flow, TypeOK
<1>4. Budget'
  BY DEF Budget, TypeOK
<1>5. Scope'
  BY DEF Scope, ConnectedIsScoped
<1> QED
  BY <1>1, <1>2, <1>3, <1>4, <1>5

LEMMA NextInv == IInv /\ [Next]_vars => IInv'
<1> SUFFICES ASSUME IInv, [Next]_vars PROVE IInv'
  OBVIOUS
<1>1. CASE UNCHANGED vars
  BY <1>1 DEF vars, engine, answer, IInv, TypeOK, Flow, Effect, Budget, Scope,
              WrittenOnce, ConnectedIsScoped
<1> QED
  BY <1>1, CallInv, AnswerInv, LostInv, RevokeInv, ConnectInv, RequestInv DEF Next, Progress

LEMMA Inductive == Spec => []IInv
  BY InitInv, NextInv, PTL DEF Spec

-----------------------------------------------------------------------------
(* The theorems *)

\* Every reachable state is typed, for every budget of retries.
THEOREM TypeCorrect == Spec => []TypeOK
<1>1. IInv => TypeOK
  BY DEF IInv
<1> QED
  BY <1>1, Inductive, PTL

\* No call writes twice, and its outcome tells whether it wrote.
THEOREM WritesOnce == Spec => []WrittenOnce
<1>1. IInv => WrittenOnce
  BY DEF IInv, Effect
<1> QED
  BY <1>1, Inductive, PTL

\* No request is sent more often than its budget allows.
THEOREM BudgetIsKept == Spec => []BudgetKept
<1>1. IInv => BudgetKept
  BY ConnectionAssumption DEF IInv, TypeOK, Flow, Budget, BudgetKept
<1> QED
  BY <1>1, Inductive, PTL

\* RateLimitError means that the whole budget was used.
THEOREM LimitErrorIsFinal == Spec => LimitIsFinal
<1>1. IInv /\ [Next]_vars
        => [outcome = "none" /\ outcome' = "RateLimitError" => limits = MaxRetries + 1]_vars
  <2> SUFFICES ASSUME IInv, Next, outcome = "none", outcome' = "RateLimitError"
               PROVE  limits = MaxRetries + 1
    OBVIOUS
  <2>1. Raises /\ status = "limited"
    BY DEF Next, Progress, Call, Answer, Lost, Revoke, LoggedIn, LoginFails, Sleep, Wake,
           ParseFails, Raises, ProjectFound, Done, Body, BodyEnds, Begin, End, IInv, TypeOK
  <2> QED
    BY <2>1, ConnectionAssumption DEF Raises, Requesting, TryAgain, IInv, TypeOK, Budget
<1> QED
  BY <1>1, Inductive, PTL DEF Spec, LimitIsFinal

\* A connection is never half made.
THEOREM ConnectionIsWhole == Spec => []ConnectedIsScoped
<1>1. IInv => ConnectedIsScoped
  BY DEF IInv, Scope
<1> QED
  BY <1>1, Inductive, PTL

-----------------------------------------------------------------------------
(* Held connections *)

\* A streaming call has one request, and only its answer holds a connection.
HeldInv ==
  /\ call = "stream" => stage \in {"idle", "main"}
  /\ NoConnectionHeld

LEMMA NextHeld == IInv /\ HeldInv /\ [Next]_vars => HeldInv'
<1> SUFFICES ASSUME IInv, HeldInv, [Next]_vars PROVE HeldInv'
  OBVIOUS
<1> USE DEF HeldInv, NoConnectionHeld
<1>1. open \in {0, 1}
  BY DEF IInv, TypeOK
<1>2. ASSUME NEW c \in Calls, Call(c) PROVE HeldInv'
  BY <1>2 DEF Call, Begin, Scoped
<1>3. CASE Answer
  BY <1>3 DEF Answer
<1>4. CASE LoggedIn
  BY <1>4 DEF LoggedIn, Begin
<1>5. CASE ProjectFound
  <2>1. stage = "project" /\ open = 0 /\ call # "stream" /\ call' = call
    BY <1>1, <1>5 DEF ProjectFound
  <2>2. open' = 0
    BY <1>5, <2>1 DEF ProjectFound, End
  <2> QED
    BY <2>1, <2>2
<1>6. CASE Lost \/ LoginFails \/ ParseFails \/ Raises \/ Done \/ BodyEnds
  BY <1>6 DEF Lost, LoginFails, ParseFails, Raises, Done, BodyEnds, End
<1>7. CASE Sleep
  BY <1>7 DEF Sleep
<1>8. CASE Wake
  BY <1>8 DEF Wake
<1>9. CASE Body
  BY <1>9 DEF Body
<1>10. CASE Revoke \/ UNCHANGED vars
  BY <1>10 DEF Revoke, vars
<1> QED
  BY <1>2, <1>3, <1>4, <1>5, <1>6, <1>7, <1>8, <1>9, <1>10 DEF Next, Progress

\* No pause and no ended call holds a connection.
THEOREM NoneIsHeld == Spec => []NoConnectionHeld
<1>1. Init => HeldInv
  BY DEF Init, HeldInv, NoConnectionHeld
<1>2. HeldInv => NoConnectionHeld
  BY DEF HeldInv
<1> QED
  BY <1>1, <1>2, NextHeld, Inductive, PTL DEF Spec
=============================================================================
