------------------------- MODULE ConnectionStrings -------------------------
(***************************************************************************)
(* Connection strings: how cli/config.py builds one from the environment,  *)
(* and what engine.parse_connection_string() makes of it.                  *)
(***************************************************************************)
EXTENDS Integers, Sequences, FiniteSetsExt

CONSTANTS
  Chars,          \* characters, and words of several that URLs do not reserve
  NotSet,         \* Python's None: a variable that is not set, a part that is absent
  Environments    \* environments, and whether a project is required

\* A string is a sequence of these, each percent-encoded a number of times over:
\* "%40" is "@" encoded once.
Word    == [c : Chars, encoded : Nat]
Strings == Seq(Word)
Reserved == {":", "@", "/", "?", "%"}
Plain(c) == [c |-> c, encoded |-> 0]
Is(w, chars) == w.encoded = 0 /\ w.c \in chars

Variable == Strings \cup {NotSet}
Schemes  == {"ragnerock", "another", ""}       \* "": the text has none
\* conn is the text after the scheme.
Vars == [scheme : Schemes, conn : Variable, host : Variable, project : Variable, email : Variable,
         password : Variable, token : Variable]

ASSUME EnvironmentsAreStrings ==
  /\ Reserved \cup {"token"} \subseteq Chars
  /\ NotSet \notin Strings
  /\ \A e \in Environments : e.vars \in Vars /\ e.project \in BOOLEAN

VARIABLES
  environ,   \* the variables, and whether the caller needs a project
  info       \* the ConnectionInfo made of them, or the error
configVars == <<environ, info>>

\* urllib's quote(text, safe="") and unquote().
Quote(text) ==
  [i \in DOMAIN text |->
     IF text[i].encoded > 0 \/ text[i].c \in Reserved THEN [text[i] EXCEPT !.encoded = @ + 1]
     ELSE text[i]]
Unquote(text) ==
  [i \in DOMAIN text |->
     IF text[i].encoded > 0 THEN [text[i] EXCEPT !.encoded = @ - 1] ELSE text[i]]

\* The part of a text before its first character of a set, and the rest from there;
\* the parts before and after its last one.
Marks(text, chars)  == {i \in DOMAIN text : Is(text[i], chars)}
Before(text, chars) == IF Marks(text, chars) = {} THEN text
                       ELSE SubSeq(text, 1, Min(Marks(text, chars)) - 1)
From(text, chars)   == SubSeq(text, Len(Before(text, chars)) + 1, Len(text))
After(text, chars)  == IF Marks(text, chars) = {} THEN NotSet ELSE Tail(From(text, chars))
UpToLast(text, chars)  == IF Marks(text, chars) = {} THEN NotSet
                          ELSE SubSeq(text, 1, Max(Marks(text, chars)) - 1)
AfterLast(text, chars) == IF Marks(text, chars) = {} THEN text
                          ELSE SubSeq(text, Max(Marks(text, chars)) + 1, Len(text))
OrNone(text)         == IF text = <<>> THEN NotSet ELSE text

\* urlparse(): what it tells apart in the text after the scheme ("?" stands for the
\* "#" that ends a netloc and a path as well; no host is an address in brackets).
UrlParse(rest) ==
  LET netloc   == Before(rest, {"/", "?"})
      userinfo == UpToLast(netloc, {"@"})
      hostinfo == AfterLast(netloc, {"@"})
  IN [username |-> IF userinfo = NotSet THEN NotSet ELSE Before(userinfo, {":"}),
      password |-> IF userinfo = NotSet THEN NotSet ELSE After(userinfo, {":"}),
      hostname |-> OrNone(Before(hostinfo, {":"})),
      port     |-> IF After(hostinfo, {":"}) = <<>> THEN NotSet ELSE After(hostinfo, {":"}),
      path     |-> Before(From(rest, {"/", "?"}), {"?"})]

\* .port raises ValueError when it is no number of a port.
IsPort(text) == Len(text) = 1 /\ Is(text[1], {"0", "443", "8080"})
StripSlash(path) ==
  LET inside == {i \in DOMAIN path : ~ Is(path[i], {"/"})}
  IN IF inside = {} THEN <<>> ELSE SubSeq(path, Min(inside), Max(inside))
\* A text is false in Python when it is not set or empty.
Given(text) == text # NotSet /\ text # <<>>

-----------------------------------------------------------------------------
Malformed == [kind |-> "ValueError"]
ConfigError == [kind |-> "ConfigError"]

\* parse_connection_string(): envToken is RAGNEROCK_API_TOKEN, stripped.
Parse(scheme, rest, envToken, requireProject) ==
  LET p       == UrlParse(rest)
      project == OrNone(StripSlash(p.path))
      isToken == p.username = <<Plain("token")>>
      isEmail == ~ isToken /\ Given(p.username)
      token   == IF isToken THEN Unquote(p.password) ELSE envToken
  IN IF \/ scheme # "ragnerock"
        \/ p.hostname = NotSet
        \/ requireProject /\ project = NotSet
        \/ (isToken \/ isEmail) /\ ~ Given(p.password)
        \/ ~ isToken /\ ~ isEmail /\ Given(p.password)
        \/ isEmail /\ envToken # NotSet
        \/ ~ isEmail /\ token = NotSet
        \/ p.port # NotSet /\ ~ IsPort(p.port)
     THEN Malformed
     ELSE [kind |-> "info",
           scheme |-> IF p.hostname \in {<<Plain("localhost")>>, <<Plain("127.0.0.1")>>}
                      THEN "http" ELSE "https",
           host |-> p.hostname, port |-> p.port, project |-> project,
           email |-> IF isEmail THEN p.username ELSE NotSet,
           password |-> IF isEmail THEN p.password ELSE NotSet,
           token |-> IF isEmail THEN NotSet ELSE token]

\* RAGNEROCK_HOST is a host, or a full URL of which scheme and path are dropped:
\* host is the text after the scheme.
SlipAssemble(host, project, userinfo) ==      \* the path of the URL is kept
  userinfo \o <<Plain("@")>> \o host \o (IF Given(project) THEN <<Plain("/")>> \o project ELSE <<>>)
Assemble(host, project, userinfo) ==
  LET parsed == UrlParse(host)
      port   == IF parsed.port \in {NotSet, <<Plain("0")>>} THEN <<>>
                ELSE <<Plain(":")>> \o parsed.port
      path   == IF Given(project) THEN <<Plain("/")>> \o project ELSE <<>>
  IN userinfo \o <<Plain("@")>>
       \o (IF parsed.hostname = NotSet THEN host ELSE parsed.hostname) \o port \o path

\* build_engine() and build_client() of the CLI, on the variables they read: a ValueError
\* of create_engine() becomes a ConfigError, one of the port of RAGNEROCK_HOST does not.
FromEnvironment(vars, requireProject) ==
  LET token == OrNone(vars.token)     \* stripped
      ready == Given(vars.host) /\ (requireProject => Given(vars.project))
      badPort  == LET port == UrlParse(vars.host).port IN port # NotSet /\ ~ IsPort(port)
      Made(scheme, rest) == LET made == Parse(scheme, rest, token, requireProject)
                            IN IF made = Malformed THEN ConfigError ELSE made
      Split(userinfo) == IF badPort THEN Malformed
                         ELSE Made("ragnerock", Assemble(vars.host, vars.project, userinfo))
  IN IF Given(vars.conn) THEN Made(vars.scheme, vars.conn)
     ELSE IF ready /\ token # NotSet THEN Split(<<Plain("token"), Plain(":")>> \o Quote(token))
     ELSE IF ready /\ Given(vars.email) /\ Given(vars.password)
     THEN Split(vars.email \o <<Plain(":")>> \o vars.password)
     ELSE ConfigError

-----------------------------------------------------------------------------
NotYet == [kind |-> "not yet"]

ConfigInit == environ \in Environments /\ info = NotYet
Configure ==
  /\ info = NotYet
  /\ info' = FromEnvironment(environ.vars, environ.project)
  /\ UNCHANGED environ

-----------------------------------------------------------------------------
\* The email ends where its first ":" is, and the netloc where the first "/" is.
Ambiguous(email, password) ==
  \/ email = <<Plain("token")>> \/ Marks(email, {":"}) # {}
  \/ \E i, j \in DOMAIN password : i < j /\ Is(password[i], {"@"}) /\ Is(password[j], {"/", "?"})

(* A configuration of separate variables is refused or it names the host   *)
(* and the port that urllib finds in RAGNEROCK_HOST, the project and the   *)
(* credentials as they were given: no reserved character of one moves a    *)
(* border to another.  This is so for every token, which is encoded; of    *)
(* the emails and passwords, which are not, it excepts those that are      *)
(* ambiguous in a URL.  A project ends at its first "?" and loses the      *)
(* slashes around it, and the port 0 is left out.  A connection string is  *)
(* never combined with a token of the environment, and every configuration *)
(* has one kind of credentials.                                            *)
AcceptedAsGiven ==
  info.kind = "info" =>
    LET v     == environ.vars
        named == UrlParse(v.host)
        separate ==
          /\ info.host = named.hostname
          /\ info.port = (IF named.port = <<Plain("0")>> THEN NotSet ELSE named.port)
          /\ info.project = (IF Given(v.project) THEN OrNone(StripSlash(Before(v.project, {"?"})))
                             ELSE NotSet)
          /\ IF Given(v.token) THEN info.token = v.token /\ info.email = NotSet
             ELSE info.token = NotSet /\ info.email = v.email /\ info.password = v.password
    IN /\ ~ Given(v.conn) /\ (Given(v.token) \/ ~ Ambiguous(v.email, v.password)) => separate
       /\ (info.token = NotSet) <=> (info.email # NotSet)
       /\ Given(v.conn) /\ Given(v.token) => info.email = NotSet
       /\ environ.project => info.project # NotSet
=============================================================================
