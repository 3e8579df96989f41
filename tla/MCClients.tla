----------------------------- MODULE MCClients -----------------------------
(* Instances of Clients for TLC. *)
EXTENDS Clients

CONSTANTS n1, n2, n3, n4
D(i, n) == [id |-> i, name |-> n]

\* Names, ids and rows without a document; a name twice, and one that is unknown.
MCRows  == {<<>>, <<n1, 0, 1>>, <<n1, n2, n1>>, <<2, 0>>, <<n4>>}
MCLists == {<<>>, <<D(1, n1), D(2, n2), D(3, n3)>>, <<D(1, n1), D(2, n2), D(3, n1)>>}

-----------------------------------------------------------------------------
MCChars == Reserved \cup {"token", "0", "443", "8080", "no", "api", "localhost", "127.0.0.1", "v1",
                         "p", "q", "t", "u", "w", "x", "y", "z"}
T(chars) == [i \in DOMAIN chars |-> Plain(chars[i])]
Encoded(c) == [Plain(c) EXCEPT !.encoded = 1]

Emails    == {NotSet, T(<<"u", "@", "x">>), T(<<"u", "@", "x", "/", "y">>), T(<<"token">>), T(<<"u", ":", "x">>)}
Passwords == {NotSet, T(<<>>), T(<<"x">>), T(<<"x", "/", "y">>), T(<<"x", "?", "y">>), T(<<"x", ":", "y">>),
              T(<<"x", "@", "y">>), T(<<"x", "@", "y", "/", "z">>), <<Encoded("@"), Plain("x")>>}
Hosts     == {T(<<"api">>), T(<<"localhost", ":", "8080", "/", "v1">>), T(<<"api", ":", "0">>),
              T(<<"u", "@", "api">>), T(<<"api", ":", "no">>), T(<<":", "443">>)}
Projects  == {NotSet, T(<<"p">>), T(<<"p", "?", "q">>), T(<<"/", "p", "/", "q">>), T(<<"p", "@", "q">>)}
MCVars == [scheme : {""}, conn : {NotSet}, host : Hosts, project : Projects, email : Emails, password : Passwords,
           token : {NotSet, T(<<"t">>), T(<<"t", "/", "?", "@", ":">>) \o <<Encoded("/")>>}]
Userinfos == {T(<<>>), T(<<"u", ":", "w", "@">>), T(<<"token", ":", "@">>), T(<<"u", "@">>), T(<<":", "w", "@">>),
              T(<<"token", ":", "t">>) \o <<Encoded("/"), Plain("@")>>}
MCStrings == [scheme : Schemes, conn : {u \o h \o p : u \in Userinfos, h \in {T(<<"api">>), T(<<"api", ":", "8080">>), <<>>},
                                    p \in {<<>>, T(<<"/">>), T(<<"/", "p">>)}},
              host : {NotSet}, project : {NotSet}, email : {NotSet}, password : {NotSet},
              token : {NotSet, T(<<"t">>)}]
MCEnvironments == [vars : MCVars \cup MCStrings, project : BOOLEAN]
=============================================================================
