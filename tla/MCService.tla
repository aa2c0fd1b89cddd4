----------------------------- MODULE MCService -----------------------------
\* A small instance of Service for TLC.
EXTENDS Service

\* The name 9 is a long one: "/9" has more bytes than "/1/2".
Folders == {<<>>, <<1>>, <<1, 2>>, <<9>>}

Lengths == [f \in Folders |-> CASE f = <<>> -> 1 [] f = <<1>> -> 2
                                [] f = <<1, 2>> -> 4 [] f = <<9>> -> 9]

\* 11 is user 1 in other letters.
Users == {1, 2, 11}

Folded == [u \in Users |-> u % 10]

HealthPath == <<7>>

FaviconPath == <<8>>

Reads == {"GET", "OPTIONS"}

Writes == {"GET", "OPTIONS", "PUT", "DELETE", "MKCOL", "MOVE", "COPY"}

E(path, users, excluded, mode) ==
    [path |-> path, users |-> users, excluded |-> excluded, mode |-> mode]

K(entries, enabled, cors, block, auto) ==
    [entries |-> entries, enabled |-> enabled, cors |-> cors, block |-> block,
     auto |-> auto]

\* Nested rules in every order of strictness, twice the same folder, no
\* authentication, and an entry that does not load.
Configs ==
    {K(<<E(<<1, 2>>, {1}, {}, "rw"), E(<<1>>, {Anyone}, {2}, "ro")>>,
       {"oidc", "basic"}, FALSE, FALSE, TRUE),
     K(<<E(<<1, 2>>, {Anyone}, {}, "ro"), E(<<1, 2>>, {2}, {}, "rw"),
         E(<<>>, {Public}, {}, "ro"), E(<<9>>, {1}, {}, "ro")>>,
       {"oidc", "ldap"}, TRUE, TRUE, FALSE),
     K(<<E(<<1>>, {Anyone}, {}, "rw")>>, {}, FALSE, FALSE, TRUE),
     K(<<E(<<1>>, {1}, {}, "other")>>, {"basic"}, FALSE, FALSE, TRUE)}

\* Nothing, or the folder /1/2 because of one in it.
Seeds == {{}, {<<1, 2, 5>>}}

C(kind, user, good) == [kind |-> kind, user |-> user, good |-> good]

R(path, method, browser, cred) ==
    [path |-> path, dst |-> {}, method |-> method, browser |-> browser, cred |-> cred]

To(path, method, dst, cred) ==
    [path |-> path, dst |-> {dst}, method |-> method, browser |-> FALSE, cred |-> cred]

Nobody == C("none", NoUser, FALSE)

One == C("basic", 1, TRUE)

Two == C("bearer", 2, TRUE)

Wrong == {C("basic", 1, FALSE), C("bearer", NoUser, TRUE)}

\* What user 1 does to the folder /1/2: removes it, makes it anew, writes, copies
\* and moves within it.  Some of the paths end in a slash or are not clean.
Changes ==
    {R(<<1, 2, Void>>, "DELETE", FALSE, One), R(<<1, 2, Void>>, "MKCOL", FALSE, One),
     R(<<1, 2, 5, Up, 6>>, "PUT", FALSE, One),
     To(<<1, 2, 5>>, "COPY", <<1, 2, 6>>, One), To(<<1, 2, 5>>, "MOVE", <<1, 2, 6>>, One)}

\* Client a sends any request, client b only wants OIDC to be initialised.
Requests ==
    [c \in {"a", "b"} |->
       IF c = "b" THEN {R(<<1, 2>>, "PUT", FALSE, Two)}
       ELSE {R(Health, "GET", FALSE, Nobody), R(Favicon, "GET", TRUE, Nobody),
             R(<<1>>, "OPTIONS", FALSE, Nobody), R(<<1>>, "GET", TRUE, One),
             R(<<1>>, "TRACE", FALSE, One), R(<<9, 1>>, "GET", FALSE, Nobody),
             R(<<3>>, "PUT", FALSE, Nobody), R(<<1, 2, 5>>, "GET", FALSE, Nobody)}
            \cup {R(<<1>>, "PUT", FALSE, cred) : cred \in {One, Two}}
            \cup {R(<<1, 2, 5>>, "PUT", FALSE, cred) :
                    cred \in {Nobody, One, Two, C("bearer", 11, TRUE)} \cup Wrong}
            \cup Changes]
=============================================================================
