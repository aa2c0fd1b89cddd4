------------------------------- MODULE Access -------------------------------
(***************************************************************************)
(* A request on its way through the middleware of server.New: health and   *)
(* favicon, CORS, browser block, the chain of authenticators, the          *)
(* permission check, and what the WebDAV handler does to the folders.      *)
(* Requests run concurrently and share the lazy initialisation of OIDC,    *)
(* which no lock guards.                                                   *)
(***************************************************************************)
EXTENDS Startup

CONSTANTS
    Client,        \* the goroutines of requests
    Frontend,      \* the processes that are sent requests
    Request,       \* Request[c]: what client c may send
    Health, Favicon,   \* the paths "/_health" and "/favicon.ico"
    BasicUsers,    \* BASIC_USERS
    Directory      \* the users of the LDAP directory

VARIABLES
    perms,         \* perms[p]: the sorted rules of process p
    provider, verifier,    \* the processes whose OIDCAuth has these set
    req            \* req[c]: the goroutine of a request

accessVars == <<provider, verifier, req>>

Cred == [kind : {"none", "basic", "bearer"}, user : User \cup {NoUser},
         good : BOOLEAN]       \* the password is right, the token is valid

Idle == [pc |-> "idle", proc |-> CHOOSE p \in Process : TRUE,
         in |-> CHOOSE r \in UNION {Request[c] : c \in Client} : TRUE,
         next |-> 1, user |-> NoUser, answer |-> "none"]

ReqType ==
    [pc : {"idle", "front", "auth", "discover", "publish", "setProvider",
           "setVerifier", "token", "check", "dav", "done"},
     proc : Process, in : UNION {Request[c] : c \in Client},
     next : Nat,                   \* the authenticator whose turn it is
     user : User \cup {NoUser},    \* the username of authPermMiddleware
     answer : {"none", "ok", "notFound", "noContent", "served",
               "unauthorized", "forbidden", "aborted"}]

AccessInit ==
    /\ provider = {} /\ verifier = {}
    /\ req = [c \in Client |-> Idle]

----------------------------------------------------------------------------
At(c, pc) == req[c].pc = pc

Self(c) == req[c].proc

Become(c, r) == req' = [req EXCEPT ![c] = r]

Turn(c, pc) == Become(c, [req[c] EXCEPT !.pc = pc])

Answer(c, a) == Become(c, [req[c] EXCEPT !.pc = "done", !.answer = a])

Same == UNCHANGED <<provider, verifier>>

\* auth.New: the enabled authenticators in a fixed order.
ChainOf(enabled) ==
    LET Only(a) == IF a \in enabled THEN <<a>> ELSE <<>>
    IN  Only("oidc") \o Only("ldap") \o Only("basic")

\* The authenticator whose turn it is, if any is left.
Authenticator(c) ==
    LET chain == ChainOf(config.enabled) IN
    {chain[i] : i \in {req[c].next} \cap DOMAIN chain}

\* Mutant: one authenticator that fails is enough.
TryNone(c) == Turn(c, "check")

\* The authenticator fails: Chain.Authenticate tries the next one.
TryNext(c) ==
    Become(c, [req[c] EXCEPT !.pc = "auth", !.next = @ + 1])

Accept(c) ==
    Become(c, [req[c] EXCEPT !.pc = "check", !.user = req[c].in.cred.user])

----------------------------------------------------------------------------
\* A process that serves accepts a request.
Begin(c, p, r) ==
    /\ At(c, "idle") /\ Serving(p)
    /\ Become(c, [Idle EXCEPT !.pc = "front", !.proc = p, !.in = r])
    /\ Same /\ Works

\* The middlewares outside authPermMiddleware, and its exception for OPTIONS.
Front(c) ==
    LET r == req[c].in IN
    /\ At(c, "front") /\ Same /\ Works
    /\ CASE r.path = Health     -> Answer(c, "ok")
         [] r.path = Favicon -> Answer(c, "notFound")
         [] r.path \notin {Health, Favicon} ->
              IF config.cors /\ r.method = "OPTIONS" THEN Answer(c, "noContent")
              ELSE IF config.block /\ r.browser THEN Answer(c, "forbidden")
              ELSE Turn(c, IF r.method = "OPTIONS" THEN "dav" ELSE "auth")

----------------------------------------------------------------------------
\* The chain.  When it is exhausted the user name is empty.
Exhausted(c) ==
    /\ At(c, "auth") /\ Authenticator(c) = {}
    /\ Turn(c, "check") /\ Same /\ Works

\* BasicAuth.Authenticate.
Basic(c) ==
    LET cred == req[c].in.cred IN
    /\ At(c, "auth") /\ Authenticator(c) = {"basic"} /\ Same /\ Works
    /\ IF cred.kind = "basic" /\ cred.user \in BasicUsers /\ cred.good
       THEN Accept(c) ELSE TryNext(c)

\* LDAPAuth.Authenticate: connect, bind, search, bind as the user; any of
\* the calls may fail.
LDAP(c) ==
    LET cred == req[c].in.cred IN
    /\ At(c, "auth") /\ Authenticator(c) = {"ldap"} /\ Same
    /\ \/ /\ cred.kind = "basic" /\ cred.user \in Directory /\ cred.good
          /\ Accept(c) /\ Works
       \/ /\ ~(cred.kind = "basic" /\ cred.user \in Directory /\ cred.good)
          /\ TryNext(c) /\ Works
       \/ cred.kind = "basic" /\ TryNext(c) /\ Breaks

\* OIDCAuth.init: the fields are looked at and set without a lock.
OIDCInit(c) ==
    /\ At(c, "auth") /\ Authenticator(c) = {"oidc"} /\ Same /\ Works
    /\ Turn(c, IF Self(c) \in provider THEN "token" ELSE "discover")

\* Mutant: what NewProvider returns is kept before its error is looked at.
DiscoverKept(c) ==
    /\ At(c, "discover") /\ UNCHANGED verifier
    /\ \/ Turn(c, "publish") /\ Works /\ UNCHANGED provider
       \/ TryNext(c) /\ Breaks /\ provider' = provider \cup {Self(c)}

\* gooidc.NewProvider calls the provider.
Discover(c) ==
    /\ At(c, "discover") /\ Same
    /\ (Turn(c, "publish") /\ Works) \/ (TryNext(c) /\ Breaks)

\* The two fields are set.  Other goroutines may see the writes in either
\* order: nothing orders them.
SetProvider(c) ==
    /\ req[c].pc \in {"publish", "setProvider"}
    /\ provider' = provider \cup {Self(c)} /\ UNCHANGED verifier
    /\ Turn(c, IF At(c, "publish") THEN "setVerifier" ELSE "token") /\ Works

SetVerifier(c) ==
    /\ req[c].pc \in {"publish", "setVerifier"}
    /\ verifier' = verifier \cup {Self(c)} /\ UNCHANGED provider
    /\ Turn(c, IF At(c, "publish") THEN "setProvider" ELSE "token") /\ Works

\* The rest of OIDCAuth.Authenticate.  A verifier that is nil panics: net/http
\* closes the connection.
Token(c) ==
    LET cred == req[c].in.cred IN
    /\ At(c, "token") /\ Same
    /\ \/ /\ cred.kind = "bearer" /\ Self(c) \notin verifier
          /\ Become(c, [req[c] EXCEPT !.pc = "done", !.answer = "aborted"])
          /\ Works
       \/ /\ cred.kind = "bearer" /\ Self(c) \in verifier
          /\ \/ cred.good /\ cred.user # NoUser /\ Accept(c) /\ Works
             \/ ~(cred.good /\ cred.user # NoUser) /\ TryNext(c) /\ Works
             \/ TryNext(c) /\ Breaks
       \/ cred.kind # "bearer" /\ TryNext(c) /\ Works

----------------------------------------------------------------------------
\* The rest of authPermMiddleware.
CheckStep(c) ==
    /\ At(c, "check") /\ Same /\ Works
    /\ LET a == Check(perms[Self(c)], req[c].in.path, req[c].in.method, req[c].user) IN
       IF a = "allow" THEN Turn(c, "dav") ELSE Answer(c, a)

Handle(c) ==
    \/ Front(c) \/ Exhausted(c) \/ Basic(c) \/ LDAP(c)
    \/ OIDCInit(c) \/ Discover(c) \/ SetProvider(c) \/ SetVerifier(c) \/ Token(c)
    \/ CheckStep(c)

----------------------------------------------------------------------------
\* The WebDAV handler: see CloudFS, Listing and Transfer.  Here it only adds
\* folders and removes some, which may have been those of rules.  Its calls may
\* fail anywhere, so any part of that happens.

Source(r) == Clean(r.path)

Landing(r) == {Clean(d) : d \in r.dst}

\* The paths of what a request reads and writes.
Targets(r) == {Source(r)} \cup Landing(r)

Parent(f) == SubSeq(f, 1, Len(f) - 1)

\* Whatever is below these goes; their parents lose it.
Emptied(r) ==
    CASE r.method \in {"DELETE", "MOVE"} -> Targets(r)
      [] r.method = "COPY" -> Landing(r)
      [] OTHER -> {}

\* The folders that get a file, a marker, or copies.
Filled(r) ==
    CASE r.method \in {"PUT", "LOCK"} -> {Parent(Source(r))}
      [] r.method = "MKCOL" -> {Source(r)}
      [] r.method \in {"MOVE", "COPY"} ->
           UNION {{d, Parent(d)} \cup
                  {d \o SubSeq(f, Len(Source(r)) + 1, Len(f)) :
                      f \in {e \in folders : Above(Source(r), e)}} : d \in Landing(r)}
      [] OTHER -> {}

Dav(c) ==
    LET r == req[c].in
        hit == {f \in folders : \E e \in Emptied(r) : Above(e, f) \/ f = Parent(e)}
    IN  /\ At(c, "dav") /\ Answer(c, "served") /\ Same /\ Works
        /\ \E gone \in SUBSET hit, made \in SUBSET Filled(r) :
              folders' = (folders \ gone) \cup made
        /\ lost' = [p \in Process |->
                      lost[p] \cup {d \in RulePaths : Exists(d) /\ ~Exists(d)'}]

\* The requests of a process that dies are cut off with it.
CutOff(p) ==
    /\ provider' = provider \ {p} /\ verifier' = verifier \ {p}
    /\ req' = [c \in Client |->
                 IF Self(c) = p /\ req[c].pc \notin {"idle", "done"}
                 THEN [req[c] EXCEPT !.pc = "done", !.answer = "aborted"]
                 ELSE req[c]]

AccessTypeOK ==
    /\ provider \subseteq Process /\ verifier \subseteq Process
    /\ req \in [Client -> ReqType]
=============================================================================
