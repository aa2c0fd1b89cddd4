------------------------------- MODULE Service -------------------------------
(***************************************************************************)
(* The deployment: processes that start, serve and die (Startup), and the  *)
(* requests they decide about (Access), under one configuration.           *)
(***************************************************************************)
EXTENDS Access

CONSTANT Config    \* the configurations to look at

ASSUME ServiceAssumption ==
    /\ Frontend \subseteq Process /\ Process # {} /\ Client # {}
    /\ \A k \in Config : k.entries \in Seq(Entry)
    /\ \A c \in Client :
          /\ Request[c] # {}
          /\ \A r \in Request[c] :
                /\ r.path \in Seq(Nat) /\ r.cred \in Cred
                /\ r.dst \subseteq Seq(Nat)
                /\ r.dst # {} <=> r.method \in {"COPY", "MOVE"}
    /\ MaxFaults \in Nat /\ MaxCrashes \in Nat

vars == <<config, perms, startupVars, accessVars, faults>>

Init ==
    /\ config \in Config
    /\ perms \in [Process -> Sorted(config.entries)]
    /\ StartupInit /\ AccessInit

StartStep(p) == StartupStep(p) /\ UNCHANGED <<perms, accessVars>>

CrashStep(p) == Crash(p) /\ CutOff(p) /\ UNCHANGED perms

BeginStep(c, p, r) ==
    Begin(c, p, r) /\ UNCHANGED <<config, perms, startupVars>>

HandleStep(c) == Handle(c) /\ UNCHANGED <<config, perms, startupVars>>

DavStep(c) == Dav(c) /\ UNCHANGED <<config, perms, proc, crashes>>

Next ==
    \/ \E p \in Process : StartStep(p) \/ CrashStep(p)
    \/ \E c \in Client : \/ HandleStep(c) \/ DavStep(c)
                         \/ \E p \in Frontend, r \in Request[c] : BeginStep(c, p, r)

Spec == Init /\ [][Next]_vars

\* Processes run, and their supervisor restarts what has exited.
Fairness == \A p \in Process : WF_vars(StartStep(p))

FairSpec == Spec /\ Fairness

----------------------------------------------------------------------------
\* The type invariant.
TypeOK ==
    /\ config \in Config
    /\ \A p \in Process : Range(perms[p]) = Range(config.entries)
    /\ StartupTypeOK /\ AccessTypeOK

Rules == {config.entries[i] : i \in DOMAIN config.entries}

Chain == config.enabled

\* The users whose credentials one of the enabled authenticators accepts.
Vouched(cred) ==
    {u \in {cred.user} : /\ cred.good
                         /\ \/ "oidc" \in Chain /\ cred.kind = "bearer" /\ u \in User
                            \/ "ldap" \in Chain /\ cred.kind = "basic" /\ u \in Directory
                            \/ "basic" \in Chain /\ cred.kind = "basic" /\ u \in BasicUsers}

\* No request reaches the WebDAV handler unless the documented policy permits
\* it to nobody in particular or to a user whose credentials it carries,
\* whichever of the nested rules, authenticators and races decided
\* (middleware.go:149-177, manager.go:54-136, authenticator.go:26-36).  It is
\* said of each path the storage works on, the Destination included, that the
\* same rules hold for as for the raw path of the URL: the code looks at no
\* other path than that one.
Authorized ==
    \A c \in Client : At(c, "dav") /\ req[c].in.method # "OPTIONS" =>
        \E user \in Vouched(req[c].in.cred) \cup {NoUser} :
            \A path \in Targets(req[c].in) :
                Alike(Rules, req[c].in.path, path) =>
                    Permitted(Rules, path, req[c].in.method, user)

\* Credentials that Basic accepts, which asks nobody for that.
Local(cred) ==
    /\ "basic" \in Chain /\ cred.kind = "basic"
    /\ cred.good /\ cred.user \in BasicUsers

\* Nobody with good credentials is asked for a password, unless a call to
\* OIDC or LDAP has failed; a user of BASIC_USERS is not even then; and nobody
\* is asked for one on a path without a rule (manager.go:56-61, 79-81,
\* authenticator.go:26-36).
NoFalseChallenge ==
    \A c \in Client : req[c].answer = "unauthorized" =>
        /\ \E g \in Rules : Above(g.path, req[c].in.path)
        /\ ~Local(req[c].in.cred)
        /\ faults = 0 => Vouched(req[c].in.cred) = {}

\* OIDC is half initialised, so that a token would meet a nil verifier, only
\* while a request is between the two assignments of init (oidc.go:30-48).
HalfInit ==
    \A p \in provider \ verifier :
        \E c \in Client : Self(c) = p /\ At(c, "setVerifier")

\* Every process serves in the end, although replicas that create the same
\* folders make each other exit, if the configuration loads and the bucket
\* holds no file in the place of a folder (server.go:120-136, main.go:38-56).
EveryProcessStarts ==
    Loads(config.entries) => \A p \in Process : []<>Serving(p)
=============================================================================
