--------------------------- MODULE Service_proofs ---------------------------
(***************************************************************************)
(* The service for any number of processes, clients, rules, users and      *)
(* paths.  Three arguments that share no state but the configuration:      *)
(* the rule that the manager finds is the one that wins; a request keeps   *)
(* a user name that its credentials vouch for; and a process that starts   *)
(* has created the folders of the rules behind it, or a request has        *)
(* removed them since.                                                     *)
(***************************************************************************)
EXTENDS Service, TLAPS

----------------------------------------------------------------------------
\* Sorting neither loses nor adds a rule, and puts longer paths first.
LEMMA SortedRules ==
    ASSUME NEW entries \in Seq(Entry), NEW rules \in Sorted(entries)
    PROVE  /\ DOMAIN rules = DOMAIN entries /\ DOMAIN entries \subseteq Nat
           /\ \A i \in DOMAIN rules : rules[i] \in Entry
           /\ \A i \in DOMAIN entries : \E j \in DOMAIN rules : rules[j] = entries[i]
           /\ \A i \in DOMAIN rules : \E j \in DOMAIN entries : entries[j] = rules[i]
           /\ \A i, j \in DOMAIN rules :
                  i < j => Bytes[rules[i].path] >= Bytes[rules[j].path]
<1> DEFINE D == DOMAIN entries
<1>1. PICK f \in Bijection(D, D) : rules = [i \in D |-> entries[f[i]]]
  BY DEF Sorted
<1>2. f \in [D -> D] /\ \A t \in D : \E s \in D : f[s] = t
  BY <1>1 DEF Bijection, Surjection, Injection
<1>3. D \subseteq Nat /\ \A i \in D : entries[i] \in Entry
  OBVIOUS
<1>4. \A i, j \in DOMAIN rules :
          i < j => Bytes[rules[i].path] >= Bytes[rules[j].path]
  BY DEF Sorted
<1> QED BY <1>1, <1>2, <1>3, <1>4

\* Of two folders that hold a path, the one with the fewer names is above.
LEMMA NestedPaths ==
    ASSUME NEW p \in Seq(Nat), NEW q \in Seq(Nat), NEW path \in Seq(Nat),
           Above(p, path), Above(q, path), Len(p) <= Len(q)
    PROVE  Above(p, q)
  BY DEF Above

\* The rule that findPermission returns is the one that wins.
LEMMA FoundWins ==
    ASSUME NEW entries \in Seq(Entry), NEW rules \in Sorted(entries),
           NEW path \in Seq(Nat), NEW g \in FindPermission(rules, path)
    PROVE  Wins({entries[i] : i \in DOMAIN entries}, g, path)
<1>1. PICK i \in Matching(rules, path) :
          g = rules[i] /\ \A j \in Matching(rules, path) : i <= j
  BY DEF FindPermission
<1>2. i \in DOMAIN rules /\ Above(g.path, path)
  BY <1>1 DEF Matching
<1>3. g \in {entries[k] : k \in DOMAIN entries}
  BY <1>1, <1>2, SortedRules
<1>4. ASSUME NEW h \in {entries[k] : k \in DOMAIN entries}, Above(h.path, path)
      PROVE  Above(h.path, g.path)
  <2>1. PICK j \in DOMAIN rules : h = rules[j]
    BY SortedRules
  <2>2. g \in Entry /\ h \in Entry
    BY <2>1, <1>1, <1>2, SortedRules
  <2>3. /\ g.path \in Folder /\ g.path \in Seq(Nat) /\ Bytes[g.path] \in Nat
        /\ h.path \in Folder /\ h.path \in Seq(Nat) /\ Bytes[h.path] \in Nat
    BY <2>2, FolderAssumption DEF Entry
  <2>4. i <= j /\ i \in Nat /\ j \in Nat
    BY <1>1, <1>2, <1>4, <2>1, SortedRules DEF Matching
  <2>5. CASE Len(h.path) <= Len(g.path)
    BY <2>5, <2>3, <1>2, <1>4, NestedPaths
  <2>6. CASE Len(g.path) < Len(h.path)
    <3>1. Above(g.path, h.path)
      BY <2>6, <2>3, <1>2, <1>4, NestedPaths
    <3>2. Bytes[g.path] < Bytes[h.path]
      BY <3>1, <2>6, <2>3, FolderAssumption
    <3>3. i < j
      BY <3>2, <2>1, <2>3, <2>4, <1>1
    <3>4. Bytes[g.path] >= Bytes[h.path]
      BY <3>3, <2>1, <1>1, <1>2, SortedRules
    <3> QED BY <3>2, <3>4, <2>3
  <2> QED BY <2>5, <2>6, <2>3
<1> QED BY <1>2, <1>3, <1>4 DEF Wins

\* What the manager allows, the policy permits.
LEMMA AllowsPermitted ==
    ASSUME NEW entries \in Seq(Entry), NEW rules \in Sorted(entries),
           NEW path \in Seq(Nat), NEW method, NEW user,
           Check(rules, path, method, user) = "allow"
    PROVE  Permitted({entries[i] : i \in DOMAIN entries}, path, method, user)
<1>1. FindPermission(rules, path) # {}
  BY DEF Check
<1> DEFINE g == CHOOSE r \in FindPermission(rules, path) : TRUE
<1>2. g \in FindPermission(rules, path) /\ Decide(g, method, user) = "allow"
  BY <1>1 DEF Check
<1>3. Wins({entries[i] : i \in DOMAIN entries}, g, path)
  BY <1>2, FoundWins
<1> HIDE DEF g
<1>4. /\ Known(method) /\ Writable(g, method)
      /\ IsPublic(g) \/ (~Excluded(g, user) /\ Listed(g, user))
      /\ IsPublic(g) \/ user # NoUser
  BY <1>2 DEF Decide
<1>5. Grants(g, method, user)
  BY <1>4 DEF Grants, Known, Writable, IsPublic, Excluded, Listed
<1>6. g \in {entries[i] : i \in DOMAIN entries}
  BY <1>3 DEF Wins
<1> QED BY <1>3, <1>5, <1>6 DEF Permitted

\* What is permitted on one path is permitted on any that the same rules hold for.
LEMMA PermittedAlike ==
    ASSUME NEW R, NEW p, NEW q, NEW method, NEW user,
           Permitted(R, p, method, user), Alike(R, p, q)
    PROVE  Permitted(R, q, method, user)
  BY DEF Permitted, Wins, Alike

\* Only an enabled authenticator has its turn.
LEMMA EnabledTurn ==
    ASSUME NEW c \in Client, NEW a, Authenticator(c) = {a}
    PROVE  a \in config.enabled
<1> DEFINE E == config.enabled
           Only(x) == IF x \in E THEN <<x>> ELSE <<>>
           chain == Only("oidc") \o Only("ldap") \o Only("basic")
<1>1. PICK i \in DOMAIN chain : a = chain[i]
  BY SMTT(20) DEF Authenticator, ChainOf
<1>2. \A j \in DOMAIN chain : chain[j] \in E
  <2>1. CASE "oidc" \in E /\ "ldap" \in E
    BY <2>1
  <2>2. CASE "oidc" \in E /\ "ldap" \notin E
    BY <2>2
  <2>3. CASE "oidc" \notin E /\ "ldap" \in E
    BY <2>3
  <2>4. CASE "oidc" \notin E /\ "ldap" \notin E
    BY <2>4
  <2> QED BY <2>1, <2>2, <2>3, <2>4
<1> QED BY <1>1, <1>2

----------------------------------------------------------------------------
\* What the goroutine of a request knows: the user is empty until an
\* authenticator accepts, its credentials vouch for the user that is checked,
\* and what is let through is permitted.
Granted(in) ==
    in.method # "OPTIONS" =>
        \E user \in Vouched(in.cred) \cup {NoUser} :
            \A path \in Targets(in) :
                Alike(Rules, in.path, path) =>
                    Permitted(Rules, path, in.method, user)

InOIDC == {"discover", "publish", "setProvider", "setVerifier", "token"}

Sound(r) ==
    /\ r.pc \notin {"check", "dav", "done"} => r.user = NoUser
    /\ r.pc \in InOIDC => "oidc" \in Chain
    /\ r.pc = "check" => r.user \in Vouched(r.in.cred) \cup {NoUser}
    /\ r.pc = "dav" => Granted(r.in)

\* The fields of OIDC are set one after the other.
Published ==
    /\ HalfInit
    /\ \A c \in Client : At(c, "setProvider") => Self(c) \in verifier
    /\ provider \subseteq Process /\ verifier \subseteq Process

Settled ==
    /\ config \in Config
    /\ \A p \in Process : perms[p] \in Sorted(config.entries)

Requests ==
    /\ req \in [Client -> ReqType]
    /\ \A c \in Client : Sound(req[c])

\* A request is one that some client may send.
LEMMA RequestType ==
    ASSUME NEW r \in ReqType
    PROVE  r.in.path \in Seq(Nat) /\ r.in.cred \in Cred
  BY ServiceAssumption DEF ReqType

\* An answer leaves a sound record.
LEMMA AnswerMoves ==
    ASSUME Requests, NEW c \in Client,
           NEW a \in {"ok", "notFound", "noContent", "served",
                      "unauthorized", "forbidden"}, Answer(c, a)
    PROVE  \E r \in ReqType :
              Become(c, r) /\ Sound(r) /\ r.proc = Self(c) /\ r.pc = "done"
<1> DEFINE o == req[c]
           r == [o EXCEPT !.pc = "done", !.answer = a]
<1>1. o \in ReqType /\ o.proc = Self(c)
  BY DEF Requests, Self
<1>2. r \in ReqType /\ r.proc = Self(c) /\ r.pc = "done"
  BY <1>1 DEF ReqType
<1>3. Sound(r)
  BY <1>2 DEF Sound, InOIDC
<1> QED BY <1>2, <1>3 DEF Answer

\* The step of a request gives it a record that is sound again.
LEMMA HandleMoves ==
    ASSUME Settled, Requests, NEW c \in Client, Handle(c)
    PROVE  \E r \in ReqType : Become(c, r) /\ Sound(r) /\ r.proc = Self(c)
<1> DEFINE o == req[c]
<1>1. o \in ReqType /\ Sound(o) /\ o.proc = Self(c) /\ o.in.cred \in Cred
  BY RequestType DEF Requests, Self
<1>2. ASSUME NEW pc \in InOIDC \cup {"auth", "check"}, Turn(c, pc),
             o.pc \notin {"check", "dav", "done"},
             pc \in InOIDC => "oidc" \in Chain
      PROVE  \E r \in ReqType : Become(c, r) /\ Sound(r) /\ r.proc = Self(c)
  <2> DEFINE r == [o EXCEPT !.pc = pc]
  <2>1. r \in ReqType /\ r.proc = Self(c)
    BY <1>1, <1>2 DEF ReqType, InOIDC
  <2>2. Sound(r)
    BY <1>1, <1>2 DEF Sound, ReqType, InOIDC
  <2> QED BY <2>1, <2>2, <1>2 DEF Turn
<1>3. ASSUME NEW a \in {"ok", "notFound", "noContent", "served",
                        "unauthorized", "forbidden"}, Answer(c, a)
      PROVE  \E r \in ReqType : Become(c, r) /\ Sound(r) /\ r.proc = Self(c)
  BY <1>3, AnswerMoves
<1>4. ASSUME o.pc \notin {"check", "dav", "done"}, TryNext(c)
      PROVE  \E r \in ReqType : Become(c, r) /\ Sound(r) /\ r.proc = Self(c)
  <2> DEFINE n == o.next + 1
             r == [o EXCEPT !.pc = "auth", !.next = n]
  <2>1. n \in Nat
    BY <1>1 DEF ReqType
  <2>2. Become(c, r)
    BY <1>4 DEF TryNext
  <2> HIDE DEF n
  <2>3. r \in ReqType /\ r.proc = Self(c)
    BY <1>1, <2>1 DEF ReqType
  <2>4. Sound(r)
    BY <1>1, <1>4 DEF Sound, ReqType, InOIDC
  <2> QED BY <2>2, <2>3, <2>4
<1>5. ASSUME o.in.cred.user \in Vouched(o.in.cred), Accept(c)
      PROVE  \E r \in ReqType : Become(c, r) /\ Sound(r) /\ r.proc = Self(c)
  <2> DEFINE r == [o EXCEPT !.pc = "check", !.user = o.in.cred.user]
  <2>1. o.in.cred.user \in User \cup {NoUser}
    BY <1>1 DEF Cred
  <2>2. r \in ReqType /\ r.proc = Self(c)
    BY <1>1, <2>1 DEF ReqType
  <2>3. Sound(r)
    BY <1>1, <1>5 DEF Sound, ReqType, InOIDC
  <2> QED BY <2>2, <2>3, <1>5 DEF Accept
<1>6. CASE Front(c)
  <2>1. o.pc \notin {"check", "dav", "done"}
    BY <1>6 DEF Front, At
  <2>2. CASE \E a \in {"ok", "notFound", "noContent", "forbidden"} : Answer(c, a)
    BY <2>2, <1>3
  <2>3. CASE Turn(c, "auth")
    BY <2>1, <2>3, <1>2 DEF InOIDC
  <2>4. CASE o.in.method = "OPTIONS" /\ Turn(c, "dav")
    <3> DEFINE r == [o EXCEPT !.pc = "dav"]
    <3>1. r \in ReqType /\ r.proc = Self(c)
      BY <1>1 DEF ReqType
    <3>2. Sound(r)
      BY <1>1, <2>4 DEF Sound, ReqType, Granted, InOIDC
    <3> QED BY <3>1, <3>2, <2>4 DEF Turn
  <2> QED BY <1>6, <2>2, <2>3, <2>4 DEF Front
<1>7. CASE Exhausted(c)
  BY <1>7, <1>2 DEF Exhausted, At, InOIDC
<1>8. CASE Basic(c)
  <2>1. "basic" \in Chain
    BY <1>8, EnabledTurn DEF Basic, Chain
  <2> QED BY <1>8, <2>1, <1>4, <1>5 DEF Basic, At, Vouched
<1>9. CASE LDAP(c)
  <2>1. "ldap" \in Chain
    BY <1>9, EnabledTurn DEF LDAP, Chain
  <2> QED BY <1>9, <2>1, <1>4, <1>5 DEF LDAP, At, Vouched
<1>10. CASE OIDCInit(c)
  <2>1. "oidc" \in Chain
    BY <1>10, EnabledTurn DEF OIDCInit, Chain
  <2> QED BY <1>10, <2>1, <1>2 DEF OIDCInit, At, InOIDC
<1>11. CASE Discover(c)
  <2>1. o.pc = "discover" /\ "oidc" \in Chain
    BY <1>11, <1>1 DEF Discover, At, Sound, InOIDC
  <2> QED BY <1>11, <2>1, <1>2, <1>4 DEF Discover, InOIDC
<1>12. CASE SetProvider(c) \/ SetVerifier(c)
  <2>1. o.pc \in {"publish", "setProvider", "setVerifier"} /\ "oidc" \in Chain
    BY <1>12, <1>1 DEF SetProvider, SetVerifier, Sound, InOIDC
  <2> QED BY <1>12, <2>1, <1>2 DEF SetProvider, SetVerifier, InOIDC
<1>13. CASE Token(c)
  <2>1. CASE Become(c, [o EXCEPT !.pc = "done", !.answer = "aborted"])
    <3> DEFINE r == [o EXCEPT !.pc = "done", !.answer = "aborted"]
    <3>1. r \in ReqType /\ r.proc = Self(c)
      BY <1>1 DEF ReqType
    <3>2. Sound(r)
      BY <1>1 DEF Sound, ReqType, InOIDC
    <3> QED BY <3>1, <3>2, <2>1
  <2>2. CASE TryNext(c)
    BY <2>2, <1>4, <1>13 DEF Token, At
  <2>3. CASE /\ o.in.cred.kind = "bearer" /\ o.in.cred.good
             /\ o.in.cred.user # NoUser /\ Accept(c)
    <3>1. "oidc" \in Chain
      BY <1>13, <1>1 DEF Token, At, Sound, InOIDC
    <3>2. o.in.cred.user \in User
      BY <2>3, <1>1 DEF Cred
    <3> QED BY <3>1, <3>2, <2>3, <1>5 DEF Vouched
  <2> QED BY <1>13, <2>1, <2>2, <2>3 DEF Token
<1>14. CASE CheckStep(c)
  <2> DEFINE a == Check(perms[Self(c)], o.in.path, o.in.method, o.user)
  <2>1. o.user \in Vouched(o.in.cred) \cup {NoUser} /\ Self(c) \in Process
    BY <1>14, <1>1 DEF CheckStep, At, Sound, ReqType
  <2>2. config.entries \in Seq(Entry) /\ perms[Self(c)] \in Sorted(config.entries)
    BY <2>1, ServiceAssumption DEF Settled
  <2>3. CASE a = "allow" /\ Turn(c, "dav")
    <3>1. Permitted(Rules, o.in.path, o.in.method, o.user)
      BY <2>2, <2>3, <1>1, RequestType, AllowsPermitted DEF Rules
    <3> DEFINE r == [o EXCEPT !.pc = "dav"]
    <3>2. r \in ReqType /\ r.proc = Self(c)
      BY <1>1 DEF ReqType
    <3>3. Granted(o.in)
      BY <3>1, <2>1, PermittedAlike DEF Granted
    <3>4. Sound(r)
      BY <1>1, <3>3 DEF Sound, ReqType, InOIDC
    <3> QED BY <3>2, <3>4, <2>3 DEF Turn
  <2>4. CASE a # "allow" /\ Answer(c, a)
    <3>1. a \in {"unauthorized", "forbidden"}
      BY <2>4 DEF Check, Decide
    <3> QED BY <3>1, <2>4, <1>3
  <2> QED BY <1>14, <2>3, <2>4 DEF CheckStep
<1> QED BY <1>6, <1>7, <1>8, <1>9, <1>10, <1>11, <1>12, <1>13, <1>14 DEF Handle

\* A request begins as nobody's.
LEMMA BeginMoves ==
    ASSUME Requests, NEW c \in Client, NEW p \in Frontend, NEW r \in Request[c],
           Begin(c, p, r)
    PROVE  \E s \in ReqType : Become(c, s) /\ Sound(s) /\ s.pc = "front"
<1> DEFINE i == Idle
           s == [i EXCEPT !.pc = "front", !.proc = p, !.in = r]
<1>1. i \in ReqType /\ i.user = NoUser
  BY ServiceAssumption DEF Idle, ReqType
<1>2. Become(c, s)
  BY DEF Begin
<1> HIDE DEF i
<1>3. s \in ReqType /\ s.pc = "front" /\ s.user = NoUser
  <2>1. p \in Process /\ r \in UNION {Request[d] : d \in Client}
    BY ServiceAssumption
  <2> QED
    BY <1>1, <2>1 DEF ReqType
<1>4. Sound(s)
  BY <1>3 DEF Sound, InOIDC
<1> QED BY <1>2, <1>3, <1>4

\* One sound record more keeps the requests sound.
LEMMA BecomeSound ==
    ASSUME Requests, UNCHANGED config, NEW c \in Client, NEW r \in ReqType,
           Become(c, r), Sound(r)
    PROVE  Requests'
<1>1. req' \in [Client -> ReqType]
  BY DEF Requests, Become
<1>2. ASSUME NEW d \in Client
      PROVE  Sound(req'[d])
  <2>1. req'[d] = IF d = c THEN r ELSE req[d]
    BY DEF Requests, Become
  <2> QED BY <2>1 DEF Requests
<1>3. \A d \in Client : Sound(req[d])'
  BY <1>2 DEF Sound, Granted, Vouched, Chain, Rules, Permitted, Wins, Alike,
              InOIDC
<1> QED BY <1>1, <1>3 DEF Requests

\* Requests that are cut off are sound.
LEMMA CutOffSound ==
    ASSUME Requests, UNCHANGED config, NEW p \in Process, CutOff(p)
    PROVE  Requests'
<1>1. ASSUME NEW c \in Client
      PROVE  req'[c] \in ReqType /\ Sound(req'[c])
  <2> DEFINE o == req[c]
             r == [o EXCEPT !.pc = "done", !.answer = "aborted"]
  <2>1. req'[c] = o \/ req'[c] = r
    BY DEF CutOff
  <2>2. o \in ReqType /\ Sound(o)
    BY DEF Requests
  <2>3. r \in ReqType
    BY <2>2 DEF ReqType
  <2>4. Sound(r)
    BY <2>2 DEF Sound, ReqType, InOIDC
  <2> QED BY <2>1, <2>2, <2>3, <2>4
<1>2. req' \in [Client -> ReqType]
  BY <1>1 DEF CutOff
<1>3. \A c \in Client : Sound(req[c])'
  BY <1>1 DEF Sound, Granted, Vouched, Chain, Rules, Permitted, Wins, Alike,
              InOIDC
<1> QED BY <1>2, <1>3 DEF Requests

\* The folder is there, or a request has removed it since p began to start.
There(p, d) == Exists(d) \/ d \in lost[p]

\* What a process that starts has created: the folders of the rules behind it.
Behind(p) ==
    /\ proc[p] \in ProcType
    /\ proc[p].pc = "down" => proc[p].rule = 1
    /\ proc[p].pc \notin {"down", "serving"} =>
          /\ config.auto /\ proc[p].rule \in DOMAIN config.entries
          /\ \A i \in DOMAIN config.entries :
                i < proc[p].rule => There(p, config.entries[i].path)
    /\ Serving(p) /\ config.auto =>
          \A i \in DOMAIN config.entries : There(p, config.entries[i].path)

Folders ==
    /\ proc \in [Process -> ProcType] /\ lost \in [Process -> SUBSET Folder]
    /\ \A p \in Process : Behind(p)

\* What exists stays until a request removes it.
LEMMA ExistsStays ==
    ASSUME folders \subseteq folders', NEW d, Exists(d)
    PROVE  Exists(d)'
  BY DEF Exists

LEMMA ThereStays ==
    ASSUME folders \subseteq folders', NEW p, lost'[p] = lost[p], NEW d, There(p, d)
    PROVE  There(p, d)'
  BY ExistsStays DEF There

\* A process that takes the next folder has the one at hand.
LEMMA ReadyBehind ==
    ASSUME Settled, Folders, NEW p \in Process, proc[p].pc \notin {"down", "serving"},
           UNCHANGED <<config, lost>>, folders \subseteq folders', Ready(p),
           NEW d, d = Dir(p), Exists(d)'
    PROVE  proc'[p] \in ProcType /\ Behind(p)'
<1> DEFINE s == proc[p]
           k == config.entries
           path == k[s.rule].path
           i == Down
           last == [i EXCEPT !.pc = "serving"]
<1>1. /\ s \in ProcType /\ config.auto /\ s.rule \in DOMAIN k
      /\ \A j \in DOMAIN k : j < s.rule => There(p, k[j].path)
  BY DEF Folders, Behind
<1>2. k \in Seq(Entry) /\ DOMAIN k = 1..Len(k) /\ Len(k) \in Nat
  BY ServiceAssumption DEF Settled
<1>3. path \in Seq(Nat)
  <2>1. k[s.rule] \in Entry
    BY <1>1, <1>2
  <2> QED BY <2>1, FolderAssumption DEF Entry
<1>4. proc'[p] = IF s.depth < Len(path)
                 THEN [pc |-> "stat", rule |-> s.rule, depth |-> s.depth + 1]
                 ELSE IF s.rule < Len(k)
                 THEN [pc |-> "stat", rule |-> s.rule + 1, depth |-> 1]
                 ELSE last
  BY DEF Ready, RulePath, Folders
<1>5. \A j \in DOMAIN k : j < s.rule => There(p, k[j].path)'
  BY <1>1, ThereStays
<1>6. last \in ProcType /\ last.pc = "serving"
  BY DEF Down, ProcType
<1> HIDE DEF last
<1>7. s.rule \in Nat /\ s.depth \in Nat
  BY <1>1 DEF ProcType
<1>8. CASE s.depth < Len(path)
  <2>1. proc'[p] \in ProcType /\ proc'[p].pc = "stat" /\ proc'[p].rule = s.rule
    BY <1>4, <1>7, <1>8 DEF ProcType
  <2> QED BY <2>1, <1>1, <1>5 DEF Behind, Serving, Is
<1>9. CASE ~(s.depth < Len(path))
  <2>1. d = path
    <3>1. \A q \in Seq(Nat) : SubSeq(q, 1, Len(q)) = q
      OBVIOUS
    <3>2. Dir(p) = SubSeq(path, 1, Len(path))
      BY <1>3, <1>9 DEF Dir, RulePath
    <3> QED BY <3>1, <3>2, <1>3
  <2>2. \A j \in DOMAIN k : j = s.rule => There(p, k[j].path)'
    BY <2>1 DEF Exists, There
  <2>3. \A j \in DOMAIN k : j < s.rule + 1 => There(p, k[j].path)'
    BY <2>2, <1>5, <1>2, <1>7
  <2>4. CASE s.rule < Len(k)
    <3>1. /\ proc'[p] \in ProcType /\ proc'[p].pc = "stat"
          /\ proc'[p].rule = s.rule + 1
      BY <1>4, <1>7, <1>9, <2>4 DEF ProcType
    <3>2. s.rule + 1 \in DOMAIN k
      BY <1>2, <1>7, <2>4
    <3> QED BY <3>1, <3>2, <2>3, <1>1 DEF Behind, Serving, Is
  <2>5. CASE ~(s.rule < Len(k))
    <3>1. proc'[p] = last
      BY <1>4, <1>9, <2>5
    <3>2. \A j \in DOMAIN k : There(p, k[j].path)'
      BY <2>3, <2>5, <1>2, <1>7
    <3> QED BY <3>1, <3>2, <1>6 DEF Behind, Serving, Is
  <2> QED BY <2>4, <2>5
<1> QED BY <1>8, <1>9

\* A process whose place is filled anew leaves the others behind theirs.
LEMMA OthersBehind ==
    ASSUME Folders, NEW p \in Process, NEW s \in ProcType, UNCHANGED config,
           folders \subseteq folders', proc' = [proc EXCEPT ![p] = s], Behind(p)',
           lost' \in [Process -> SUBSET Folder],
           \A q \in Process \ {p} : lost'[q] = lost[q]
    PROVE  Folders'
<1>1. ASSUME NEW q \in Process, q # p
      PROVE  Behind(q)'
  <2>1. proc'[q] = proc[q] /\ Behind(q)
    BY <1>1 DEF Folders
  <2>2. \A d : There(q, d) => There(q, d)'
    BY <1>1, ThereStays
  <2> QED BY <2>1, <2>2 DEF Behind, Serving, Is
<1> QED BY <1>1 DEF Folders

\* A step of a process that starts.
LEMMA StartBehind ==
    ASSUME Settled, Folders, NEW p \in Process, StartupStep(p)
    PROVE  Folders'
<1> DEFINE s == proc[p]
<1>1. folders \subseteq folders' /\ UNCHANGED config
  BY DEF StartupStep, Start, Stat, MkdirTarget, MkdirParent, MkdirPut
<1>2. /\ s \in ProcType /\ proc \in [Process -> ProcType] /\ Behind(p)
      /\ lost \in [Process -> SUBSET Folder]
  BY DEF Folders
<1>3. /\ lost' \in [Process -> SUBSET Folder]
      /\ \A q \in Process \ {p} : lost'[q] = lost[q]
      /\ Start(p) \/ UNCHANGED lost
  BY <1>2 DEF StartupStep, Start
<1>4. ASSUME NEW r \in ProcType, proc' = [proc EXCEPT ![p] = r], Behind(p)'
      PROVE  Folders'
  BY <1>1, <1>3, <1>4, OthersBehind
<1>5. ASSUME NEW pc \in {"stat", "target", "parent", "put"}, Goto(p, pc),
             config.auto, s.rule \in DOMAIN config.entries,
             \A i \in DOMAIN config.entries :
                i < s.rule => There(p, config.entries[i].path)'
      PROVE  Folders'
  <2> DEFINE r == [s EXCEPT !.pc = pc]
  <2>1. r \in ProcType /\ proc' = [proc EXCEPT ![p] = r]
    BY <1>2, <1>5 DEF ProcType, Goto
  <2>2. Behind(p)'
    BY <1>1, <1>2, <1>5, <2>1 DEF Behind, Serving, Is, ProcType
  <2> QED BY <2>1, <2>2, <1>4
<1>6. ASSUME Goto(p, "serving"), config.auto => DOMAIN config.entries = {}
      PROVE  Folders'
  <2> DEFINE r == [s EXCEPT !.pc = "serving"]
  <2>1. r \in ProcType /\ proc' = [proc EXCEPT ![p] = r]
    BY <1>2, <1>6 DEF ProcType, Goto
  <2>2. Behind(p)'
    BY <1>1, <1>2, <1>6, <2>1 DEF Behind, Serving, Is, ProcType
  <2> QED BY <2>1, <2>2, <1>4
<1>7. ASSUME Exit(p)
      PROVE  Folders'
  <2> DEFINE i == Down
  <2>1. /\ i \in ProcType /\ i.pc = "down" /\ i.rule = 1
        /\ proc' = [proc EXCEPT ![p] = i]
    BY <1>7 DEF ProcType, Down, Exit
  <2> HIDE DEF i
  <2>2. Behind(p)'
    BY <1>2, <2>1 DEF Behind, Serving, Is
  <2> QED BY <2>1, <2>2, <1>4
<1>8. ASSUME s.pc \notin {"down", "serving"}, UNCHANGED lost
      PROVE  /\ config.auto /\ s.rule \in DOMAIN config.entries
             /\ \A i \in DOMAIN config.entries :
                   i < s.rule => There(p, config.entries[i].path)'
  BY <1>1, <1>2, <1>8, ThereStays DEF Behind
<1>9. ASSUME s.pc \in {"stat", "put"}, Ready(p), Exists(Dir(p)) \/ Dir(p) \in folders',
             UNCHANGED lost
      PROVE  Folders'
  <2>1. PICK d : d = Dir(p)
    OBVIOUS
  <2>2. Exists(d)'
    <3>1. CASE Exists(d)
      BY <3>1, <1>1, ExistsStays
    <3>2. CASE d \in folders'
      BY <3>2 DEF Exists, Above
    <3> QED BY <3>1, <3>2, <2>1, <1>9
  <2>3. proc'[p] \in ProcType /\ Behind(p)'
    BY <1>1, <1>9, <2>1, <2>2, ReadyBehind
  <2>4. proc' = [proc EXCEPT ![p] = proc'[p]]
    BY <1>2, <1>9 DEF Ready
  <2> QED BY <2>3, <2>4, <1>4
<1>10. CASE Start(p)
  <2>1. config.entries \in Seq(Entry)
    BY ServiceAssumption DEF Settled
  <2>2. CASE config.auto /\ config.entries # <<>>
    <3>1. DOMAIN config.entries = 1..Len(config.entries) /\ Len(config.entries) \in Nat
      BY <2>1
    <3>2. 1 \in DOMAIN config.entries
      BY <2>1, <2>2, <3>1
    <3>3. s.rule = 1 /\ Goto(p, "stat")
      BY <1>2, <1>10, <2>2 DEF Start, Is, Behind
    <3>4. \A i \in DOMAIN config.entries : ~(i < 1)
      BY <3>1
    <3> QED BY <3>2, <3>3, <3>4, <2>2, <1>5
  <2>3. CASE ~(config.auto /\ config.entries # <<>>)
    BY <1>10, <2>1, <2>3, <1>6 DEF Start
  <2> QED BY <2>2, <2>3
<1>11. CASE Stat(p) /\ UNCHANGED lost
  BY <1>11, <1>5, <1>8, <1>9 DEF Stat, Is
<1>12. CASE MkdirTarget(p) /\ UNCHANGED lost
  BY <1>12, <1>5, <1>7, <1>8 DEF MkdirTarget, Is
<1>13. CASE MkdirParent(p) /\ UNCHANGED lost
  BY <1>13, <1>5, <1>7, <1>8 DEF MkdirParent, Is
<1>14. CASE MkdirPut(p) /\ UNCHANGED lost
  BY <1>14, <1>7, <1>9 DEF MkdirPut, Is
<1> QED BY <1>10, <1>11, <1>12, <1>13, <1>14 DEF StartupStep

\* A process that dies has nothing behind it.
LEMMA CrashBehind ==
    ASSUME Settled, Folders, NEW p \in Process, Crash(p)
    PROVE  Folders'
<1> DEFINE i == Down
<1>1. /\ i \in ProcType /\ i.pc = "down" /\ i.rule = 1
      /\ proc' = [proc EXCEPT ![p] = i]
  BY DEF ProcType, Down, Crash, Exit
<1> HIDE DEF i
<1>2. UNCHANGED <<config, lost>> /\ folders' = folders
  BY DEF Crash
<1>3. Behind(p)'
  BY <1>1 DEF Folders, Behind, Serving, Is
<1>4. lost' \in [Process -> SUBSET Folder]
  BY <1>2 DEF Folders
<1> QED BY <1>1, <1>2, <1>3, <1>4, OthersBehind

\* A folder of a rule that a request removes is lost to every process.
LEMMA DavBehind ==
    ASSUME Settled, Folders, NEW c \in Client, DavStep(c)
    PROVE  Folders'
<1>1. /\ UNCHANGED <<config, proc>>
      /\ lost' = [p \in Process |->
                    lost[p] \cup {d \in RulePaths : Exists(d) /\ ~Exists(d)'}]
  BY DEF DavStep, Dav
<1>2. RulePaths \subseteq Folder
  <2>1. config.entries \in Seq(Entry)
    BY ServiceAssumption DEF Settled
  <2>2. \A i \in DOMAIN config.entries : config.entries[i] \in Entry
    BY <2>1
  <2> QED BY <2>2 DEF RulePaths, Entry
<1>3. lost' \in [Process -> SUBSET Folder]
  BY <1>1, <1>2 DEF Folders
<1>4. ASSUME NEW p \in Process, NEW i \in DOMAIN config.entries,
             There(p, config.entries[i].path)
      PROVE  There(p, config.entries[i].path)'
  <2>1. PICK d : d = config.entries[i].path
    OBVIOUS
  <2>2. d \in RulePaths /\ There(p, d)
    BY <1>4, <2>1 DEF RulePaths
  <2>3. d \in lost[p] \/ (Exists(d) /\ ~Exists(d)') => d \in lost'[p]
    BY <1>1, <2>2
  <2>4. There(p, d)'
    BY <2>2, <2>3 DEF There
  <2> QED BY <1>1, <2>1, <2>4
<1>5. ASSUME NEW p \in Process
      PROVE  Behind(p)'
  BY <1>1, <1>4 DEF Folders, Behind, Serving, Is
<1> QED BY <1>1, <1>3, <1>5 DEF Folders

\* A request that was not about to set the verifier, and is not about to set
\* the provider, leaves the two fields of OIDC as Published says.
LEMMA QuietPublishes ==
    ASSUME Requests, Published, NEW c \in Client, ~At(c, "setVerifier"), Same,
           NEW s \in ReqType, Become(c, s), s.pc # "setProvider"
    PROVE  Published'
<1>1. /\ \A d \in Client : d # c => req'[d] = req[d]
      /\ req'[c] = s
  BY DEF Requests, Become
<1>2. HalfInit'
  BY <1>1 DEF Published, HalfInit, At, Self, Same
<1> QED BY <1>1, <1>2 DEF Published, At, Self, Same

\* The step of a request keeps the two fields of OIDC as Published says.
LEMMA HandlePublishes ==
    ASSUME Settled, Requests, Published, NEW c \in Client, Handle(c)
    PROVE  Published'
<1>1. PICK r \in ReqType : Become(c, r) /\ r.proc = Self(c)
  BY HandleMoves
<1>2. /\ \A d \in Client : Self(d)' = Self(d)
      /\ \A d \in Client : d # c => req'[d] = req[d]
      /\ req'[c] = r /\ Self(c) \in Process
  BY <1>1 DEF Requests, Become, Self, ReqType
<1>3. CASE SetProvider(c)
  <2>1. /\ provider' = provider \cup {Self(c)} /\ verifier' = verifier
        /\ IF At(c, "publish") THEN r.pc = "setVerifier"
                               ELSE At(c, "setProvider") /\ r.pc = "token"
    BY <1>2, <1>3 DEF SetProvider, Turn, Become, Requests, ReqType, At
  <2>2. HalfInit'
    BY <2>1, <1>2 DEF Published, HalfInit, At
  <2> QED BY <2>1, <2>2, <1>2 DEF Published, At
<1>4. CASE SetVerifier(c)
  <2>1. /\ provider' = provider /\ verifier' = verifier \cup {Self(c)}
        /\ IF At(c, "publish") THEN r.pc = "setProvider"
                               ELSE At(c, "setVerifier") /\ r.pc = "token"
    BY <1>2, <1>4 DEF SetVerifier, Turn, Become, Requests, ReqType, At
  <2>2. HalfInit'
    BY <2>1, <1>2 DEF Published, HalfInit, At
  <2> QED BY <2>1, <2>2, <1>2 DEF Published, At
<1>5. CASE ~SetProvider(c) /\ ~SetVerifier(c)
  <2>1. Same /\ ~At(c, "setVerifier")
    BY <1>5 DEF Handle, Front, Exhausted, Basic, LDAP, OIDCInit, Discover, Token,
                CheckStep, At
  <2>2. r.pc # "setProvider"
    <3> DEFINE o == req[c]
               n == o.next + 1
    <3>1. o \in ReqType /\ \A e : Become(c, e) => r = e
      BY <1>2 DEF Requests, Become
    <3>2. ASSUME NEW pc, Turn(c, pc)
          PROVE  r.pc = pc
      BY <3>1, <3>2 DEF Turn, ReqType
    <3>3. ASSUME NEW a, Answer(c, a)
          PROVE  r.pc = "done"
      <4>1. r = [o EXCEPT !.pc = "done", !.answer = a]
        BY <3>1, <3>3 DEF Answer
      <4> QED BY <4>1, <3>1 DEF ReqType
    <3>4. ASSUME TryNext(c)
          PROVE  r.pc = "auth"
      <4>1. r = [o EXCEPT !.pc = "auth", !.next = n]
        BY <3>1, <3>4 DEF TryNext
      <4> HIDE DEF n
      <4> QED BY <4>1, <3>1 DEF ReqType
    <3>5. ASSUME Accept(c)
          PROVE  r.pc = "check"
      <4>1. r = [o EXCEPT !.pc = "check", !.user = o.in.cred.user]
        BY <3>1, <3>5 DEF Accept
      <4> QED BY <4>1, <3>1 DEF ReqType
    <3>6. ASSUME Become(c, [o EXCEPT !.pc = "done", !.answer = "aborted"])
          PROVE  r.pc = "done"
      <4>1. r = [o EXCEPT !.pc = "done", !.answer = "aborted"]
        BY <3>1, <3>6
      <4> QED BY <4>1, <3>1 DEF ReqType
    <3> QED
      BY <3>2, <3>3, <3>4, <3>5, <3>6, <1>5
      DEF Handle, Front, Exhausted, Basic, LDAP, OIDCInit, Discover, Token, CheckStep
  <2> QED BY <2>1, <2>2, <1>1, QuietPublishes
<1> QED BY <1>3, <1>4, <1>5

\* Requests that are cut off take the fields of their process with them.
LEMMA CutOffPublishes ==
    ASSUME Requests, Published, NEW p \in Process, CutOff(p)
    PROVE  Published'
<1>1. ASSUME NEW c \in Client
      PROVE  /\ Self(c)' = Self(c)
             /\ Self(c) # p => req'[c] = req[c]
             /\ Self(c) = p => req'[c].pc \in {"idle", "done"}
  <2> DEFINE o == req[c]
             r == [o EXCEPT !.pc = "done", !.answer = "aborted"]
  <2>1. req'[c] = IF Self(c) = p /\ o.pc \notin {"idle", "done"} THEN r ELSE o
    BY DEF CutOff
  <2>2. o \in ReqType /\ r.proc = o.proc /\ r.pc = "done"
    BY DEF Requests, ReqType
  <2> QED BY <2>1, <2>2 DEF Self
<1>2. HalfInit'
  <2> SUFFICES ASSUME NEW q \in provider' \ verifier'
               PROVE  \E c \in Client : Self(c)' = q /\ At(c, "setVerifier")'
    BY DEF HalfInit
  <2>1. q \in provider \ verifier /\ q # p
    BY DEF CutOff
  <2>2. PICK c \in Client : Self(c) = q /\ At(c, "setVerifier")
    BY <2>1 DEF Published, HalfInit
  <2> QED BY <2>1, <2>2, <1>1 DEF At
<1>3. \A c \in Client : At(c, "setProvider")' => Self(c)' \in verifier'
  BY <1>1 DEF CutOff, Published, At
<1> QED BY <1>2, <1>3 DEF Published, CutOff

----------------------------------------------------------------------------
(***************************************************************************)
(* The inductive invariant.  Without Sound nothing ties the user that the  *)
(* manager is asked about to the credentials, and without Behind nothing   *)
(* says that a process has not skipped a folder.                           *)
(***************************************************************************)
Counted == faults \in 0..MaxFaults /\ crashes \in 0..MaxCrashes

IInv == Settled /\ Counted /\ Folders /\ Requests /\ Published

LEMMA Begins == Init => IInv
<1> SUFFICES ASSUME Init PROVE IInv
  OBVIOUS
<1>1. Settled /\ Counted
  BY ServiceAssumption DEF Init, StartupInit, Settled, Counted
<1> DEFINE i == Idle
           d == Down
<1>2. /\ i \in ReqType /\ i.user = NoUser /\ i.pc = "idle"
      /\ d \in ProcType /\ d.rule = 1 /\ d.pc = "down"
  <2>1. i \in ReqType /\ i.user = NoUser /\ i.pc = "idle"
    <3>1. \E p \in Process : TRUE
      BY ServiceAssumption
    <3>2. \E r \in UNION {Request[c] : c \in Client} : TRUE
      BY ServiceAssumption
    <3> QED BY <3>1, <3>2 DEF Idle, ReqType
  <2>2. d \in ProcType /\ d.rule = 1 /\ d.pc = "down"
    BY DEF Down, ProcType
  <2> QED BY <2>1, <2>2
<1>3. /\ req = [c \in Client |-> i] /\ proc = [p \in Process |-> d]
      /\ lost = [p \in Process |-> {}]
  BY DEF Init, StartupInit, AccessInit
<1> HIDE DEF i, d
<1>4. Folders
  BY <1>2, <1>3 DEF Folders, Behind, Serving, Is
<1>5. Requests
  <2>1. Sound(i)
    BY <1>2 DEF Sound, InOIDC
  <2> QED BY <1>2, <1>3, <2>1 DEF Requests
<1>6. Published
  BY <1>2, <1>3 DEF Init, AccessInit, Published, HalfInit, At
<1> QED BY <1>1, <1>4, <1>5, <1>6 DEF IInv

LEMMA Step == IInv /\ [Next]_vars => IInv'
<1> SUFFICES ASSUME IInv, [Next]_vars PROVE IInv'
  OBVIOUS
<1>1. Settled /\ Counted /\ Folders /\ Requests /\ Published
  BY DEF IInv
<1>2. ASSUME UNCHANGED <<config, perms>>
      PROVE  Settled'
  BY <1>1, <1>2 DEF Settled
<1>3. ASSUME UNCHANGED crashes, Works \/ Breaks
      PROVE  Counted'
  BY <1>1, <1>3, ServiceAssumption DEF Counted, Works, Breaks
<1>4. ASSUME UNCHANGED <<config, startupVars>>
      PROVE  Folders'
  BY <1>1, <1>4 DEF Folders, Behind, There, Serving, Is, Exists, startupVars
<1>5. ASSUME UNCHANGED <<config, accessVars>>
      PROVE  Requests' /\ Published'
  BY <1>1, <1>5 DEF Requests, Sound, Granted, Vouched, Chain, Rules, Permitted, Wins,
                    Alike, InOIDC, Published, HalfInit, At, Self, accessVars
<1>6. ASSUME NEW p \in Process, StartStep(p)
      PROVE  IInv'
  <2>1. Works \/ Breaks
    BY <1>6 DEF StartStep, StartupStep, Start, Stat, MkdirTarget, MkdirParent, MkdirPut
  <2>2. UNCHANGED <<config, perms, crashes, accessVars>>
    BY <1>6 DEF StartStep, StartupStep
  <2>3. Folders'
    BY <1>1, <1>6, StartBehind DEF StartStep
  <2> QED BY <2>1, <2>2, <2>3, <1>2, <1>3, <1>5 DEF IInv
<1>7. ASSUME NEW p \in Process, CrashStep(p)
      PROVE  IInv'
  <2>1. UNCHANGED <<config, perms>>
    BY <1>7 DEF CrashStep, Crash
  <2>2. Counted'
    BY <1>1, <1>7, ServiceAssumption DEF Counted, CrashStep, Crash
  <2>3. Folders' /\ Requests' /\ Published'
    BY <1>1, <1>7, <2>1, CrashBehind, CutOffSound, CutOffPublishes DEF CrashStep
  <2> QED BY <2>1, <2>2, <2>3, <1>2 DEF IInv
<1>8. ASSUME NEW c \in Client, NEW p \in Frontend, NEW r \in Request[c],
             BeginStep(c, p, r)
      PROVE  IInv'
  <2>1. /\ UNCHANGED <<config, perms, startupVars>> /\ Works /\ Same
        /\ At(c, "idle") /\ Begin(c, p, r)
    BY <1>8 DEF BeginStep, Begin
  <2>2. PICK s \in ReqType : Become(c, s) /\ Sound(s) /\ s.pc = "front"
    BY <1>1, <2>1, BeginMoves
  <2>3. Requests'
    BY <1>1, <2>1, <2>2, BecomeSound
  <2>4. Published'
    BY <1>1, <2>1, <2>2, QuietPublishes DEF At
  <2> QED BY <2>1, <2>3, <2>4, <1>2, <1>3, <1>4 DEF IInv, startupVars
<1>9. ASSUME NEW c \in Client, HandleStep(c)
      PROVE  IInv'
  <2>1. UNCHANGED <<config, perms, startupVars>> /\ Handle(c)
    BY <1>9 DEF HandleStep
  <2>2. Works \/ Breaks
    BY <2>1 DEF Handle, Front, Exhausted, Basic, LDAP, OIDCInit, Discover, SetProvider,
                SetVerifier, Token, CheckStep
  <2>3. Requests'
    BY <1>1, <2>1, HandleMoves, BecomeSound
  <2>4. Published'
    BY <1>1, <2>1, HandlePublishes
  <2> QED BY <2>1, <2>2, <2>3, <2>4, <1>2, <1>3, <1>4 DEF IInv, startupVars
<1>10. ASSUME NEW c \in Client, DavStep(c)
       PROVE  IInv'
  <2>1. /\ UNCHANGED <<config, perms, crashes>> /\ Works /\ Same
        /\ At(c, "dav") /\ Answer(c, "served")
    BY <1>10 DEF DavStep, Dav
  <2>2. PICK r \in ReqType :
            Become(c, r) /\ Sound(r) /\ r.proc = Self(c) /\ r.pc = "done"
    BY <1>1, <2>1, AnswerMoves
  <2>3. Requests'
    BY <1>1, <2>1, <2>2, BecomeSound
  <2>4. Published'
    BY <1>1, <2>1, <2>2, QuietPublishes DEF At
  <2>5. Folders'
    BY <1>1, <1>10, DavBehind
  <2> QED BY <2>1, <2>3, <2>4, <2>5, <1>2, <1>3 DEF IInv
<1>11. CASE UNCHANGED vars
  <2>1. UNCHANGED <<config, perms, startupVars, accessVars, faults, crashes>>
    BY <1>11 DEF vars, startupVars
  <2> QED BY <2>1, <1>2, <1>3, <1>4, <1>5 DEF IInv, Works
<1> QED BY <1>6, <1>7, <1>8, <1>9, <1>10, <1>11 DEF Next

\* Every reachable state of a deployment, of any size and under any
\* configuration it was started with, satisfies the invariant.
THEOREM Invariance == Spec => []IInv
  BY Begins, Step, PTL DEF Spec

\* The processes, the requests and the sorted rules keep their types, and
\* the faults their bounds (server.go:27-155, manager.go:34-45).
THEOREM TypeCorrect == Spec => []TypeOK
<1>1. IInv => TypeOK
  <2> SUFFICES ASSUME IInv PROVE TypeOK
    OBVIOUS
  <2>1. ASSUME NEW p \in Process
        PROVE  Range(perms[p]) = Range(config.entries)
    <3>1. config.entries \in Seq(Entry) /\ perms[p] \in Sorted(config.entries)
      BY ServiceAssumption DEF IInv, Settled
    <3>2. /\ \A i \in DOMAIN config.entries :
                \E j \in DOMAIN perms[p] : perms[p][j] = config.entries[i]
          /\ \A i \in DOMAIN perms[p] :
                \E j \in DOMAIN config.entries : config.entries[j] = perms[p][i]
      BY <3>1, SortedRules
    <3> QED BY <3>2 DEF Range
  <2> QED BY <2>1 DEF IInv, Settled, Counted, Folders, Requests, Published, TypeOK,
                      StartupTypeOK, AccessTypeOK
<1> QED BY <1>1, Invariance, PTL

\* No request reaches the WebDAV handler that the documented policy does not
\* permit to nobody in particular or to a user its credentials vouch for, on
\* each path the storage works on that the same rules hold for as for the raw
\* path of the URL, the only one the code looks at; whatever the rules,
\* authenticators, faults and races
\* (middleware.go:149-177, manager.go:54-136, authenticator.go:26-36).
THEOREM PolicyHolds == Spec => []Authorized
<1>1. IInv => Authorized
  BY DEF IInv, Requests, Sound, Granted, Authorized, At
<1> QED BY <1>1, Invariance, PTL

\* OIDC is half initialised only while a request is between the two
\* assignments of init (oidc.go:30-48).
THEOREM InitWindow == Spec => []HalfInit
<1>1. IInv => HalfInit
  BY DEF IInv, Published
<1> QED BY <1>1, Invariance, PTL

\* A process that serves has all the folders of its rules but those that a
\* request removed since it began to start, however often it or another
\* replica was interrupted before (server.go:120-136).
THEOREM FoldersThere == Spec => []FoldersReady
<1>1. IInv => FoldersReady
  BY DEF IInv, Folders, Behind, There, FoldersReady, RulePaths
<1> QED BY <1>1, Invariance, PTL
----------------------------------------------------------------------------
(***************************************************************************)
(* Why nobody is challenged without a reason.  A request knows that none   *)
(* of the authenticators before the one whose turn it is would vouch for   *)
(* it: of all of them while no call has failed, of Basic, which calls      *)
(* nobody, always.                                                         *)
(***************************************************************************)
Authenticators == {"oidc", "ldap", "basic"}

Accepts(a, cred) ==
    /\ cred.good
    /\ \/ a = "oidc" /\ cred.kind = "bearer" /\ cred.user \in User
       \/ a = "ldap" /\ cred.kind = "basic" /\ cred.user \in Directory
       \/ a = "basic" /\ cred.kind = "basic" /\ cred.user \in BasicUsers

\* No authenticator of A in the chain accepts.
Strange(cred, A) == \A a \in A \cap Chain : ~Accepts(a, cred)

Refused(r, A) ==
    /\ r.next >= 1
    /\ r.pc \in {"idle", "front"} => r.next = 1
    /\ r.pc \in InOIDC => /\ r.next \in DOMAIN ChainOf(Chain)
                          /\ ChainOf(Chain)[r.next] = "oidc"
    /\ r.pc \in InOIDC \cup {"auth"} =>
          \A i \in DOMAIN ChainOf(Chain) :
              i < r.next /\ ChainOf(Chain)[i] \in A =>
                  ~Accepts(ChainOf(Chain)[i], r.in.cred)
    /\ r.pc = "check" /\ r.user = NoUser => Strange(r.in.cred, A)
    /\ r.answer = "unauthorized" => Strange(r.in.cred, A)

\* A challenge has a rule behind it.
Ruled(r) ==
    r.answer = "unauthorized" => \E g \in Rules : Above(g.path, r.in.path)

Challenges ==
    \A c \in Client : /\ Ruled(req[c]) /\ Refused(req[c], {"basic"})
                      /\ faults = 0 => Refused(req[c], Authenticators)

\* Each enabled authenticator has its turn in the chain.
LEMMA ChainHolds ==
    /\ \E n \in Nat : DOMAIN ChainOf(Chain) = 1..n
    /\ \A a \in {"oidc", "ldap", "basic"} \cap Chain :
          \E i \in DOMAIN ChainOf(Chain) : ChainOf(Chain)[i] = a
<1> DEFINE Only(x) == IF x \in Chain THEN <<x>> ELSE <<>>
           chain == Only("oidc") \o Only("ldap") \o Only("basic")
           Name == {"oidc", "ldap", "basic"}
<1>1. chain = ChainOf(Chain)
  BY DEF ChainOf
<1>2. ASSUME NEW s \in Seq(Name), NEW t \in Seq(Name)
      PROVE  /\ s \o t \in Seq(Name)
             /\ \A i \in DOMAIN s : i \in DOMAIN (s \o t) /\ (s \o t)[i] = s[i]
             /\ \A i \in DOMAIN t : /\ Len(s) + i \in DOMAIN (s \o t)
                                    /\ (s \o t)[Len(s) + i] = t[i]
  OBVIOUS
<1>3. \A a \in Name :
          /\ Only(a) \in Seq(Name)
          /\ a \in Chain => 1 \in DOMAIN Only(a) /\ Only(a)[1] = a
  <2> SUFFICES ASSUME NEW a \in Name
               PROVE  /\ Only(a) \in Seq(Name)
                      /\ a \in Chain => 1 \in DOMAIN Only(a) /\ Only(a)[1] = a
    OBVIOUS
  <2>1. a \in Name
    OBVIOUS
  <2>2. <<>> \in Seq(Name) /\ <<a>> \in Seq(Name) /\ <<a>>[1] = a /\ 1 \in DOMAIN <<a>>
    BY <2>1
  <2> QED BY <2>2
<1> DEFINE x == Only("oidc")
           y == Only("ldap")
           z == Only("basic")
<1>4. /\ x \in Seq(Name) /\ y \in Seq(Name) /\ z \in Seq(Name)
      /\ "oidc" \in Chain => 1 \in DOMAIN x /\ x[1] = "oidc"
      /\ "ldap" \in Chain => 1 \in DOMAIN y /\ y[1] = "ldap"
      /\ "basic" \in Chain => 1 \in DOMAIN z /\ z[1] = "basic"
  BY <1>3
<1>5. chain = (x \o y) \o z
  OBVIOUS
<1> HIDE DEF Only, Name, x, y, z, chain
<1>6. x \o y \in Seq(Name) /\ chain \in Seq(Name)
  BY <1>2, <1>4, <1>5
<1>7. \E n \in Nat : DOMAIN chain = 1..n
  BY <1>6
<1>8. "oidc" \in Chain => \E i \in DOMAIN chain : chain[i] = "oidc"
  BY <1>2, <1>4, <1>5, <1>6
<1>9. ASSUME "ldap" \in Chain
      PROVE  \E i \in DOMAIN chain : chain[i] = "ldap"
  <2>1. Len(x) + 1 \in DOMAIN (x \o y) /\ (x \o y)[Len(x) + 1] = "ldap"
    BY <1>2, <1>4, <1>9
  <2> DEFINE w == x \o y
  <2>2. w \in Seq(Name) /\ chain = w \o z
    BY <1>5, <1>6
  <2>3. Len(x) + 1 \in DOMAIN w /\ w[Len(x) + 1] = "ldap"
    BY <2>1
  <2> HIDE DEF w
  <2>4. Len(x) + 1 \in DOMAIN chain /\ chain[Len(x) + 1] = "ldap"
    BY <1>2, <1>4, <2>2, <2>3
  <2> QED BY <2>4
<1>10. ASSUME "basic" \in Chain
       PROVE  \E i \in DOMAIN chain : chain[i] = "basic"
  <2> DEFINE w == x \o y
  <2>1. w \in Seq(Name) /\ chain = w \o z
    BY <1>5, <1>6
  <2> HIDE DEF w
  <2>2. Len(w) + 1 \in DOMAIN chain /\ chain[Len(w) + 1] = "basic"
    BY <1>2, <1>4, <1>10, <2>1
  <2> QED BY <2>2
<1> QED BY <1>1, <1>7, <1>8, <1>9, <1>10

\* Credentials that nobody in the chain accepts are vouched for by nobody, and
\* are not those of a user of Basic when Basic does not accept them.
LEMMA StrangersOnly ==
    ASSUME NEW cred
    PROVE  /\ Strange(cred, Authenticators) => Vouched(cred) = {}
           /\ Strange(cred, {"basic"}) => ~Local(cred)
<1>1. ASSUME Strange(cred, Authenticators), NEW u \in Vouched(cred)
      PROVE  FALSE
  BY <1>1 DEF Vouched, Accepts, Strange, Authenticators
<1>2. ASSUME Strange(cred, {"basic"})
      PROVE  ~Local(cred)
  BY <1>2 DEF Local, Accepts, Strange
<1> QED BY <1>1, <1>2

\* The authenticator whose turn it is stands in the chain at that place.
LEMMA TurnOf ==
    ASSUME NEW c \in Client, NEW a, Authenticator(c) = {a}
    PROVE  req[c].next \in DOMAIN ChainOf(Chain) /\ ChainOf(Chain)[req[c].next] = a
  BY DEF Authenticator, Chain

\* What the ways to go on leave of the record of a request.
LEMMA MovesOn ==
    ASSUME Requests, NEW c \in Client
    PROVE  /\ \A pc : Turn(c, pc) =>
                 /\ req'[c].pc = pc /\ req'[c].in = req[c].in
                 /\ req'[c].next = req[c].next /\ req'[c].user = req[c].user
                 /\ req'[c].answer = req[c].answer
           /\ \A a : Answer(c, a) =>
                 /\ req'[c].pc = "done" /\ req'[c].in = req[c].in
                 /\ req'[c].next = req[c].next /\ req'[c].answer = a
           /\ TryNext(c) =>
                 /\ req'[c].pc = "auth" /\ req'[c].in = req[c].in
                 /\ req'[c].next = req[c].next + 1 /\ req'[c].user = req[c].user
                 /\ req'[c].answer = req[c].answer
           /\ Accept(c) =>
                 /\ req'[c].pc = "check" /\ req'[c].in = req[c].in
                 /\ req'[c].next = req[c].next /\ req'[c].user = req[c].in.cred.user
                 /\ req'[c].answer = req[c].answer
<1> DEFINE o == req[c]
<1>1. o \in ReqType /\ \A e : Become(c, e) => req'[c] = e
  BY DEF Requests, Become
<1>2. ASSUME NEW pc, Turn(c, pc)
      PROVE  req'[c] = [o EXCEPT !.pc = pc]
  BY <1>1, <1>2 DEF Turn
<1>3. ASSUME NEW a, Answer(c, a)
      PROVE  req'[c] = [o EXCEPT !.pc = "done", !.answer = a]
  BY <1>1, <1>3 DEF Answer
<1>4. TryNext(c) => req'[c] = [o EXCEPT !.pc = "auth", !.next = o.next + 1]
  BY <1>1 DEF TryNext
<1>5. Accept(c) => req'[c] = [o EXCEPT !.pc = "check", !.user = o.in.cred.user]
  BY <1>1 DEF Accept
<1> HIDE DEF o
<1>6. ASSUME NEW pc, Turn(c, pc)
      PROVE  /\ req'[c].pc = pc /\ req'[c].in = o.in /\ req'[c].next = o.next
             /\ req'[c].user = o.user /\ req'[c].answer = o.answer
  <2> DEFINE r == [o EXCEPT !.pc = pc]
  <2>1. /\ r.pc = pc /\ r.in = o.in /\ r.next = o.next
        /\ r.user = o.user /\ r.answer = o.answer
    BY <1>1 DEF ReqType
  <2> QED BY <2>1, <1>2, <1>6
<1>7. ASSUME NEW a, Answer(c, a)
      PROVE  /\ req'[c].pc = "done" /\ req'[c].in = o.in /\ req'[c].next = o.next
             /\ req'[c].answer = a
  <2> DEFINE r == [o EXCEPT !.pc = "done", !.answer = a]
  <2>1. /\ r.pc = "done" /\ r.in = o.in /\ r.next = o.next
        /\ r.answer = a
    BY <1>1 DEF ReqType
  <2> QED BY <2>1, <1>3, <1>7
<1>8. TryNext(c) =>
          /\ req'[c].pc = "auth" /\ req'[c].in = o.in /\ req'[c].next = o.next + 1
          /\ req'[c].user = o.user /\ req'[c].answer = o.answer
  <2> DEFINE n == o.next + 1
  <2>1. TryNext(c) => req'[c] = [o EXCEPT !.pc = "auth", !.next = n]
    BY <1>4
  <2> HIDE DEF n
  <2>2. TryNext(c) =>
          /\ req'[c].pc = "auth" /\ req'[c].in = o.in /\ req'[c].next = n
          /\ req'[c].user = o.user /\ req'[c].answer = o.answer
    BY <1>1, <2>1 DEF ReqType
  <2> QED BY <2>2 DEF n
<1>9. Accept(c) =>
          /\ req'[c].pc = "check" /\ req'[c].in = o.in /\ req'[c].next = o.next
          /\ req'[c].user = o.in.cred.user /\ req'[c].answer = o.answer
  BY <1>1, <1>5 DEF ReqType
<1> QED BY <1>6, <1>7, <1>8, <1>9 DEF o

\* The record after a panic.
LEMMA Ended ==
    ASSUME Requests, NEW c \in Client,
           Become(c, [req[c] EXCEPT !.pc = "done", !.answer = "aborted"])
    PROVE  /\ req'[c].pc = "done" /\ req'[c].in = req[c].in
           /\ req'[c].next = req[c].next /\ req'[c].answer = "aborted"
<1>1. req[c] \in ReqType
  BY DEF Requests
<1>2. req'[c] = [req[c] EXCEPT !.pc = "done", !.answer = "aborted"]
  BY DEF Requests, Become
<1> QED BY <1>1, <1>2 DEF ReqType

\* A request goes on knowing who refused it: a call that fails is one of OIDC
\* or of LDAP.
LEMMA HandleRefuses ==
    ASSUME Requests, NEW c \in Client, Handle(c), faults \in Nat,
           Settled, NoUser \notin BasicUsers \cup Directory,
           NEW A \in SUBSET Authenticators, Works \/ A = {"basic"}, Refused(req[c], A)
    PROVE  Refused(req'[c], A)
<1> DEFINE o == req[c]
           r == req'[c]
           chain == ChainOf(Chain)
<1>1. o \in ReqType /\ Sound(o) /\ o.in.cred \in Cred
  BY RequestType DEF Requests
<1>2. Breaks => "oidc" \notin A /\ "ldap" \notin A
  BY DEF Works, Breaks
<1>3. ASSUME NEW pc, pc \notin {"idle", "front", "auth", "check"} \cup InOIDC, Turn(c, pc)
      PROVE  Refused(r, A)
  BY <1>3, MovesOn DEF Refused, InOIDC
<1>4. ASSUME NEW a, a # "unauthorized", Answer(c, a)
      PROVE  Refused(r, A)
  BY <1>4, MovesOn DEF Refused, InOIDC
<1>5. ASSUME NEW a, a \in A => ~Accepts(a, o.in.cred), TryNext(c), o.pc \in InOIDC \cup {"auth"},
             o.next \in DOMAIN chain, chain[o.next] = a
      PROVE  Refused(r, A)
  <2>1. /\ r.pc = "auth" /\ r.in = o.in /\ r.next = o.next + 1
        /\ r.answer = o.answer /\ o.next \in Nat
    BY <1>1, <1>5, MovesOn DEF ReqType
  <2>2. PICK n \in Nat : DOMAIN chain = 1..n
    BY ChainHolds
  <2>3. \A i \in DOMAIN chain : i < r.next => i < o.next \/ i = o.next
    BY <2>1, <2>2
  <2>4. \A i \in DOMAIN chain :
            i < r.next /\ chain[i] \in A => ~Accepts(chain[i], r.in.cred)
    BY <2>1, <2>3, <1>5 DEF Refused
  <2> QED BY <2>1, <2>4 DEF Refused, InOIDC
<1>6. ASSUME o.in.cred.user # NoUser, Accept(c)
      PROVE  Refused(r, A)
  BY <1>6, MovesOn DEF Refused, InOIDC
<1>7. ASSUME NEW pc \in InOIDC, Turn(c, pc), o.pc \in InOIDC \cup {"auth"},
             o.next \in DOMAIN chain, chain[o.next] = "oidc"
      PROVE  Refused(r, A)
  BY <1>7, MovesOn DEF Refused, InOIDC
<1>8. CASE Front(c)
  <2>1. CASE \E a \in {"ok", "notFound", "noContent", "forbidden"} : Answer(c, a)
    BY <2>1, <1>4
  <2>2. CASE Turn(c, "dav")
    BY <2>2, <1>3 DEF InOIDC
  <2>3. CASE Turn(c, "auth")
    <3>1. /\ r.pc = "auth" /\ r.in = o.in /\ r.next = 1 /\ r.answer = o.answer
      BY <1>8, <2>3, MovesOn DEF Front, At, Refused
    <3>2. \A i \in DOMAIN chain : ~(i < r.next)
      BY <3>1, ChainHolds
    <3> QED BY <3>1, <3>2 DEF Refused, InOIDC
  <2> QED BY <1>8, <2>1, <2>2, <2>3 DEF Front
<1>9. CASE Exhausted(c)
  <2>1. /\ r.pc = "check" /\ r.in = o.in /\ r.next = o.next /\ r.answer = o.answer
        /\ o.pc = "auth" /\ o.next \in Nat
    BY <1>1, <1>9, MovesOn DEF Exhausted, At, ReqType
  <2>2. o.next \notin DOMAIN chain
    BY <1>9 DEF Exhausted, Authenticator, Chain
  <2>3. \A i \in DOMAIN chain : i < o.next
    BY <2>1, <2>2, ChainHolds DEF Refused
  <2>4. Strange(o.in.cred, A)
    BY <2>1, <2>3, ChainHolds DEF Refused, Strange, Authenticators
  <2> QED BY <2>1, <2>4 DEF Refused, InOIDC
<1>10. CASE Basic(c)
  <2>1. o.pc = "auth" /\ o.next \in DOMAIN chain /\ chain[o.next] = "basic"
    BY <1>10, TurnOf DEF Basic, At
  <2>2. CASE TryNext(c) /\ ~Accepts("basic", o.in.cred)
    BY <2>1, <2>2, <1>5
  <2>3. CASE Accept(c) /\ o.in.cred.user \in BasicUsers
    BY <2>3, <1>6
  <2> QED BY <1>10, <2>2, <2>3 DEF Basic, Accepts
<1>11. CASE LDAP(c)
  <2>1. o.pc = "auth" /\ o.next \in DOMAIN chain /\ chain[o.next] = "ldap"
    BY <1>11, TurnOf DEF LDAP, At
  <2>2. CASE TryNext(c) /\ ("ldap" \in A => ~Accepts("ldap", o.in.cred))
    BY <2>1, <2>2, <1>5
  <2>3. CASE Accept(c) /\ o.in.cred.user \in Directory
    BY <2>3, <1>6
  <2> QED BY <1>11, <1>2, <2>2, <2>3 DEF LDAP, Accepts
<1>12. CASE OIDCInit(c)
  <2>1. o.pc = "auth" /\ o.next \in DOMAIN chain /\ chain[o.next] = "oidc"
    BY <1>12, TurnOf DEF OIDCInit, At
  <2> QED BY <1>12, <2>1, <1>7 DEF OIDCInit, InOIDC
<1>13. ASSUME o.pc \in InOIDC
       PROVE  o.next \in DOMAIN chain /\ chain[o.next] = "oidc"
  BY <1>13 DEF Refused
<1>14. CASE Discover(c)
  <2>1. o.pc \in InOIDC
    BY <1>14 DEF Discover, At, InOIDC
  <2>2. CASE Turn(c, "publish")
    BY <2>1, <2>2, <1>7, <1>13 DEF InOIDC
  <2>3. CASE TryNext(c) /\ "oidc" \notin A
    BY <2>1, <2>3, <1>5, <1>13
  <2> QED BY <1>14, <1>2, <2>2, <2>3 DEF Discover
<1>15. CASE SetProvider(c) \/ SetVerifier(c)
  BY <1>15, <1>7, <1>13 DEF SetProvider, SetVerifier, InOIDC
<1>16. CASE Token(c)
  <2>1. o.pc \in InOIDC
    BY <1>16 DEF Token, At, InOIDC
  <2>2. CASE Become(c, [o EXCEPT !.pc = "done", !.answer = "aborted"])
    BY <2>2, Ended DEF Refused, InOIDC
  <2>3. CASE TryNext(c) /\ ("oidc" \in A => ~Accepts("oidc", o.in.cred))
    BY <2>1, <2>3, <1>5, <1>13
  <2>4. CASE Accept(c) /\ o.in.cred.user # NoUser
    BY <2>4, <1>6
  <2> QED BY <1>16, <1>2, <2>2, <2>3, <2>4, UserAssumption DEF Token, Accepts
<1>17. CASE CheckStep(c)
  <2> DEFINE a == Check(perms[Self(c)], o.in.path, o.in.method, o.user)
  <2>1. CASE a = "allow" /\ Turn(c, "dav")
    BY <2>1, <1>3 DEF InOIDC
  <2>2. CASE a # "unauthorized" /\ Answer(c, a)
    BY <2>2, <1>4
  <2>3. CASE a = "unauthorized" /\ Answer(c, a)
    <3>1. o.user = NoUser /\ o.pc = "check"
      BY <1>17, <2>3 DEF CheckStep, At, Check, Decide
    <3> QED BY <3>1, <2>3, MovesOn DEF Refused, InOIDC
  <2> QED BY <1>17, <2>1, <2>2, <2>3 DEF CheckStep
<1> QED BY <1>8, <1>9, <1>10, <1>11, <1>12, <1>14, <1>15, <1>16, <1>17 DEF Handle

\* Who is challenged asked for a path with a rule.
LEMMA HandleRuled ==
    ASSUME Settled, Requests, NEW c \in Client, Handle(c), Ruled(req[c])
    PROVE  Ruled(req'[c])
<1> DEFINE o == req[c]
           r == req'[c]
<1>1. o \in ReqType
  BY DEF Requests
<1>2. ASSUME r.answer = o.answer, r.in = o.in
      PROVE  Ruled(r)
  BY <1>2 DEF Ruled
<1>3. ASSUME r.answer # "unauthorized"
      PROVE  Ruled(r)
  BY <1>3 DEF Ruled
<1>4. CASE CheckStep(c)
  <2> DEFINE a == Check(perms[Self(c)], o.in.path, o.in.method, o.user)
  <2>1. CASE Turn(c, "dav")
    BY <2>1, <1>2, MovesOn
  <2>2. CASE a # "unauthorized" /\ Answer(c, a)
    BY <2>2, <1>3, MovesOn
  <2>3. CASE a = "unauthorized" /\ Answer(c, a)
    <3>1. PICK i \in DOMAIN perms[Self(c)] : Above(perms[Self(c)][i].path, o.in.path)
      BY <2>3 DEF Check, FindPermission, Matching
    <3>2. /\ Self(c) \in Process /\ config.entries \in Seq(Entry)
          /\ perms[Self(c)] \in Sorted(config.entries)
      BY <1>1, ServiceAssumption DEF Self, ReqType, Settled
    <3>3. perms[Self(c)][i] \in Rules
      BY <3>1, <3>2, SortedRules DEF Rules
    <3> QED BY <3>1, <3>3, <2>3, MovesOn DEF Ruled
  <2> QED BY <1>4, <2>1, <2>2, <2>3 DEF CheckStep
<1>5. CASE \/ \E pc : Turn(c, pc)
           \/ \E a \in {"ok", "notFound", "noContent", "forbidden"} : Answer(c, a)
           \/ TryNext(c) \/ Accept(c)
           \/ Become(c, [o EXCEPT !.pc = "done", !.answer = "aborted"])
  BY <1>5, <1>2, <1>3, MovesOn, Ended
<1> QED
  BY <1>4, <1>5 DEF Handle, Front, Exhausted, Basic, LDAP, OIDCInit, Discover,
     SetProvider, SetVerifier, Token

\* A request that is cut off is not challenged any more.
LEMMA CutOffChallenges ==
    ASSUME Requests, Challenges, NEW p \in Process, CutOff(p), UNCHANGED config,
           faults' = faults
    PROVE  Challenges'
<1>1. ASSUME NEW c \in Client
      PROVE  /\ req'[c] = req[c] \/ (/\ req'[c].pc = "done"
                                     /\ req'[c].answer = "aborted"
                                     /\ req'[c].next = req[c].next)
  <2> DEFINE o == req[c]
             r == [o EXCEPT !.pc = "done", !.answer = "aborted"]
  <2>1. req'[c] = o \/ req'[c] = r
    BY DEF CutOff
  <2>2. r.pc = "done" /\ r.answer = "aborted" /\ r.next = o.next
    BY DEF Requests, ReqType
  <2> QED BY <2>1, <2>2
<1>2. ASSUME NEW c \in Client
      PROVE  /\ Ruled(req'[c]) /\ Refused(req'[c], {"basic"})
             /\ faults = 0 => Refused(req'[c], Authenticators)
  BY <1>1 DEF Challenges, Ruled, Refused, InOIDC
<1> QED BY <1>2 DEF Challenges, Ruled, Refused, Rules, Strange, Chain

\* A step that leaves the requests alone leaves them as they are.
LEMMA SameChallenges ==
    ASSUME Challenges, UNCHANGED <<config, req>>, faults \in Nat, Works \/ Breaks
    PROVE  Challenges'
<1>1. faults' = 0 => faults = 0
  BY DEF Works, Breaks
<1> QED BY <1>1 DEF Challenges, Ruled, Refused, Rules, Strange, Chain

\* The record of one request changes.
LEMMA OneChallenges ==
    ASSUME Requests, Challenges, UNCHANGED config, faults \in Nat, Works \/ Breaks,
           NEW c \in Client, NEW r, Become(c, r), Ruled(r), Refused(r, {"basic"}),
           Works /\ faults = 0 => Refused(r, Authenticators)
    PROVE  Challenges'
<1>1. faults' = 0 => faults = 0 /\ Works
  BY DEF Works, Breaks
<1>2. ASSUME NEW d \in Client
      PROVE  /\ Ruled(req'[d]) /\ Refused(req'[d], {"basic"})
             /\ faults' = 0 => Refused(req'[d], Authenticators)
  <2>1. req'[d] = IF d = c THEN r ELSE req[d]
    BY DEF Requests, Become
  <2> QED BY <2>1, <1>1 DEF Challenges
<1> QED BY <1>2 DEF Challenges, Ruled, Refused, Rules, Strange, Chain

\* Nobody with good credentials is asked for a password, unless a call to OIDC
\* or LDAP has failed, and a user of BASIC_USERS is not even then, whichever
\* authenticators are enabled and however many requests run at once; nobody is
\* asked for one on a path without a rule
\* (manager.go:56-61, 79-81, authenticator.go:26-36).  An entry of BASIC_USERS with an empty name would
\* be accepted and challenged all the same; LDAPAuth refuses the empty name.
THEOREM ChallengesOnlyStrangers ==
    ASSUME NoUser \notin BasicUsers \cup Directory
    PROVE  Spec => []NoFalseChallenge
<1>1. Init => Challenges
  <2> SUFFICES ASSUME Init PROVE Challenges
    OBVIOUS
  <2> DEFINE i == Idle
  <2>1. i.pc = "idle" /\ i.next = 1 /\ i.answer = "none"
    BY DEF Idle
  <2>2. \A c \in Client : req[c] = i
    BY DEF Init, AccessInit
  <2> HIDE DEF i
  <2>3. Ruled(i) /\ \A A : Refused(i, A)
    BY <2>1 DEF Ruled, Refused, InOIDC
  <2> QED BY <2>2, <2>3 DEF Challenges
<1>2. IInv /\ Challenges /\ [Next]_vars => Challenges'
  <2> SUFFICES ASSUME IInv, Challenges, [Next]_vars PROVE Challenges'
    OBVIOUS
  <2>1. Settled /\ Requests /\ faults \in Nat
    BY ServiceAssumption DEF IInv, Counted
  <2>2. ASSUME NEW p \in Process, StartStep(p)
        PROVE  Challenges'
    BY <2>1, <2>2, SameChallenges
    DEF StartStep, StartupStep, Start, Stat, MkdirTarget, MkdirParent, MkdirPut, accessVars
  <2>3. ASSUME NEW p \in Process, CrashStep(p)
        PROVE  Challenges'
    BY <2>1, <2>3, CutOffChallenges DEF CrashStep, Crash
  <2>4. ASSUME NEW c \in Client, NEW p \in Frontend, NEW r \in Request[c],
               BeginStep(c, p, r)
        PROVE  Challenges'
    <3> DEFINE i == Idle
               s == [i EXCEPT !.pc = "front", !.proc = p, !.in = r]
    <3>1. i \in ReqType /\ i.next = 1 /\ i.answer = "none"
      <4>1. \E q \in Process : TRUE
        BY ServiceAssumption
      <4>2. \E q \in UNION {Request[d] : d \in Client} : TRUE
        BY ServiceAssumption
      <4> QED BY <4>1, <4>2 DEF Idle, ReqType
    <3>2. Become(c, s) /\ Works /\ UNCHANGED config
      BY <2>4 DEF BeginStep, Begin
    <3> HIDE DEF i
    <3>3. s.pc = "front" /\ s.next = 1 /\ s.answer = "none"
      BY <3>1 DEF ReqType
    <3> HIDE DEF s
    <3>4. Ruled(s) /\ \A A : Refused(s, A)
      BY <3>3 DEF Ruled, Refused, InOIDC
    <3> QED BY <2>1, <3>2, <3>4, OneChallenges
  <2>5. ASSUME NEW c \in Client, HandleStep(c)
        PROVE  Challenges'
    <3>1. Handle(c) /\ UNCHANGED config
      BY <2>5 DEF HandleStep
    <3>2. PICK r \in ReqType : Become(c, r)
      BY <2>1, <3>1, HandleMoves
    <3>3. r = req'[c]
      BY <2>1, <3>2 DEF Requests, Become
    <3>4. Works \/ Breaks
      BY <3>1 DEF Handle, Front, Exhausted, Basic, LDAP, OIDCInit, Discover,
                  SetProvider, SetVerifier, Token, CheckStep
    <3>5. Ruled(r)
      BY <2>1, <3>1, <3>3, HandleRuled DEF Challenges
    <3>6. Refused(r, {"basic"})
      BY <2>1, <3>1, <3>3, HandleRefuses DEF Challenges, Authenticators
    <3>7. Works /\ faults = 0 => Refused(r, Authenticators)
      BY <2>1, <3>1, <3>3, HandleRefuses DEF Challenges
    <3> QED BY <2>1, <3>1, <3>2, <3>4, <3>5, <3>6, <3>7, OneChallenges
  <2>6. ASSUME NEW c \in Client, DavStep(c)
        PROVE  Challenges'
    <3>1. At(c, "dav") /\ Answer(c, "served") /\ Works /\ UNCHANGED config
      BY <2>6 DEF DavStep, Dav
    <3>2. PICK r \in ReqType : Become(c, r)
      BY <2>1, <3>1, AnswerMoves
    <3>3. r = req'[c]
      BY <2>1, <3>2 DEF Requests, Become
    <3>4. r.pc = "done" /\ r.next = req[c].next /\ r.answer = "served"
      BY <2>1, <3>1, <3>3, MovesOn
    <3>5. Ruled(r)
      BY <3>4 DEF Ruled
    <3>6. \A A : Refused(req[c], A) => Refused(r, A)
      BY <3>4 DEF Refused, InOIDC
    <3> QED BY <2>1, <3>1, <3>2, <3>5, <3>6, OneChallenges DEF Challenges
  <2>7. CASE UNCHANGED vars
    <3>1. UNCHANGED <<config, req>> /\ Works
      BY <2>7 DEF vars, accessVars, Works
    <3> QED BY <2>1, <3>1, SameChallenges
  <2> QED BY <2>2, <2>3, <2>4, <2>5, <2>6, <2>7 DEF Next
<1>3. Challenges => NoFalseChallenge
  BY StrangersOnly DEF Challenges, Ruled, Refused, NoFalseChallenge
<1>4. Spec => []IInv
  BY Invariance
<1> QED BY <1>1, <1>2, <1>3, <1>4, PTL DEF Spec
=============================================================================
