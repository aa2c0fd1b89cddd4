---------------------------- MODULE CloudFS_proofs ----------------------------
(***************************************************************************)
(* What the steps that every backend shares preserve.                      *)
(***************************************************************************)
EXTENDS CloudFS, Keys_proofs, FiniteSetTheorems

----------------------------------------------------------------------------
\* Types.

LEMMA QuietType == Quiet \in CallType
<1>1. <<>> \in Path /\ <<>> \in Seq(Part)
  BY EmptySeq DEF Path
<1> QED
  BY <1>1 DEF Quiet, CallType, PC, NoRequest, RequestType, Status, Part

LEMMA InitType == Init => TypeOK
<1> SUFFICES ASSUME Init PROVE TypeOK
  OBVIOUS
<1>1. IsStore(objects)
  BY SeedAssumption DEF Init
<1>2. call \in [Client -> CallType]
  BY QuietType DEF Init
<1> QED
  BY <1>1, <1>2, BoundAssumption DEF Init, TypeOK

LEMMA BecomeType ==
    ASSUME TypeOK, NEW c \in Client, NEW l \in CallType, Become(c, l)
    PROVE  call' \in [Client -> CallType]
  BY DEF TypeOK, Become

LEMMA AnswerType ==
    ASSUME TypeOK, NEW c \in Client, NEW s \in Status, Answer(c, s)
    PROVE  call' \in [Client -> CallType]
<1>1. [Quiet EXCEPT !.reply = s] \in CallType
  BY QuietType DEF CallType
<1> QED
  BY <1>1, BecomeType DEF Answer

LEMMA GotoType ==
    ASSUME TypeOK, NEW c \in Client, NEW pc \in PC, Goto(c, pc)
    PROVE  call' \in [Client -> CallType]
<1>1. [call[c] EXCEPT !.pc = pc] \in CallType
  BY ZenonT(60) DEF TypeOK, CallType
<1> QED
  BY <1>1, BecomeType DEF Goto

\* Every key a goroutine works on is a key.
LEMMA CallKeys ==
    ASSUME TypeOK, NEW c \in Client
    PROVE  /\ call[c] \in CallType
           /\ KeyFor(call[c].at) \in Key
           /\ KeyFor(call[c].req.path) \in Key
           /\ KeyFor(call[c].req.dst) \in Key
           /\ DirKeyFor(call[c].req.path) \in Key
           /\ OldDir(call[c].req) \in Key
           /\ NewDir(call[c].req) \in Key
<1>1. call[c] \in CallType
  BY DEF TypeOK
<1>2. call[c].at \in Path /\ call[c].req.path \in Path /\ call[c].req.dst \in Path
  BY <1>1 DEF CallType, RequestType
<1> QED
  BY <1>1, <1>2, KeyForType, DirKeyForType, AddSlashKey DEF OldDir, NewDir

LEMMA NewKeyType ==
    ASSUME TypeOK, NEW c \in Client, NEW k \in Key
    PROVE  NewKey(call[c].req, k) \in Key
<1>1. KeyFor(call[c].req.dst) \in Key /\ OldDir(call[c].req) \in Key
      /\ NewDir(call[c].req) \in Key
  BY CallKeys
<1>2. Len(NewDir(call[c].req)) > 1
  BY <1>1, AddSlashKey, KeyParts DEF NewDir
<1> QED
  BY <1>1, <1>2, RebaseType DEF NewKey

\* A page is made of keys, and so is the paginator's position.
LEMMA PageType ==
    ASSUME TypeOK, NEW c \in Client, NEW d,
           NEW last \in Rest(d, call[c].cursor) \cup {call[c].cursor}
    PROVE  /\ Page(d, call[c].cursor, last) \in SUBSET (Key \ {<<Empty>>})
           /\ last \in Seq(Name \cup {Empty})
<1>1. Rest(d, call[c].cursor) \subseteq Key \ {<<Empty>>}
  BY DEF Rest, Listed, TypeOK, IsStore
<1>2. call[c].cursor \in Seq(Name \cup {Empty})
  BY CallKeys DEF CallType
<1> QED
  BY <1>1, <1>2 DEF Page, Key

LEMMA WriteType ==
    ASSUME IsStore(objects), NEW k \in Key, k # <<Empty>>, NEW v \in Nat,
           Write(k, v)
    PROVE  IsStore(objects')
<1>1. IsFiniteSet(DOMAIN objects \cup {k})
  BY FS_AddElement DEF IsStore
<1> QED
  BY <1>1 DEF IsStore, Write

LEMMA EraseType ==
    ASSUME IsStore(objects), NEW K, Erase(K)
    PROVE  IsStore(objects')
<1>1. IsFiniteSet(DOMAIN objects \ K)
  BY FS_Subset DEF IsStore
<1> QED
  BY <1>1 DEF IsStore, Erase

LEMMA SameType ==
    ASSUME IsStore(objects), UNCHANGED objects
    PROVE  IsStore(objects')
  BY DEF IsStore

LEMMA WorksType ==
    ASSUME TypeOK, Works \/ Breaks \/ UNCHANGED faults
    PROVE  faults' \in 0..MaxFaults
  BY BoundAssumption DEF TypeOK, Works, Breaks

LEMMA PutType ==
    ASSUME TypeOK, NEW k \in Key, NEW v \in Nat, PutOk(k, v) \/ PutErr(k, v)
    PROVE  IsStore(objects') /\ faults' \in 0..MaxFaults
<1>1. /\ IsStore(objects) /\ (Works \/ Breaks)
      /\ UNCHANGED objects \/ (k # <<Empty>> /\ Write(k, v))
  BY DEF TypeOK, PutOk, PutErr, Storable
<1> QED
  BY <1>1, WriteType, SameType, WorksType

LEMMA CopyType ==
    ASSUME TypeOK, NEW k \in Key, NEW j,
           CopyOk(j, k) \/ CopyMissing(j) \/ CopyErr(j, k)
    PROVE  IsStore(objects') /\ faults' \in 0..MaxFaults
<1>1. CASE CopyMissing(j)
  BY <1>1, SameType, WorksType DEF CopyMissing, TypeOK
<1>2. CASE CopyOk(j, k) \/ CopyErr(j, k)
  <2>1. objects[j] \in Nat
    BY <1>2 DEF CopyOk, CopyErr, TypeOK, IsStore
  <2> QED
    BY <1>2, <2>1, PutType DEF CopyOk, CopyErr
<1> QED
  BY <1>1, <1>2

LEMMA ReadType ==
    ASSUME TypeOK, NEW k,
           HeadOk(k) \/ HeadErr(k) \/ AnyOk(k) \/ AnyErr(k)
    PROVE  IsStore(objects') /\ faults' \in 0..MaxFaults
<1>1. UNCHANGED objects /\ (Works \/ Breaks)
  BY DEF HeadOk, HeadErr, AnyOk, AnyErr
<1> QED
  BY <1>1, SameType, WorksType DEF TypeOK

----------------------------------------------------------------------------
\* What the handler does with an answer keeps the types.

LEMMA StattedType ==
    ASSUME TypeOK, NEW c \in Client, NEW kind, Statted(c, kind)
    PROVE  call' \in [Client -> CallType]
<1>1. CASE DeleteStatted(c, kind)
  BY <1>1, AnswerType, GotoType DEF DeleteStatted, Status, PC
<1>2. CASE MoveStatted(c, kind)
  <2>1. [call[c] EXCEPT !.pc = "MvFile", !.created = TRUE] \in CallType
    BY CallKeys, ZenonT(60) DEF CallType, PC
  <2> QED
    BY <1>2, <2>1, AnswerType, GotoType, BecomeType DEF MoveStatted, Status, PC
<1>3. CASE MkdirStatted(c, kind)
  <2> DEFINE p == call[c].req.path
  <2>1. CASE Answer(c, 405) \/ Answer(c, 409) \/ Goto(c, "PutMarker")
    BY <2>1, AnswerType, GotoType DEF Status, PC
  <2>2. CASE /\ Become(c, [call[c] EXCEPT !.pc = "StatFile",
                                          !.at = ParentDir(p)])
    <3>1. [call[c] EXCEPT !.pc = "StatFile", !.at = ParentDir(p)] \in CallType
      <4>1. ParentDir(p) \in Path
        BY CallKeys, ParentDirType DEF CallType, RequestType
      <4> QED
        BY <4>1, CallKeys, ZenonT(60) DEF CallType, PC
    <3> QED
      BY <2>2, <3>1, BecomeType
  <2> QED
    BY <1>3, <2>1, <2>2 DEF MkdirStatted
<1> QED
  BY <1>1, <1>2, <1>3 DEF Statted

LEMMA RemovedType ==
    ASSUME TypeOK, NEW c \in Client, NEW err, Removed(c, err)
    PROVE  call' \in [Client -> CallType]
<1>1. [call[c] EXCEPT !.pc = "MvFile", !.errFile = FALSE, !.cursor = <<>>,
                      !.more = FALSE, !.todo = {}, !.del = {}] \in CallType
  BY CallKeys, EmptySeq, ZenonT(60) DEF CallType, PC
<1> QED
  BY <1>1, AnswerType, BecomeType DEF Removed, Status

LEMMA RenamedType ==
    ASSUME TypeOK, NEW c \in Client, NEW err, Renamed(c, err)
    PROVE  call' \in [Client -> CallType]
  BY AnswerType DEF Renamed, Status

----------------------------------------------------------------------------
LEMMA BeginType ==
    ASSUME TypeOK, NEW c \in Client, NEW s \in Server, NEW r \in Request,
           Begin(c, s, r)
    PROVE  TypeOK'
<1> DEFINE l == [Quiet EXCEPT
                   !.pc = IF r.op = "MOVE" THEN "LockDst" ELSE Entry(r),
                   !.req = r, !.server = s, !.at = Target(r),
                   !.body = IF r.op = "PUT" THEN sent + 1 ELSE 0]
<1>1. sent \in Nat /\ sent' \in 0..MaxRequests
  BY BoundAssumption DEF TypeOK, Begin
<1>2. r \in RequestType
  BY RequestAssumption
<1>3. l \in CallType
  <2>1. Target(r) \in Path
    BY <1>2 DEF Target, RequestType
  <2>2. (IF r.op = "MOVE" THEN "LockDst" ELSE Entry(r)) \in PC
    BY DEF Entry, PC
  <2>3. (IF r.op = "PUT" THEN sent + 1 ELSE 0) \in Nat
    BY <1>1
  <2> HIDE DEF PC
  <2> QED
    BY <1>2, <2>1, <2>2, <2>3, QuietType DEF CallType
<1>4. call' \in [Client -> CallType]
  <2>1. Answer(c, 423) \/ Become(c, l)
    BY DEF Begin
  <2> QED
    BY <1>3, <2>1, AnswerType, BecomeType DEF Status
<1> QED
  BY <1>1, <1>4, SameType DEF TypeOK, Begin

LEMMA CrashType ==
    ASSUME TypeOK, NEW s, Crash(s)
    PROVE  TypeOK'
<1>1. call' \in [Client -> CallType]
  BY QuietType DEF TypeOK, Crash
<1>2. crashes' \in 0..MaxCrashes
  BY BoundAssumption DEF TypeOK, Crash
<1> QED
  BY <1>1, <1>2, SameType DEF TypeOK, Crash

\* The three facts that make a step of a goroutine keep TypeOK.
LEMMA ServingType ==
    ASSUME TypeOK, Serving, IsStore(objects'), faults' \in 0..MaxFaults,
           call' \in [Client -> CallType]
    PROVE  TypeOK'
  BY DEF TypeOK, Serving

LEMMA SharedStepType ==
    ASSUME TypeOK, NEW c \in Client, SharedStep(c)
    PROVE  TypeOK'
<1>1. CASE LockDst(c)
  <2>1. call' \in [Client -> CallType]
    BY <1>1, AnswerType, GotoType DEF LockDst, Entry, Status, PC
  <2> QED
    BY <1>1, <2>1, SameType, ServingType, WorksType DEF LockDst, TypeOK
<1>2. CASE StatFile(c)
  <2>1. call' \in [Client -> CallType]
    BY <1>2, StattedType, GotoType DEF StatFile, PC
  <2>2. IsStore(objects') /\ faults' \in 0..MaxFaults
    BY <1>2, ReadType, SameType, WorksType DEF StatFile, TypeOK
  <2> QED
    BY <1>2, <2>1, <2>2, ServingType DEF StatFile
<1>3. CASE StatMarker(c)
  <2>1. call' \in [Client -> CallType]
    BY <1>3, StattedType, GotoType DEF StatMarker, PC
  <2>2. IsStore(objects') /\ faults' \in 0..MaxFaults
    BY <1>3, ReadType DEF StatMarker
  <2> QED
    BY <1>3, <2>1, <2>2, ServingType DEF StatMarker
<1>4. CASE StatList(c)
  <2>1. call' \in [Client -> CallType]
    BY <1>4, StattedType DEF StatList
  <2>2. IsStore(objects') /\ faults' \in 0..MaxFaults
    BY <1>4, ReadType DEF StatList
  <2> QED
    BY <1>4, <2>1, <2>2, ServingType DEF StatList
<1>5. CASE PutMarker(c)
  <2>1. call' \in [Client -> CallType]
    BY <1>5, AnswerType DEF PutMarker, Status
  <2>2. IsStore(objects') /\ faults' \in 0..MaxFaults
    BY <1>5, CallKeys, PutType DEF PutMarker, Marker
  <2> QED
    BY <1>5, <2>1, <2>2, ServingType DEF PutMarker
<1>6. CASE OpenMarker(c)
  <2>1. call' \in [Client -> CallType]
    BY <1>6, AnswerType, GotoType DEF OpenMarker, Status, PC
  <2>2. IsStore(objects') /\ faults' \in 0..MaxFaults
    BY <1>6, ReadType, SameType, WorksType DEF OpenMarker, TypeOK
  <2> QED
    BY <1>6, <2>1, <2>2, ServingType DEF OpenMarker
<1>7. CASE OpenList(c)
  <2>1. call' \in [Client -> CallType]
    BY <1>7, AnswerType, GotoType DEF OpenList, Status, PC
  <2>2. IsStore(objects') /\ faults' \in 0..MaxFaults
    BY <1>7, ReadType DEF OpenList
  <2> QED
    BY <1>7, <2>1, <2>2, ServingType DEF OpenList
<1>8. CASE Upload(c)
  <2>1. call' \in [Client -> CallType]
    BY <1>8, AnswerType DEF Upload, Status
  <2>2. IsStore(objects') /\ faults' \in 0..MaxFaults
    BY <1>8, CallKeys, PutType DEF Upload, CallType
  <2> QED
    BY <1>8, <2>1, <2>2, ServingType DEF Upload
<1> QED
  BY <1>1, <1>2, <1>3, <1>4, <1>5, <1>6, <1>7, <1>8 DEF SharedStep

----------------------------------------------------------------------------
\* What a goroutine's record says, wherever it stands.

Stating == {"StatFile", "StatMarker", "StatList"}

Opening == {"OpenMarker", "OpenList", "Upload"}

Removing == {"RmFile", "RmList", "RmBatch", "RmKey"}

Renaming == {"MvFile", "MvFileDelete", "MvList", "MvCopy", "MvBatch", "MvDelete"}

Listing == {"RmList", "RmBatch", "RmKey", "MvList", "MvCopy", "MvBatch", "MvDelete"}

\* The method that is running, and the path it works on.
MethodInv(l) ==
    /\ l.pc # "idle" => l.req \in Request
    /\ l.pc \in Opening => l.req.op = "PUT"
    /\ l.pc \in {"OpenList", "Upload"} => l.req.path # <<>>
    /\ l.pc = "PutMarker" => l.req.op = "MKCOL"
    /\ l.pc \in Stating => l.req.op # "PUT"
    /\ l.pc \in Removing => l.req.op \in {"DELETE", "MOVE"}
    /\ l.pc \in Renaming \cup {"LockDst"} => l.req.op = "MOVE"
    /\ l.pc # "idle" /\ l.req.op \in {"DELETE", "MOVE"} => l.at = Target(l.req)

\* What it has listed lies below the folder it removes or moves.
ListInv(l) ==
    /\ l.pc \notin Listing => l.todo = {} /\ l.del = {}
    /\ l.pc \in Removing =>
          \A k \in l.todo \cup l.del : Under(k, WithSlash(KeyFor(l.at)))
    /\ l.pc \in Renaming =>
          \A k \in l.todo \cup l.del : Under(k, OldDir(l.req))

CallInv(l) == MethodInv(l) /\ ListInv(l)

\* A step of c's goroutine touches no other goroutine; it ends the request or
\* goes on with it, past its locks.
Goes(c) ==
    /\ Active(c)
    /\ \A d \in Client \ {c} : call'[d] = call[d]
    /\ \/ call'[c].pc = "idle"
       \/ /\ call[c].pc # "LockDst"
          /\ call'[c].pc \notin {"idle", "LockDst"}
          /\ call'[c].req = call[c].req
          /\ call'[c].server = call[c].server

LEMMA QuietInv == CallInv(Quiet)
  BY DEF CallInv, MethodInv, ListInv, Quiet, Opening, Stating, Removing,
         Renaming, Listing

LEMMA BecomeEffect ==
    ASSUME TypeOK, NEW c \in Client, NEW l, Become(c, l)
    PROVE  call'[c] = l /\ \A d \in Client \ {c} : call'[d] = call[d]
  BY DEF TypeOK, Become

\* An answered request leaves no trace in the record.
LEMMA AnswerGoes ==
    ASSUME TypeOK, NEW c \in Client, Active(c), NEW s, Answer(c, s)
    PROVE  Goes(c) /\ CallInv(call'[c])
<1>1. call'[c] = [Quiet EXCEPT !.reply = s]
      /\ \A d \in Client \ {c} : call'[d] = call[d]
  BY BecomeEffect DEF Answer
<1>2. call'[c].pc = "idle" /\ call'[c].todo = {} /\ call'[c].del = {}
  BY <1>1 DEF Quiet
<1>3. CallInv(call'[c])
  BY <1>2 DEF CallInv, MethodInv, ListInv, Opening, Stating, Removing,
              Renaming, Listing
<1> QED
  BY <1>1, <1>2, <1>3 DEF Goes

LEMMA GotoEffect ==
    ASSUME TypeOK, NEW c \in Client, NEW pc, Goto(c, pc)
    PROVE  /\ call'[c] = [call[c] EXCEPT !.pc = pc]
           /\ call'[c].pc = pc
           /\ \A d \in Client \ {c} : call'[d] = call[d]
<1>1. call[c] \in CallType
  BY DEF TypeOK
<1>2. call'[c] = [call[c] EXCEPT !.pc = pc]
      /\ \A d \in Client \ {c} : call'[d] = call[d]
  BY BecomeEffect DEF Goto
<1> QED
  BY <1>1, <1>2 DEF CallType

\* Going on to a call that lists nothing yet.
LEMMA GotoGoes ==
    ASSUME TypeOK, NEW c \in Client, Active(c), CallInv(call[c]),
           NEW pc \in PC \ {"idle", "LockDst"}, Goto(c, pc),
           call[c].pc \notin Listing \cup {"LockDst"},
           MethodInv([call[c] EXCEPT !.pc = pc])
    PROVE  Goes(c) /\ CallInv(call'[c])
<1>1. call[c] \in CallType
  BY DEF TypeOK
<1>2. /\ call'[c] = [call[c] EXCEPT !.pc = pc] /\ call'[c].pc = pc
      /\ \A d \in Client \ {c} : call'[d] = call[d]
  BY GotoEffect
<1>3. call'[c].req = call[c].req /\ call'[c].server = call[c].server
      /\ call'[c].todo = {} /\ call'[c].del = {}
  BY <1>1, <1>2 DEF CallType, CallInv, ListInv
<1> QED
  BY <1>2, <1>3 DEF Goes, CallInv, ListInv

LEMMA StattedGoes ==
    ASSUME TypeOK, NEW c \in Client, CallInv(call[c]),
           call[c].pc \in Stating, NEW kind, Statted(c, kind)
    PROVE  Goes(c) /\ CallInv(call'[c])
<1> DEFINE l == call[c]
<1>1. /\ l \in CallType /\ Active(c) /\ MethodInv(l) /\ ListInv(l)
      /\ l.pc \notin Listing \cup {"LockDst"} /\ l.todo = {} /\ l.del = {}
  BY DEF TypeOK, Active, CallInv, ListInv, Stating, Listing
<1>2. CASE DeleteStatted(c, kind)
  <2>1. CASE Answer(c, 404)
    BY <1>1, <2>1, AnswerGoes
  <2>2. CASE Goto(c, "RmFile")
    <3>1. MethodInv([l EXCEPT !.pc = "RmFile"])
      BY <1>1, <1>2 DEF DeleteStatted, CallType, MethodInv, Opening, Stating,
                        Removing, Renaming
    <3> QED
      BY <1>1, <2>2, <3>1, GotoGoes DEF PC
  <2> QED
    BY <1>2, <2>1, <2>2 DEF DeleteStatted
<1>3. CASE MoveStatted(c, kind)
  <2>1. CASE Answer(c, 412)
    BY <1>1, <2>1, AnswerGoes
  <2>2. CASE Goto(c, "RmFile")
    <3>1. MethodInv([l EXCEPT !.pc = "RmFile"])
      BY <1>1, <1>3 DEF MoveStatted, CallType, MethodInv, Opening, Stating,
                        Removing, Renaming
    <3> QED
      BY <1>1, <2>2, <3>1, GotoGoes DEF PC
  <2>3. CASE Become(c, [l EXCEPT !.pc = "MvFile", !.created = TRUE])
    <3>1. /\ call'[c] = [l EXCEPT !.pc = "MvFile", !.created = TRUE]
          /\ \A d \in Client \ {c} : call'[d] = call[d]
      BY <2>3, BecomeEffect
    <3>2. /\ call'[c].pc = "MvFile" /\ call'[c].req = l.req
          /\ call'[c].server = l.server /\ call'[c].at = l.at
          /\ call'[c].todo = {} /\ call'[c].del = {}
      BY <1>1, <3>1 DEF CallType
    <3>3. CallInv(call'[c])
      BY <1>1, <1>3, <3>2 DEF MoveStatted, CallInv, MethodInv, ListInv, Opening,
                              Stating, Removing, Renaming, Listing
    <3> QED
      BY <1>1, <3>1, <3>2, <3>3 DEF Goes
  <2> QED
    BY <1>3, <2>1, <2>2, <2>3 DEF MoveStatted
<1>4. CASE MkdirStatted(c, kind)
  <2>1. CASE Answer(c, 405) \/ Answer(c, 409)
    BY <1>1, <2>1, AnswerGoes
  <2>2. CASE Goto(c, "PutMarker")
    <3>1. MethodInv([l EXCEPT !.pc = "PutMarker"])
      BY <1>1, <1>4 DEF MkdirStatted, CallType, MethodInv, Opening, Stating,
                        Removing, Renaming
    <3> QED
      BY <1>1, <2>2, <3>1, GotoGoes DEF PC
  <2>3. CASE Become(c, [l EXCEPT !.pc = "StatFile", !.at = ParentDir(l.req.path)])
    <3>1. /\ call'[c] = [l EXCEPT !.pc = "StatFile", !.at = ParentDir(l.req.path)]
          /\ \A d \in Client \ {c} : call'[d] = call[d]
      BY <2>3, BecomeEffect
    <3>2. /\ call'[c].pc = "StatFile" /\ call'[c].req = l.req
          /\ call'[c].server = l.server
          /\ call'[c].todo = {} /\ call'[c].del = {}
      BY <1>1, <3>1 DEF CallType
    <3>3. CallInv(call'[c])
      BY <1>1, <1>4, <3>2 DEF MkdirStatted, CallInv, MethodInv, ListInv, Opening,
                              Stating, Removing, Renaming, Listing
    <3> QED
      BY <1>1, <3>1, <3>2, <3>3 DEF Goes
  <2> QED
    BY <1>4, <2>1, <2>2, <2>3 DEF MkdirStatted
<1> QED
  BY <1>2, <1>3, <1>4 DEF Statted

LEMMA RemovedGoes ==
    ASSUME TypeOK, NEW c \in Client, CallInv(call[c]),
           call[c].pc \in Removing, NEW err, Removed(c, err)
    PROVE  Goes(c) /\ CallInv(call'[c])
<1> DEFINE l == call[c]
<1>1. l \in CallType /\ Active(c) /\ MethodInv(l) /\ l.pc # "LockDst"
  BY DEF TypeOK, Active, CallInv, Removing
<1>2. CASE Answer(c, 403) \/ Answer(c, 405) \/ Answer(c, 204)
  BY <1>1, <1>2, AnswerGoes
<1>3. CASE /\ l.req.op = "MOVE"
           /\ Become(c, [l EXCEPT !.pc = "MvFile", !.errFile = FALSE,
                  !.cursor = <<>>, !.more = FALSE, !.todo = {}, !.del = {}])
  <2>1. /\ call'[c] = [l EXCEPT !.pc = "MvFile", !.errFile = FALSE,
                  !.cursor = <<>>, !.more = FALSE, !.todo = {}, !.del = {}]
        /\ \A d \in Client \ {c} : call'[d] = call[d]
    BY <1>3, BecomeEffect
  <2>2. /\ call'[c].pc = "MvFile" /\ call'[c].req = l.req
        /\ call'[c].server = l.server /\ call'[c].at = l.at
        /\ call'[c].todo = {} /\ call'[c].del = {}
    BY <1>1, <2>1 DEF CallType
  <2>3. CallInv(call'[c])
    BY <1>1, <1>3, <2>2 DEF CallInv, MethodInv, ListInv, Opening,
                            Stating, Removing, Renaming, Listing
  <2> QED
    BY <1>1, <2>1, <2>2, <2>3 DEF Goes
<1> QED
  BY <1>2, <1>3 DEF Removed

LEMMA RenamedGoes ==
    ASSUME TypeOK, NEW c \in Client, Active(c), NEW err, Renamed(c, err)
    PROVE  Goes(c) /\ CallInv(call'[c])
  BY AnswerGoes DEF Renamed

\* The shared steps behind the locks.
LEMMA SharedStepGoes ==
    ASSUME TypeOK, NEW c \in Client, CallInv(call[c]), SharedStep(c),
           ~LockDst(c)
    PROVE  Goes(c) /\ CallInv(call'[c])
<1> DEFINE l == call[c]
<1>1. l \in CallType /\ MethodInv(l)
  BY DEF TypeOK, CallInv
<1>2. ASSUME l.pc \in Stating, NEW pc \in Stating, Goto(c, pc)
      PROVE  Goes(c) /\ CallInv(call'[c])
  <2>1. MethodInv([l EXCEPT !.pc = pc])
    BY <1>1, <1>2 DEF CallType, MethodInv, Opening, Stating, Removing, Renaming
  <2>2. Active(c) /\ l.pc \notin Listing \cup {"LockDst"} /\ pc \in PC \ {"idle", "LockDst"}
    BY <1>2 DEF Active, Stating, Listing, PC
  <2> QED
    BY <1>2, <2>1, <2>2, GotoGoes
<1>3. CASE StatFile(c)
  BY <1>2, <1>3, StattedGoes DEF StatFile, At, Stating
<1>4. CASE StatMarker(c)
  BY <1>2, <1>4, StattedGoes DEF StatMarker, At, Stating
<1>5. CASE StatList(c)
  BY <1>5, StattedGoes DEF StatList, At, Stating
<1>6. CASE PutMarker(c)
  BY <1>6, AnswerGoes DEF PutMarker, At, Active
<1>7. CASE OpenMarker(c)
  <2>1. CASE Answer(c, 405)
    BY <1>7, <2>1, AnswerGoes DEF OpenMarker, At, Active
  <2>2. CASE KeyFor(l.req.path) # RootKey /\ Goto(c, "OpenList")
    <3>1. l.req.path # <<>>
      BY <2>2 DEF KeyFor
    <3>2. MethodInv([l EXCEPT !.pc = "OpenList"])
      BY <1>1, <1>7, <3>1 DEF OpenMarker, At, CallType, MethodInv, Opening,
                              Stating, Removing, Renaming
    <3>3. Active(c) /\ l.pc \notin Listing \cup {"LockDst"}
      BY <1>7 DEF OpenMarker, At, Active, Listing
    <3> QED
      BY <2>2, <3>2, <3>3, GotoGoes DEF PC
  <2> QED
    BY <1>7, <2>1, <2>2 DEF OpenMarker
<1>8. CASE OpenList(c)
  <2>1. CASE Answer(c, 405)
    BY <1>8, <2>1, AnswerGoes DEF OpenList, At, Active
  <2>2. CASE Goto(c, "Upload")
    <3>1. MethodInv([l EXCEPT !.pc = "Upload"])
      BY <1>1, <1>8 DEF OpenList, At, CallType, MethodInv, Opening,
                        Stating, Removing, Renaming
    <3>2. Active(c) /\ l.pc \notin Listing \cup {"LockDst"}
      BY <1>8 DEF OpenList, At, Active, Listing
    <3> QED
      BY <2>2, <3>1, <3>2, GotoGoes DEF PC
  <2> QED
    BY <1>8, <2>1, <2>2 DEF OpenList
<1>9. CASE Upload(c)
  BY <1>9, AnswerGoes DEF Upload, At, Active
<1> QED
  BY <1>3, <1>4, <1>5, <1>6, <1>7, <1>8, <1>9 DEF SharedStep

\* Begin and LockDst take a lock nobody of the same process holds.
LEMMA BeginEffect ==
    ASSUME TypeOK, NEW c \in Client, NEW s \in Server, NEW r \in Request,
           Begin(c, s, r)
    PROVE  /\ \A d \in Client \ {c} : call'[d] = call[d]
           /\ UNCHANGED objects
           /\ CallInv(call'[c])
           /\ \/ call'[c].pc = "idle"
              \/ /\ ~Locked(s, r.path)
                 /\ call'[c].server = s /\ call'[c].req = r
                 /\ call'[c].pc = "LockDst" <=> r.op = "MOVE"
<1> DEFINE l == [Quiet EXCEPT
                   !.pc = IF r.op = "MOVE" THEN "LockDst" ELSE Entry(r),
                   !.req = r, !.server = s, !.at = Target(r),
                   !.body = IF r.op = "PUT" THEN sent + 1 ELSE 0]
<1>1. CASE Answer(c, 423)
  <2>1. call'[c] = [Quiet EXCEPT !.reply = 423]
        /\ \A d \in Client \ {c} : call'[d] = call[d]
    BY <1>1, BecomeEffect DEF Answer
  <2>2. call'[c].pc = "idle" /\ call'[c].todo = {} /\ call'[c].del = {}
    BY <2>1 DEF Quiet
  <2> QED
    BY <2>1, <2>2 DEF Begin, CallInv, MethodInv, ListInv, Opening, Stating,
                      Removing, Renaming, Listing
<1>2. CASE ~Locked(s, r.path) /\ Become(c, l)
  <2>1. call'[c] = l /\ \A d \in Client \ {c} : call'[d] = call[d]
    BY <1>2, BecomeEffect
  <2>2. /\ l.pc = (IF r.op = "MOVE" THEN "LockDst" ELSE Entry(r))
        /\ l.req = r /\ l.server = s /\ l.at = Target(r)
        /\ l.todo = {} /\ l.del = {}
    BY DEF Quiet
  <2>3. r.op \in {"PUT", "DELETE", "MKCOL", "MOVE"}
    BY RequestAssumption DEF RequestType
  <2> HIDE DEF l
  <2>4. CASE r.op = "MOVE"
    BY <1>2, <2>1, <2>2, <2>4 DEF Begin, CallInv, MethodInv, ListInv, Opening,
         Stating, Removing, Renaming, Listing
  <2>5. CASE r.op = "PUT"
    BY <1>2, <2>1, <2>2, <2>5 DEF Begin, CallInv, MethodInv, ListInv, Opening,
         Stating, Removing, Renaming, Listing, Entry
  <2>6. CASE r.op \in {"DELETE", "MKCOL"}
    BY <1>2, <2>1, <2>2, <2>6 DEF Begin, CallInv, MethodInv, ListInv, Opening,
         Stating, Removing, Renaming, Listing, Entry
  <2> QED
    BY <2>3, <2>4, <2>5, <2>6
<1> QED
  BY <1>1, <1>2 DEF Begin

LEMMA LockDstEffect ==
    ASSUME TypeOK, NEW c \in Client, CallInv(call[c]), LockDst(c)
    PROVE  /\ \A d \in Client \ {c} : call'[d] = call[d]
           /\ UNCHANGED objects
           /\ CallInv(call'[c])
           /\ call[c].req.op = "MOVE" /\ Active(c)
           /\ \/ call'[c].pc = "idle"
              \/ /\ ~Locked(call[c].server, call[c].req.dst)
                 /\ call'[c].pc = "StatFile"
                 /\ call'[c].server = call[c].server
                 /\ call'[c].req = call[c].req
<1> DEFINE l == call[c]
<1>1. /\ l \in CallType /\ MethodInv(l) /\ l.pc = "LockDst"
      /\ Active(c) /\ l.req.op = "MOVE" /\ l.todo = {} /\ l.del = {}
  BY DEF TypeOK, CallInv, ListInv, MethodInv, LockDst, At, Active, Renaming, Listing
<1>2. CASE Answer(c, 423)
  <2>1. Goes(c) /\ CallInv(call'[c])
    BY <1>1, <1>2, AnswerGoes
  <2>2. call'[c] = [Quiet EXCEPT !.reply = 423]
    BY <1>2, BecomeEffect DEF Answer
  <2>3. call'[c].pc = "idle"
    BY <2>2 DEF Quiet
  <2> QED
    BY <1>1, <2>1, <2>3 DEF Goes, LockDst
<1>3. CASE ~Locked(l.server, l.req.dst) /\ Goto(c, Entry(l.req))
  <2>1. Entry(l.req) = "StatFile"
    BY <1>1 DEF Entry
  <2>2. /\ call'[c] = [l EXCEPT !.pc = "StatFile"] /\ call'[c].pc = "StatFile"
        /\ \A d \in Client \ {c} : call'[d] = call[d]
    BY <1>3, <2>1, GotoEffect
  <2>3. /\ call'[c].req = l.req /\ call'[c].server = l.server
        /\ call'[c].at = l.at /\ call'[c].todo = {} /\ call'[c].del = {}
    BY <1>1, <2>2 DEF CallType
  <2>4. CallInv(call'[c])
    BY <1>1, <2>2, <2>3 DEF CallInv, MethodInv, ListInv, Opening, Stating,
                            Removing, Renaming, Listing
  <2> QED
    BY <1>1, <1>3, <2>2, <2>3, <2>4 DEF LockDst
<1> QED
  BY <1>2, <1>3 DEF LockDst

----------------------------------------------------------------------------
\* Locks.  Held(c) is what LockExclusion says and, besides, the source a MOVE
\* holds while it waits for its destination.

LockInv ==
    \A c, d \in Client :
        c # d /\ call[c].server = call[d].server => Held(c) \cap Held(d) = {}

LEMMA LockInvExcludes ==
    ASSUME LockInv
    PROVE  LockExclusion
<1>1. \A c \in Client : Active(c) /\ ~At(c, "LockDst") =>
        Held(c) = PathsOf(call[c].req)
  BY DEF Held, PathsOf
<1> QED
  BY <1>1 DEF LockInv, LockExclusion

\* A goroutine that goes on holds no more than before.
LEMMA GoesHeld ==
    ASSUME NEW c \in Client, Goes(c)
    PROVE  /\ \A d \in Client \ {c} :
                 Held(d)' = Held(d) /\ call'[d].server = call[d].server
           /\ Held(c)' \subseteq Held(c)
           /\ Held(c)' # {} => call'[c].server = call[c].server
  BY DEF Goes, Held, Active, At

LEMMA GoesLockInv ==
    ASSUME LockInv, NEW c \in Client, Goes(c)
    PROVE  LockInv'
<1> SUFFICES ASSUME NEW a \in Client, NEW b \in Client, a # b,
                    call'[a].server = call'[b].server
             PROVE  Held(a)' \cap Held(b)' = {}
  BY DEF LockInv
<1>1. CASE Held(a)' = {} \/ Held(b)' = {}
  BY <1>1
<1>2. CASE Held(a)' # {} /\ Held(b)' # {}
  <2>1. /\ Held(a)' \subseteq Held(a) /\ call'[a].server = call[a].server
        /\ Held(b)' \subseteq Held(b) /\ call'[b].server = call[b].server
    BY <1>2, GoesHeld
  <2> QED
    BY <2>1 DEF LockInv
<1> QED
  BY <1>1, <1>2

\* c takes one lock that nobody of its process holds, or none.
LEMMA GrabLockInv ==
    ASSUME LockInv, NEW c \in Client, NEW p,
           \A d \in Client \ {c} : call'[d] = call[d],
           Held(c)' # {} => /\ ~Locked(call'[c].server, p)
                            /\ Held(c)' \subseteq Held(c) \cup {p}
                            /\ Held(c) # {} => call'[c].server = call[c].server
    PROVE  LockInv'
<1>1. \A d \in Client \ {c} : Held(d)' = Held(d)
  BY DEF Held, Active, At
<1>2. ASSUME NEW d \in Client \ {c}, call'[c].server = call'[d].server
      PROVE  Held(c)' \cap Held(d)' = {}
  <2>1. CASE Held(c)' = {}
    BY <2>1
  <2>2. CASE Held(c)' # {}
    <3>1. p \notin Held(d)
      BY <1>2, <2>2 DEF Locked
    <3>2. Held(c) \cap Held(d) = {}
      BY <1>2, <2>2 DEF LockInv
    <3> QED
      BY <1>1, <2>2, <3>1, <3>2
  <2> QED
    BY <2>1, <2>2
<1>3. ASSUME NEW a \in Client \ {c}, NEW b \in Client \ {c}, a # b,
             call'[a].server = call'[b].server
      PROVE  Held(a)' \cap Held(b)' = {}
  BY <1>1, <1>3 DEF LockInv
<1> QED
  BY <1>2, <1>3 DEF LockInv

LEMMA BeginLockInv ==
    ASSUME TypeOK, LockInv, NEW c \in Client, NEW s \in Server,
           NEW r \in Request, Begin(c, s, r)
    PROVE  LockInv'
<1>1. /\ \A d \in Client \ {c} : call'[d] = call[d]
      /\ \/ call'[c].pc = "idle"
         \/ /\ ~Locked(s, r.path)
            /\ call'[c].server = s /\ call'[c].req = r
            /\ call'[c].pc = "LockDst" <=> r.op = "MOVE"
  BY BeginEffect
<1>2. Held(c) = {}
  BY DEF Begin, Held
<1>3. Held(c)' # {} => ~Locked(call'[c].server, r.path) /\ Held(c)' \subseteq {r.path}
  BY <1>1 DEF Held, Active, At
<1> QED
  BY <1>1, <1>2, <1>3, GrabLockInv

LEMMA LockDstLockInv ==
    ASSUME TypeOK, LockInv, NEW c \in Client, CallInv(call[c]), LockDst(c)
    PROVE  LockInv'
<1> DEFINE r == call[c].req
<1>1. /\ \A d \in Client \ {c} : call'[d] = call[d]
      /\ r.op = "MOVE" /\ Active(c)
      /\ \/ call'[c].pc = "idle"
         \/ /\ ~Locked(call[c].server, r.dst)
            /\ call'[c].pc = "StatFile"
            /\ call'[c].server = call[c].server
            /\ call'[c].req = r
  BY LockDstEffect
<1>2. Held(c) = {r.path}
  BY <1>1 DEF Held, LockDst
<1>3. Held(c)' # {} => /\ ~Locked(call'[c].server, r.dst)
                       /\ Held(c)' \subseteq {r.path, r.dst}
                       /\ call'[c].server = call[c].server
  BY <1>1 DEF Held, Active, At
<1> QED
  BY <1>1, <1>2, <1>3, GrabLockInv

LEMMA CrashEffect ==
    ASSUME TypeOK, NEW s, Crash(s)
    PROVE  /\ UNCHANGED objects
           /\ \A c \in Client : call'[c] = Quiet \/ call'[c] = call[c]
  BY DEF Crash

LEMMA CrashLockInv ==
    ASSUME TypeOK, LockInv, NEW s, Crash(s)
    PROVE  LockInv'
<1>1. \A c \in Client : Held(c)' = {} \/ call'[c] = call[c]
  BY CrashEffect DEF Held, Active, Quiet
<1>2. \A c \in Client : call'[c] = call[c] => Held(c)' = Held(c)
  BY DEF Held, Active, At
<1> QED
  BY <1>1, <1>2 DEF LockInv

LEMMA InitInv ==
    ASSUME Init
    PROVE  LockInv /\ \A c \in Client : CallInv(call[c])
<1>1. \A c \in Client : Held(c) = {}
  BY DEF Init, Held, Active, Quiet
<1> QED
  BY <1>1, QuietInv DEF LockInv, Init
----------------------------------------------------------------------------
\* What a step may do to the bucket.

\* The bucket differs after the step at keys of K only.
ChangesOnly(K) ==
    \A k \in (DOMAIN objects \cup DOMAIN objects') \ K :
        /\ k \in DOMAIN objects /\ k \in DOMAIN objects'
        /\ objects'[k] = objects[k]

\* The keys that start with the configured prefix.
InPrefix == {k \in Key : Under(k, RootKey)}

LEMMA SameChanges ==
    ASSUME NEW K, UNCHANGED objects
    PROVE  ChangesOnly(K)
  BY DEF ChangesOnly

LEMMA WriteChanges ==
    ASSUME NEW K, NEW k \in K, NEW v, Write(k, v)
    PROVE  ChangesOnly(K)
  BY DEF ChangesOnly, Write

LEMMA EraseChanges ==
    ASSUME NEW K, NEW J \in SUBSET K, Erase(J)
    PROVE  ChangesOnly(K)
  BY DEF ChangesOnly, Erase

LEMMA PutChanges ==
    ASSUME NEW K, NEW k \in K, NEW v, PutOk(k, v) \/ PutErr(k, v)
    PROVE  ChangesOnly(K)
  BY SameChanges, WriteChanges DEF PutOk, PutErr

LEMMA CopyChanges ==
    ASSUME NEW K, NEW k \in K, NEW j,
           CopyOk(j, k) \/ CopyMissing(j) \/ CopyErr(j, k)
    PROVE  ChangesOnly(K)
  BY SameChanges, PutChanges DEF CopyOk, CopyMissing, CopyErr

LEMMA ReadChanges ==
    ASSUME NEW K, NEW k, HeadOk(k) \/ HeadErr(k) \/ AnyOk(k) \/ AnyErr(k)
    PROVE  ChangesOnly(K)
  BY SameChanges DEF HeadOk, HeadErr, AnyOk, AnyErr

\* The keys made from a request's paths are inside the prefix.
LEMMA CallInPrefix ==
    ASSUME TypeOK, NEW c \in Client
    PROVE  /\ KeyFor(call[c].at) \in InPrefix
           /\ KeyFor(call[c].req.path) \in InPrefix
           /\ KeyFor(call[c].req.dst) \in InPrefix
           /\ DirKeyFor(call[c].req.path) \in InPrefix
           /\ WithSlash(KeyFor(call[c].at)) \in InPrefix
           /\ OldDir(call[c].req) \in InPrefix
           /\ NewDir(call[c].req) \in InPrefix
<1>1. call[c] \in CallType
  BY DEF TypeOK
<1>2. call[c].at \in Path /\ call[c].req.path \in Path /\ call[c].req.dst \in Path
  BY <1>1 DEF CallType, RequestType
<1> QED
  BY <1>2, CallKeys, KeyForUnderRoot, DirKeyForUnderRoot, RootKeyKey,
     WithSlashType, WithSlashUnder, AddSlashUnder DEF InPrefix, OldDir, NewDir

\* What lies below a folder inside the prefix lies inside the prefix.
LEMMA BelowInPrefix ==
    ASSUME NEW d \in InPrefix, NEW k \in Key, Under(k, d)
    PROVE  k \in InPrefix
  BY UnderTransitive, RootKeyKey DEF InPrefix

LEMMA NewKeyInPrefix ==
    ASSUME TypeOK, NEW c \in Client, NEW k \in Key, Under(k, OldDir(call[c].req))
    PROVE  NewKey(call[c].req, k) \in InPrefix
<1>1. /\ OldDir(call[c].req) \in Key /\ NewDir(call[c].req) \in Key
      /\ NewDir(call[c].req) \in InPrefix
  BY CallKeys, CallInPrefix
<1>2. NewKey(call[c].req, k) \in Key
  BY CallKeys, NewKeyType
<1> QED
  BY <1>1, <1>2, RebaseUnder, BelowInPrefix DEF NewKey

LEMMA SharedStepChanges ==
    ASSUME TypeOK, NEW c \in Client, SharedStep(c)
    PROVE  ChangesOnly(InPrefix)
<1>1. CASE LockDst(c)
  BY <1>1, SameChanges DEF LockDst
<1>2. CASE StatFile(c) \/ StatMarker(c) \/ StatList(c)
  BY <1>2, SameChanges, ReadChanges DEF StatFile, StatMarker, StatList
<1>3. CASE PutMarker(c)
  BY <1>3, CallInPrefix, PutChanges DEF PutMarker
<1>4. CASE OpenMarker(c) \/ OpenList(c)
  BY <1>4, SameChanges, ReadChanges DEF OpenMarker, OpenList
<1>5. CASE Upload(c)
  BY <1>5, CallInPrefix, PutChanges DEF Upload
<1> QED
  BY <1>1, <1>2, <1>3, <1>4, <1>5 DEF SharedStep

LEMMA ChangesPrefixContained ==
    ASSUME ChangesOnly(InPrefix)
    PROVE  \A k \in DOMAIN objects \cup DOMAIN objects' :
             ~Under(k, RootKey) =>
                 /\ k \in DOMAIN objects /\ k \in DOMAIN objects'
                 /\ objects'[k] = objects[k]
  BY DEF ChangesOnly, InPrefix
----------------------------------------------------------------------------
\* What holds in every state: types, locks, and what the records say.

IInv ==
    /\ TypeOK
    /\ LockInv
    /\ \A c \in Client : CallInv(call[c])

LEMMA BeginIInv ==
    ASSUME IInv, NEW c \in Client, NEW s \in Server, NEW r \in Request,
           Begin(c, s, r)
    PROVE  IInv'
<1>1. TypeOK' /\ LockInv'
  BY BeginType, BeginLockInv DEF IInv
<1>2. \A d \in Client : CallInv(call'[d])
  BY BeginEffect DEF IInv
<1> QED
  BY <1>1, <1>2 DEF IInv, CallInv, MethodInv, ListInv

\* A step behind the locks that keeps the types and c's record in order.
LEMMA GoesIInv ==
    ASSUME IInv, TypeOK', NEW c \in Client, Goes(c), CallInv(call'[c])
    PROVE  IInv'
<1>1. LockInv'
  BY GoesLockInv DEF IInv
<1>2. \A d \in Client : CallInv(call'[d])
  BY DEF Goes, IInv
<1> QED
  BY <1>1, <1>2 DEF IInv, CallInv, MethodInv, ListInv

LEMMA LockDstIInv ==
    ASSUME IInv, NEW c \in Client, LockDst(c)
    PROVE  IInv'
<1>1. TypeOK' /\ LockInv'
  BY SharedStepType, LockDstLockInv DEF IInv, SharedStep
<1>2. \A d \in Client : CallInv(call'[d])
  BY LockDstEffect DEF IInv
<1> QED
  BY <1>1, <1>2 DEF IInv, CallInv, MethodInv, ListInv

LEMMA CrashIInv ==
    ASSUME IInv, NEW s \in Server, Crash(s)
    PROVE  IInv'
<1>1. TypeOK' /\ LockInv'
  BY CrashType, CrashLockInv DEF IInv
<1>2. \A d \in Client : CallInv(call'[d])
  BY CrashEffect, QuietInv DEF IInv
<1> QED
  BY <1>1, <1>2 DEF IInv, CallInv, MethodInv, ListInv

LEMMA StutterIInv ==
    ASSUME IInv, UNCHANGED vars
    PROVE  IInv'
<1>1. TypeOK'
  BY DEF IInv, vars, TypeOK, IsStore
<1>2. \A c \in Client : Held(c)' = Held(c) /\ call'[c] = call[c]
  BY DEF vars, Held, Active, At
<1>3. LockInv'
  BY <1>2 DEF IInv, LockInv
<1>4. \A c \in Client : CallInv(call[c])'
  BY <1>2 DEF IInv, CallInv, MethodInv, ListInv
<1> QED
  BY <1>1, <1>3, <1>4 DEF IInv
----------------------------------------------------------------------------
\* Losing nothing.  Assumptions and invariants that every backend shares.

\* What the bucket starts with below a name that ends in a slash is a marker.
SeedMarkers ==
    \A o \in Seed : \A k \in DOMAIN o : EndsInSlash(k) => o[k] = Marker

OneServer == \A s, t \in Server : s = t

\* A request is served by some process.
Served == \A c \in Client : Active(c) => call[c].server \in Server

\* A key that ends in a slash holds a marker.
Markers == \A k \in DOMAIN objects : EndsInSlash(k) => objects[k] = Marker

\* What is at k is at j as well.
Copied(k, j) ==
    k \in DOMAIN objects => j \in DOMAIN objects /\ objects[j] = objects[k]

\* The same after the step.
CopiedThen(k, j) ==
    k \in DOMAIN objects' => j \in DOMAIN objects' /\ objects'[j] = objects'[k]

\* A step after which c's goroutine has neither listed nor copied anything.
Fresh(c) == call'[c].pc \notin Listing \cup {"MvFileDelete"}

LEMMA AnswerFresh ==
    ASSUME TypeOK, NEW c \in Client, NEW s, Answer(c, s)
    PROVE  Fresh(c)
<1>1. call'[c] = [Quiet EXCEPT !.reply = s]
  BY BecomeEffect DEF Answer
<1>2. call'[c].pc = "idle"
  BY <1>1 DEF Quiet
<1> QED
  BY <1>2 DEF Fresh, Listing

LEMMA GotoFresh ==
    ASSUME TypeOK, NEW c \in Client, NEW pc, pc \notin Listing \cup {"MvFileDelete"},
           Goto(c, pc)
    PROVE  Fresh(c)
  BY GotoEffect DEF Fresh

LEMMA StattedFresh ==
    ASSUME TypeOK, NEW c \in Client, NEW kind, Statted(c, kind)
    PROVE  Fresh(c)
<1>1. call[c] \in CallType
  BY DEF TypeOK
<1>2. CASE Become(c, [call[c] EXCEPT !.pc = "MvFile", !.created = TRUE])
  <2>1. call'[c] = [call[c] EXCEPT !.pc = "MvFile", !.created = TRUE]
    BY <1>2, BecomeEffect
  <2>2. call'[c].pc = "MvFile"
    BY <1>1, <2>1 DEF CallType
  <2> QED
    BY <2>2 DEF Fresh, Listing
<1>3. CASE Become(c, [call[c] EXCEPT !.pc = "StatFile",
                                     !.at = ParentDir(call[c].req.path)])
  <2>1. call'[c] = [call[c] EXCEPT !.pc = "StatFile",
                                   !.at = ParentDir(call[c].req.path)]
    BY <1>3, BecomeEffect
  <2>2. call'[c].pc = "StatFile"
    BY <1>1, <2>1 DEF CallType
  <2> QED
    BY <2>2 DEF Fresh, Listing
<1>4. CASE \E s : Answer(c, s)
  BY <1>4, AnswerFresh
<1>5. CASE Goto(c, "RmFile") \/ Goto(c, "PutMarker")
  <2>1. "RmFile" \notin Listing \cup {"MvFileDelete"}
        /\ "PutMarker" \notin Listing \cup {"MvFileDelete"}
    BY DEF Listing
  <2> QED
    BY <1>5, <2>1, GotoFresh
<1>6. CASE DeleteStatted(c, kind)
  BY <1>4, <1>5, <1>6 DEF DeleteStatted
<1>7. CASE MoveStatted(c, kind)
  BY <1>2, <1>4, <1>5, <1>7 DEF MoveStatted
<1>8. CASE MkdirStatted(c, kind)
  BY <1>3, <1>4, <1>5, <1>8 DEF MkdirStatted
<1> QED
  BY <1>6, <1>7, <1>8 DEF Statted

LEMMA SharedFresh ==
    ASSUME TypeOK, NEW c \in Client, SharedStep(c)
    PROVE  Fresh(c)
<1>1. ASSUME NEW pc \in {"OpenMarker", "StatFile", "StatMarker", "StatList",
                         "OpenList", "Upload"}, Goto(c, pc)
      PROVE  Fresh(c)
  <2>1. pc \notin Listing \cup {"MvFileDelete"}
    BY DEF Listing
  <2> QED
    BY <1>1, <2>1, GotoFresh
<1>2. CASE LockDst(c)
  BY <1>1, <1>2, AnswerFresh DEF LockDst, Entry
<1>3. CASE StatFile(c)
  BY <1>1, <1>3, StattedFresh DEF StatFile
<1>4. CASE StatMarker(c)
  BY <1>1, <1>4, StattedFresh DEF StatMarker
<1>5. CASE StatList(c)
  BY <1>5, StattedFresh DEF StatList
<1>6. CASE PutMarker(c) \/ Upload(c)
  BY <1>6, AnswerFresh DEF PutMarker, Upload
<1>7. CASE OpenMarker(c) \/ OpenList(c)
  BY <1>1, <1>7, AnswerFresh DEF OpenMarker, OpenList
<1> QED
  BY <1>2, <1>3, <1>4, <1>5, <1>6, <1>7 DEF SharedStep

LEMMA RemovedFresh ==
    ASSUME TypeOK, NEW c \in Client, NEW err, Removed(c, err)
    PROVE  Fresh(c)
<1>1. call[c] \in CallType
  BY DEF TypeOK
<1>2. CASE Become(c, [call[c] EXCEPT !.pc = "MvFile", !.errFile = FALSE,
                  !.cursor = <<>>, !.more = FALSE, !.todo = {}, !.del = {}])
  <2>1. call'[c] = [call[c] EXCEPT !.pc = "MvFile", !.errFile = FALSE,
                  !.cursor = <<>>, !.more = FALSE, !.todo = {}, !.del = {}]
    BY <1>2, BecomeEffect
  <2>2. call'[c].pc = "MvFile"
    BY <1>1, <2>1 DEF CallType
  <2> QED
    BY <2>2 DEF Fresh, Listing
<1> QED
  BY <1>2, AnswerFresh DEF Removed

----------------------------------------------------------------------------
\* The keys a request works on.

Own(c) == {k \in Key : \E p \in PathsOf(call[c].req) : Covers(p, k)}

LEMMA DirKeyCovered ==
    ASSUME NEW p \in Path
    PROVE  Covers(p, KeyFor(p)) /\ Covers(p, DirKeyFor(p))
<1>1. KeyFor(p) \in Key /\ WithSlash(KeyFor(p)) \in Key
  BY KeyForType, WithSlashType
<1>2. Covers(p, WithSlash(KeyFor(p)))
  BY <1>1, UnderSelf DEF Covers
<1>3. CASE p = <<>>
  <2>1. KeyFor(p) = RootKey
    BY <1>3 DEF KeyFor
  <2> QED
    BY <1>2, <2>1 DEF DirKeyFor, Covers
<1>4. CASE p # <<>>
  <2>1. Len(p) \in Nat \ {0} /\ Len(Prefix) \in Nat /\ p[Len(p)] \in Name
    BY <1>4, PathIsSeq, PrefixIsSeq, EmptySeq DEF Path
  <2>2. KeyFor(p)[Len(Prefix) + Len(p)] = p[Len(p)]
        /\ Len(KeyFor(p)) = Len(Prefix) + Len(p)
    BY <1>4, <2>1, KeyForKey
  <2>3. KeyFor(p)[Len(KeyFor(p))] # Empty
    BY <2>1, <2>2, NameAssumption
  <2>4. KeyFor(p) # <<Empty>>
    BY <2>3
  <2> QED
    BY <1>2, <2>4 DEF DirKeyFor, Covers
<1> QED
  BY <1>3, <1>4

\* A marker's key ends in a slash, or is the empty string no store accepts.
LEMMA DirKeySlash ==
    ASSUME NEW p \in Path, Storable(DirKeyFor(p))
    PROVE  EndsInSlash(DirKeyFor(p))
<1>1. KeyFor(p) \in Key /\ Len(KeyFor(p)) \in Nat \ {0}
  BY KeyForType, KeyParts
<1>2. CASE KeyFor(p) = <<Empty>>
  <2>1. RootKey # <<Empty>>
    BY <1>2 DEF DirKeyFor, Storable
  <2>2. Len(RootKey) = Len(Prefix) + 1 /\ RootKey[Len(Prefix) + 1] = Empty
        /\ Len(Prefix) \in Nat
    BY RootKeyKey, PrefixIsSeq
  <2>3. CASE Len(Prefix) = 0
    <3>1. Prefix = <<>>
      BY <2>3, PrefixAssumption, EmptySeq
    <3> QED
      BY <2>1, <3>1 DEF RootKey
  <2> QED
    BY <1>2, <2>2, <2>3 DEF DirKeyFor, EndsInSlash
<1>3. CASE KeyFor(p) # <<Empty>>
  <2>1. CASE ~EndsInSlash(KeyFor(p))
    <3>1. /\ Len(AddSlash(KeyFor(p))) = Len(KeyFor(p)) + 1
          /\ AddSlash(KeyFor(p))[Len(KeyFor(p)) + 1] = Empty
      BY <1>1, AddSlashKey
    <3> QED
      BY <1>1, <1>3, <2>1, <3>1 DEF DirKeyFor, WithSlash, EndsInSlash
  <2> QED
    BY <1>3, <2>1 DEF DirKeyFor, WithSlash
<1> QED
  BY <1>2, <1>3

LEMMA MoveCovers ==
    ASSUME TypeOK, NEW c \in Client
    PROVE  LET r == call[c].req IN
           /\ r.path \in Path /\ r.dst \in Path
           /\ Covers(r.path, KeyFor(r.path)) /\ Covers(r.dst, KeyFor(r.dst))
           /\ \A k \in Key : Under(k, OldDir(r)) =>
                 /\ Covers(r.path, k)
                 /\ NewKey(r, k) \in Key /\ Covers(r.dst, NewKey(r, k))
<1> DEFINE r == call[c].req
<1>1. call[c] \in CallType /\ r.path \in Path /\ r.dst \in Path
  BY DEF TypeOK, CallType, RequestType
<1>2. ASSUME NEW k \in Key, Under(k, OldDir(r))
      PROVE  /\ Covers(r.path, k)
             /\ NewKey(r, k) \in Key /\ Covers(r.dst, NewKey(r, k))
  <2>1. NewKey(r, k) \in Key /\ OldDir(r) \in Key /\ NewDir(r) \in Key
    BY CallKeys, NewKeyType
  <2>2. Under(NewKey(r, k), NewDir(r))
    BY <1>2, <2>1, RebaseUnder DEF NewKey
  <2> QED
    BY <1>1, <1>2, <2>1, <2>2, BelowCovered DEF OldDir, NewDir
<1> QED
  BY <1>1, <1>2, DirKeyCovered

\* A MOVE has its source and its destination apart, and neither is the root.
LEMMA MoveApart ==
    ASSUME MovesApart, NEW r \in Request, r.op = "MOVE"
    PROVE  Apart(r.path, r.dst) /\ r.path # <<>> /\ r.dst # <<>>
<1>1. r.path # r.dst /\ r.path \in Path /\ r.dst \in Path
  BY RequestAssumption DEF RequestType
<1>2. Apart(r.path, r.dst)
  BY <1>1 DEF MovesApart, PathsOf
<1> QED
  BY <1>1, <1>2, ApartNotRoot

\* What one path of a MOVE covers, the other does not.
LEMMA MoveDisjoint ==
    ASSUME MovesApart, NEW r \in Request, r.op = "MOVE",
           NEW j \in Key, NEW k \in Key, Covers(r.path, j), Covers(r.dst, k)
    PROVE  j # k
<1>1. r.path \in Path /\ r.dst \in Path
  BY RequestAssumption DEF RequestType
<1> QED
  BY <1>1, MoveApart, ApartCovers

\* What another request does leaves the keys of a MOVE alone.
LEMMA NotOwn ==
    ASSUME MovesApart, OneServer, IInv, Served, NEW c \in Client, NEW d \in Client,
           c # d, Active(c), ~At(c, "LockDst"), Active(d), ~At(d, "LockDst"),
           call[d].req.op = "MOVE", NEW p \in PathsOf(call[d].req),
           NEW k \in Key, Covers(p, k)
    PROVE  k \notin Own(c)
<1>1. call[c].req \in Request /\ call[d].req \in Request
      /\ call[c].server = call[d].server
  BY DEF IInv, CallInv, MethodInv, Active, Served, OneServer
<1>2. PathsOf(call[c].req) \cap PathsOf(call[d].req) = {}
  BY <1>1, LockInvExcludes DEF IInv, LockExclusion
<1>3. ASSUME NEW q \in PathsOf(call[c].req)
      PROVE  ~Covers(q, k)
  <2>1. Apart(p, q)
    BY <1>1, <1>2, <1>3 DEF MovesApart
  <2>2. p \in Path /\ q \in Path
    BY <1>1, <1>3, RequestAssumption DEF RequestType, PathsOf
  <2> QED
    BY <2>1, <2>2, ApartCovers
<1> QED
  BY <1>3 DEF Own

\* Nor does it disturb what a Rename has copied.
LEMMA OthersCopied ==
    ASSUME MovesApart, OneServer, IInv, Served, NEW c \in Client, NEW d \in Client,
           c # d, Active(c), ~At(c, "LockDst"), ChangesOnly(Own(c)),
           call[d].pc \in Renaming,
           NEW k \in Key, Covers(call[d].req.path, k),
           NEW j \in Key, Covers(call[d].req.dst, j), Copied(k, j)
    PROVE  CopiedThen(k, j)
<1>1. call[d].req.op = "MOVE" /\ Active(d) /\ ~At(d, "LockDst")
  BY DEF IInv, CallInv, MethodInv, Renaming, Active, At
<1>2. call[d].req.path \in PathsOf(call[d].req)
      /\ call[d].req.dst \in PathsOf(call[d].req)
  BY <1>1 DEF PathsOf
<1>3. k \notin Own(c) /\ j \notin Own(c)
  BY <1>1, <1>2, NotOwn
<1> QED
  BY <1>3 DEF Copied, CopiedThen, ChangesOnly

LEMMA OwnKeys ==
    ASSUME TypeOK, NEW c \in Client, CallInv(call[c])
    PROVE  LET r == call[c].req
               listed == call[c].todo \cup call[c].del
           IN
           /\ KeyFor(r.path) \in Own(c) /\ DirKeyFor(r.path) \in Own(c)
           /\ r.op = "MOVE" => KeyFor(r.dst) \in Own(c)
           /\ call[c].pc \in Removing =>
                 KeyFor(call[c].at) \in Own(c) /\ listed \subseteq Own(c)
           /\ call[c].pc \in Renaming =>
                 /\ r.op = "MOVE"
                 /\ \A k \in listed : k \in Own(c) /\ NewKey(r, k) \in Own(c)
<1> DEFINE r == call[c].req
           listed == call[c].todo \cup call[c].del
<1>1. /\ call[c] \in CallType
      /\ r.path \in Path /\ r.dst \in Path /\ call[c].at \in Path
      /\ listed \subseteq Key
  BY DEF TypeOK, CallType, RequestType
<1>2. r.path \in PathsOf(r) /\ (r.op = "MOVE" => r.dst \in PathsOf(r))
  BY DEF PathsOf
<1>3. /\ KeyFor(r.path) \in Own(c) /\ DirKeyFor(r.path) \in Own(c)
      /\ r.op = "MOVE" => KeyFor(r.dst) \in Own(c)
  BY <1>1, <1>2, DirKeyCovered, CallKeys DEF Own
<1>4. ASSUME call[c].pc \in Removing
      PROVE  KeyFor(call[c].at) \in Own(c) /\ listed \subseteq Own(c)
  <2>1. call[c].at \in PathsOf(r)
    BY <1>1, <1>4 DEF CallInv, MethodInv, Removing, Target, PathsOf
  <2>2. \A k \in listed : k \in Key /\ Covers(call[c].at, k)
    BY <1>1, <1>4 DEF CallInv, ListInv, Covers
  <2> QED
    BY <1>1, <2>1, <2>2, DirKeyCovered, CallKeys DEF Own
<1>5. ASSUME call[c].pc \in Renaming
      PROVE  /\ r.op = "MOVE"
             /\ \A k \in listed : k \in Own(c) /\ NewKey(r, k) \in Own(c)
  <2>1. r.op = "MOVE"
    BY <1>1, <1>5 DEF CallInv, MethodInv
  <2>2. \A k \in listed : k \in Key /\ Under(k, OldDir(r))
    BY <1>1, <1>5 DEF CallInv, ListInv
  <2> QED
    BY <1>1, <1>2, <2>1, <2>2, MoveCovers DEF Own
<1> QED
  BY <1>3, <1>4, <1>5

LEMMA SharedOwns ==
    ASSUME TypeOK, NEW c \in Client, CallInv(call[c]), SharedStep(c)
    PROVE  ChangesOnly(Own(c))
<1>1. CASE LockDst(c)
  BY <1>1, SameChanges DEF LockDst
<1>2. CASE StatFile(c) \/ StatMarker(c) \/ StatList(c)
  BY <1>2, SameChanges, ReadChanges DEF StatFile, StatMarker, StatList
<1>3. CASE PutMarker(c) \/ Upload(c)
  BY <1>3, OwnKeys, PutChanges DEF PutMarker, Upload
<1>4. CASE OpenMarker(c) \/ OpenList(c)
  BY <1>4, SameChanges, ReadChanges DEF OpenMarker, OpenList
<1> QED
  BY <1>1, <1>2, <1>3, <1>4 DEF SharedStep

----------------------------------------------------------------------------
\* Markers stay markers.

LEMMA WriteMarkers ==
    ASSUME Markers, NEW k, NEW v, EndsInSlash(k) => v = Marker, Write(k, v)
    PROVE  Markers'
<1>1. \A j \in DOMAIN objects' : objects'[j] = IF j = k THEN v ELSE objects[j]
  BY DEF Write
<1>2. DOMAIN objects' = DOMAIN objects \cup {k}
  BY DEF Write
<1> QED
  BY <1>1, <1>2 DEF Markers

LEMMA EraseMarkers ==
    ASSUME Markers, NEW K, Erase(K) \/ UNCHANGED objects
    PROVE  Markers'
  BY DEF Markers, Erase

LEMMA PutMarkers ==
    ASSUME Markers, NEW k, NEW v, Storable(k) /\ EndsInSlash(k) => v = Marker,
           PutOk(k, v) \/ PutErr(k, v)
    PROVE  Markers'
  BY WriteMarkers, EraseMarkers DEF PutOk, PutErr

LEMMA CopyMarkers ==
    ASSUME Markers, NEW j, NEW k, EndsInSlash(k) => EndsInSlash(j),
           CopyOk(j, k) \/ CopyMissing(j) \/ CopyErr(j, k)
    PROVE  Markers'
<1>1. CASE CopyMissing(j)
  BY <1>1, EraseMarkers DEF CopyMissing
<1>2. CASE CopyOk(j, k) \/ CopyErr(j, k)
  <2>1. EndsInSlash(k) => objects[j] = Marker
    BY <1>2 DEF CopyOk, CopyErr, Markers
  <2> QED
    BY <1>2, <2>1, PutMarkers DEF CopyOk, CopyErr
<1> QED
  BY <1>1, <1>2

LEMMA ReadMarkers ==
    ASSUME Markers, NEW k, HeadOk(k) \/ HeadErr(k) \/ AnyOk(k) \/ AnyErr(k)
    PROVE  Markers'
  BY EraseMarkers DEF HeadOk, HeadErr, AnyOk, AnyErr

\* A key Rename writes ends in a slash when the key it reads does.
LEMMA NewKeySlash ==
    ASSUME TypeOK, NEW c \in Client, NEW k \in Key, Under(k, OldDir(call[c].req)),
           EndsInSlash(NewKey(call[c].req, k))
    PROVE  EndsInSlash(k)
<1> DEFINE r == call[c].req
<1>1. /\ OldDir(r) \in Key /\ NewDir(r) \in Key /\ KeyFor(r.path) \in Key
      /\ Len(OldDir(r)) = Len(KeyFor(r.path)) + 1
  BY CallKeys, AddSlashKey DEF OldDir
<1>2. Len(k) > 1
  BY <1>1, KeyParts DEF Under
<1>3. k[Len(k)] = Empty
  BY <1>1, RebaseLast DEF NewKey, EndsInSlash
<1> QED
  BY <1>2, <1>3 DEF EndsInSlash

LEMMA SharedMarkers ==
    ASSUME TypeOK, Markers, NEW c \in Client, CallInv(call[c]), SharedStep(c)
    PROVE  Markers'
<1> DEFINE r == call[c].req
<1>1. call[c] \in CallType /\ r.path \in Path
  BY DEF TypeOK, CallType, RequestType
<1>2. CASE LockDst(c)
  BY <1>2, EraseMarkers DEF LockDst
<1>3. CASE StatFile(c) \/ StatMarker(c) \/ StatList(c)
  BY <1>3, ReadMarkers, EraseMarkers DEF StatFile, StatMarker, StatList
<1>4. CASE PutMarker(c)
  BY <1>4, PutMarkers DEF PutMarker
<1>5. CASE Upload(c)
  <2>1. r.path # <<>>
    BY <1>1, <1>5 DEF Upload, At, CallInv, MethodInv
  <2>2. ~EndsInSlash(KeyFor(r.path))
    BY <1>1, <2>1, NamedKey
  <2> QED
    BY <1>5, <2>2, PutMarkers DEF Upload
<1>6. CASE OpenMarker(c) \/ OpenList(c)
  BY <1>6, ReadMarkers, EraseMarkers DEF OpenMarker, OpenList
<1> QED
  BY <1>2, <1>3, <1>4, <1>5, <1>6 DEF SharedStep

\* Rename copies markers to keys that end in a slash, and files to others.
LEMMA RenameMarkers ==
    ASSUME MovesApart, TypeOK, Markers, NEW c \in Client, CallInv(call[c]),
           call[c].pc \in Renaming,
           \/ LET src == KeyFor(call[c].req.path)
                  dst == KeyFor(call[c].req.dst)
              IN CopyOk(src, dst) \/ CopyMissing(src) \/ CopyErr(src, dst)
           \/ \E k \in call[c].todo :
                LET dst == NewKey(call[c].req, k) IN
                CopyOk(k, dst) \/ CopyMissing(k) \/ CopyErr(k, dst)
    PROVE  Markers'
<1> DEFINE r == call[c].req
           src == KeyFor(r.path)
           dst == KeyFor(r.dst)
<1>1. /\ call[c] \in CallType /\ r.path \in Path /\ r.dst \in Path
      /\ call[c].todo \subseteq Key /\ r \in Request /\ r.op = "MOVE"
  BY DEF TypeOK, CallType, RequestType, CallInv, MethodInv, Renaming
<1>2. CASE CopyOk(src, dst) \/ CopyMissing(src) \/ CopyErr(src, dst)
  <2>1. ~EndsInSlash(dst)
    BY <1>1, MoveApart, NamedKey
  <2> QED
    BY <1>2, <2>1, CopyMarkers
<1>3. CASE \E k \in call[c].todo :
             \/ CopyOk(k, NewKey(r, k)) \/ CopyMissing(k)
             \/ CopyErr(k, NewKey(r, k))
  <2>1. PICK k \in call[c].todo :
          \/ CopyOk(k, NewKey(r, k)) \/ CopyMissing(k)
          \/ CopyErr(k, NewKey(r, k))
    BY <1>3
  <2>2. k \in Key /\ Under(k, OldDir(r))
    BY <1>1 DEF CallInv, ListInv
  <2>3. EndsInSlash(NewKey(r, k)) => EndsInSlash(k)
    BY <1>1, <2>2, NewKeySlash
  <2> QED
    BY <2>1, <2>3, CopyMarkers
<1> QED
  BY <1>2, <1>3

----------------------------------------------------------------------------
\* A request stays with a process.

LEMMA BeginServed ==
    ASSUME TypeOK, Served, NEW c \in Client, NEW s \in Server, NEW r \in Request,
           Begin(c, s, r)
    PROVE  Served'
  BY BeginEffect DEF Served, Active

LEMMA LockDstServed ==
    ASSUME TypeOK, Served, NEW c \in Client, CallInv(call[c]), LockDst(c)
    PROVE  Served'
  BY LockDstEffect DEF Served, Active

LEMMA GoesServed ==
    ASSUME Served, NEW c \in Client, Goes(c)
    PROVE  Served'
  BY DEF Served, Goes, Active

LEMMA CrashServed ==
    ASSUME TypeOK, Served, NEW s \in Server, Crash(s)
    PROVE  Served'
  BY CrashEffect DEF Served, Active, Quiet

----------------------------------------------------------------------------
\* What a step of c may take away.

Stays(k) == k \in DOMAIN objects' /\ objects'[k] = objects[k]

Moved(c, k) ==
    \E j \in DOMAIN objects' : Moves(c, k, j) /\ objects'[j] = objects[k]

\* An upload or a copy replaces one key, a deletion removes what it names.
LEMMA PutStays ==
    ASSUME NEW j, NEW v, PutOk(j, v) \/ PutErr(j, v),
           NEW k \in DOMAIN objects, k # j \/ objects[k] = v
    PROVE  Stays(k)
  BY DEF PutOk, PutErr, Write, Stays

LEMMA CopyStays ==
    ASSUME NEW i, NEW j, CopyOk(i, j) \/ CopyMissing(i) \/ CopyErr(i, j),
           NEW k \in DOMAIN objects, k # j
    PROVE  Stays(k)
  BY PutStays DEF CopyOk, CopyMissing, CopyErr, Stays

\* RemoveAll and the copies of Rename touch what the request asked for.
LEMMA RemovingAsked ==
    ASSUME TypeOK, NEW c \in Client, CallInv(call[c]), call[c].pc \in Removing,
           NEW k \in Key, Covers(call[c].at, k)
    PROVE  Asked(c, k)
  BY DEF CallInv, MethodInv, Removing, Asked, Active, Target

LEMMA RenamingAsked ==
    ASSUME TypeOK, NEW c \in Client, CallInv(call[c]), call[c].pc \in Renaming,
           NEW k \in Key, Covers(call[c].req.dst, k)
    PROVE  Asked(c, k)
  BY DEF CallInv, MethodInv, Renaming, Asked, Active

LEMMA SharedKeeps ==
    ASSUME TypeOK, Markers, NEW c \in Client, CallInv(call[c]), SharedStep(c),
           NEW k \in DOMAIN objects
    PROVE  Stays(k) \/ Asked(c, k)
<1> DEFINE r == call[c].req
<1>1. call[c] \in CallType /\ r.path \in Path
  BY DEF TypeOK, CallType, RequestType
<1>2. CASE UNCHANGED objects
  BY <1>2 DEF Stays
<1>3. CASE LockDst(c)
  BY <1>2, <1>3 DEF LockDst
<1>4. CASE StatFile(c) \/ StatMarker(c) \/ StatList(c) \/ OpenMarker(c) \/ OpenList(c)
  BY <1>2, <1>4 DEF StatFile, StatMarker, StatList, OpenMarker, OpenList,
                    HeadOk, HeadErr, AnyOk, AnyErr
<1>5. CASE PutMarker(c)
  <2> DEFINE d == DirKeyFor(r.path)
  <2>1. CASE ~Storable(d)
    BY <1>2, <1>5, <2>1 DEF PutMarker, PutOk, PutErr
  <2>2. CASE k = d /\ Storable(d)
    <3>1. EndsInSlash(d)
      BY <1>1, <2>2, DirKeySlash
    <3>2. objects[k] = Marker
      BY <1>1, <2>2, <3>1 DEF Markers
    <3> QED
      BY <1>5, <3>2, PutStays DEF PutMarker
  <2>3. CASE k # d
    BY <1>5, <2>3, PutStays DEF PutMarker
  <2> QED
    BY <2>1, <2>2, <2>3
<1>6. CASE Upload(c)
  <2>1. CASE k = KeyFor(r.path)
    BY <1>1, <1>6, <2>1 DEF Upload, At, CallInv, MethodInv, Opening, Asked, Active
  <2>2. CASE k # KeyFor(r.path)
    BY <1>6, <2>2, PutStays DEF Upload
  <2> QED
    BY <2>1, <2>2
<1> QED
  BY <1>3, <1>4, <1>5, <1>6 DEF SharedStep

----------------------------------------------------------------------------
\* Object by object: what GCS and Azure do alike.  EachNext allows every step
\* of either backend; what is said of errors is left open where they differ.

Deletes(k) ==
    /\ Erase({k}) \/ UNCHANGED objects
    /\ (Works /\ k \notin DOMAIN objects') \/ Breaks

EachRmFile(c) ==
    /\ At(c, "RmFile") /\ Serving
    /\ Deletes(KeyFor(call[c].at))
    /\ \E e \in BOOLEAN :
          Become(c, [call[c] EXCEPT !.pc = "RmList", !.errFile = e])

EachRmNext(c, l) ==
    \/ l.todo # {} /\ Become(c, [l EXCEPT !.pc = "RmKey"])
    \/ l.todo = {} /\ l.more /\ Become(c, [l EXCEPT !.pc = "RmList"])
    \/ l.todo = {} /\ ~l.more /\ \E e \in BOOLEAN : Removed(c, e)

EachRmList(c) ==
    /\ At(c, "RmList") /\ Serving /\ UNCHANGED objects /\ (Works \/ Breaks)
    /\ \/ \E l \in NextPage(c, WithSlash(KeyFor(call[c].at))) : EachRmNext(c, l)
       \/ Removed(c, TRUE)

EachRmKey(c) ==
    LET k == First(call[c].todo) IN
    /\ At(c, "RmKey") /\ Serving
    /\ Deletes(k)
    /\ \/ \E e \in BOOLEAN :
            EachRmNext(c, [call[c] EXCEPT !.todo = @ \ {k}, !.errFile = e])
       \/ Removed(c, TRUE)

EachMvFile(c) ==
    LET src == KeyFor(call[c].req.path)
        dst == KeyFor(call[c].req.dst)
    IN
    /\ At(c, "MvFile") /\ Serving
    /\ \/ CopyOk(src, dst) /\ Goto(c, "MvFileDelete")
       \/ /\ CopyMissing(src) \/ CopyErr(src, dst)
          /\ Goto(c, "MvList") \/ Renamed(c, TRUE)

EachMvFileDelete(c) ==
    /\ At(c, "MvFileDelete") /\ Serving
    /\ Deletes(KeyFor(call[c].req.path))
    /\ Renamed(c, FALSE)

EachMvNext(c, l) ==
    \/ l.todo # {} /\ Become(c, [l EXCEPT !.pc = "MvCopy"])
    \/ l.todo = {} /\ l.more /\ Become(c, [l EXCEPT !.pc = "MvList"])
    \/ l.todo = {} /\ ~l.more /\ Renamed(c, FALSE)

EachMvList(c) ==
    /\ At(c, "MvList") /\ Serving /\ UNCHANGED objects /\ (Works \/ Breaks)
    /\ \/ \E l \in NextPage(c, OldDir(call[c].req)) : EachMvNext(c, l)
       \/ Renamed(c, TRUE)

EachMvCopy(c) ==
    LET k == First(call[c].todo)
        dst == NewKey(call[c].req, k)
    IN
    /\ At(c, "MvCopy") /\ Serving
    /\ \/ CopyOk(k, dst) /\ Goto(c, "MvDelete")
       \/ (CopyMissing(k) \/ CopyErr(k, dst)) /\ Renamed(c, TRUE)

EachMvDelete(c) ==
    LET k == First(call[c].todo) IN
    /\ At(c, "MvDelete") /\ Serving
    /\ Deletes(k)
    /\ \/ EachMvNext(c, [call[c] EXCEPT !.todo = @ \ {k}])
       \/ Renamed(c, TRUE)

EachStep(c) ==
    \/ EachRmFile(c) \/ EachRmList(c) \/ EachRmKey(c)
    \/ EachMvFile(c) \/ EachMvFileDelete(c)
    \/ EachMvList(c) \/ EachMvCopy(c) \/ EachMvDelete(c)

EachNext ==
    \/ \E c \in Client, s \in Server, r \in Request : Begin(c, s, r)
    \/ \E c \in Client : SharedStep(c) \/ EachStep(c)
    \/ \E s \in Server : Crash(s)
    \/ AllServed

----------------------------------------------------------------------------
\* The invariant: besides IInv, a goroutine that handles a listed key has one,
\* and none collects keys to delete later.

TodoInv(l) ==
    /\ IsFiniteSet(l.todo) /\ l.del = {}
    /\ l.pc \in {"RmKey", "MvCopy", "MvDelete"} => l.todo # {}

EachInv == IInv /\ \A c \in Client : TodoInv(call[c])

LEMMA FirstIn ==
    ASSUME NEW K, K \subseteq Key, IsFiniteSet(K), K # {}
    PROVE  First(K) \in K
<1>1. \E k \in K : \A j \in K \ {k} : Before(k, j)
  BY FirstKey
<1> QED
  BY <1>1 DEF First

\* The key at hand is one of those listed below the folder.
LEMMA FirstListed ==
    ASSUME EachInv, NEW c \in Client, call[c].pc \in {"RmKey", "MvCopy", "MvDelete"}
    PROVE  LET k == First(call[c].todo) IN
           /\ k \in call[c].todo /\ k \in Key
           /\ call[c].pc = "RmKey" => Under(k, WithSlash(KeyFor(call[c].at)))
           /\ call[c].pc # "RmKey" => Under(k, OldDir(call[c].req))
<1>1. /\ call[c] \in CallType /\ TodoInv(call[c]) /\ ListInv(call[c])
  BY DEF EachInv, IInv, TypeOK, CallInv
<1>2. call[c].todo \subseteq Key /\ IsFiniteSet(call[c].todo) /\ call[c].todo # {}
  BY <1>1 DEF CallType, TodoInv
<1>3. First(call[c].todo) \in call[c].todo
  BY <1>2, FirstIn
<1> QED
  BY <1>1, <1>2, <1>3 DEF ListInv, Removing, Renaming

LEMMA DeletesType ==
    ASSUME TypeOK, NEW k, Deletes(k)
    PROVE  IsStore(objects') /\ faults' \in 0..MaxFaults
  BY EraseType, SameType, WorksType DEF TypeOK, Deletes

\* What one page of a listing makes of a goroutine's record.
LEMMA NextPageType ==
    ASSUME TypeOK, NEW c \in Client, NEW d, NEW l \in NextPage(c, d)
    PROVE  /\ l \in CallType /\ l.req = call[c].req /\ l.server = call[c].server
           /\ l.at = call[c].at /\ l.del = call[c].del
           /\ IsFiniteSet(l.todo) /\ \A k \in l.todo : Under(k, d)
<1> DEFINE cursor == call[c].cursor
           rest == Rest(d, cursor)
<1>1. PICK last \in rest \cup {cursor} :
        l = [call[c] EXCEPT !.todo = Page(d, cursor, last), !.cursor = last,
                            !.more = Page(d, cursor, last) # rest]
  BY DEF NextPage
<1>2. call[c] \in CallType
  BY DEF TypeOK
<1>3. Page(d, cursor, last) \in SUBSET (Key \ {<<Empty>>}) /\ last \in Seq(Name \cup {Empty})
  BY PageType
<1>4. l \in CallType
  BY <1>1, <1>2, <1>3, ZenonT(60) DEF CallType
<1>5. /\ l.req = call[c].req /\ l.server = call[c].server /\ l.at = call[c].at
      /\ l.del = call[c].del /\ l.todo = Page(d, cursor, last)
  BY <1>1, <1>2 DEF CallType
<1>6. Page(d, cursor, last) \in SUBSET DOMAIN objects
      /\ \A k \in Page(d, cursor, last) : Under(k, d)
  BY DEF Page, Rest, Listed
<1>7. IsFiniteSet(Page(d, cursor, last))
  BY <1>6, FS_Subset DEF TypeOK, IsStore
<1> QED
  BY <1>4, <1>5, <1>6, <1>7

\* Going on with the record l at pc keeps what is said of goroutines.
LEMMA BecomeGoes ==
    ASSUME EachInv, NEW c \in Client, Active(c), call[c].pc # "LockDst",
           NEW l \in CallType, l.req = call[c].req, l.server = call[c].server,
           NEW pc \in PC \ {"idle", "LockDst"}, Become(c, [l EXCEPT !.pc = pc]),
           CallInv([l EXCEPT !.pc = pc]), TodoInv([l EXCEPT !.pc = pc])
    PROVE  /\ Goes(c) /\ CallInv(call'[c]) /\ TodoInv(call'[c])
           /\ call' \in [Client -> CallType]
<1>1. /\ call'[c] = [l EXCEPT !.pc = pc]
      /\ \A d \in Client \ {c} : call'[d] = call[d]
  BY BecomeEffect DEF EachInv, IInv
<1>2. [l EXCEPT !.pc = pc] \in CallType
  BY ZenonT(60) DEF CallType
<1>3. /\ call'[c].pc = pc /\ call'[c].req = call[c].req
      /\ call'[c].server = call[c].server
  BY <1>1 DEF CallType
<1>4. call' \in [Client -> CallType]
  BY <1>2, BecomeType DEF EachInv, IInv
<1> QED
  BY <1>1, <1>3, <1>4 DEF Goes

\* An answer, and the beginning of a Rename, leave nothing listed.
LEMMA FreshTodo ==
    ASSUME NEW c \in Client, Fresh(c), CallInv(call'[c])
    PROVE  TodoInv(call'[c])
<1>1. call'[c].todo = {} /\ call'[c].del = {}
  BY DEF Fresh, CallInv, ListInv
<1> QED
  BY <1>1, FS_EmptySet DEF Fresh, TodoInv, Listing

LEMMA RemovedEach ==
    ASSUME EachInv, NEW c \in Client, call[c].pc \in Removing, NEW e, Removed(c, e)
    PROVE  /\ Goes(c) /\ CallInv(call'[c]) /\ TodoInv(call'[c])
           /\ call' \in [Client -> CallType]
  BY RemovedGoes, RemovedType, RemovedFresh, FreshTodo DEF EachInv, IInv

LEMMA RenamedEach ==
    ASSUME EachInv, NEW c \in Client, call[c].pc \in Renaming, NEW e, Renamed(c, e)
    PROVE  /\ Goes(c) /\ CallInv(call'[c]) /\ TodoInv(call'[c])
           /\ call' \in [Client -> CallType]
<1>1. Active(c)
  BY DEF Active, Renaming
<1> QED
  BY <1>1, RenamedGoes, RenamedType, AnswerFresh, FreshTodo
     DEF EachInv, IInv, Renamed

LEMMA RmNextEach ==
    ASSUME EachInv, NEW c \in Client, call[c].pc \in Removing,
           NEW l \in CallType, l.req = call[c].req, l.server = call[c].server,
           l.at = call[c].at, l.del = call[c].del, IsFiniteSet(l.todo),
           \A k \in l.todo : Under(k, WithSlash(KeyFor(l.at))),
           EachRmNext(c, l)
    PROVE  /\ Goes(c) /\ CallInv(call'[c]) /\ TodoInv(call'[c])
           /\ call' \in [Client -> CallType]
<1>1. CASE \E e \in BOOLEAN : Removed(c, e)
  BY <1>1, RemovedEach
<1>2. ASSUME NEW pc \in {"RmKey", "RmList"}, l.todo # {} \/ pc = "RmList",
             Become(c, [l EXCEPT !.pc = pc])
      PROVE  /\ Goes(c) /\ CallInv(call'[c]) /\ TodoInv(call'[c])
             /\ call' \in [Client -> CallType]
  <2> DEFINE m == [l EXCEPT !.pc = pc]
  <2>1. /\ m.pc = pc /\ m.req = l.req /\ m.at = l.at /\ m.todo = l.todo
        /\ m.del = l.del
    BY DEF CallType
  <2>2. CallInv(call[c]) /\ Active(c) /\ call[c].pc # "LockDst"
    BY DEF EachInv, IInv, Active, Removing
  <2> HIDE DEF m
  <2>3. MethodInv(m)
    BY <1>2, <2>1, <2>2 DEF CallInv, MethodInv, Opening, Stating, Removing,
                            Renaming, Active
  <2>4. ListInv(m)
    BY <1>2, <2>1, <2>2 DEF CallInv, ListInv, Removing, Renaming, Listing
  <2>5. TodoInv(m)
    BY <1>2, <2>1 DEF EachInv, TodoInv
  <2>6. pc \in PC \ {"idle", "LockDst"}
    BY DEF PC
  <2> QED
    BY <1>2, <2>2, <2>3, <2>4, <2>5, <2>6, BecomeGoes DEF CallInv, m
<1> QED
  BY <1>1, <1>2 DEF EachRmNext

LEMMA MvNextEach ==
    ASSUME EachInv, NEW c \in Client, call[c].pc \in Renaming,
           NEW l \in CallType, l.req = call[c].req, l.server = call[c].server,
           l.at = call[c].at, l.del = call[c].del, IsFiniteSet(l.todo),
           \A k \in l.todo : Under(k, OldDir(l.req)),
           EachMvNext(c, l)
    PROVE  /\ Goes(c) /\ CallInv(call'[c]) /\ TodoInv(call'[c])
           /\ call' \in [Client -> CallType]
<1>1. CASE Renamed(c, FALSE)
  BY <1>1, RenamedEach
<1>2. ASSUME NEW pc \in {"MvCopy", "MvList"}, l.todo # {} \/ pc = "MvList",
             Become(c, [l EXCEPT !.pc = pc])
      PROVE  /\ Goes(c) /\ CallInv(call'[c]) /\ TodoInv(call'[c])
             /\ call' \in [Client -> CallType]
  <2> DEFINE m == [l EXCEPT !.pc = pc]
  <2>1. /\ m.pc = pc /\ m.req = l.req /\ m.at = l.at /\ m.todo = l.todo
        /\ m.del = l.del
    BY DEF CallType
  <2>2. CallInv(call[c]) /\ Active(c) /\ call[c].pc # "LockDst"
    BY DEF EachInv, IInv, Active, Renaming
  <2> HIDE DEF m
  <2>3. MethodInv(m)
    BY <1>2, <2>1, <2>2 DEF CallInv, MethodInv, Opening, Stating, Removing,
                            Renaming, Active
  <2>4. ListInv(m)
    BY <1>2, <2>1, <2>2 DEF CallInv, ListInv, Removing, Renaming, Listing
  <2>5. TodoInv(m)
    BY <1>2, <2>1 DEF EachInv, TodoInv
  <2>6. pc \in PC \ {"idle", "LockDst"}
    BY DEF PC
  <2> QED
    BY <1>2, <2>2, <2>3, <2>4, <2>5, <2>6, BecomeGoes DEF CallInv, m
<1> QED
  BY <1>1, <1>2 DEF EachMvNext

LEMMA EachStepGoes ==
    ASSUME EachInv, NEW c \in Client, EachStep(c)
    PROVE  /\ TypeOK' /\ Goes(c) /\ CallInv(call'[c]) /\ TodoInv(call'[c])
<1> DEFINE l == call[c]
           Good == /\ Goes(c) /\ CallInv(call'[c]) /\ TodoInv(call'[c])
                   /\ call' \in [Client -> CallType]
<1>1. /\ TypeOK /\ l \in CallType /\ CallInv(l) /\ TodoInv(l) /\ MethodInv(l)
      /\ ListInv(l)
  BY DEF EachInv, IInv, TypeOK, CallInv
<1>2. Serving
  BY DEF EachStep, EachRmFile, EachRmList, EachRmKey, EachMvFile,
         EachMvFileDelete, EachMvList, EachMvCopy, EachMvDelete
<1>3. SUFFICES IsStore(objects') /\ faults' \in 0..MaxFaults /\ Good
  BY <1>1, <1>2, ServingType
<1>4. ASSUME NEW pc \in PC \ {"idle", "LockDst"}, NEW m \in CallType,
             m.req = l.req, m.server = l.server, m.at = l.at,
             m.todo = l.todo, m.del = l.del, Become(c, [m EXCEPT !.pc = pc]),
             \/ l.pc \in Removing /\ pc \in Removing
             \/ l.pc \in Renaming /\ pc \in Renaming,
             pc \in Listing \/ (l.todo = {} /\ l.del = {}),
             pc \in {"RmKey", "MvCopy", "MvDelete"} => l.todo # {}
      PROVE  Good
  <2> DEFINE n == [m EXCEPT !.pc = pc]
  <2>1. n.pc = pc /\ n.req = m.req /\ n.at = m.at /\ n.todo = m.todo /\ n.del = m.del
    BY DEF CallType
  <2>2. Active(c) /\ l.pc # "LockDst"
    BY <1>4 DEF Active, Removing, Renaming
  <2> HIDE DEF n
  <2>3. MethodInv(n)
    BY <1>1, <1>4, <2>1, <2>2 DEF MethodInv, Opening, Stating, Removing,
                                  Renaming, Active
  <2>4. ListInv(n)
    BY <1>1, <1>4, <2>1 DEF ListInv, Removing, Renaming, Listing
  <2>5. TodoInv(n)
    BY <1>1, <1>4, <2>1 DEF TodoInv
  <2> QED
    BY <1>4, <2>2, <2>3, <2>4, <2>5, BecomeGoes DEF CallInv, n
<1>5. ASSUME NEW pc \in PC \ {"idle", "LockDst"}, Goto(c, pc),
             l.pc \in Renaming /\ pc \in Renaming,
             pc \in Listing \/ (l.todo = {} /\ l.del = {}),
             pc \in {"RmKey", "MvCopy", "MvDelete"} => l.todo # {}
      PROVE  Good
  BY <1>1, <1>4, <1>5 DEF Goto
<1> HIDE DEF Good
<1>6. CASE EachRmFile(c)
  <2>1. PICK e \in BOOLEAN :
          Become(c, [l EXCEPT !.pc = "RmList", !.errFile = e])
    BY <1>6 DEF EachRmFile
  <2> DEFINE m == [l EXCEPT !.errFile = e]
  <2>2. /\ m \in CallType /\ m.req = l.req /\ m.server = l.server
        /\ m.at = l.at /\ m.todo = l.todo /\ m.del = l.del
    BY <1>1 DEF CallType
  <2>3. [l EXCEPT !.pc = "RmList", !.errFile = e] = [m EXCEPT !.pc = "RmList"]
    BY <1>1 DEF CallType
  <2>4. l.pc \in Removing
    BY <1>6 DEF EachRmFile, At, Removing
  <2> HIDE DEF m
  <2>5. Good
    <3>1. /\ "RmList" \in PC \ {"idle", "LockDst"}
          /\ "RmList" \in Removing /\ "RmList" \in Listing
      BY DEF PC, Removing, Listing
    <3>2. Become(c, [m EXCEPT !.pc = "RmList"])
      BY <2>1, <2>3
    <3>3. "RmList" \notin {"RmKey", "MvCopy", "MvDelete"}
      OBVIOUS
    <3> QED
      BY <1>4, <2>2, <2>4, <3>1, <3>2, <3>3, Zenon
  <2>6. IsStore(objects') /\ faults' \in 0..MaxFaults
    BY <1>1, <1>6, DeletesType DEF EachRmFile
  <2> QED
    BY <2>5, <2>6
<1>7. CASE EachRmList(c)
  <2>1. IsStore(objects') /\ faults' \in 0..MaxFaults /\ l.pc \in Removing
    BY <1>1, <1>7, SameType, WorksType DEF EachRmList, TypeOK, At, Removing
  <2>2. CASE Removed(c, TRUE)
    BY <2>1, <2>2, RemovedEach DEF Good
  <2>3. ASSUME NEW m \in NextPage(c, WithSlash(KeyFor(l.at))), EachRmNext(c, m)
        PROVE  Good
    BY <1>1, <2>1, <2>3, NextPageType, RmNextEach DEF Good
  <2> QED
    BY <1>7, <2>1, <2>2, <2>3 DEF EachRmList
<1>8. CASE EachRmKey(c)
  <2> DEFINE k == First(l.todo)
  <2>1. IsStore(objects') /\ faults' \in 0..MaxFaults /\ l.pc \in Removing
    BY <1>1, <1>8, DeletesType DEF EachRmKey, At, Removing
  <2>2. CASE Removed(c, TRUE)
    BY <2>1, <2>2, RemovedEach DEF Good
  <2>3. ASSUME NEW e \in BOOLEAN,
               EachRmNext(c, [l EXCEPT !.todo = @ \ {k}, !.errFile = e])
        PROVE  Good
    <3> DEFINE m == [l EXCEPT !.todo = @ \ {k}, !.errFile = e]
    <3>1. m \in CallType
      BY <1>1 DEF CallType
    <3>2. /\ m.req = l.req /\ m.server = l.server
          /\ m.at = l.at /\ m.todo = l.todo \ {k} /\ m.del = l.del
      BY <1>1 DEF CallType
    <3> HIDE DEF m
    <3>3. IsFiniteSet(m.todo)
      <4>1. IsFiniteSet(l.todo)
        BY <1>1 DEF TodoInv
      <4> HIDE DEF k, l
      <4> QED
        BY <3>2, <4>1, FS_RemoveElement
    <3>4. \A j \in m.todo : Under(j, WithSlash(KeyFor(m.at)))
      BY <1>1, <2>1, <3>2 DEF ListInv
    <3> QED
      BY <2>1, <2>3, <3>1, <3>2, <3>3, <3>4, RmNextEach DEF Good, m
  <2> QED
    BY <1>8, <2>1, <2>2, <2>3 DEF EachRmKey
<1>9. CASE EachMvFile(c)
  <2>1. IsStore(objects') /\ faults' \in 0..MaxFaults
    BY <1>1, <1>9, CallKeys, CopyType DEF EachMvFile
  <2>2. l.pc \in Renaming /\ l.todo = {} /\ l.del = {}
    BY <1>1, <1>9 DEF EachMvFile, At, Renaming, ListInv, Listing
  <2>3. CASE Renamed(c, TRUE)
    BY <2>1, <2>2, <2>3, RenamedEach DEF Good
  <2>4. CASE Goto(c, "MvFileDelete") \/ Goto(c, "MvList")
    <3>1. {"MvFileDelete", "MvList"} \subseteq (PC \ {"idle", "LockDst"}) \cap Renaming
      BY DEF PC, Renaming
    <3> QED
      BY <1>5, <2>1, <2>2, <2>4, <3>1
  <2> QED
    BY <1>9, <2>1, <2>3, <2>4 DEF EachMvFile
<1>10. CASE EachMvFileDelete(c)
  <2>1. IsStore(objects') /\ faults' \in 0..MaxFaults
    BY <1>1, <1>10, DeletesType DEF EachMvFileDelete
  <2>2. Good
    BY <1>10, RenamedEach DEF EachMvFileDelete, At, Renaming, Good
  <2> QED
    BY <2>1, <2>2
<1>11. CASE EachMvList(c)
  <2>1. IsStore(objects') /\ faults' \in 0..MaxFaults /\ l.pc \in Renaming
    BY <1>1, <1>11, SameType, WorksType DEF EachMvList, TypeOK, At, Renaming
  <2>2. CASE Renamed(c, TRUE)
    BY <2>1, <2>2, RenamedEach DEF Good
  <2>3. ASSUME NEW m \in NextPage(c, OldDir(l.req)), EachMvNext(c, m)
        PROVE  Good
    BY <1>1, <2>1, <2>3, NextPageType, MvNextEach DEF Good
  <2> QED
    BY <1>11, <2>1, <2>2, <2>3 DEF EachMvList
<1>12. CASE EachMvCopy(c)
  <2> DEFINE k == First(l.todo)
  <2>1. l.pc \in Renaming /\ l.pc = "MvCopy" /\ k \in Key /\ l.todo # {}
    BY <1>1, <1>12, FirstListed DEF EachMvCopy, At, Renaming, TodoInv
  <2>2. IsStore(objects') /\ faults' \in 0..MaxFaults
    BY <1>1, <1>12, <2>1, NewKeyType, CopyType DEF EachMvCopy
  <2>3. CASE Renamed(c, TRUE)
    BY <2>1, <2>2, <2>3, RenamedEach DEF Good
  <2>4. CASE Goto(c, "MvDelete")
    <3>1. /\ "MvDelete" \in PC \ {"idle", "LockDst"}
          /\ "MvDelete" \in Renaming /\ "MvDelete" \in Listing
      BY DEF PC, Renaming, Listing
    <3>2. Good
      BY <1>5, <2>1, <2>4, <3>1, Zenon
    <3> QED
      BY <2>2, <3>2
  <2> QED
    BY <1>12, <2>2, <2>3, <2>4 DEF EachMvCopy
<1>13. CASE EachMvDelete(c)
  <2> DEFINE k == First(l.todo)
  <2>1. IsStore(objects') /\ faults' \in 0..MaxFaults /\ l.pc \in Renaming
    BY <1>1, <1>13, DeletesType DEF EachMvDelete, At, Renaming
  <2>2. CASE Renamed(c, TRUE)
    BY <2>1, <2>2, RenamedEach DEF Good
  <2>3. CASE EachMvNext(c, [l EXCEPT !.todo = @ \ {k}])
    <3> DEFINE m == [l EXCEPT !.todo = @ \ {k}]
    <3>1. m \in CallType
      BY <1>1 DEF CallType
    <3>2. /\ m.req = l.req /\ m.server = l.server
          /\ m.at = l.at /\ m.todo = l.todo \ {k} /\ m.del = l.del
      BY <1>1 DEF CallType
    <3>3. IsFiniteSet(m.todo) /\ \A j \in m.todo : Under(j, OldDir(m.req))
      BY <1>1, <2>1, <3>2, FS_RemoveElement DEF TodoInv, ListInv
    <3> HIDE DEF m
    <3> QED
      BY <2>1, <2>3, <3>1, <3>2, <3>3, MvNextEach DEF Good, m
  <2> QED
    BY <1>13, <2>1, <2>2, <2>3 DEF EachMvDelete
<1> QED
  BY <1>6, <1>7, <1>8, <1>9, <1>10, <1>11, <1>12, <1>13 DEF EachStep

LEMMA SharedTodo ==
    ASSUME EachInv, NEW c \in Client, SharedStep(c)
    PROVE  IInv' /\ TodoInv(call'[c]) /\ \A d \in Client \ {c} : call'[d] = call[d]
<1>1. TypeOK /\ CallInv(call[c])
  BY DEF EachInv, IInv
<1>2. CASE LockDst(c)
  <2>1. IInv' /\ CallInv(call'[c]) /\ Fresh(c)
        /\ \A d \in Client \ {c} : call'[d] = call[d]
    BY <1>1, <1>2, LockDstIInv, LockDstEffect, SharedFresh DEF EachInv
  <2> QED
    BY <2>1, FreshTodo
<1>3. CASE ~LockDst(c)
  <2>1. TypeOK' /\ Goes(c) /\ CallInv(call'[c]) /\ Fresh(c)
    BY <1>1, <1>3, SharedStepType, SharedStepGoes, SharedFresh
  <2> QED
    BY <2>1, GoesIInv, FreshTodo DEF EachInv, Goes
<1> QED
  BY <1>2, <1>3

LEMMA EachInvInit == ASSUME Init PROVE EachInv
<1>1. IInv
  BY InitType, InitInv DEF IInv
<1>2. \A c \in Client : TodoInv(call[c])
  BY FS_EmptySet DEF Init, Quiet, TodoInv
<1> QED
  BY <1>1, <1>2 DEF EachInv

LEMMA EachInvStep ==
    ASSUME EachInv, [EachNext]_vars
    PROVE  EachInv'
<1> USE DEF EachInv
<1>1. TodoInv(Quiet)
  BY FS_EmptySet DEF Quiet, TodoInv
<1>2. CASE \E c \in Client, s \in Server, r \in Request : Begin(c, s, r)
  <2>1. PICK c \in Client, s \in Server, r \in Request : Begin(c, s, r)
    BY <1>2
  <2>2. IInv' /\ CallInv(call'[c]) /\ \A d \in Client \ {c} : call'[d] = call[d]
    BY <2>1, BeginIInv, BeginEffect DEF IInv
  <2>3. Fresh(c)
    <3>1. CASE Answer(c, 423)
      BY <3>1, AnswerFresh DEF IInv
    <3>2. CASE ~Answer(c, 423)
      <4> DEFINE l == [Quiet EXCEPT
                     !.pc = IF r.op = "MOVE" THEN "LockDst" ELSE Entry(r),
                     !.req = r, !.server = s, !.at = Target(r),
                     !.body = IF r.op = "PUT" THEN sent + 1 ELSE 0]
      <4>1. call'[c] = l
        BY <2>1, <3>2, BecomeEffect DEF IInv, Begin
      <4>2. l.pc = IF r.op = "MOVE" THEN "LockDst" ELSE Entry(r)
        BY DEF Quiet
      <4> HIDE DEF l
      <4>3. call'[c].pc \in {"LockDst", "OpenMarker", "StatFile"}
        BY <4>1, <4>2 DEF Entry
      <4> QED
        BY <4>3 DEF Fresh, Listing
    <3> QED
      BY <3>1, <3>2
  <2> QED
    BY <2>2, <2>3, FreshTodo DEF TodoInv
<1>3. CASE \E c \in Client : SharedStep(c)
  BY <1>3, SharedTodo DEF TodoInv
<1>4. CASE \E c \in Client : EachStep(c)
  <2>1. PICK c \in Client : EachStep(c)
    BY <1>4
  <2>2. TypeOK' /\ Goes(c) /\ CallInv(call'[c]) /\ TodoInv(call'[c])
    BY <2>1, EachStepGoes
  <2>3. IInv' /\ \A d \in Client \ {c} : call'[d] = call[d]
    BY <2>2, GoesIInv DEF Goes
  <2> QED
    BY <2>2, <2>3 DEF TodoInv
<1>5. CASE \E s \in Server : Crash(s)
  <2>1. IInv' /\ \A c \in Client : call'[c] = Quiet \/ call'[c] = call[c]
    BY <1>5, CrashIInv, CrashEffect DEF IInv
  <2> QED
    BY <1>1, <2>1 DEF TodoInv
<1>6. CASE UNCHANGED vars
  BY <1>6, StutterIInv DEF vars, TodoInv
<1> QED
  BY <1>2, <1>3, <1>4, <1>5, <1>6 DEF EachNext, AllServed

----------------------------------------------------------------------------
\* What the steps do to the bucket.

LEMMA DeletesChanges ==
    ASSUME NEW K, NEW k \in K, Deletes(k)
    PROVE  ChangesOnly(K)
  BY SameChanges, EraseChanges DEF Deletes

LEMMA EachStepChanges ==
    ASSUME EachInv, NEW c \in Client, EachStep(c)
    PROVE  ChangesOnly(InPrefix)
<1>1. TypeOK
  BY DEF EachInv, IInv
<1>2. CASE EachRmFile(c)
  BY <1>1, <1>2, CallInPrefix, DeletesChanges DEF EachRmFile
<1>3. CASE EachRmList(c) \/ EachMvList(c)
  BY <1>3, SameChanges DEF EachRmList, EachMvList
<1>4. CASE EachRmKey(c)
  <2>1. First(call[c].todo) \in InPrefix
    BY <1>1, <1>4, FirstListed, CallInPrefix, BelowInPrefix DEF EachRmKey, At
  <2> QED
    BY <1>4, <2>1, DeletesChanges DEF EachRmKey
<1>5. CASE EachMvFile(c)
  BY <1>1, <1>5, CallInPrefix, CopyChanges DEF EachMvFile
<1>6. CASE EachMvFileDelete(c)
  BY <1>1, <1>6, CallInPrefix, DeletesChanges DEF EachMvFileDelete
<1>7. CASE EachMvCopy(c)
  <2>1. NewKey(call[c].req, First(call[c].todo)) \in InPrefix
    BY <1>1, <1>7, FirstListed, NewKeyInPrefix DEF EachMvCopy, At
  <2> QED
    BY <1>7, <2>1, CopyChanges DEF EachMvCopy
<1>8. CASE EachMvDelete(c)
  <2>1. First(call[c].todo) \in InPrefix
    BY <1>1, <1>8, FirstListed, CallInPrefix, BelowInPrefix DEF EachMvDelete, At
  <2> QED
    BY <1>8, <2>1, DeletesChanges DEF EachMvDelete
<1> QED
  BY <1>2, <1>3, <1>4, <1>5, <1>6, <1>7, <1>8 DEF EachStep

LEMMA EachChanges ==
    ASSUME EachInv, EachNext
    PROVE  ChangesOnly(InPrefix)
<1>1. CASE \E c \in Client, s \in Server, r \in Request : Begin(c, s, r)
  BY <1>1, SameChanges DEF Begin
<1>2. CASE \E c \in Client : SharedStep(c) \/ EachStep(c)
  BY <1>2, SharedStepChanges, EachStepChanges DEF EachInv, IInv
<1>3. CASE \E s \in Server : Crash(s)
  BY <1>3, SameChanges DEF Crash
<1>4. CASE AllServed
  BY <1>4, SameChanges DEF AllServed, vars
<1> QED
  BY <1>1, <1>2, <1>3, <1>4 DEF EachNext

----------------------------------------------------------------------------
\* Losing nothing, object by object: what Rename deletes next is copied.

EachCopyInv(c) ==
    LET r == call[c].req
        k == First(call[c].todo)
    IN
    /\ At(c, "MvFileDelete") => Copied(KeyFor(r.path), KeyFor(r.dst))
    /\ At(c, "MvDelete") => Copied(k, NewKey(r, k))

EachKept ==
    /\ EachInv
    /\ Served
    /\ Markers
    /\ \A c \in Client : EachCopyInv(c)

\* The step leaves c's Rename elsewhere than before a deletion.
NotDeleting(c) == call'[c].pc \notin {"MvFileDelete", "MvDelete"}

LEMMA FreshNotDeleting == ASSUME NEW c, Fresh(c) PROVE NotDeleting(c)
  BY DEF Fresh, NotDeleting, Listing

LEMMA BecomeNotDeleting ==
    ASSUME TypeOK, NEW c \in Client, NEW l \in CallType,
           NEW pc, pc \notin {"MvFileDelete", "MvDelete"},
           Become(c, [l EXCEPT !.pc = pc])
    PROVE  NotDeleting(c)
<1>1. call'[c] = [l EXCEPT !.pc = pc]
  BY BecomeEffect
<1>2. call'[c].pc = pc
  BY <1>1 DEF CallType
<1> QED
  BY <1>2 DEF NotDeleting

LEMMA EachNotDeleting ==
    ASSUME TypeOK, NEW c \in Client,
           \/ SharedStep(c)
           \/ EachRmFile(c) \/ EachRmList(c) \/ EachRmKey(c)
           \/ EachMvFileDelete(c) \/ EachMvList(c) \/ EachMvDelete(c)
    PROVE  NotDeleting(c)
<1> DEFINE l == call[c]
<1>1. l \in CallType
  BY DEF TypeOK
<1>2. \A e : Removed(c, e) \/ Renamed(c, e) => NotDeleting(c)
  BY RemovedFresh, AnswerFresh, FreshNotDeleting DEF Renamed
<1>3. ASSUME NEW m \in CallType, EachRmNext(c, m) \/ EachMvNext(c, m)
      PROVE  NotDeleting(c)
  <2>1. ASSUME NEW pc \in {"RmKey", "RmList", "MvCopy", "MvList"},
               Become(c, [m EXCEPT !.pc = pc])
        PROVE  NotDeleting(c)
    <3>1. pc \notin {"MvFileDelete", "MvDelete"}
      BY <2>1
    <3> QED
      BY <2>1, <3>1, BecomeNotDeleting
  <2>2. CASE \E pc \in {"RmKey", "RmList", "MvCopy", "MvList"} :
               Become(c, [m EXCEPT !.pc = pc])
    BY <2>1, <2>2
  <2>3. CASE \E e : Removed(c, e) \/ Renamed(c, e)
    BY <1>2, <2>3
  <2> QED
    BY <1>3, <2>2, <2>3 DEF EachRmNext, EachMvNext
<1>4. CASE SharedStep(c)
  BY <1>4, SharedFresh, FreshNotDeleting
<1>5. CASE EachRmFile(c)
  <2>1. PICK e \in BOOLEAN :
          Become(c, [l EXCEPT !.pc = "RmList", !.errFile = e])
    BY <1>5 DEF EachRmFile
  <2>2. call'[c] = [l EXCEPT !.pc = "RmList", !.errFile = e]
    BY <2>1, BecomeEffect
  <2>3. call'[c].pc = "RmList"
    BY <1>1, <2>2 DEF CallType
  <2> QED
    BY <2>3 DEF NotDeleting
<1>6. CASE EachRmList(c)
  BY <1>2, <1>3, <1>6, NextPageType DEF EachRmList
<1>7. CASE EachRmKey(c)
  <2> DEFINE k == First(l.todo)
  <2>1. \A e \in BOOLEAN : [l EXCEPT !.todo = @ \ {k}, !.errFile = e] \in CallType
    BY <1>1 DEF CallType
  <2> QED
    BY <1>2, <1>3, <1>7, <2>1 DEF EachRmKey
<1>8. CASE EachMvFileDelete(c)
  BY <1>2, <1>8 DEF EachMvFileDelete
<1>9. CASE EachMvList(c)
  BY <1>2, <1>3, <1>9, NextPageType DEF EachMvList
<1>10. CASE EachMvDelete(c)
  <2> DEFINE k == First(l.todo)
  <2>1. [l EXCEPT !.todo = @ \ {k}] \in CallType
    BY <1>1 DEF CallType
  <2> QED
    BY <1>2, <1>3, <1>10, <2>1 DEF EachMvDelete
<1> QED
  BY <1>4, <1>5, <1>6, <1>7, <1>8, <1>9, <1>10

\* Its own step.
LEMMA EachOwnCopies ==
    ASSUME MovesApart, EachInv, NEW c \in Client, SharedStep(c) \/ EachStep(c)
    PROVE  EachCopyInv(c)'
<1> DEFINE r == call[c].req
<1>1. /\ TypeOK /\ CallInv(call[c]) /\ call[c] \in CallType
  BY DEF EachInv, IInv, TypeOK
<1>2. ASSUME NotDeleting(c)
      PROVE  EachCopyInv(c)'
  BY <1>2 DEF NotDeleting, EachCopyInv, At
<1>3. ASSUME call[c].pc \in Renaming
      PROVE  r \in Request /\ r.op = "MOVE"
  BY <1>1, <1>3 DEF CallInv, MethodInv, Renaming
<1>4. CASE EachMvFile(c)
  <2> DEFINE src == KeyFor(r.path)
             dst == KeyFor(r.dst)
  <2>1. CASE CopyOk(src, dst) /\ Goto(c, "MvFileDelete")
    <3>1. call'[c] = [call[c] EXCEPT !.pc = "MvFileDelete"]
          /\ call'[c].pc = "MvFileDelete"
      BY <1>1, <2>1, GotoEffect
    <3>2. call'[c].req = r
      BY <1>1, <3>1 DEF CallType
    <3>3. src # dst
      BY <1>1, <1>3, <1>4, CallKeys, MoveCovers, MoveDisjoint
         DEF EachMvFile, At, Renaming
    <3>4. dst \in DOMAIN objects' /\ objects'[dst] = objects'[src]
      BY <2>1, <3>3 DEF CopyOk, PutOk, Write
    <3> HIDE DEF src, dst
    <3> QED
      BY <3>1, <3>2, <3>4 DEF EachCopyInv, At, Copied, src, dst
  <2>2. CASE Renamed(c, TRUE)
    BY <1>1, <1>2, <2>2, AnswerFresh, FreshNotDeleting DEF Renamed
  <2>3. CASE Goto(c, "MvList")
    <3>1. call'[c].pc = "MvList"
      BY <1>1, <2>3, GotoEffect
    <3> QED
      BY <1>2, <3>1 DEF NotDeleting
  <2> QED
    BY <1>4, <2>1, <2>2, <2>3 DEF EachMvFile
<1>5. CASE EachMvCopy(c)
  <2> DEFINE k == First(call[c].todo)
             dst == NewKey(r, k)
  <2>1. CASE CopyOk(k, dst) /\ Goto(c, "MvDelete")
    <3>1. call'[c] = [call[c] EXCEPT !.pc = "MvDelete"]
          /\ call'[c].pc = "MvDelete"
      BY <1>1, <2>1, GotoEffect
    <3>2. call'[c].req = r /\ call'[c].todo = call[c].todo
      BY <1>1, <3>1 DEF CallType
    <3>3. k \in Key /\ Under(k, OldDir(r)) /\ r \in Request /\ r.op = "MOVE"
      BY <1>3, <1>5, FirstListed DEF EachMvCopy, At, Renaming
    <3>4. k # dst
      BY <1>1, <3>3, MoveCovers, MoveDisjoint
    <3>5. dst \in DOMAIN objects' /\ objects'[dst] = objects'[k]
      BY <2>1, <3>4 DEF CopyOk, PutOk, Write
    <3> QED
      BY <3>1, <3>2, <3>5 DEF EachCopyInv, At, Copied
  <2>2. CASE Renamed(c, TRUE)
    BY <1>1, <1>2, <2>2, AnswerFresh, FreshNotDeleting DEF Renamed
  <2> QED
    BY <1>5, <2>1, <2>2 DEF EachMvCopy
<1>6. CASE ~EachMvFile(c) /\ ~EachMvCopy(c)
  BY <1>1, <1>2, <1>6, EachNotDeleting DEF EachStep
<1> QED
  BY <1>4, <1>5, <1>6

LEMMA EachOwns ==
    ASSUME EachInv, NEW c \in Client, EachStep(c)
    PROVE  /\ ChangesOnly(Own(c))
           /\ Active(c) /\ ~At(c, "LockDst")
<1>1. /\ TypeOK /\ CallInv(call[c])
  BY DEF EachInv, IInv
<1>2. Active(c) /\ ~At(c, "LockDst")
  BY DEF EachStep, EachRmFile, EachRmList, EachRmKey, EachMvFile,
         EachMvFileDelete, EachMvList, EachMvCopy, EachMvDelete, At, Active
<1>. SUFFICES ChangesOnly(Own(c))
  BY <1>2
<1>3. CASE EachRmFile(c)
  BY <1>1, <1>3, OwnKeys, DeletesChanges DEF EachRmFile, At, Removing
<1>4. CASE EachRmList(c) \/ EachMvList(c)
  BY <1>4, SameChanges DEF EachRmList, EachMvList
<1>5. CASE EachRmKey(c)
  <2>1. First(call[c].todo) \in Own(c)
    BY <1>1, <1>5, FirstListed, OwnKeys DEF EachRmKey, At, Removing
  <2> QED
    BY <1>5, <2>1, DeletesChanges DEF EachRmKey
<1>6. CASE EachMvFile(c)
  <2>1. KeyFor(call[c].req.dst) \in Own(c)
    BY <1>1, <1>6, OwnKeys DEF EachMvFile, At, Renaming
  <2> QED
    BY <1>6, <2>1, CopyChanges DEF EachMvFile
<1>7. CASE EachMvFileDelete(c)
  BY <1>1, <1>7, OwnKeys, DeletesChanges DEF EachMvFileDelete
<1>8. CASE EachMvCopy(c) \/ EachMvDelete(c)
  <2> DEFINE k == First(call[c].todo)
  <2>1. k \in Own(c) /\ NewKey(call[c].req, k) \in Own(c)
    BY <1>1, <1>8, FirstListed, OwnKeys DEF EachMvCopy, EachMvDelete, At, Renaming
  <2> HIDE DEF k
  <2> QED
    BY <1>8, <2>1, CopyChanges, DeletesChanges DEF EachMvCopy, EachMvDelete, k
<1> QED
  BY <1>3, <1>4, <1>5, <1>6, <1>7, <1>8 DEF EachStep

LEMMA EachMarkers ==
    ASSUME MovesApart, EachInv, Markers, NEW c \in Client, EachStep(c)
    PROVE  Markers'
<1>1. /\ TypeOK /\ CallInv(call[c])
  BY DEF EachInv, IInv
<1>2. CASE EachRmFile(c) \/ EachRmKey(c) \/ EachMvFileDelete(c) \/ EachMvDelete(c)
  BY <1>2, EraseMarkers DEF EachRmFile, EachRmKey, EachMvFileDelete,
                            EachMvDelete, Deletes
<1>3. CASE EachRmList(c) \/ EachMvList(c)
  BY <1>3, EraseMarkers DEF EachRmList, EachMvList
<1>4. CASE EachMvFile(c)
  BY <1>1, <1>4, RenameMarkers DEF EachMvFile, At, Renaming
<1>5. CASE EachMvCopy(c)
  BY <1>1, <1>5, FirstListed, RenameMarkers DEF EachMvCopy, At, Renaming
<1> QED
  BY <1>2, <1>3, <1>4, <1>5 DEF EachStep

\* Another request's step.
LEMMA EachOthersCopies ==
    ASSUME MovesApart, OneServer, EachKept, NEW c \in Client, NEW d \in Client,
           c # d, Active(c), ~At(c, "LockDst"), ChangesOnly(Own(c)),
           call'[d] = call[d]
    PROVE  EachCopyInv(d)'
<1> DEFINE r == call[d].req
           k == First(call[d].todo)
<1>1. TypeOK /\ IInv /\ Served /\ EachInv /\ EachCopyInv(d)
  BY DEF EachKept, EachInv, IInv
<1>2. ASSUME At(d, "MvFileDelete")
      PROVE  CopiedThen(KeyFor(r.path), KeyFor(r.dst))
  <2>1. /\ KeyFor(r.path) \in Key /\ Covers(r.path, KeyFor(r.path))
        /\ KeyFor(r.dst) \in Key /\ Covers(r.dst, KeyFor(r.dst))
        /\ Copied(KeyFor(r.path), KeyFor(r.dst)) /\ call[d].pc \in Renaming
    BY <1>1, <1>2, MoveCovers, CallKeys DEF EachCopyInv, At, Renaming
  <2> QED
    BY <1>1, <2>1, OthersCopied
<1>3. ASSUME At(d, "MvDelete")
      PROVE  CopiedThen(k, NewKey(r, k))
  <2>1. k \in Key /\ Under(k, OldDir(r)) /\ call[d].pc \in Renaming
    BY <1>1, <1>3, FirstListed DEF At, Renaming
  <2>2. /\ Covers(r.path, k) /\ NewKey(r, k) \in Key
        /\ Covers(r.dst, NewKey(r, k)) /\ Copied(k, NewKey(r, k))
    BY <1>1, <1>3, <2>1, MoveCovers DEF EachCopyInv
  <2> QED
    BY <1>1, <2>1, <2>2, OthersCopied
<1> QED
  BY <1>2, <1>3 DEF EachCopyInv, At, Copied, CopiedThen

LEMMA EachSameCopies ==
    ASSUME NEW d \in Client, EachCopyInv(d), UNCHANGED objects, call'[d] = call[d]
    PROVE  EachCopyInv(d)'
  BY DEF EachCopyInv, At, Copied

LEMMA EachKeptInit ==
    ASSUME SeedMarkers, Init
    PROVE  EachKept
<1>1. Served /\ \A c \in Client : EachCopyInv(c)
  BY DEF Init, Quiet, Served, Active, EachCopyInv, At
<1>2. Markers
  BY DEF Init, SeedMarkers, Markers
<1> QED
  BY <1>1, <1>2, EachInvInit DEF EachKept

LEMMA EachKeptStep ==
    ASSUME MovesApart, OneServer, EachKept, [EachNext]_vars
    PROVE  EachKept'
<1>1. EachInv' /\ EachInv /\ IInv /\ TypeOK /\ Served /\ Markers
      /\ \A c \in Client : CallInv(call[c]) /\ EachCopyInv(c)
  BY EachInvStep DEF EachKept, EachInv, IInv
<1>2. CASE \E c \in Client, s \in Server, r \in Request : Begin(c, s, r)
  <2>1. PICK c \in Client, s \in Server, r \in Request : Begin(c, s, r)
    BY <1>2
  <2>2. /\ \A d \in Client \ {c} : call'[d] = call[d]
        /\ UNCHANGED objects
        /\ CallInv(call'[c])
        /\ \/ call'[c].pc = "idle"
           \/ /\ call'[c].req = r
              /\ call'[c].pc = "LockDst" <=> r.op = "MOVE"
    BY <1>1, <2>1, BeginEffect
  <2>3. NotDeleting(c)
    BY <2>2 DEF NotDeleting, CallInv, MethodInv, Renaming
  <2>4. \A d \in Client : EachCopyInv(d)'
    BY <1>1, <2>2, <2>3, EachSameCopies DEF NotDeleting, EachCopyInv, At
  <2>5. Served'
    BY <1>1, <2>1, BeginServed
  <2> QED
    BY <1>1, <2>2, <2>4, <2>5 DEF EachKept, Markers
<1>3. CASE \E c \in Client : SharedStep(c) \/ EachStep(c)
  <2>1. PICK c \in Client : SharedStep(c) \/ EachStep(c)
    BY <1>3
  <2>2. EachCopyInv(c)' /\ Markers'
    BY <1>1, <2>1, EachOwnCopies, SharedMarkers, EachMarkers
  <2>3. CASE LockDst(c)
    <3>1. \A d \in Client \ {c} : call'[d] = call[d] /\ UNCHANGED objects
      BY <1>1, <2>3, LockDstEffect
    <3>2. Served'
      BY <1>1, <2>3, LockDstServed
    <3>3. \A d \in Client : EachCopyInv(d)'
      BY <1>1, <2>2, <3>1, EachSameCopies
    <3> QED
      BY <1>1, <2>2, <3>2, <3>3 DEF EachKept
  <2>4. CASE ~LockDst(c)
    <3>1. Goes(c) /\ ChangesOnly(Own(c))
      BY <1>1, <2>1, <2>4, SharedStepGoes, EachStepGoes, SharedOwns, EachOwns
    <3>2. Active(c) /\ ~At(c, "LockDst")
      <4>1. CASE SharedStep(c)
        BY <2>4, <4>1 DEF SharedStep, StatFile, StatMarker, StatList, PutMarker,
                          OpenMarker, OpenList, Upload, At, Active
      <4> QED
        BY <1>1, <2>1, <4>1, EachOwns
    <3>3. Served'
      BY <1>1, <3>1, GoesServed
    <3>4. \A d \in Client : EachCopyInv(d)'
      BY <2>2, <3>1, <3>2, EachOthersCopies DEF Goes
    <3> QED
      BY <1>1, <2>2, <3>3, <3>4 DEF EachKept
  <2> QED
    BY <2>3, <2>4
<1>4. CASE \E s \in Server : Crash(s)
  <2>1. UNCHANGED objects
        /\ \A c \in Client : call'[c] = Quiet \/ call'[c] = call[c]
    BY <1>1, <1>4, CrashEffect
  <2>2. Served'
    BY <1>1, <1>4, CrashServed
  <2>3. ASSUME NEW c \in Client
        PROVE  EachCopyInv(c)'
    <3>1. CASE call'[c] = Quiet
      BY <3>1 DEF EachCopyInv, At, Quiet
    <3>2. CASE call'[c] = call[c]
      BY <1>1, <2>1, <3>2, EachSameCopies
    <3> QED
      BY <2>1, <3>1, <3>2
  <2> QED
    BY <1>1, <2>1, <2>2, <2>3 DEF EachKept, Markers
<1>5. CASE UNCHANGED vars
  <2>1. \A c \in Client : EachCopyInv(c)'
    BY <1>1, <1>5, EachSameCopies DEF vars
  <2> QED
    BY <1>1, <1>5, <2>1 DEF vars, EachKept, Served, Active, Markers
<1> QED
  BY <1>2, <1>3, <1>4, <1>5 DEF EachNext, AllServed

LEMMA DeletesStays ==
    ASSUME NEW j, Deletes(j), NEW k \in DOMAIN objects, k # j
    PROVE  Stays(k)
  BY DEF Deletes, Erase, Stays

LEMMA EachStepKeeps ==
    ASSUME MovesApart, EachKept, NEW c \in Client, EachStep(c),
           NEW k \in DOMAIN objects
    PROVE  Stays(k) \/ Asked(c, k) \/ Moved(c, k)
<1> DEFINE r == call[c].req
           f == First(call[c].todo)
<1>1. /\ TypeOK /\ EachInv /\ CallInv(call[c]) /\ call[c] \in CallType
      /\ EachCopyInv(c) /\ k \in Key
      /\ r.path \in Path /\ r.dst \in Path /\ call[c].at \in Path
  BY DEF EachKept, EachInv, IInv, TypeOK, IsStore, CallType, RequestType
<1>2. CASE EachRmList(c) \/ EachMvList(c)
  BY <1>2 DEF EachRmList, EachMvList, Stays
<1>3. CASE EachRmFile(c)
  <2>1. CASE k = KeyFor(call[c].at)
    BY <1>1, <1>3, <2>1, DirKeyCovered, RemovingAsked DEF EachRmFile, At, Removing
  <2>2. CASE k # KeyFor(call[c].at)
    BY <1>3, <2>2, DeletesStays DEF EachRmFile
  <2> QED
    BY <2>1, <2>2
<1>4. CASE EachRmKey(c)
  <2>1. CASE k = f
    <3>1. call[c].pc \in Removing /\ Covers(call[c].at, k)
      BY <1>1, <1>4, <2>1, FirstListed DEF EachRmKey, At, Removing, Covers
    <3> QED
      BY <1>1, <3>1, RemovingAsked
  <2>2. CASE k # f
    BY <1>4, <2>2, DeletesStays DEF EachRmKey
  <2> QED
    BY <2>1, <2>2
<1>5. CASE EachMvFile(c)
  <2>1. CASE k = KeyFor(r.dst)
    BY <1>1, <1>5, <2>1, DirKeyCovered, RenamingAsked DEF EachMvFile, At, Renaming
  <2>2. CASE k # KeyFor(r.dst)
    BY <1>5, <2>2, CopyStays DEF EachMvFile
  <2> QED
    BY <2>1, <2>2
<1>6. CASE EachMvFileDelete(c)
  <2> DEFINE src == KeyFor(r.path)
             dst == KeyFor(r.dst)
  <2>1. CASE k = src
    <3>1. r \in Request /\ r.op = "MOVE" /\ Active(c)
      BY <1>1, <1>6 DEF EachMvFileDelete, At, CallInv, MethodInv, Renaming, Active
    <3>2. src # dst
      BY <1>1, <3>1, CallKeys, MoveCovers, MoveDisjoint
    <3>3. dst \in DOMAIN objects /\ objects[dst] = objects[src]
      BY <1>1, <1>6, <2>1 DEF EachMvFileDelete, EachCopyInv, Copied
    <3>4. Stays(dst)
      BY <1>6, <3>2, <3>3, DeletesStays DEF EachMvFileDelete
    <3>5. Moves(c, k, dst)
      BY <2>1, <3>1 DEF Moves
    <3> QED
      BY <2>1, <3>3, <3>4, <3>5 DEF Stays, Moved
  <2>2. CASE k # src
    BY <1>6, <2>2, DeletesStays DEF EachMvFileDelete
  <2> QED
    BY <2>1, <2>2
<1>7. CASE EachMvCopy(c)
  <2>1. CASE k = NewKey(r, f)
    <3>1. call[c].pc \in Renaming /\ f \in Key /\ Under(f, OldDir(r))
      BY <1>1, <1>7, FirstListed DEF EachMvCopy, At, Renaming
    <3> QED
      BY <1>1, <2>1, <3>1, MoveCovers, RenamingAsked
  <2>2. CASE k # NewKey(r, f)
    BY <1>7, <2>2, CopyStays DEF EachMvCopy
  <2> QED
    BY <2>1, <2>2
<1>8. CASE EachMvDelete(c)
  <2> DEFINE j == NewKey(r, k)
  <2>1. CASE k = f
    <3>1. r \in Request /\ r.op = "MOVE" /\ Active(c)
      BY <1>1, <1>8 DEF EachMvDelete, At, CallInv, MethodInv, Renaming, Active
    <3>2. Under(k, OldDir(r))
      BY <1>1, <1>8, <2>1, FirstListed DEF EachMvDelete, At
    <3>3. k # j
      BY <1>1, <3>1, <3>2, MoveCovers, MoveDisjoint
    <3>4. j \in DOMAIN objects /\ objects[j] = objects[k]
      BY <1>1, <1>8, <2>1 DEF EachMvDelete, EachCopyInv, Copied
    <3>5. Stays(j)
      BY <1>8, <2>1, <3>3, <3>4, DeletesStays DEF EachMvDelete
    <3>6. Moves(c, k, j)
      BY <3>1, <3>2 DEF Moves
    <3> QED
      BY <3>4, <3>5, <3>6 DEF Stays, Moved
  <2>2. CASE k # f
    BY <1>8, <2>2, DeletesStays DEF EachMvDelete
  <2> QED
    BY <2>1, <2>2
<1> QED
  BY <1>2, <1>3, <1>4, <1>5, <1>6, <1>7, <1>8 DEF EachStep

LEMMA EachKeeps ==
    ASSUME MovesApart, EachKept, EachNext
    PROVE  KeptOrAsked
<1>1. CASE UNCHANGED objects
  BY <1>1 DEF KeptOrAsked
<1>2. CASE \E c \in Client, s \in Server, r \in Request : Begin(c, s, r)
  BY <1>1, <1>2 DEF Begin
<1>3. CASE \E c \in Client : SharedStep(c) \/ EachStep(c)
  <2>1. PICK c \in Client : SharedStep(c) \/ EachStep(c)
    BY <1>3
  <2>2. \A k \in DOMAIN objects : Stays(k) \/ Asked(c, k) \/ Moved(c, k)
    BY <2>1, SharedKeeps, EachStepKeeps DEF EachKept, EachInv, IInv
  <2> QED
    BY <2>2 DEF KeptOrAsked, Stays, Moved
<1>4. CASE \E s \in Server : Crash(s)
  BY <1>1, <1>4 DEF Crash
<1>5. CASE AllServed
  BY <1>1, <1>5 DEF AllServed, vars
<1> QED
  BY <1>2, <1>3, <1>4, <1>5 DEF EachNext
----------------------------------------------------------------------------
\* What the answers promise, as long as no call has failed.

NoFile(p) == KeyFor(p) \notin DOMAIN objects

NoDir(p) == \A k \in DOMAIN objects : ~Under(k, WithSlash(KeyFor(p)))

Vacant(p) == NoFile(p) /\ NoDir(p)

\* No path of a request names both an object and a folder.
Clashless ==
    \A r \in Request : \A p \in PathsOf(r) : p # <<>> => NoFile(p) \/ NoDir(p)

SeedClashless ==
    \A o \in Seed, r \in Request : \A p \in PathsOf(r) :
        p # <<>> => \/ KeyFor(p) \notin DOMAIN o
                    \/ \A k \in DOMAIN o : ~Under(k, WithSlash(KeyFor(p)))

\* The loop with record l has k in hand, or will list it.
InHand(l, k) ==
    \/ k \in l.del
    \/ l.pc \in {"RmKey", "MvCopy", "MvDelete"} /\ k \in l.todo
    \/ l.pc \in {"RmList", "MvList"} /\ Before(l.cursor, k)
    \/ l.pc \in {"RmKey", "MvCopy", "MvDelete"} /\ l.more /\ Before(l.cursor, k)

\* What c has seen of the bucket is still so.
SeenInv(c) ==
    LET l == call[c]
        r == l.req
    IN
    /\ l.pc \notin Listing => l.cursor = <<>>
    /\ l.pc \in {"StatMarker", "StatList"} =>
          l.at # <<>> /\ (l.at \in PathsOf(r) => NoFile(l.at))
    /\ r.op = "MKCOL" /\ l.pc \in Stating /\ l.at # r.path => Vacant(r.path)
    /\ l.pc = "PutMarker" => Vacant(r.path)
    /\ l.pc = "Upload" => NoDir(r.path)
    /\ l.pc = "MvFile" => Vacant(r.dst)
    /\ l.pc \in Removing /\ r.op = "MOVE" => r.over
    /\ l.pc \in {"RmList", "RmKey", "RmBatch"} =>
          /\ NoFile(l.at)
          /\ \A k \in Listed(WithSlash(KeyFor(l.at))) : InHand(l, k)

\* What a Rename with record l has still to copy.
ToCopy(l, k) ==
    \/ Before(l.cursor, k)
    \/ l.pc = "MvCopy" /\ k \in l.todo
    \/ l.pc = "MvDelete" /\ k \in l.todo \ {First(l.todo)}

\* c's Rename overwrites nothing.
NewInv(c) ==
    LET l == call[c]
        r == l.req
    IN  l.pc \in {"MvList", "MvCopy", "MvDelete"} =>
          /\ \A k \in l.todo : k \in Listed(OldDir(r)) /\ ~Before(l.cursor, k)
          /\ \A k \in Listed(OldDir(r)) :
                ToCopy(l, k) => NewKey(r, k) \notin DOMAIN objects

\* c's Rename has left nothing behind.
MovedInv(c) ==
    LET l == call[c]
        r == l.req
    IN
    /\ l.pc = "MvFileDelete" => NoDir(r.path) /\ NoDir(r.dst)
    /\ l.pc \in {"MvList", "MvCopy", "MvDelete", "MvBatch"} =>
          /\ NoFile(r.dst)
          /\ \A k \in Listed(OldDir(r)) : InHand(l, k)

\* It found no object of its source's name...
GoneInv(c) ==
    LET r == call[c].req IN
    call[c].pc \in {"MvList", "MvCopy", "MvDelete", "MvBatch"} => NoFile(r.path)

\* ... or took an error for that, and lists a folder that is not there.
MissedInv(c) ==
    LET r == call[c].req IN
    call[c].pc \in {"MvList", "MvCopy", "MvDelete", "MvBatch"} =>
        NoFile(r.path)
        \/ (call[c].pc = "MvList" /\ NoDir(r.path) /\ call[c].del = {})

LEMMA VacantCovers ==
    ASSUME NEW p
    PROVE  Vacant(p) <=> \A k \in DOMAIN objects : ~Covers(p, k)
  BY DEF Vacant, NoFile, NoDir, Covers

LEMMA PathsMovesApart == PathsApart => MovesApart
  BY DEF PathsApart, MovesApart

\* The step leaves every object at p and below it, and adds none.
AsBefore(p) ==
    \A k \in Key : Covers(p, k) =>
        /\ k \in DOMAIN objects <=> k \in DOMAIN objects'
        /\ k \in DOMAIN objects => Stays(k)

LEMMA SameAsBefore == ASSUME NEW p, UNCHANGED objects PROVE AsBefore(p)
  BY DEF AsBefore, Stays

\* A request changes nothing at a path it does not name.
LEMMA ElsewhereAsBefore ==
    ASSUME PathsApart, NEW c \in Client, ChangesOnly(Own(c)),
           call[c].req \in Request,
           NEW r \in Request, NEW p \in PathsOf(r), p \notin PathsOf(call[c].req)
    PROVE  AsBefore(p)
<1>1. ASSUME NEW k \in Key, Covers(p, k), NEW q \in PathsOf(call[c].req)
      PROVE  ~Covers(q, k)
  <2>1. Apart(p, q)
    BY DEF PathsApart
  <2>2. p \in Path /\ q \in Path
    BY RequestAssumption DEF RequestType, PathsOf
  <2> QED
    BY <1>1, <2>1, <2>2, ApartCovers
<1>2. \A k \in Key : Covers(p, k) => k \notin Own(c)
  BY <1>1 DEF Own
<1> QED
  BY <1>2 DEF AsBefore, ChangesOnly, Stays

\* Two requests past their locks name no common path.
LEMMA OthersAsBefore ==
    ASSUME PathsApart, OneServer, IInv, Served, NEW c \in Client, NEW d \in Client,
           c # d, Active(c), ~At(c, "LockDst"), ChangesOnly(Own(c)),
           Active(d), ~At(d, "LockDst"), NEW p \in PathsOf(call[d].req)
    PROVE  AsBefore(p)
<1>1. call[c].req \in Request /\ call[d].req \in Request
      /\ call[c].server = call[d].server
  BY DEF IInv, CallInv, MethodInv, Active, Served, OneServer
<1>2. PathsOf(call[c].req) \cap PathsOf(call[d].req) = {}
  BY <1>1, LockInvExcludes DEF IInv, LockExclusion
<1> QED
  BY <1>1, <1>2, ElsewhereAsBefore

\* What c has seen outlives a step that leaves its paths alone.
LEMMA SeenAsBefore ==
    ASSUME IInv, TypeOK', NEW d \in Client, call'[d] = call[d],
           Active(d) /\ ~At(d, "LockDst") =>
               \A p \in PathsOf(call[d].req) : AsBefore(p)
    PROVE  /\ SeenInv(d) => SeenInv(d)'
           /\ NewInv(d) => NewInv(d)'
           /\ MovedInv(d) => MovedInv(d)'
           /\ GoneInv(d) => GoneInv(d)'
           /\ MissedInv(d) => MissedInv(d)'
<1> DEFINE l == call[d]
           r == l.req
<1>1. /\ MethodInv(l) /\ l \in CallType
      /\ DOMAIN objects \subseteq Key /\ DOMAIN objects' \subseteq Key
  BY DEF IInv, CallInv, TypeOK, IsStore
<1>2. l.at \in Path /\ r.path \in Path /\ r.dst \in Path
  BY <1>1 DEF CallType, RequestType
<1>3. ASSUME NEW p \in Path, AsBefore(p)
      PROVE  /\ NoFile(p)' <=> NoFile(p)
             /\ NoDir(p)' <=> NoDir(p)
             /\ Vacant(p)' <=> Vacant(p)
             /\ Listed(WithSlash(KeyFor(p)))' = Listed(WithSlash(KeyFor(p)))
  <2>1. KeyFor(p) \in Key
    BY KeyForType
  <2> QED
    BY <1>1, <1>3, <2>1 DEF AsBefore, NoFile, NoDir, Vacant, Covers, Listed
<1>4. ASSUME NEW p \in Path, AsBefore(p)
      PROVE  \A k \in Key : Under(k, AddSlash(KeyFor(p))) =>
                (k \in DOMAIN objects <=> k \in DOMAIN objects')
  BY <1>4, BelowCovered DEF AsBefore
<1>5. CASE l.pc \in {"idle", "LockDst"}
  BY <1>1, <1>5 DEF SeenInv, NewInv, MovedInv, GoneInv, MissedInv,
                        Stating, Removing, Listing
<1>6. CASE l.pc \notin {"idle", "LockDst"}
  <2>1. \A p \in PathsOf(r) : AsBefore(p)
    BY <1>6 DEF Active, At
  <2>2. r.path \in PathsOf(r) /\ (r.op = "MOVE" => r.dst \in PathsOf(r))
    BY DEF PathsOf
  <2>3. l.pc \in Removing => l.at \in PathsOf(r)
    BY <1>1 DEF MethodInv, Removing, Target, PathsOf
  <2>4. l.pc \in Renaming => r.op = "MOVE"
    BY <1>1 DEF MethodInv
  <2>5. SeenInv(d) => SeenInv(d)'
    <3>1. l.pc \in {"RmList", "RmKey", "RmBatch"} => l.pc \in Removing
      BY DEF Removing
    <3>2. l.pc = "MvFile" => l.pc \in Renaming
      BY DEF Renaming
    <3> QED
      BY <1>2, <1>3, <2>1, <2>2, <2>3, <2>4, <3>1, <3>2 DEF SeenInv, InHand
  <2>6. l.pc \in {"MvFileDelete", "MvList", "MvCopy", "MvDelete", "MvBatch"} =>
            /\ NoFile(r.path)' <=> NoFile(r.path)
            /\ NoDir(r.path)' <=> NoDir(r.path)
            /\ NoFile(r.dst)' <=> NoFile(r.dst)
            /\ NoDir(r.dst)' <=> NoDir(r.dst)
            /\ Listed(OldDir(r))' = Listed(OldDir(r))
            /\ \A k \in Listed(OldDir(r)) :
                  NewKey(r, k) \in DOMAIN objects' <=> NewKey(r, k) \in DOMAIN objects
    <3> SUFFICES ASSUME l.pc \in Renaming
                 PROVE  /\ NoFile(r.path)' <=> NoFile(r.path)
                        /\ NoDir(r.path)' <=> NoDir(r.path)
                        /\ NoFile(r.dst)' <=> NoFile(r.dst)
                        /\ NoDir(r.dst)' <=> NoDir(r.dst)
                        /\ Listed(OldDir(r))' = Listed(OldDir(r))
                        /\ \A k \in Listed(OldDir(r)) :
                              NewKey(r, k) \in DOMAIN objects'
                                  <=> NewKey(r, k) \in DOMAIN objects
      BY DEF Renaming
    <3>1. AsBefore(r.path) /\ AsBefore(r.dst)
      BY <2>1, <2>2, <2>4
    <3>2. Listed(OldDir(r))' = Listed(OldDir(r))
      BY <1>1, <1>2, <1>4, <3>1 DEF Listed, OldDir
    <3>3. \A k \in Listed(OldDir(r)) :
              NewKey(r, k) \in Key /\ Covers(r.dst, NewKey(r, k))
      BY <1>1, MoveCovers DEF Listed, IInv
    <3> QED
      BY <1>2, <1>3, <3>1, <3>2, <3>3 DEF AsBefore
  <2>7. NewInv(d) => NewInv(d)'
    BY <2>6 DEF NewInv, ToCopy
  <2>8. MovedInv(d) => MovedInv(d)'
    BY <2>6 DEF MovedInv, InHand
  <2>9. (GoneInv(d) => GoneInv(d)') /\ (MissedInv(d) => MissedInv(d)')
    BY <2>6 DEF GoneInv, MissedInv
  <2> QED
    BY <2>5, <2>7, <2>8, <2>9
<1> QED
  BY <1>5, <1>6

----------------------------------------------------------------------------
\* The answers, and the steps every backend shares.

\* Nothing at p, and nothing below it, is left by the step.
EmptyThen(p) == \A k \in DOMAIN objects' : ~Covers(p, k)

DeletePromise(c) ==
    Answers(c, "DELETE", {204}) => EmptyThen(call[c].req.path)

AbsentPromise(c) == Answers(c, "DELETE", {404}) => Vacant(call[c].req.path)

MovePromise(c) ==
    Answers(c, "MOVE", {201, 204}) => EmptyThen(call[c].req.path)

\* What is at the destination of c's MOVE stays, unless it may overwrite.
OverwritePromise(c) ==
    LET r == call[c].req IN
    ~At(c, "LockDst") /\ r.op = "MOVE" /\ ~r.over
        => \A k \in DOMAIN objects : Covers(r.dst, k) => Stays(k)

LEMMA NoBreak ==
    ASSUME TypeOK, faults' = 0
    PROVE  ~Breaks /\ (Works \/ UNCHANGED faults => faults = 0)
  BY BoundAssumption DEF TypeOK, Breaks, Works

LEMMA AnswerSeen ==
    ASSUME TypeOK, NEW c \in Client, NEW s, Answer(c, s)
    PROVE  /\ call'[c].pc = "idle" /\ call'[c].reply = s
           /\ SeenInv(c)' /\ NewInv(c)' /\ MovedInv(c)'
<1>1. call'[c] = [Quiet EXCEPT !.reply = s]
  BY BecomeEffect DEF Answer
<1>2. call'[c].pc = "idle" /\ call'[c].reply = s /\ call'[c].cursor = <<>>
  BY <1>1 DEF Quiet
<1> QED
  BY <1>2 DEF SeenInv, NewInv, MovedInv, Stating, Removing, Listing

\* Going on with the record m at pc.
LEMMA BecomeFields ==
    ASSUME TypeOK, NEW c \in Client, NEW m \in CallType, NEW pc,
           Become(c, [m EXCEPT !.pc = pc])
    PROVE  /\ call'[c].pc = pc /\ call'[c].req = m.req /\ call'[c].at = m.at
           /\ call'[c].cursor = m.cursor /\ call'[c].more = m.more
           /\ call'[c].todo = m.todo /\ call'[c].del = m.del
<1>1. call'[c] = [m EXCEPT !.pc = pc]
  BY BecomeEffect
<1> QED
  BY <1>1 DEF CallType

LEMMA GotoFields ==
    ASSUME TypeOK, NEW c \in Client, NEW pc, Goto(c, pc)
    PROVE  /\ call'[c].pc = pc /\ call'[c].req = call[c].req
           /\ call'[c].at = call[c].at /\ call'[c].cursor = call[c].cursor
           /\ call'[c].more = call[c].more /\ call'[c].todo = call[c].todo
           /\ call'[c].del = call[c].del
<1>1. call[c] \in CallType
  BY DEF TypeOK
<1> QED
  BY <1>1, BecomeFields DEF Goto

\* A named path has one folder key.
LEMMA OneFolder ==
    ASSUME NEW p \in Path, p # <<>>
    PROVE  /\ WithSlash(KeyFor(p)) = AddSlash(KeyFor(p))
           /\ KeyFor(p) # RootKey
           /\ ~Under(KeyFor(p), AddSlash(KeyFor(p)))
<1>1. KeyFor(p) \in Key /\ ~EndsInSlash(KeyFor(p)) /\ Len(KeyFor(p)) \in Nat \ {0}
  BY NamedKey, KeyForType, KeyParts
<1>2. Len(AddSlash(KeyFor(p))) = Len(KeyFor(p)) + 1
  BY <1>1, AddSlashKey
<1>3. KeyFor(p) # RootKey
  <2>1. /\ Len(KeyFor(p)) = Len(Prefix) + Len(p)
        /\ KeyFor(p)[Len(Prefix) + Len(p)] = p[Len(p)]
        /\ p[Len(p)] \in Name /\ Len(p) \in Nat \ {0} /\ Len(Prefix) \in Nat
    BY KeyForKey, PathIsSeq, PrefixIsSeq, EmptySeq DEF Path
  <2>2. Len(RootKey) = Len(Prefix) + 1 /\ RootKey[Len(Prefix) + 1] = Empty
    BY RootKeyKey
  <2> QED
    BY <2>1, <2>2, NameAssumption
<1> QED
  BY <1>1, <1>2, <1>3 DEF WithSlash, Under

\* What Stat found is what the method goes by.
LEMMA StattedSeen ==
    ASSUME TypeOK, NEW c \in Client, CallInv(call[c]), call[c].pc \in Stating,
           SeenInv(c), UNCHANGED objects, NEW kind, Statted(c, kind),
           kind = "none" /\ call[c].at \in PathsOf(call[c].req)
               => Vacant(call[c].at)
    PROVE  /\ SeenInv(c)' /\ call'[c].pc \notin Renaming \ {"MvFile"}
           /\ DeletePromise(c) /\ AbsentPromise(c) /\ MovePromise(c)
<1> DEFINE l == call[c]
           r == l.req
<1>1. /\ l \in CallType /\ MethodInv(l) /\ l.cursor = <<>>
      /\ r.path \in PathsOf(r)
  BY DEF TypeOK, CallInv, SeenInv, Stating, Listing, PathsOf
<1>2. ASSUME NEW pc \in {"RmFile", "PutMarker"}, Goto(c, pc),
             pc = "RmFile" /\ r.op = "MOVE" => r.over,
             pc = "PutMarker" => Vacant(r.path)
      PROVE  SeenInv(c)' /\ call'[c].pc = pc
  <2>1. /\ call'[c].pc = pc /\ call'[c].req = r /\ call'[c].at = l.at
        /\ call'[c].cursor = l.cursor
    BY <1>1, <1>2, GotoFields
  <2> QED
    BY <1>1, <1>2, <2>1 DEF SeenInv, Vacant, NoFile, NoDir, Stating, Removing,
                            Listing
<1>3. CASE DeleteStatted(c, kind)
  <2>1. r.op = "DELETE" /\ l.at = r.path
    BY <1>1, <1>3 DEF DeleteStatted, MethodInv, Target, Stating
  <2>2. CASE Answer(c, 404) /\ kind = "none"
    <3>1. call'[c].pc = "idle" /\ call'[c].reply = 404 /\ SeenInv(c)'
      BY <2>2, AnswerSeen
    <3> QED
      BY <1>1, <2>1, <2>2, <3>1 DEF Answers, DeletePromise, AbsentPromise,
                                    MovePromise, Renaming
  <2>3. CASE Goto(c, "RmFile")
    BY <1>2, <2>1, <2>3 DEF Answers, DeletePromise, AbsentPromise, MovePromise,
                            Renaming
  <2> QED
    BY <1>3, <2>2, <2>3 DEF DeleteStatted
<1>4. CASE MoveStatted(c, kind)
  <2>1. r.op = "MOVE" /\ l.at = r.dst /\ l.at \in PathsOf(r)
    BY <1>1, <1>4 DEF MoveStatted, MethodInv, Target, Stating, PathsOf
  <2>2. CASE Answer(c, 412)
    <3>1. call'[c].pc = "idle" /\ call'[c].reply = 412 /\ SeenInv(c)'
      BY <2>2, AnswerSeen
    <3> QED
      BY <2>1, <3>1 DEF Answers, DeletePromise, AbsentPromise, MovePromise, Renaming
  <2>3. CASE r.over /\ Goto(c, "RmFile")
    BY <1>2, <2>1, <2>3 DEF Answers, DeletePromise, AbsentPromise, MovePromise,
                            Renaming
  <2>4. CASE /\ kind = "none"
             /\ Become(c, [l EXCEPT !.pc = "MvFile", !.created = TRUE])
    <3>1. call'[c] = [l EXCEPT !.pc = "MvFile", !.created = TRUE]
      BY <2>4, BecomeEffect
    <3>2. /\ call'[c].pc = "MvFile" /\ call'[c].req = r
          /\ call'[c].cursor = <<>>
      BY <1>1, <3>1 DEF CallType
    <3>3. SeenInv(c)'
      BY <2>1, <2>4, <3>2 DEF SeenInv, Vacant, NoFile, NoDir, Stating, Removing,
                              Listing
    <3> QED
      BY <3>2, <3>3 DEF Answers, DeletePromise, AbsentPromise, MovePromise, Renaming
  <2> QED
    BY <1>4, <2>2, <2>3, <2>4 DEF MoveStatted
<1>5. CASE MkdirStatted(c, kind)
  <2>1. r.op = "MKCOL"
    BY <1>5 DEF MkdirStatted
  <2>2. SUFFICES SeenInv(c)' /\ call'[c].pc \notin Renaming \ {"MvFile"}
    BY <2>1 DEF Answers, DeletePromise, AbsentPromise, MovePromise
  <2>3. CASE Answer(c, 405) \/ Answer(c, 409)
    <3>1. call'[c].pc = "idle" /\ SeenInv(c)'
      BY <2>3, AnswerSeen
    <3> QED
      BY <3>1 DEF Renaming
  <2>4. CASE Goto(c, "PutMarker") /\ (l.at = r.path => kind = "none")
    <3>1. Vacant(r.path)
      BY <1>1, <1>5, <2>1, <2>4 DEF MkdirStatted, SeenInv
    <3> QED
      BY <1>2, <2>4, <3>1 DEF Renaming
  <2>5. CASE /\ l.at = r.path /\ kind = "none"
             /\ Become(c, [l EXCEPT !.pc = "StatFile", !.at = ParentDir(r.path)])
    <3>1. call'[c] = [l EXCEPT !.pc = "StatFile", !.at = ParentDir(r.path)]
      BY <2>5, BecomeEffect
    <3>2. /\ call'[c].pc = "StatFile" /\ call'[c].req = r
          /\ call'[c].cursor = <<>>
      BY <1>1, <3>1 DEF CallType
    <3>3. SeenInv(c)'
      BY <1>1, <2>5, <3>2 DEF SeenInv, Vacant, NoFile, NoDir, Stating, Removing,
                              Listing
    <3> QED
      BY <3>2, <3>3 DEF Renaming
  <2>6. \/ Answer(c, 405) \/ Answer(c, 409)
        \/ Goto(c, "PutMarker") /\ (l.at = r.path => kind = "none")
        \/ /\ l.at = r.path /\ kind = "none"
           /\ Become(c, [l EXCEPT !.pc = "StatFile", !.at = ParentDir(r.path)])
    BY <1>5 DEF MkdirStatted
  <2> QED
    BY <2>3, <2>4, <2>5, <2>6
<1> QED
  BY <1>3, <1>4, <1>5 DEF Statted

LEMMA SharedSeen ==
    ASSUME TypeOK, NEW c \in Client, CallInv(call[c]), SharedStep(c),
           faults' = 0, SeenInv(c)
    PROVE  /\ SeenInv(c)' /\ NewInv(c)' /\ MovedInv(c)'
           /\ DeletePromise(c) /\ AbsentPromise(c) /\ MovePromise(c)
           /\ OverwritePromise(c)
<1> DEFINE l == call[c]
           r == l.req
<1>1. /\ l \in CallType /\ MethodInv(l) /\ l.at \in Path /\ r.path \in Path
      /\ ~Breaks /\ DOMAIN objects \subseteq Key
  BY NoBreak DEF TypeOK, CallInv, CallType, RequestType, IsStore
<1>2. NewInv(c)' /\ MovedInv(c)'
  <2>1. Fresh(c)
    BY SharedFresh
  <2> QED
    BY <2>1 DEF Fresh, Listing, NewInv, MovedInv
<1>3. ASSUME l.pc \in Stating \cup {"LockDst"}
      PROVE  UNCHANGED objects
  BY <1>3 DEF SharedStep, LockDst, StatFile, StatMarker, StatList, PutMarker,
              OpenMarker, OpenList, Upload, At, Stating,
              HeadOk, HeadErr, AnyOk, AnyErr
<1>4. OverwritePromise(c)
  <2>1. r.op = "MOVE" => l.pc \in Stating \cup {"LockDst"}
    BY <1>1 DEF MethodInv, SharedStep, LockDst, StatFile, StatMarker, StatList,
                PutMarker, OpenMarker, OpenList, Upload, At, Stating, Opening
  <2> QED
    BY <1>3, <2>1 DEF OverwritePromise, Stays
<1>5. ASSUME r.op = "MOVE" => call'[c].pc = "StatFile" \/ call'[c].reply = 423,
             r.op # "DELETE"
      PROVE  DeletePromise(c) /\ AbsentPromise(c) /\ MovePromise(c)
  BY <1>5 DEF Answers, DeletePromise, AbsentPromise, MovePromise
<1>6. CASE LockDst(c)
  <2>1. l.pc = "LockDst" /\ r.op = "MOVE" /\ l.cursor = <<>> /\ Entry(r) = "StatFile"
    BY <1>1, <1>6 DEF LockDst, At, MethodInv, SeenInv, Listing, Entry
  <2>2. CASE Answer(c, 423)
    BY <1>2, <1>4, <1>5, <2>1, <2>2, AnswerSeen
  <2>3. CASE Goto(c, "StatFile")
    <3>1. call'[c].pc = "StatFile" /\ call'[c].req = r /\ call'[c].cursor = <<>>
      BY <1>1, <2>1, <2>3, GotoFields
    <3>2. SeenInv(c)'
      BY <2>1, <3>1 DEF SeenInv, Stating, Removing, Listing
    <3> QED
      BY <1>2, <1>4, <1>5, <2>1, <3>1, <3>2
  <2> QED
    BY <1>6, <2>1, <2>2, <2>3 DEF LockDst
<1>7. ASSUME l.pc \in Stating, NEW kind, Statted(c, kind), UNCHANGED objects,
             kind = "none" /\ l.at \in PathsOf(r) => Vacant(l.at)
      PROVE  SeenInv(c)' /\ DeletePromise(c) /\ AbsentPromise(c) /\ MovePromise(c)
  BY <1>7, StattedSeen
<1>8. ASSUME l.pc \in Stating, NEW pc \in {"StatMarker", "StatList"}, Goto(c, pc),
             UNCHANGED objects,
             l.at # <<>> /\ (l.at \in PathsOf(r) => NoFile(l.at))
      PROVE  SeenInv(c)' /\ DeletePromise(c) /\ AbsentPromise(c) /\ MovePromise(c)
  <2>1. /\ call'[c].pc = pc /\ call'[c].req = r /\ call'[c].at = l.at
        /\ call'[c].cursor = l.cursor
    BY <1>1, <1>8, GotoFields
  <2>2. SeenInv(c)'
    BY <1>1, <1>8, <2>1 DEF SeenInv, Vacant, NoFile, NoDir, Stating, Removing,
                            Listing
  <2> QED
    BY <2>1, <2>2 DEF Answers, DeletePromise, AbsentPromise, MovePromise
<1>9. CASE StatFile(c)
  <2> DEFINE k == KeyFor(l.at)
  <2>1. l.pc \in Stating /\ UNCHANGED objects
    BY <1>3, <1>9 DEF StatFile, At, Stating
  <2>2. CASE Statted(c, "dir") \/ Statted(c, "file")
    BY <1>2, <1>4, <1>7, <2>1, <2>2
  <2>3. CASE k # RootKey /\ HeadErr(k) /\ Goto(c, "StatMarker")
    <3>1. l.at # <<>> /\ NoFile(l.at)
      BY <1>1, <2>3 DEF KeyFor, HeadErr, NoFile
    <3> QED
      BY <1>2, <1>4, <1>8, <2>1, <2>3, <3>1
  <2> QED
    BY <1>9, <2>2, <2>3 DEF StatFile
<1>10. CASE StatMarker(c)
  <2>1. l.pc \in Stating /\ UNCHANGED objects
    BY <1>3, <1>10 DEF StatMarker, At, Stating
  <2>2. CASE Statted(c, "dir")
    BY <1>2, <1>4, <1>7, <2>1, <2>2
  <2>3. CASE Goto(c, "StatList")
    <3>1. l.at # <<>> /\ (l.at \in PathsOf(r) => NoFile(l.at))
      BY <1>10 DEF StatMarker, At, SeenInv
    <3> QED
      BY <1>2, <1>4, <1>8, <2>1, <2>3, <3>1
  <2> QED
    BY <1>10, <2>2, <2>3 DEF StatMarker
<1>11. CASE StatList(c)
  <2> DEFINE d == AddSlash(KeyFor(l.at))
  <2>1. l.pc \in Stating /\ UNCHANGED objects
    BY <1>3, <1>11 DEF StatList, At, Stating
  <2>2. CASE Statted(c, "dir")
    BY <1>2, <1>4, <1>7, <2>1, <2>2
  <2>3. CASE AnyErr(d) /\ Statted(c, "none")
    <3>1. l.at # <<>> /\ (l.at \in PathsOf(r) => NoFile(l.at))
      BY <1>11 DEF StatList, At, SeenInv
    <3>2. WithSlash(KeyFor(l.at)) = d
      BY <1>1, <3>1, OneFolder
    <3>3. Listed(d) = {}
      BY <1>1, <2>3 DEF AnyErr
    <3>4. l.at \in PathsOf(r) => Vacant(l.at)
      BY <3>1, <3>2, <3>3 DEF Vacant, NoDir, Listed
    <3> QED
      BY <1>2, <1>4, <1>7, <2>1, <2>3, <3>4
  <2> QED
    BY <1>11, <2>2, <2>3 DEF StatList
<1>12. CASE PutMarker(c) \/ Upload(c)
  <2>1. r.op \notin {"DELETE", "MOVE"} /\ \E s : Answer(c, s)
    BY <1>1, <1>12 DEF PutMarker, Upload, At, MethodInv, Opening
  <2> QED
    BY <1>2, <1>4, <1>5, <2>1, AnswerSeen
<1>13. CASE OpenMarker(c) \/ OpenList(c)
  <2>1. r.op = "PUT" /\ l.cursor = <<>>
    BY <1>1, <1>13 DEF OpenMarker, OpenList, At, MethodInv, Opening, SeenInv, Listing
  <2>2. CASE Answer(c, 405)
    BY <1>2, <1>4, <1>5, <2>1, <2>2, AnswerSeen
  <2>3. CASE OpenMarker(c) /\ Goto(c, "OpenList")
    <3>1. call'[c].pc = "OpenList" /\ call'[c].req = r /\ call'[c].cursor = <<>>
      BY <1>1, <2>1, <2>3, GotoFields
    <3>2. SeenInv(c)'
      BY <2>1, <3>1 DEF SeenInv, Stating, Removing, Listing
    <3> QED
      BY <1>2, <1>4, <1>5, <2>1, <3>2
  <2>4. CASE /\ OpenList(c) /\ AnyErr(WithSlash(KeyFor(r.path)))
             /\ Goto(c, "Upload")
    <3>1. call'[c].pc = "Upload" /\ call'[c].req = r /\ call'[c].cursor = <<>>
      BY <1>1, <2>1, <2>4, GotoFields
    <3>2. NoDir(r.path) /\ UNCHANGED objects
      BY <1>1, <2>4 DEF AnyErr, Listed, NoDir
    <3>3. SeenInv(c)'
      BY <2>1, <3>1, <3>2 DEF SeenInv, NoDir, Stating, Removing, Listing
    <3> QED
      BY <1>2, <1>4, <1>5, <2>1, <3>3
  <2> QED
    BY <1>13, <2>2, <2>3, <2>4 DEF OpenMarker, OpenList
<1> QED
  BY <1>6, <1>9, <1>10, <1>11, <1>12, <1>13 DEF SharedStep

\* RemoveAll returned, with nothing left unless it says so.
LEMMA RemovedSeen ==
    ASSUME TypeOK, NEW c \in Client, CallInv(call[c]), call[c].pc \in Removing,
           SeenInv(c), NEW e \in BOOLEAN, Removed(c, e),
           ~e => EmptyThen(call[c].at)
    PROVE  /\ SeenInv(c)' /\ NewInv(c)' /\ MovedInv(c)'
           /\ DeletePromise(c) /\ AbsentPromise(c) /\ MovePromise(c)
<1> DEFINE l == call[c]
           r == l.req
<1>1. l \in CallType /\ MethodInv(l) /\ l.at = Target(r) /\ r.op \in {"DELETE", "MOVE"}
  BY DEF TypeOK, CallInv, MethodInv, Removing
<1>2. CASE r.op = "DELETE"
  <2>1. Answer(c, IF e THEN 405 ELSE 204)
    BY <1>2 DEF Removed
  <2>2. /\ call'[c].reply = IF e THEN 405 ELSE 204
        /\ SeenInv(c)' /\ NewInv(c)' /\ MovedInv(c)'
    BY <2>1, AnswerSeen
  <2>3. l.at = r.path
    BY <1>1, <1>2 DEF Target
  <2> QED
    BY <1>2, <2>2, <2>3 DEF Answers, DeletePromise, AbsentPromise, MovePromise
<1>3. CASE r.op = "MOVE" /\ e
  <2>1. Answer(c, 403)
    BY <1>3 DEF Removed
  <2> QED
    BY <1>3, <2>1, AnswerSeen DEF Answers, DeletePromise, AbsentPromise, MovePromise
<1>4. CASE r.op = "MOVE" /\ ~e
  <2>1. call'[c] = [l EXCEPT !.pc = "MvFile", !.errFile = FALSE, !.cursor = <<>>,
                             !.more = FALSE, !.todo = {}, !.del = {}]
    BY <1>4, BecomeEffect DEF Removed
  <2>2. call'[c].pc = "MvFile" /\ call'[c].req = r /\ call'[c].cursor = <<>>
    BY <1>1, <2>1 DEF CallType
  <2>3. l.at = r.dst
    BY <1>1, <1>4 DEF Target
  <2>4. SeenInv(c)'
    BY <1>4, <2>2, <2>3 DEF EmptyThen, Covers, SeenInv, Vacant, NoFile, NoDir,
                            Stating, Removing, Listing
  <2> QED
    BY <1>4, <2>2, <2>4 DEF NewInv, MovedInv, Answers, DeletePromise,
                            AbsentPromise, MovePromise
<1> QED
  BY <1>1, <1>2, <1>3, <1>4

\* Rename returned.
LEMMA RenamedSeen ==
    ASSUME TypeOK, NEW c \in Client, CallInv(call[c]), call[c].pc \in Renaming,
           NEW e \in BOOLEAN, Renamed(c, e)
    PROVE  /\ SeenInv(c)' /\ NewInv(c)' /\ MovedInv(c)'
           /\ DeletePromise(c) /\ AbsentPromise(c)
           /\ e \/ EmptyThen(call[c].req.path) => MovePromise(c)
<1>1. call[c].req.op = "MOVE"
  BY DEF CallInv, MethodInv
<1>2. /\ call'[c].reply = (IF e THEN 403 ELSE IF call[c].created THEN 201 ELSE 204)
      /\ SeenInv(c)' /\ NewInv(c)' /\ MovedInv(c)'
  BY AnswerSeen DEF Renamed
<1> QED
  BY <1>1, <1>2 DEF Answers, DeletePromise, AbsentPromise, MovePromise

----------------------------------------------------------------------------
\* What a paginator has listed, and has still to list.

LEMMA BeforeAll == ASSUME NEW k \in Key PROVE Before(<<>>, k) /\ ~Before(k, <<>>)
<1>1. Len(k) \in Nat \ {0} /\ Len(<<>>) = 0
  BY KeyParts
<1> QED
  BY <1>1 DEF Before

LEMMA PageCovers ==
    ASSUME TypeOK, NEW d, NEW cursor \in Seq(Name \cup {Empty}),
           NEW last \in Rest(d, cursor) \cup {cursor}, IsPageEnd(d, cursor, last),
           NEW k \in Listed(d)
    PROVE  LET page == Page(d, cursor, last) IN
           /\ Before(cursor, k) =>
                 k \in page \/ (page # Rest(d, cursor) /\ Before(last, k))
           /\ k \in page => Before(cursor, k) /\ ~Before(last, k)
           /\ Before(last, k) => Before(cursor, k)
<1> DEFINE page == Page(d, cursor, last)
           rest == Rest(d, cursor)
<1>1. /\ k \in Key /\ rest \subseteq Key /\ page \subseteq rest
      /\ cursor = <<>> \/ cursor \in Key
  BY DEF Rest, Listed, Page, TypeOK, IsStore, Key
<1>2. Before(cursor, k) => k \in page \/ (page # rest /\ Before(last, k))
  BY DEF IsPageEnd, Rest
<1>3. ASSUME k \in page
      PROVE  Before(cursor, k) /\ ~Before(last, k)
  <2>1. Before(cursor, k)
    BY <1>1, <1>3 DEF Rest
  <2>2. k = last \/ Before(k, last)
    BY <1>3 DEF Page
  <2>3. CASE last \in Key
    <3>1. ~Before(k, k)
      BY <1>1, BeforeIrreflexive
    <3>2. Before(k, last) /\ Before(last, k) => Before(k, k)
      BY <1>1, <2>3, BeforeTransitive
    <3> QED
      BY <2>1, <2>2, <3>1, <3>2
  <2>4. CASE last = <<>>
    BY <1>1, <2>2, <2>4, BeforeAll DEF Key
  <2> QED
    BY <1>1, <2>1, <2>3, <2>4
<1>4. ASSUME Before(last, k)
      PROVE  Before(cursor, k)
  <2>1. CASE last = cursor
    BY <1>4, <2>1
  <2>2. CASE last \in rest
    <3>1. last \in Key /\ Before(cursor, last)
      BY <1>1, <2>2 DEF Rest
    <3> QED
      BY <1>1, <1>4, <3>1, BeforeTransitive, BeforeAll
  <2> QED
    BY <2>1, <2>2
<1> QED
  BY <1>2, <1>3, <1>4

\* The record that NextPage makes.
LEMMA NextPageCovers ==
    ASSUME TypeOK, NEW c \in Client, NEW d, NEW m \in NextPage(c, d),
           NEW k \in Listed(d)
    PROVE  /\ Before(call[c].cursor, k) =>
                 k \in m.todo \/ (m.more /\ Before(m.cursor, k))
           /\ k \in m.todo => Before(call[c].cursor, k) /\ ~Before(m.cursor, k)
           /\ Before(m.cursor, k) => Before(call[c].cursor, k)
<1> DEFINE cursor == call[c].cursor
           rest == Rest(d, cursor)
<1>1. call[c] \in CallType /\ cursor \in Seq(Name \cup {Empty})
  BY DEF TypeOK, CallType
<1>2. PICK last \in rest \cup {cursor} :
        /\ IsPageEnd(d, cursor, last)
        /\ m = [call[c] EXCEPT !.todo = Page(d, cursor, last), !.cursor = last,
                               !.more = Page(d, cursor, last) # rest]
  BY DEF NextPage
<1>3. /\ m.todo = Page(d, cursor, last) /\ m.cursor = last
      /\ m.more = (Page(d, cursor, last) # rest)
  BY <1>1, <1>2 DEF CallType
<1>4. LET page == Page(d, cursor, last) IN
      /\ Before(cursor, k) =>
            k \in page \/ (page # rest /\ Before(last, k))
      /\ k \in page => Before(cursor, k) /\ ~Before(last, k)
      /\ Before(last, k) => Before(cursor, k)
  BY <1>1, <1>2, PageCovers
<1> QED
  BY <1>3, <1>4

LEMMA NextPageListed ==
    ASSUME NEW c, NEW d, NEW m \in NextPage(c, d), TypeOK, c \in Client
    PROVE  m.todo \subseteq Listed(d)
<1> DEFINE cursor == call[c].cursor
<1>1. PICK last \in Rest(d, cursor) \cup {cursor} :
        m = [call[c] EXCEPT !.todo = Page(d, cursor, last), !.cursor = last,
                            !.more = Page(d, cursor, last) # Rest(d, cursor)]
  BY DEF NextPage
<1>2. m.todo = Page(d, cursor, last)
  BY <1>1 DEF TypeOK, CallType
<1> QED
  BY <1>2 DEF Page, Rest

----------------------------------------------------------------------------
\* RemoveAll, object by object.

LEMMA RmNextSeen ==
    ASSUME TypeOK, NEW c \in Client, CallInv(call[c]), call[c].pc \in Removing,
           SeenInv(c), NEW m \in CallType, m.req = call[c].req,
           m.at = call[c].at, EachRmNext(c, m),
           KeyFor(call[c].at) \notin DOMAIN objects',
           \A k \in DOMAIN objects' : Under(k, WithSlash(KeyFor(call[c].at)))
               => k \in m.todo \/ (m.more /\ Before(m.cursor, k))
    PROVE  /\ SeenInv(c)' /\ NewInv(c)'
           /\ DeletePromise(c) /\ AbsentPromise(c)
<1> DEFINE l == call[c]
<1>1. ASSUME NEW pc \in {"RmKey", "RmList"}, Become(c, [m EXCEPT !.pc = pc]),
             pc = "RmList" => m.todo = {}
      PROVE  /\ SeenInv(c)' /\ NewInv(c)'
             /\ DeletePromise(c) /\ AbsentPromise(c)
  <2>1. /\ call'[c].pc = pc /\ call'[c].req = l.req /\ call'[c].at = l.at
        /\ call'[c].cursor = m.cursor /\ call'[c].more = m.more
        /\ call'[c].todo = m.todo
    BY <1>1, BecomeFields
  <2>2. l.req.op = "MOVE" => l.req.over
    BY DEF SeenInv
  <2>3. \A k \in DOMAIN objects' : Under(k, WithSlash(KeyFor(l.at)))
            => InHand(call'[c], k)
    BY <1>1, <2>1 DEF InHand
  <2>4. SeenInv(c)'
    BY <1>1, <2>1, <2>2, <2>3 DEF SeenInv, NoFile, Listed, Stating, Listing
  <2> QED
    BY <1>1, <2>1, <2>4 DEF NewInv, Answers, DeletePromise, AbsentPromise
<1>2. ASSUME NEW e \in BOOLEAN, Removed(c, e), m.todo = {}, ~m.more
      PROVE  /\ SeenInv(c)' /\ NewInv(c)'
             /\ DeletePromise(c) /\ AbsentPromise(c)
  <2>1. EmptyThen(l.at)
    BY <1>2 DEF EmptyThen, Covers
  <2> QED
    BY <1>2, <2>1, RemovedSeen
<1> QED
  BY <1>1, <1>2 DEF EachRmNext

LEMMA EachRemoveSeen ==
    ASSUME EachInv, NEW c \in Client, faults' = 0, SeenInv(c),
           EachRmFile(c) \/ EachRmList(c) \/ EachRmKey(c)
    PROVE  /\ SeenInv(c)' /\ NewInv(c)'
           /\ DeletePromise(c) /\ AbsentPromise(c) /\ OverwritePromise(c)
<1> DEFINE l == call[c]
           d == WithSlash(KeyFor(l.at))
<1>1. /\ TypeOK /\ l \in CallType /\ CallInv(l) /\ l.del = {} /\ ~Breaks
      /\ l.pc \in Removing /\ DOMAIN objects \subseteq Key
  BY NoBreak DEF EachInv, IInv, TypeOK, TodoInv, EachRmFile, EachRmList, EachRmKey,
                 At, Removing, IsStore
<1>2. l.req.op = "MOVE" => l.req.over
  BY <1>1 DEF SeenInv
<1>3. OverwritePromise(c)
  BY <1>2 DEF OverwritePromise
<1>4. CASE EachRmFile(c)
  <2>1. PICK e \in BOOLEAN : Become(c, [l EXCEPT !.pc = "RmList", !.errFile = e])
    BY <1>4 DEF EachRmFile
  <2>2. call'[c] = [l EXCEPT !.pc = "RmList", !.errFile = e]
    BY <1>1, <2>1, BecomeEffect
  <2>3. /\ call'[c].pc = "RmList" /\ call'[c].req = l.req /\ call'[c].at = l.at
        /\ call'[c].cursor = l.cursor
    BY <1>1, <2>2 DEF CallType
  <2>4. l.cursor = <<>>
    BY <1>4 DEF EachRmFile, At, SeenInv, Listing
  <2>5. KeyFor(l.at) \notin DOMAIN objects' /\ DOMAIN objects' \subseteq Key
    BY <1>1, <1>4 DEF EachRmFile, Deletes, Erase
  <2>6. \A k \in DOMAIN objects' : InHand(call'[c], k)
    BY <2>3, <2>4, <2>5, BeforeAll DEF InHand
  <2>7. SeenInv(c)'
    BY <1>2, <2>3, <2>5, <2>6 DEF SeenInv, NoFile, Listed, Stating, Listing
  <2> QED
    BY <1>3, <2>3, <2>7 DEF NewInv, Answers, DeletePromise, AbsentPromise
<1>5. CASE EachRmList(c)
  <2>1. /\ UNCHANGED objects /\ NoFile(l.at)
        /\ \A k \in Listed(d) : Before(l.cursor, k)
    BY <1>1, <1>5 DEF EachRmList, At, SeenInv, InHand
  <2>2. CASE Removed(c, TRUE)
    BY <1>1, <1>3, <2>2, RemovedSeen
  <2>3. ASSUME NEW m \in NextPage(c, d), EachRmNext(c, m)
        PROVE  /\ SeenInv(c)' /\ NewInv(c)'
               /\ DeletePromise(c) /\ AbsentPromise(c)
    <3>1. m \in CallType /\ m.req = l.req /\ m.at = l.at
      BY <1>1, <2>3, NextPageType
    <3>2. \A k \in DOMAIN objects' : Under(k, d)
            => k \in m.todo \/ (m.more /\ Before(m.cursor, k))
      BY <1>1, <2>1, <2>3, NextPageCovers DEF Listed
    <3> QED
      BY <1>1, <2>1, <2>3, <3>1, <3>2, RmNextSeen DEF NoFile
  <2> QED
    BY <1>3, <1>5, <2>2, <2>3 DEF EachRmList
<1>6. CASE EachRmKey(c)
  <2> DEFINE f == First(l.todo)
  <2>1. /\ DOMAIN objects' \subseteq DOMAIN objects \ {f} /\ NoFile(l.at)
        /\ \A k \in Listed(d) : k \in l.todo \/ (l.more /\ Before(l.cursor, k))
    BY <1>1, <1>6 DEF EachRmKey, At, SeenInv, InHand, Deletes, Erase
  <2>2. CASE Removed(c, TRUE)
    BY <1>1, <1>3, <2>2, RemovedSeen
  <2>3. ASSUME NEW e \in BOOLEAN,
               EachRmNext(c, [l EXCEPT !.todo = @ \ {f}, !.errFile = e])
        PROVE  /\ SeenInv(c)' /\ NewInv(c)'
               /\ DeletePromise(c) /\ AbsentPromise(c)
    <3> DEFINE m == [l EXCEPT !.todo = @ \ {f}, !.errFile = e]
    <3>1. m \in CallType
      BY <1>1 DEF CallType
    <3>2. /\ m.req = l.req /\ m.at = l.at /\ m.todo = l.todo \ {f}
          /\ m.more = l.more /\ m.cursor = l.cursor
      BY <1>1 DEF CallType
    <3> HIDE DEF m
    <3>3. \A k \in DOMAIN objects' : Under(k, d)
            => k \in m.todo \/ (m.more /\ Before(m.cursor, k))
      BY <2>1, <3>2 DEF Listed
    <3>4. KeyFor(l.at) \notin DOMAIN objects'
      BY <2>1 DEF NoFile
    <3> QED
      BY <1>1, <2>3, <3>1, <3>2, <3>3, <3>4, RmNextSeen DEF m
  <2> QED
    BY <1>3, <1>6, <2>2, <2>3 DEF EachRmKey
<1> QED
  BY <1>4, <1>5, <1>6

----------------------------------------------------------------------------
\* Rename, object by object.

\* What a step of Rename that does not answer makes of the record.
LEMMA MvNextFields ==
    ASSUME TypeOK, NEW c \in Client, NEW m \in CallType, EachMvNext(c, m)
    PROVE  \/ m.todo = {} /\ ~m.more /\ Renamed(c, FALSE)
           \/ /\ call'[c].pc \in {"MvCopy", "MvList"}
              /\ call'[c].pc = "MvCopy" <=> m.todo # {}
              /\ call'[c].req = m.req /\ call'[c].cursor = m.cursor
              /\ call'[c].more = m.more /\ call'[c].todo = m.todo
              /\ call'[c].del = m.del
<1>1. ASSUME NEW pc \in {"MvCopy", "MvList"}, Become(c, [m EXCEPT !.pc = pc]),
             pc = "MvCopy" <=> m.todo # {}
      PROVE  /\ call'[c].pc \in {"MvCopy", "MvList"}
             /\ call'[c].pc = "MvCopy" <=> m.todo # {}
             /\ call'[c].req = m.req /\ call'[c].cursor = m.cursor
             /\ call'[c].more = m.more /\ call'[c].todo = m.todo
             /\ call'[c].del = m.del
  BY <1>1, BecomeFields
<1> QED
  BY <1>1 DEF EachMvNext

LEMMA RenameSeen ==
    ASSUME NEW c \in Client, call[c].req.op = "MOVE", call'[c].req = call[c].req,
           \/ call'[c].pc \in {"MvList", "MvCopy", "MvDelete", "MvBatch"}
           \/ call'[c].pc = "MvFileDelete" /\ call'[c].cursor = <<>>
    PROVE  /\ SeenInv(c)'
           /\ DeletePromise(c) /\ AbsentPromise(c) /\ MovePromise(c)
<1>1. SeenInv(c)'
  BY DEF SeenInv, Stating, Removing, Listing
<1> QED
  BY <1>1 DEF Answers, DeletePromise, AbsentPromise, MovePromise

\* Keys below the source of a MOVE, and where they go.
LEMMA MoveKeys ==
    ASSUME MovesApart, TypeOK, NEW c \in Client, CallInv(call[c]),
           call[c].pc \in Renaming
    PROVE  LET r == call[c].req IN
           /\ r \in Request /\ r.op = "MOVE"
           /\ r.path \in Path /\ r.dst \in Path /\ r.path # <<>> /\ r.dst # <<>>
           /\ OldDir(r) = WithSlash(KeyFor(r.path))
           /\ \A k \in Listed(OldDir(r)) :
                 /\ k \in Key /\ Covers(r.path, k) /\ ~Covers(r.dst, k)
                 /\ NewKey(r, k) \in Key /\ Covers(r.dst, NewKey(r, k))
                 /\ ~Covers(r.path, NewKey(r, k)) /\ NewKey(r, k) # KeyFor(r.dst)
                 /\ \A j \in Listed(OldDir(r)) : NewKey(r, j) = NewKey(r, k) => j = k
<1> DEFINE r == call[c].req
<1>1. r \in Request /\ r.op = "MOVE"
  BY DEF CallInv, MethodInv, Renaming
<1>2. r.path \in Path /\ r.dst \in Path /\ r.path # <<>> /\ r.dst # <<>>
      /\ Apart(r.path, r.dst)
  BY <1>1, MoveApart, MoveCovers
<1>3. OldDir(r) = WithSlash(KeyFor(r.path))
  BY <1>2, OneFolder DEF OldDir
<1>4. OldDir(r) \in Key /\ NewDir(r) \in Key /\ DOMAIN objects \subseteq Key
  BY CallKeys DEF TypeOK, IsStore
<1>5. ASSUME NEW k \in Listed(OldDir(r))
      PROVE  /\ k \in Key /\ Covers(r.path, k) /\ ~Covers(r.dst, k)
             /\ NewKey(r, k) \in Key /\ Covers(r.dst, NewKey(r, k))
             /\ ~Covers(r.path, NewKey(r, k)) /\ NewKey(r, k) # KeyFor(r.dst)
             /\ \A j \in Listed(OldDir(r)) : NewKey(r, j) = NewKey(r, k) => j = k
  <2>1. k \in Key /\ Under(k, OldDir(r))
    BY <1>4, <1>5 DEF Listed
  <2>2. Covers(r.path, k) /\ NewKey(r, k) \in Key /\ Covers(r.dst, NewKey(r, k))
    BY <2>1, MoveCovers
  <2>3. ~Covers(r.dst, k) /\ ~Covers(r.path, NewKey(r, k))
    BY <1>2, <2>1, <2>2, ApartCovers
  <2>4. Under(NewKey(r, k), NewDir(r))
    BY <1>4, <2>1, RebaseUnder DEF NewKey
  <2>5. NewKey(r, k) # KeyFor(r.dst)
    BY <1>2, <2>4, OneFolder DEF NewDir
  <2>6. \A j \in Listed(OldDir(r)) : NewKey(r, j) = NewKey(r, k) => j = k
    BY <1>4, <2>1, RebaseInjective DEF NewKey, Listed
  <2> QED
    BY <2>1, <2>2, <2>3, <2>5, <2>6
<1> QED
  BY <1>1, <1>2, <1>3, <1>5

LEMMA EachRenameSeen ==
    ASSUME MovesApart, EachInv, NEW c \in Client, faults' = 0, SeenInv(c),
           NewInv(c),
           \/ EachMvFile(c) \/ EachMvFileDelete(c)
           \/ EachMvList(c) \/ EachMvCopy(c) \/ EachMvDelete(c)
    PROVE  /\ SeenInv(c)' /\ NewInv(c)'
           /\ DeletePromise(c) /\ AbsentPromise(c) /\ OverwritePromise(c)
<1> DEFINE l == call[c]
           r == l.req
           f == First(l.todo)
           Good == /\ SeenInv(c)' /\ NewInv(c)'
                   /\ DeletePromise(c) /\ AbsentPromise(c)
<1>1. /\ TypeOK /\ l \in CallType /\ CallInv(l) /\ ListInv(l) /\ ~Breaks
      /\ l.pc \in Renaming /\ DOMAIN objects \subseteq Key
  BY NoBreak DEF EachInv, IInv, TypeOK, CallInv, EachMvFile, EachMvFileDelete,
                 EachMvList, EachMvCopy, EachMvDelete, At, Renaming, IsStore
<1>2. /\ r.op = "MOVE" /\ r.path \in Path /\ r.dst \in Path
      /\ \A k \in Listed(OldDir(r)) :
            /\ Covers(r.path, k) /\ ~Covers(r.dst, k)
            /\ NewKey(r, k) \in Key /\ Covers(r.dst, NewKey(r, k))
            /\ ~Covers(r.path, NewKey(r, k))
            /\ \A j \in Listed(OldDir(r)) : NewKey(r, j) = NewKey(r, k) => j = k
  BY <1>1, MoveKeys
<1>3. \A e \in BOOLEAN : Renamed(c, e) => Good
  BY <1>1, RenamedSeen
<1>4. ASSUME UNCHANGED objects \/ \A k \in DOMAIN objects : ~Covers(r.dst, k)
      PROVE  OverwritePromise(c)
  BY <1>4 DEF OverwritePromise, Stays
<1>5. CASE EachMvFile(c)
  <2> DEFINE src == KeyFor(r.path)
             dst == KeyFor(r.dst)
  <2>1. l.cursor = <<>> /\ l.todo = {}
        /\ \A k \in DOMAIN objects : ~Covers(r.dst, k)
    BY <1>1, <1>5, VacantCovers DEF EachMvFile, At, SeenInv, ListInv, Listing
  <2>2. CASE Renamed(c, TRUE)
    BY <1>3, <1>4, <2>1, <2>2 DEF Good
  <2>3. CASE Goto(c, "MvFileDelete")
    <3>1. /\ call'[c].pc = "MvFileDelete" /\ call'[c].req = r
          /\ call'[c].cursor = <<>>
      BY <1>1, <2>1, <2>3, GotoFields
    <3> QED
      BY <1>2, <1>4, <2>1, <3>1, RenameSeen DEF NewInv
  <2>4. CASE (CopyMissing(src) \/ CopyErr(src, dst)) /\ Goto(c, "MvList")
    <3>1. /\ call'[c].pc = "MvList" /\ call'[c].req = r /\ call'[c].todo = {}
      BY <1>1, <2>1, <2>4, GotoFields
    <3>2. UNCHANGED objects
      BY <1>1, <2>4 DEF CopyMissing, CopyErr, PutErr
    <3>3. NewInv(c)'
      BY <1>2, <2>1, <3>1, <3>2 DEF NewInv, Listed
    <3> QED
      BY <1>2, <1>4, <2>1, <3>1, <3>3, RenameSeen
  <2> QED
    BY <1>5, <2>2, <2>3, <2>4 DEF EachMvFile
<1>6. CASE EachMvFileDelete(c)
  <2>1. \A k \in DOMAIN objects : Covers(r.dst, k) => k # KeyFor(r.path)
    BY <1>1, <1>2, MoveKeys, MoveDisjoint, DirKeyCovered
  <2>2. OverwritePromise(c)
    BY <1>6, <2>1, DeletesStays DEF EachMvFileDelete, OverwritePromise
  <2> QED
    BY <1>3, <1>6, <2>2 DEF EachMvFileDelete
<1>7. CASE EachMvList(c)
  <2>1. UNCHANGED objects
    BY <1>7 DEF EachMvList
  <2>2. CASE Renamed(c, TRUE)
    BY <1>3, <1>4, <2>1, <2>2
  <2>3. ASSUME NEW m \in NextPage(c, OldDir(r)), EachMvNext(c, m)
        PROVE  Good
    <3>1. m \in CallType /\ m.req = r
      BY <1>1, <2>3, NextPageType
    <3>2. /\ m.todo \subseteq Listed(OldDir(r))
          /\ \A k \in Listed(OldDir(r)) :
                /\ k \in m.todo => Before(l.cursor, k) /\ ~Before(m.cursor, k)
                /\ Before(m.cursor, k) => Before(l.cursor, k)
      BY <1>1, <2>3, NextPageListed, NextPageCovers
    <3>3. CASE Renamed(c, FALSE)
      BY <1>3, <3>3
    <3>4. CASE /\ call'[c].pc \in {"MvCopy", "MvList"}
               /\ call'[c].req = r /\ call'[c].cursor = m.cursor
               /\ call'[c].todo = m.todo
      <4>1. \A k \in Listed(OldDir(r)) :
               Before(l.cursor, k) => NewKey(r, k) \notin DOMAIN objects
        BY <1>7 DEF EachMvList, At, NewInv, ToCopy
      <4>2. NewInv(c)'
        BY <2>1, <3>2, <3>4, <4>1 DEF NewInv, ToCopy, Listed
      <4> QED
        BY <1>2, <3>4, <4>2, RenameSeen
    <3> QED
      BY <1>1, <2>3, <3>1, <3>3, <3>4, MvNextFields
  <2> QED
    BY <1>4, <1>7, <2>1, <2>2, <2>3 DEF EachMvList
<1>8. CASE EachMvCopy(c)
  <2>1. f \in l.todo /\ f \in Key /\ Under(f, OldDir(r)) /\ l.pc = "MvCopy"
    BY <1>8, FirstListed DEF EachMvCopy, At
  <2>2. CASE (CopyMissing(f) \/ CopyErr(f, NewKey(r, f))) /\ Renamed(c, TRUE)
    <3>1. UNCHANGED objects
      BY <1>1, <2>2 DEF CopyMissing, CopyErr, PutErr
    <3> QED
      BY <1>3, <1>4, <2>2, <3>1
  <2>3. CASE CopyOk(f, NewKey(r, f)) /\ Goto(c, "MvDelete")
    <3>1. /\ call'[c].pc = "MvDelete" /\ call'[c].req = r
          /\ call'[c].cursor = l.cursor /\ call'[c].todo = l.todo
      BY <1>1, <2>3, GotoFields
    <3>2. f \in Listed(OldDir(r)) /\ DOMAIN objects' = DOMAIN objects \cup {NewKey(r, f)}
      BY <2>1, <2>3 DEF CopyOk, PutOk, Write, Listed
    <3>3. NewKey(r, f) \notin DOMAIN objects
      BY <2>1, <3>2 DEF NewInv, ToCopy
    <3>4. OverwritePromise(c)
      BY <2>3, <3>3, CopyStays DEF OverwritePromise
    <3>5. ASSUME NEW k \in DOMAIN objects', Under(k, OldDir(r)),
                 Before(l.cursor, k) \/ k \in l.todo \ {f}
          PROVE  NewKey(r, k) \notin DOMAIN objects'
      <4>1. k # NewKey(r, f)
        <5>1. OldDir(r) = WithSlash(KeyFor(r.path))
          BY <1>1, MoveKeys
        <5>2. Covers(r.path, k)
          BY <3>5, <5>1 DEF Covers
        <5> QED
          BY <1>2, <3>2, <5>2
      <4>2. k \in Listed(OldDir(r)) /\ k # f
        BY <2>1, <3>2, <3>5, <4>1 DEF Listed, NewInv
      <4>3. NewKey(r, k) \notin DOMAIN objects
        BY <2>1, <3>5, <4>2 DEF NewInv, ToCopy
      <4> QED
        BY <1>2, <3>2, <4>2, <4>3
    <3>6. \A k \in l.todo : /\ k \in DOMAIN objects' /\ Under(k, OldDir(r))
                           /\ ~Before(l.cursor, k)
      BY <2>1, <3>2 DEF NewInv, Listed
    <3>7. NewInv(c)'
      <4>1. call'[c].pc = "MvDelete"
        BY <3>1
      <4>2. \A k \in call'[c].todo : /\ k \in (Listed(OldDir(r)))'
                                     /\ ~Before(call'[c].cursor, k)
        BY <3>1, <3>6 DEF Listed
      <4>3. \A k \in (Listed(OldDir(r)))' :
               ToCopy(call'[c], k) => NewKey(r, k) \notin DOMAIN objects'
        BY <3>1, <3>5 DEF ToCopy, Listed
      <4> QED
        BY <3>1, <4>2, <4>3 DEF NewInv
    <3> QED
      BY <1>2, <3>1, <3>4, <3>7, RenameSeen
  <2> QED
    BY <1>8, <2>2, <2>3 DEF EachMvCopy
<1>9. CASE EachMvDelete(c)
  <2>1. f \in l.todo /\ f \in Key /\ Under(f, OldDir(r)) /\ l.pc = "MvDelete"
    BY <1>9, FirstListed DEF EachMvDelete, At
  <2>2. \A k \in DOMAIN objects : Covers(r.dst, k) => k # f
    BY <1>2, <2>1 DEF Listed
  <2>3. OverwritePromise(c)
    BY <1>9, <2>2, DeletesStays DEF EachMvDelete, OverwritePromise
  <2>4. /\ DOMAIN objects' \subseteq DOMAIN objects
        /\ \A k \in DOMAIN objects : k # f => k \in DOMAIN objects'
    BY <1>9 DEF EachMvDelete, Deletes, Erase
  <2>5. CASE Renamed(c, TRUE)
    BY <1>3, <2>3, <2>5
  <2>6. CASE EachMvNext(c, [l EXCEPT !.todo = @ \ {f}])
    <3> DEFINE m == [l EXCEPT !.todo = @ \ {f}]
    <3>1. /\ m \in CallType /\ m.req = r /\ m.todo = l.todo \ {f}
          /\ m.cursor = l.cursor
      BY <1>1 DEF CallType
    <3> HIDE DEF m
    <3>2. CASE Renamed(c, FALSE)
      BY <1>3, <2>3, <3>2
    <3>3. CASE /\ call'[c].pc \in {"MvCopy", "MvList"}
               /\ call'[c].req = r /\ call'[c].cursor = m.cursor
               /\ call'[c].todo = m.todo
      <4>1. NewInv(c)'
        BY <2>1, <2>4, <3>1, <3>3 DEF NewInv, ToCopy, Listed
      <4> QED
        BY <1>2, <2>3, <3>3, <4>1, RenameSeen
    <3> QED
      BY <1>1, <2>6, <3>1, <3>2, <3>3, MvNextFields DEF m
  <2> QED
    BY <1>9, <2>5, <2>6 DEF EachMvDelete
<1> QED
  BY <1>5, <1>6, <1>7, <1>8, <1>9

----------------------------------------------------------------------------
\* No name is both an object and a folder.

LEMMA EraseClashless ==
    ASSUME Clashless, DOMAIN objects' \subseteq DOMAIN objects
    PROVE  Clashless'
  BY DEF Clashless, NoFile, NoDir

\* A request writes an object where there is no folder, or below no object.
LEMMA WriteClashless ==
    ASSUME PathsApart, Clashless, NEW q \in Request, NEW p \in PathsOf(q),
           NEW k \in Key, DOMAIN objects' \subseteq DOMAIN objects \cup {k},
           DOMAIN objects \subseteq Key, Covers(p, k),
           \/ k = KeyFor(p) /\ NoDir(p)
           \/ k # KeyFor(p) /\ NoFile(p)
    PROVE  Clashless'
<1> SUFFICES ASSUME NEW r \in Request, NEW t \in PathsOf(r), t # <<>>
             PROVE  NoFile(t)' \/ NoDir(t)'
  BY DEF Clashless
<1>1. p \in Path /\ t \in Path
  BY RequestAssumption DEF RequestType, PathsOf
<1>2. NoFile(t) \/ NoDir(t)
  BY DEF Clashless
<1>3. CASE t = p
  <2>1. ~Under(KeyFor(p), WithSlash(KeyFor(p)))
    BY <1>1, <1>3, OneFolder
  <2> QED
    BY <1>3, <2>1 DEF NoFile, NoDir
<1>4. CASE t # p
  <2>1. ~Covers(t, k)
    BY <1>1, <1>4, ApartCovers DEF PathsApart
  <2> QED
    BY <1>2, <2>1 DEF NoFile, NoDir, Covers
<1> QED
  BY <1>3, <1>4

LEMMA SharedClashless ==
    ASSUME PathsApart, TypeOK, Clashless, NEW c \in Client, CallInv(call[c]),
           SharedStep(c), SeenInv(c)
    PROVE  Clashless'
<1> DEFINE r == call[c].req
<1>1. /\ call[c] \in CallType /\ DOMAIN objects \subseteq Key /\ r.path \in PathsOf(r)
      /\ KeyFor(r.path) \in Key /\ DirKeyFor(r.path) \in Key
      /\ Covers(r.path, KeyFor(r.path)) /\ Covers(r.path, DirKeyFor(r.path))
      /\ MethodInv(call[c]) /\ r.path \in Path
  BY CallKeys, MoveCovers, DirKeyCovered DEF TypeOK, IsStore, PathsOf, CallInv
<1>2. CASE PutMarker(c)
  <2>1. r \in Request /\ NoFile(r.path)
    BY <1>1, <1>2 DEF PutMarker, At, MethodInv, SeenInv, Vacant
  <2>2. DOMAIN objects' \subseteq DOMAIN objects \cup {DirKeyFor(r.path)}
    BY <1>2 DEF PutMarker, PutOk, PutErr, Write
  <2>3. CASE r.path = <<>>
    <3>1. ASSUME NEW q \in Request, NEW t \in PathsOf(q), t # <<>>
          PROVE  FALSE
      <4>1. Apart(t, r.path) /\ t \in Path
        BY <1>1, <2>1, <2>3, <3>1, RequestAssumption
           DEF PathsApart, RequestType, PathsOf
      <4> QED
        BY <1>1, <2>3, <4>1, ApartNotRoot
    <3> QED
      BY <3>1 DEF Clashless
  <2>4. CASE r.path # <<>>
    <3>1. DirKeyFor(r.path) # KeyFor(r.path)
      <4>1. /\ WithSlash(KeyFor(r.path)) = AddSlash(KeyFor(r.path))
            /\ KeyFor(r.path) # RootKey
        BY <1>1, <2>4, OneFolder
      <4>2. /\ Len(AddSlash(KeyFor(r.path))) = Len(KeyFor(r.path)) + 1
            /\ Len(KeyFor(r.path)) \in Nat
        BY <1>1, AddSlashKey, KeyParts
      <4>3. AddSlash(KeyFor(r.path)) # KeyFor(r.path)
        BY <4>2
      <4> QED
        BY <4>1, <4>3 DEF DirKeyFor
    <3> QED
      BY <1>1, <2>1, <2>2, <3>1, WriteClashless
  <2> QED
    BY <2>3, <2>4
<1>3. CASE Upload(c)
  <2>1. r \in Request /\ NoDir(r.path)
    BY <1>1, <1>3 DEF Upload, At, MethodInv, SeenInv
  <2>2. DOMAIN objects' \subseteq DOMAIN objects \cup {KeyFor(r.path)}
    BY <1>3 DEF Upload, PutOk, PutErr, Write
  <2> QED
    BY <1>1, <2>1, <2>2, WriteClashless
<1>4. CASE ~PutMarker(c) /\ ~Upload(c)
  <2>1. UNCHANGED objects
    BY <1>4 DEF SharedStep, LockDst, StatFile, StatMarker, StatList,
                OpenMarker, OpenList, HeadOk, HeadErr, AnyOk, AnyErr
  <2> QED
    BY <2>1, EraseClashless
<1> QED
  BY <1>2, <1>3, <1>4

\* The copies of a Rename.
LEMMA CopyClashless ==
    ASSUME PathsApart, TypeOK, Clashless, NEW c \in Client, CallInv(call[c]),
           call[c].pc \in Renaming, NEW j, NEW k,
           CopyOk(j, k) \/ CopyMissing(j) \/ CopyErr(j, k),
           \/ k = KeyFor(call[c].req.dst) /\ NoDir(call[c].req.dst)
           \/ /\ NoFile(call[c].req.dst)
              /\ \E i \in Listed(OldDir(call[c].req)) : k = NewKey(call[c].req, i)
    PROVE  Clashless'
<1> DEFINE r == call[c].req
<1>1. /\ r \in Request /\ r.dst \in PathsOf(r) /\ DOMAIN objects \subseteq Key
      /\ KeyFor(r.dst) \in Key /\ Covers(r.dst, KeyFor(r.dst))
      /\ \A i \in Listed(OldDir(r)) :
            /\ NewKey(r, i) \in Key /\ Covers(r.dst, NewKey(r, i))
            /\ NewKey(r, i) # KeyFor(r.dst)
  BY PathsMovesApart, MoveKeys, MoveCovers, CallKeys DEF TypeOK, IsStore, PathsOf
<1>2. DOMAIN objects' \subseteq DOMAIN objects \cup {k}
  BY DEF CopyOk, CopyMissing, CopyErr, PutOk, PutErr, Write
<1> QED
  BY <1>1, <1>2, WriteClashless

----------------------------------------------------------------------------
\* What Rename leaves behind, object by object.

LEMMA EachClashless ==
    ASSUME PathsApart, EachInv, Clashless, NEW c \in Client, EachStep(c),
           SeenInv(c), MovedInv(c)
    PROVE  Clashless'
<1> DEFINE l == call[c]
           r == l.req
           f == First(l.todo)
<1>1. TypeOK /\ CallInv(l)
  BY DEF EachInv, IInv
<1>2. CASE EachMvFile(c)
  <2>1. NoDir(r.dst) /\ l.pc \in Renaming
    BY <1>2 DEF EachMvFile, At, SeenInv, Vacant, Renaming
  <2>2. LET src == KeyFor(r.path)
            dst == KeyFor(r.dst)
        IN  CopyOk(src, dst) \/ CopyMissing(src) \/ CopyErr(src, dst)
    BY <1>2 DEF EachMvFile
  <2> QED
    BY <1>1, <2>1, <2>2, CopyClashless
<1>3. CASE EachMvCopy(c)
  <2>1. NoFile(r.dst) /\ l.pc \in Renaming /\ f \in Key /\ Under(f, OldDir(r))
    BY <1>3, FirstListed DEF EachMvCopy, At, MovedInv, Renaming
  <2>2. CASE f \in DOMAIN objects
    <3>1. f \in Listed(OldDir(r))
      BY <2>1, <2>2 DEF Listed
    <3>2. CopyOk(f, NewKey(r, f)) \/ CopyMissing(f) \/ CopyErr(f, NewKey(r, f))
      BY <1>3 DEF EachMvCopy
    <3> QED
      BY <1>1, <2>1, <3>1, <3>2, CopyClashless
  <2>3. CASE f \notin DOMAIN objects
    <3>1. UNCHANGED objects
      BY <1>3, <2>3 DEF EachMvCopy, CopyOk, CopyMissing, CopyErr
    <3> QED
      BY <3>1, EraseClashless
  <2> QED
    BY <2>2, <2>3
<1>4. CASE ~EachMvFile(c) /\ ~EachMvCopy(c)
  <2>1. DOMAIN objects' \subseteq DOMAIN objects
    BY <1>4 DEF EachStep, EachRmFile, EachRmList, EachRmKey, EachMvFileDelete,
                EachMvList, EachMvDelete, Deletes, Erase
  <2> QED
    BY <2>1, EraseClashless
<1> QED
  BY <1>2, <1>3, <1>4

LEMMA MvNextMoved ==
    ASSUME MovesApart, EachInv, NEW c \in Client, call[c].pc \in Renaming,
           NEW m \in CallType, m.req = call[c].req, EachMvNext(c, m),
           KeyFor(call[c].req.path) \notin DOMAIN objects',
           KeyFor(call[c].req.dst) \notin DOMAIN objects',
           \A k \in DOMAIN objects' : Under(k, OldDir(call[c].req))
               => k \in m.todo \/ (m.more /\ Before(m.cursor, k))
    PROVE  MovedInv(c)' /\ GoneInv(c)' /\ MovePromise(c)
<1> DEFINE r == call[c].req
<1>1. TypeOK /\ CallInv(call[c])
  BY DEF EachInv, IInv
<1>2. r.op = "MOVE" /\ OldDir(r) = WithSlash(KeyFor(r.path))
  BY <1>1, MoveKeys
<1>3. CASE m.todo = {} /\ ~m.more /\ Renamed(c, FALSE)
  <2>1. EmptyThen(r.path)
    BY <1>2, <1>3 DEF EmptyThen, Covers
  <2>2. MovedInv(c)' /\ MovePromise(c) /\ Fresh(c)
    BY <1>1, <1>3, <2>1, RenamedSeen, AnswerFresh DEF Renamed
  <2> QED
    BY <2>2 DEF Fresh, GoneInv, Listing
<1>4. CASE /\ call'[c].pc \in {"MvCopy", "MvList"}
           /\ call'[c].pc = "MvCopy" <=> m.todo # {}
           /\ call'[c].req = m.req /\ call'[c].cursor = m.cursor
           /\ call'[c].more = m.more /\ call'[c].todo = m.todo
  <2>1. \A k \in DOMAIN objects' : Under(k, OldDir(r)) => InHand(call'[c], k)
    BY <1>4 DEF InHand
  <2>2. MovedInv(c)' /\ GoneInv(c)'
    BY <1>4, <2>1 DEF MovedInv, GoneInv, NoFile, Listed
  <2> QED
    BY <1>4, <2>2 DEF Answers, MovePromise
<1> QED
  BY <1>1, <1>3, <1>4, MvNextFields

LEMMA EachRenameMoved ==
    ASSUME MovesApart, EachInv, Clashless, NEW c \in Client, faults' = 0,
           SeenInv(c), MovedInv(c), GoneInv(c),
           At(c, "MvFile") /\ call'[c].pc = "MvList"
               => KeyFor(call[c].req.path) \notin DOMAIN objects,
           \/ EachMvFile(c) \/ EachMvFileDelete(c)
           \/ EachMvList(c) \/ EachMvCopy(c) \/ EachMvDelete(c)
    PROVE  MovedInv(c)' /\ GoneInv(c)' /\ MovePromise(c)
<1> DEFINE l == call[c]
           r == l.req
           f == First(l.todo)
           src == KeyFor(r.path)
           dst == KeyFor(r.dst)
           Good == MovedInv(c)' /\ GoneInv(c)' /\ MovePromise(c)
<1>1. /\ TypeOK /\ l \in CallType /\ CallInv(l) /\ ListInv(l) /\ ~Breaks
      /\ l.del = {} /\ l.pc \in Renaming /\ DOMAIN objects \subseteq Key
  BY NoBreak DEF EachInv, IInv, TypeOK, CallInv, TodoInv, EachMvFile,
                 EachMvFileDelete, EachMvList, EachMvCopy, EachMvDelete, At,
                 Renaming, IsStore
<1>2. /\ r \in Request /\ r.op = "MOVE" /\ r.path \in Path /\ r.dst \in Path
      /\ r.path # <<>> /\ r.dst # <<>>
      /\ OldDir(r) = WithSlash(src)
      /\ \A k \in Listed(OldDir(r)) :
            /\ Covers(r.path, k) /\ Covers(r.dst, NewKey(r, k))
            /\ ~Covers(r.path, NewKey(r, k)) /\ NewKey(r, k) # dst
  BY <1>1, MoveKeys
<1>3. src \in Key /\ dst \in Key /\ Covers(r.path, src) /\ Covers(r.dst, dst)
      /\ ~Covers(r.path, dst)
  BY <1>1, <1>2, CallKeys, DirKeyCovered, MoveApart, ApartCovers
<1>4. ASSUME Renamed(c, TRUE) PROVE Good
  <2>1. MovedInv(c)' /\ MovePromise(c) /\ Fresh(c)
    BY <1>1, <1>4, RenamedSeen, AnswerFresh DEF Renamed
  <2> QED
    BY <2>1 DEF Fresh, GoneInv, Listing
<1>5. CASE EachMvFile(c)
  <2>1. l.cursor = <<>> /\ NoFile(r.dst) /\ NoDir(r.dst)
    BY <1>5 DEF EachMvFile, At, SeenInv, Vacant, Listing
  <2>2. CASE Renamed(c, TRUE)
    BY <1>4, <2>2
  <2>3. CASE CopyOk(src, dst) /\ Goto(c, "MvFileDelete")
    <3>1. call'[c].pc = "MvFileDelete" /\ call'[c].req = r
      BY <1>1, <2>3, GotoFields
    <3>2. src \in DOMAIN objects /\ DOMAIN objects' = DOMAIN objects \cup {dst}
      BY <2>3 DEF CopyOk, PutOk, Write
    <3>3. NoDir(r.path)
      BY <1>2, <3>2 DEF Clashless, NoFile, PathsOf
    <3>4. ~Under(dst, WithSlash(src)) /\ ~Under(dst, WithSlash(dst))
      BY <1>2, <1>3, OneFolder DEF Covers
    <3>5. MovedInv(c)' /\ GoneInv(c)'
      BY <2>1, <3>1, <3>2, <3>3, <3>4 DEF MovedInv, GoneInv, NoDir
    <3> QED
      BY <3>1, <3>5 DEF Answers, MovePromise
  <2>4. CASE (CopyMissing(src) \/ CopyErr(src, dst)) /\ Goto(c, "MvList")
    <3>1. /\ call'[c].pc = "MvList" /\ call'[c].req = r
          /\ call'[c].cursor = <<>>
      BY <1>1, <2>1, <2>4, GotoFields
    <3>2. UNCHANGED objects
      BY <1>1, <2>4 DEF CopyMissing, CopyErr, PutErr
    <3>3. src \notin DOMAIN objects
      BY <1>5, <3>1 DEF EachMvFile
    <3>4. \A k \in DOMAIN objects' : InHand(call'[c], k)
      BY <1>1, <3>1, <3>2, BeforeAll DEF InHand
    <3>5. MovedInv(c)' /\ GoneInv(c)'
      BY <2>1, <3>1, <3>2, <3>3, <3>4 DEF MovedInv, GoneInv, NoFile, Listed
    <3> QED
      BY <3>1, <3>5 DEF Answers, MovePromise
  <2> QED
    BY <1>5, <2>2, <2>3, <2>4 DEF EachMvFile
<1>6. CASE EachMvFileDelete(c)
  <2>1. NoDir(r.path) /\ src \notin DOMAIN objects'
        /\ DOMAIN objects' \subseteq DOMAIN objects
    BY <1>1, <1>6 DEF EachMvFileDelete, At, MovedInv, Deletes, Erase
  <2>2. EmptyThen(r.path)
    BY <2>1 DEF EmptyThen, Covers, NoDir
  <2>3. MovedInv(c)' /\ MovePromise(c) /\ Fresh(c)
    BY <1>1, <1>6, <2>2, RenamedSeen, AnswerFresh DEF EachMvFileDelete, Renamed
  <2> QED
    BY <2>3 DEF Fresh, GoneInv, Listing
<1>7. CASE EachMvList(c)
  <2>1. /\ UNCHANGED objects /\ NoFile(r.path) /\ NoFile(r.dst)
        /\ \A k \in Listed(OldDir(r)) : Before(l.cursor, k)
    BY <1>1, <1>7 DEF EachMvList, At, MovedInv, GoneInv, InHand
  <2>2. CASE Renamed(c, TRUE)
    BY <1>4, <2>2
  <2>3. ASSUME NEW m \in NextPage(c, OldDir(r)), EachMvNext(c, m)
        PROVE  Good
    <3>1. m \in CallType /\ m.req = r
      BY <1>1, <2>3, NextPageType
    <3>2. \A k \in DOMAIN objects' : Under(k, OldDir(r))
            => k \in m.todo \/ (m.more /\ Before(m.cursor, k))
      BY <1>1, <2>1, <2>3, NextPageCovers DEF Listed
    <3> QED
      BY <1>1, <2>1, <2>3, <3>1, <3>2, MvNextMoved DEF NoFile
  <2> QED
    BY <1>7, <2>2, <2>3 DEF EachMvList
<1>8. CASE EachMvCopy(c)
  <2>1. CASE Renamed(c, TRUE)
    BY <1>4, <2>1
  <2>2. CASE CopyOk(f, NewKey(r, f)) /\ Goto(c, "MvDelete")
    <3>1. /\ call'[c].pc = "MvDelete" /\ call'[c].req = r
          /\ call'[c].cursor = l.cursor /\ call'[c].todo = l.todo
          /\ call'[c].more = l.more /\ call'[c].del = {}
      BY <1>1, <2>2, GotoFields
    <3>2. f \in Listed(OldDir(r)) /\ DOMAIN objects' = DOMAIN objects \cup {NewKey(r, f)}
      BY <1>8, <2>2, FirstListed DEF EachMvCopy, At, CopyOk, PutOk, Write, Listed
    <3>3. ~Under(NewKey(r, f), OldDir(r)) /\ NewKey(r, f) # src /\ NewKey(r, f) # dst
      BY <1>2, <1>3, <3>2 DEF Covers
    <3>4. NoFile(r.path) /\ NoFile(r.dst)
          /\ \A k \in Listed(OldDir(r)) : InHand(l, k) /\ l.pc = "MvCopy"
      BY <1>8 DEF EachMvCopy, At, MovedInv, GoneInv
    <3>5. \A k \in DOMAIN objects' : Under(k, OldDir(r)) => InHand(call'[c], k)
      BY <1>1, <3>1, <3>2, <3>3, <3>4 DEF InHand, Listed
    <3>6. MovedInv(c)' /\ GoneInv(c)'
      BY <3>1, <3>2, <3>3, <3>4, <3>5 DEF MovedInv, GoneInv, NoFile, Listed
    <3> QED
      BY <3>1, <3>6 DEF Answers, MovePromise
  <2> QED
    BY <1>8, <2>1, <2>2 DEF EachMvCopy
<1>9. CASE EachMvDelete(c)
  <2>1. /\ DOMAIN objects' \subseteq DOMAIN objects \ {f}
        /\ NoFile(r.path) /\ NoFile(r.dst)
        /\ \A k \in Listed(OldDir(r)) :
              k \in l.todo \/ (l.more /\ Before(l.cursor, k))
    BY <1>1, <1>9 DEF EachMvDelete, At, MovedInv, GoneInv, InHand, Deletes, Erase
  <2>2. CASE Renamed(c, TRUE)
    BY <1>4, <2>2
  <2>3. CASE EachMvNext(c, [l EXCEPT !.todo = @ \ {f}])
    <3> DEFINE m == [l EXCEPT !.todo = @ \ {f}]
    <3>1. /\ m \in CallType /\ m.req = r /\ m.todo = l.todo \ {f}
          /\ m.more = l.more /\ m.cursor = l.cursor
      BY <1>1 DEF CallType
    <3> HIDE DEF m
    <3>2. \A k \in DOMAIN objects' : Under(k, OldDir(r))
            => k \in m.todo \/ (m.more /\ Before(m.cursor, k))
      BY <2>1, <3>1 DEF Listed
    <3>3. src \notin DOMAIN objects' /\ dst \notin DOMAIN objects'
      BY <2>1 DEF NoFile
    <3> QED
      BY <1>1, <2>3, <3>1, <3>2, <3>3, MvNextMoved DEF m
  <2> QED
    BY <1>9, <2>2, <2>3 DEF EachMvDelete
<1> QED
  BY <1>5, <1>6, <1>7, <1>8, <1>9

----------------------------------------------------------------------------
\* One step, seen by the others.

LEMMA QuietSeen ==
    ASSUME NEW c \in Client, call'[c].pc = "idle", call'[c].cursor = <<>>
    PROVE  SeenInv(c)' /\ NewInv(c)' /\ MovedInv(c)' /\ GoneInv(c)' /\ MissedInv(c)'
  BY DEF SeenInv, NewInv, MovedInv, GoneInv, MissedInv, Stating, Removing, Listing

LEMMA BeginSeen ==
    ASSUME TypeOK, NEW c \in Client, NEW s \in Server, NEW r \in Request,
           Begin(c, s, r)
    PROVE  SeenInv(c)' /\ NewInv(c)' /\ MovedInv(c)' /\ GoneInv(c)' /\ MissedInv(c)'
<1>1. CASE Answer(c, 423)
  <2>1. call'[c] = [Quiet EXCEPT !.reply = 423]
    BY <1>1, BecomeEffect DEF Answer
  <2> QED
    BY <2>1, QuietSeen DEF Quiet
<1>2. CASE ~Answer(c, 423)
  <2> DEFINE l == [Quiet EXCEPT
                 !.pc = IF r.op = "MOVE" THEN "LockDst" ELSE Entry(r),
                 !.req = r, !.server = s, !.at = Target(r),
                 !.body = IF r.op = "PUT" THEN sent + 1 ELSE 0]
  <2>1. call'[c] = l
    BY <1>2, BecomeEffect DEF Begin
  <2>2. /\ l.pc = IF r.op = "MOVE" THEN "LockDst" ELSE Entry(r)
        /\ l.req = r /\ l.at = Target(r) /\ l.cursor = <<>>
    BY DEF Quiet
  <2> HIDE DEF l
  <2>3. call'[c].pc \in {"LockDst", "OpenMarker", "StatFile"}
    BY <2>1, <2>2 DEF Entry
  <2>4. r.op = "MKCOL" => Target(r) = r.path
    BY DEF Target
  <2> QED
    BY <2>1, <2>2, <2>3, <2>4 DEF SeenInv, NewInv, MovedInv, GoneInv, MissedInv,
                                  Stating, Removing, Listing
<1> QED
  BY <1>1, <1>2

\* c's step leaves the paths of d's request alone.
LEMMA OthersSeen ==
    ASSUME PathsApart, OneServer, IInv, Served, TypeOK', NEW c \in Client,
           UNCHANGED objects
             \/ (Active(c) /\ ~At(c, "LockDst") /\ ChangesOnly(Own(c))),
           NEW d \in Client, d # c, call'[d] = call[d]
    PROVE  /\ SeenInv(d) => SeenInv(d)'
           /\ NewInv(d) => NewInv(d)'
           /\ MovedInv(d) => MovedInv(d)'
           /\ GoneInv(d) => GoneInv(d)'
           /\ MissedInv(d) => MissedInv(d)'
           /\ Active(d) => OverwritePromise(d)
<1>1. Active(d) /\ ~At(d, "LockDst") => \A p \in PathsOf(call[d].req) : AsBefore(p)
  BY SameAsBefore, OthersAsBefore
<1>2. Active(d) => OverwritePromise(d)
  <2> SUFFICES ASSUME Active(d), ~At(d, "LockDst"), call[d].req.op = "MOVE",
                      NEW k \in DOMAIN objects, Covers(call[d].req.dst, k)
               PROVE  Stays(k)
    BY DEF OverwritePromise
  <2>1. call[d].req.dst \in PathsOf(call[d].req)
    BY DEF PathsOf
  <2> QED
    BY <1>1, <2>1 DEF AsBefore, IInv, TypeOK, IsStore
<1> QED
  BY <1>1, <1>2, SeenAsBefore

LEMMA NoAnswer ==
    ASSUME NEW c, call'[c] = call[c] \/ call'[c] = Quiet \/ ~Active(c)
    PROVE  DeletePromise(c) /\ AbsentPromise(c) /\ MovePromise(c)
  BY DEF DeletePromise, AbsentPromise, MovePromise, Answers, Active, Quiet

\* What every request is promised makes the properties.
Promises ==
    \A c \in Client :
        /\ DeletePromise(c) /\ AbsentPromise(c)
        /\ Active(c) => OverwritePromise(c)

LEMMA PromisesKept ==
    ASSUME Promises
    PROVE  DeleteEmptied /\ WasAbsent /\ OverwriteKept
<1>1. DeleteEmptied
  BY DEF Promises, DeletePromise, EmptyThen, DeleteEmptied
<1>2. WasAbsent
  BY VacantCovers DEF Promises, AbsentPromise, WasAbsent
<1>3. OverwriteKept
  BY DEF Promises, OverwritePromise, OverwriteKept, Stays
<1> QED
  BY <1>1, <1>2, <1>3

LEMMA SeedClash ==
    ASSUME SeedClashless, Init
    PROVE  Clashless
  BY DEF SeedClashless, Init, Clashless, NoFile, NoDir

LEMMA InitSeen ==
    ASSUME Init, NEW c \in Client
    PROVE  SeenInv(c) /\ NewInv(c) /\ MovedInv(c) /\ GoneInv(c) /\ MissedInv(c)
  BY DEF Init, Quiet, SeenInv, NewInv, MovedInv, GoneInv, MissedInv, Stating,
         Removing, Listing

----------------------------------------------------------------------------
\* Object by object: the invariant, and what it promises.

EachSound ==
    /\ EachInv
    /\ Served
    /\ faults = 0 => \A c \in Client : SeenInv(c) /\ NewInv(c)

LEMMA EachServed ==
    ASSUME EachInv, Served, [EachNext]_vars
    PROVE  Served'
<1>1. IInv /\ TypeOK
  BY DEF EachInv, IInv
<1>2. CASE \E c \in Client, s \in Server, r \in Request : Begin(c, s, r)
  BY <1>1, <1>2, BeginServed
<1>3. ASSUME NEW c \in Client, SharedStep(c) \/ EachStep(c)
      PROVE  Served'
  <2>1. CASE LockDst(c)
    BY <1>1, <2>1, LockDstServed DEF IInv
  <2>2. CASE ~LockDst(c)
    <3>1. Goes(c)
      BY <1>1, <1>3, <2>2, SharedStepGoes, EachStepGoes DEF IInv
    <3> QED
      BY <3>1, GoesServed
  <2> QED
    BY <2>1, <2>2
<1>4. CASE \E s \in Server : Crash(s)
  BY <1>1, <1>4, CrashServed
<1>5. CASE UNCHANGED vars
  BY <1>5 DEF vars, Served, Active
<1> QED
  BY <1>2, <1>3, <1>4, <1>5 DEF EachNext, AllServed

\* A step of c leaves the paths of the others alone.
LEMMA EachOthersSeen ==
    ASSUME PathsApart, OneServer, EachInv, EachInv', Served, NEW c \in Client,
           SharedStep(c) \/ EachStep(c), NEW d \in Client, d # c
    PROVE  /\ call'[d] = call[d]
           /\ SeenInv(d) => SeenInv(d)'
           /\ NewInv(d) => NewInv(d)'
           /\ MovedInv(d) => MovedInv(d)'
           /\ GoneInv(d) => GoneInv(d)'
           /\ Active(d) => OverwritePromise(d)
<1>1. IInv /\ TypeOK /\ TypeOK' /\ CallInv(call[c])
  BY DEF EachInv, IInv
<1>2. call'[d] = call[d]
  BY SharedTodo, EachStepGoes DEF Goes
<1>3. \/ UNCHANGED objects
      \/ Active(c) /\ ~At(c, "LockDst") /\ ChangesOnly(Own(c))
  <2>1. CASE EachStep(c)
    BY <2>1, EachOwns
  <2>2. CASE LockDst(c)
    BY <2>2 DEF LockDst
  <2>3. CASE SharedStep(c) /\ ~LockDst(c)
    <3>1. Active(c) /\ ~At(c, "LockDst")
      BY <2>3 DEF SharedStep, StatFile, StatMarker, StatList, PutMarker,
                  OpenMarker, OpenList, Upload, At, Active
    <3> QED
      BY <1>1, <2>3, <3>1, SharedOwns
  <2> QED
    BY <2>1, <2>2, <2>3
<1> QED
  BY <1>1, <1>2, <1>3, OthersSeen

\* Its own.
LEMMA EachSeen ==
    ASSUME MovesApart, EachInv, NEW c \in Client, SharedStep(c) \/ EachStep(c),
           faults' = 0, SeenInv(c), NewInv(c)
    PROVE  /\ SeenInv(c)' /\ NewInv(c)'
           /\ DeletePromise(c) /\ AbsentPromise(c) /\ OverwritePromise(c)
<1>1. CASE SharedStep(c)
  BY <1>1, SharedSeen DEF EachInv, IInv
<1>2. CASE EachStep(c)
  BY <1>2, EachRemoveSeen, EachRenameSeen DEF EachStep
<1> QED
  BY <1>1, <1>2

\* A call that fails is counted for good.
LEMMA SharedCounts ==
    ASSUME NEW c \in Client, SharedStep(c)
    PROVE  Works \/ Breaks
<1>1. CASE LockDst(c) \/ StatFile(c) \/ StatMarker(c) \/ StatList(c)
  BY <1>1 DEF LockDst, StatFile, StatMarker, StatList, HeadOk, HeadErr, AnyOk,
              AnyErr, Works
<1>2. CASE PutMarker(c) \/ OpenMarker(c) \/ OpenList(c) \/ Upload(c)
  BY <1>2 DEF PutMarker, OpenMarker, OpenList, Upload, HeadOk, HeadErr, AnyOk,
              AnyErr, PutOk, PutErr, Works
<1> QED
  BY <1>1, <1>2 DEF SharedStep

LEMMA EachCounts ==
    ASSUME NEW c \in Client, EachStep(c)
    PROVE  Works \/ Breaks
<1>1. CASE EachRmFile(c) \/ EachRmList(c) \/ EachRmKey(c)
  BY <1>1 DEF EachRmFile, EachRmList, EachRmKey, Deletes
<1>2. CASE EachMvFile(c) \/ EachMvFileDelete(c) \/ EachMvList(c)
  BY <1>2 DEF EachMvFile, EachMvFileDelete, EachMvList, CopyOk, CopyMissing,
              CopyErr, PutOk, PutErr, Deletes
<1>3. CASE EachMvCopy(c) \/ EachMvDelete(c)
  BY <1>3 DEF EachMvCopy, EachMvDelete, CopyOk, CopyMissing, CopyErr, PutOk,
              PutErr, Deletes
<1> QED
  BY <1>1, <1>2, <1>3 DEF EachStep

LEMMA EachFaultFree ==
    ASSUME EachInv, [EachNext]_vars, faults' = 0
    PROVE  faults = 0
<1>1. TypeOK
  BY DEF EachInv, IInv
<1>2. Works \/ Breaks \/ UNCHANGED faults
  BY SharedCounts, EachCounts DEF EachNext, Begin, Crash, AllServed, vars
<1> QED
  BY <1>1, <1>2, NoBreak

LEMMA EachSoundInit == ASSUME Init PROVE EachSound
  BY EachInvInit, InitSeen DEF EachSound, Init, Quiet, Served, Active

\* What one step keeps, and what it promises.
LEMMA EachSoundStep ==
    ASSUME PathsApart, OneServer, EachSound, [EachNext]_vars
    PROVE  EachSound' /\ (EachNext /\ faults' = 0 => Promises)
<1>1. EachInv /\ IInv /\ TypeOK /\ Served /\ EachInv' /\ Served' /\ TypeOK' /\ MovesApart
  BY EachInvStep, EachServed, PathsMovesApart DEF EachSound, EachInv, IInv
<1> SUFFICES ASSUME faults' = 0
             PROVE  /\ \A c \in Client : SeenInv(c)' /\ NewInv(c)'
                    /\ EachNext => Promises
  BY <1>1 DEF EachSound
<1>2. \A c \in Client : SeenInv(c) /\ NewInv(c)
  BY <1>1, EachFaultFree DEF EachSound
<1>3. CASE \E c \in Client, s \in Server, r \in Request : Begin(c, s, r)
  <2>1. PICK c \in Client, s \in Server, r \in Request : Begin(c, s, r)
    BY <1>3
  <2>2. /\ UNCHANGED objects /\ ~Active(c)
        /\ \A d \in Client \ {c} : call'[d] = call[d]
    BY <1>1, <2>1, BeginEffect DEF Begin
  <2>3. SeenInv(c)' /\ NewInv(c)'
    BY <1>1, <2>1, BeginSeen
  <2>4. \A d \in Client \ {c} :
           SeenInv(d)' /\ NewInv(d)' /\ (Active(d) => OverwritePromise(d))
    BY <1>1, <1>2, <2>2, OthersSeen
  <2> QED
    BY <2>2, <2>3, <2>4, NoAnswer DEF Promises
<1>4. CASE \E c \in Client : SharedStep(c) \/ EachStep(c)
  <2>1. PICK c \in Client : SharedStep(c) \/ EachStep(c)
    BY <1>4
  <2>2. /\ SeenInv(c)' /\ NewInv(c)'
        /\ DeletePromise(c) /\ AbsentPromise(c) /\ OverwritePromise(c)
    BY <1>1, <1>2, <2>1, EachSeen
  <2>3. \A d \in Client \ {c} :
           /\ call'[d] = call[d]
           /\ SeenInv(d)' /\ NewInv(d)' /\ (Active(d) => OverwritePromise(d))
    BY <1>1, <1>2, <2>1, EachOthersSeen
  <2> QED
    BY <2>2, <2>3, NoAnswer DEF Promises
<1>5. CASE \E s \in Server : Crash(s)
  <2>1. /\ UNCHANGED objects
        /\ \A c \in Client : call'[c] = Quiet \/ call'[c] = call[c]
    BY <1>1, <1>5, CrashEffect
  <2>2. ASSUME NEW c \in Client
        PROVE  SeenInv(c)' /\ NewInv(c)'
    <3>1. CASE call'[c] = Quiet
      BY <3>1, QuietSeen DEF Quiet
    <3>2. CASE call'[c] = call[c]
      BY <1>1, <1>2, <2>1, <3>2, SameAsBefore, SeenAsBefore
    <3> QED
      BY <2>1, <3>1, <3>2
  <2> QED
    BY <2>1, <2>2, NoAnswer DEF Promises, OverwritePromise, Stays
<1>6. CASE UNCHANGED vars
  <2>1. UNCHANGED objects /\ \A c \in Client : call'[c] = call[c]
    BY <1>6 DEF vars
  <2>2. \A c \in Client : SeenInv(c)' /\ NewInv(c)'
    BY <1>1, <1>2, <2>1, SameAsBefore, SeenAsBefore
  <2> QED
    BY <2>1, <2>2, NoAnswer DEF Promises, OverwritePromise, Stays
<1> QED
  BY <1>3, <1>4, <1>5, <1>6 DEF EachNext, AllServed

\* What MOVE promises needs more: no name that is both, and a Rename that
\* lists only when there is no object of its source's name.
EachMoved ==
    /\ EachSound
    /\ faults = 0 => Clashless /\ \A c \in Client : MovedInv(c) /\ GoneInv(c)

ListsMissing ==
    \A c \in Client :
        faults' = 0 /\ At(c, "MvFile") /\ call'[c].pc = "MvList"
            => KeyFor(call[c].req.path) \notin DOMAIN objects

LEMMA EachMovedInit ==
    ASSUME SeedClashless, Init
    PROVE  EachMoved
  BY EachSoundInit, InitSeen, SeedClash DEF EachMoved

LEMMA EachOwnMoved ==
    ASSUME MovesApart, EachInv, Clashless, NEW c \in Client, faults' = 0,
           SeenInv(c), MovedInv(c), GoneInv(c), ListsMissing,
           SharedStep(c) \/ EachStep(c)
    PROVE  MovedInv(c)' /\ GoneInv(c)' /\ MovePromise(c)
<1>1. TypeOK /\ CallInv(call[c]) /\ CallInv(call[c]) /\ call[c].del = {}
  BY DEF EachInv, IInv, TodoInv
<1>2. CASE SharedStep(c)
  <2>1. MovedInv(c)' /\ MovePromise(c) /\ Fresh(c)
    BY <1>1, <1>2, SharedSeen, SharedFresh
  <2> QED
    BY <2>1 DEF Fresh, GoneInv, Listing
<1>3. CASE EachRmFile(c) \/ EachRmList(c) \/ EachRmKey(c)
  <2>1. call[c].pc \in Removing
    BY <1>3 DEF EachRmFile, EachRmList, EachRmKey, At, Removing
  <2>2. ASSUME NEW e \in BOOLEAN, Removed(c, e)
        PROVE  MovedInv(c)' /\ GoneInv(c)' /\ MovePromise(c)
    <3>1. Fresh(c)
      BY <1>1, <2>2, RemovedFresh
    <3>2. MovePromise(c)
      <4>1. CASE call[c].req.op = "MOVE" /\ e
        BY <1>1, <2>2, <4>1, AnswerSeen DEF Removed, MovePromise, Answers
      <4>2. CASE call[c].req.op = "MOVE" /\ ~e
        <5>1. call'[c] = [call[c] EXCEPT !.pc = "MvFile", !.errFile = FALSE,
                  !.cursor = <<>>, !.more = FALSE, !.todo = {}, !.del = {}]
          BY <1>1, <2>2, <4>2, BecomeEffect DEF Removed
        <5>2. call'[c].pc = "MvFile"
          BY <1>1, <5>1 DEF TypeOK, CallType
        <5> QED
          BY <5>2 DEF MovePromise, Answers
      <4> QED
        BY <4>1, <4>2 DEF MovePromise, Answers
    <3> QED
      BY <3>1, <3>2 DEF Fresh, Listing, MovedInv, GoneInv
  <2>3. ASSUME NEW m \in CallType, NEW pc \in {"RmKey", "RmList"},
               Become(c, [m EXCEPT !.pc = pc])
        PROVE  MovedInv(c)' /\ GoneInv(c)' /\ MovePromise(c)
    <3>1. call'[c].pc = pc
      BY <1>1, <2>3, BecomeFields
    <3> QED
      BY <2>3, <3>1 DEF MovedInv, GoneInv, MovePromise, Answers
  <2>4. ASSUME NEW m \in CallType, EachRmNext(c, m)
        PROVE  MovedInv(c)' /\ GoneInv(c)' /\ MovePromise(c)
    BY <2>2, <2>3, <2>4 DEF EachRmNext
  <2>5. CASE EachRmFile(c)
    <3>1. PICK e \in BOOLEAN :
            Become(c, [call[c] EXCEPT !.pc = "RmList", !.errFile = e])
      BY <2>5 DEF EachRmFile
    <3>2. call'[c] = [call[c] EXCEPT !.pc = "RmList", !.errFile = e]
      BY <1>1, <3>1, BecomeEffect
    <3>3. call'[c].pc = "RmList"
      BY <1>1, <3>2 DEF TypeOK, CallType
    <3> QED
      BY <3>3 DEF MovedInv, GoneInv, MovePromise, Answers
  <2>6. CASE EachRmList(c)
    BY <1>1, <2>2, <2>4, <2>6, NextPageType DEF EachRmList
  <2>7. CASE EachRmKey(c)
    <3> DEFINE k == First(call[c].todo)
    <3>1. \A e \in BOOLEAN :
             [call[c] EXCEPT !.todo = @ \ {k}, !.errFile = e] \in CallType
      <4>1. call[c] \in CallType
        BY <1>1 DEF TypeOK
      <4> HIDE DEF k
      <4> QED
        BY <4>1 DEF CallType
    <3>2. ASSUME NEW e \in BOOLEAN,
                 EachRmNext(c, [call[c] EXCEPT !.todo = @ \ {k}, !.errFile = e])
          PROVE  MovedInv(c)' /\ GoneInv(c)' /\ MovePromise(c)
      BY <2>4, <3>1, <3>2
    <3> QED
      BY <2>2, <2>7, <3>1, <3>2 DEF EachRmKey
  <2> QED
    BY <1>3, <2>5, <2>6, <2>7
<1>4. CASE \/ EachMvFile(c) \/ EachMvFileDelete(c)
           \/ EachMvList(c) \/ EachMvCopy(c) \/ EachMvDelete(c)
  BY <1>4, EachRenameMoved DEF ListsMissing
<1> QED
  BY <1>2, <1>3, <1>4 DEF EachStep

LEMMA EachMovedStep ==
    ASSUME PathsApart, OneServer, EachMoved, [EachNext]_vars, ListsMissing
    PROVE  EachMoved' /\ (EachNext /\ faults' = 0 => SourceEmptied)
<1>1. /\ EachInv /\ IInv /\ TypeOK /\ Served /\ EachInv' /\ TypeOK' /\ MovesApart
      /\ EachSound /\ EachSound'
  BY EachSoundStep, PathsMovesApart DEF EachMoved, EachSound, EachInv, IInv
<1>2. SUFFICES ASSUME faults' = 0
               PROVE  /\ Clashless'
                      /\ \A c \in Client : MovedInv(c)' /\ GoneInv(c)'
                      /\ EachNext => \A c \in Client : MovePromise(c)
  BY <1>1 DEF EachMoved, MovePromise, EmptyThen, SourceEmptied
<1>3. /\ Clashless
      /\ \A c \in Client : SeenInv(c) /\ MovedInv(c) /\ GoneInv(c)
  BY <1>1, <1>2, EachFaultFree DEF EachMoved, EachSound
<1>4. CASE \E c \in Client, s \in Server, r \in Request : Begin(c, s, r)
  <2>1. PICK c \in Client, s \in Server, r \in Request : Begin(c, s, r)
    BY <1>4
  <2>2. /\ UNCHANGED objects /\ ~Active(c)
        /\ \A d \in Client \ {c} : call'[d] = call[d]
    BY <1>1, <2>1, BeginEffect DEF Begin
  <2>3. MovedInv(c)' /\ GoneInv(c)'
    BY <1>1, <2>1, BeginSeen
  <2>4. \A d \in Client \ {c} : MovedInv(d)' /\ GoneInv(d)'
    BY <1>1, <1>3, <2>2, OthersSeen
  <2>5. Clashless'
    BY <1>3, <2>2, EraseClashless
  <2> QED
    BY <2>2, <2>3, <2>4, <2>5, NoAnswer
<1>5. CASE \E c \in Client : SharedStep(c) \/ EachStep(c)
  <2>1. PICK c \in Client : SharedStep(c) \/ EachStep(c)
    BY <1>5
  <2>2. MovedInv(c)' /\ GoneInv(c)' /\ MovePromise(c)
    BY <1>1, <1>2, <1>3, <2>1, EachOwnMoved
  <2>3. \A d \in Client \ {c} : call'[d] = call[d] /\ MovedInv(d)' /\ GoneInv(d)'
    BY <1>1, <1>3, <2>1, EachOthersSeen
  <2>4. Clashless'
    BY <1>1, <1>3, <2>1, SharedClashless, EachClashless DEF IInv
  <2> QED
    BY <2>2, <2>3, <2>4, NoAnswer
<1>6. CASE \E s \in Server : Crash(s)
  <2>1. /\ UNCHANGED objects
        /\ \A c \in Client : call'[c] = Quiet \/ call'[c] = call[c]
    BY <1>1, <1>6, CrashEffect
  <2>2. ASSUME NEW c \in Client
        PROVE  MovedInv(c)' /\ GoneInv(c)'
    <3>1. CASE call'[c] = Quiet
      BY <3>1, QuietSeen DEF Quiet
    <3>2. CASE call'[c] = call[c]
      BY <1>1, <1>3, <2>1, <3>2, SameAsBefore, SeenAsBefore
    <3> QED
      BY <2>1, <3>1, <3>2
  <2> QED
    BY <1>3, <2>1, <2>2, NoAnswer, EraseClashless
<1>7. CASE UNCHANGED vars
  <2>1. UNCHANGED objects /\ \A c \in Client : call'[c] = call[c]
    BY <1>7 DEF vars
  <2>2. \A c \in Client : MovedInv(c)' /\ GoneInv(c)'
    BY <1>1, <1>3, <2>1, SameAsBefore, SeenAsBefore
  <2> QED
    BY <1>3, <2>1, <2>2, NoAnswer, EraseClashless
<1> QED
  BY <1>4, <1>5, <1>6, <1>7 DEF EachNext, AllServed

----------------------------------------------------------------------------
\* A new folder, and the one it is made in.

\* The folder that r makes another one in.
Parent(r) == AddSlash(KeyFor(ParentDir(r.path)))

\* No request works on the object at k.
Untouched(k) == \A q \in Request : \A p \in PathsOf(q) : ~Covers(p, k)

\* No request removes anything from the folder that r makes another one in.
NeverEmptied(r) ==
    \A q \in Request : q.op \in {"DELETE", "MOVE"} =>
        \A p \in PathsOf(q) : Apart(p, ParentDir(r.path))

Below(r) == r.op = "MKCOL" /\ Len(r.path) > 1

\* The folder an MKCOL works in stays a folder: something in it is nobody's
\* business, or nothing in it is ever removed.
ParentsStay ==
    \A r \in Request : Below(r) =>
        \/ NeverEmptied(r)
        \/ \A o \in Seed : \E k \in DOMAIN o : Under(k, Parent(r)) /\ Untouched(k)

ParentKept(r) ==
    \/ NeverEmptied(r)
    \/ \E k \in DOMAIN objects : Under(k, Parent(r)) /\ Untouched(k)

\* What checkMkdir has found of the parent is still so.
ParentInv(c) ==
    LET l == call[c]
        r == l.req
    IN
    /\ r.op = "MKCOL" /\ l.pc \in Stating /\ l.at # r.path => l.at = ParentDir(r.path)
    /\ l.pc = "PutMarker" /\ Len(r.path) > 1 => Listed(Parent(r)) # {}

MkdirPromise(c) ==
    Answers(c, "MKCOL", {201}) =>
        LET r == call[c].req IN
        Vacant(r.path) /\ (Len(r.path) > 1 => Listed(Parent(r)) # {})

LEMMA NoMkdir ==
    ASSUME NEW c, call'[c] = call[c] \/ call'[c] = Quiet \/ ~Active(c)
    PROVE  MkdirPromise(c)
  BY DEF MkdirPromise, Answers, Active, Quiet

LEMMA IdleParent ==
    ASSUME NEW c, call'[c].pc = "idle"
    PROVE  ParentInv(c)'
  BY DEF ParentInv, Stating

\* checkMkdir goes on only to a parent that is a folder.
LEMMA StattedParent ==
    ASSUME TypeOK, NEW c \in Client, CallInv(call[c]), call[c].pc \in Stating,
           ParentInv(c), UNCHANGED objects, NEW kind, Statted(c, kind),
           kind = "dir" /\ call[c].at # <<>>
               => Listed(AddSlash(KeyFor(call[c].at))) # {}
    PROVE  ParentInv(c)' /\ ~Answers(c, "MKCOL", {201})
<1> DEFINE l == call[c]
           r == l.req
<1>1. l \in CallType /\ r.path \in Path
  BY DEF TypeOK, CallType, RequestType
<1>2. CASE r.op # "MKCOL"
  <2>1. \/ \E s : Answer(c, s)
        \/ Goto(c, "RmFile")
        \/ Become(c, [l EXCEPT !.pc = "MvFile", !.created = TRUE])
    BY <1>2 DEF Statted, DeleteStatted, MoveStatted, MkdirStatted
  <2>2. call'[c].pc \in {"idle", "RmFile", "MvFile"}
    <3>1. CASE \E s : Answer(c, s)
      BY <3>1, AnswerSeen
    <3>2. CASE Goto(c, "RmFile")
      BY <1>1, <3>2, GotoFields
    <3>3. CASE Become(c, [l EXCEPT !.pc = "MvFile", !.created = TRUE])
      <4>1. call'[c] = [l EXCEPT !.pc = "MvFile", !.created = TRUE]
        BY <3>3, BecomeEffect
      <4> QED
        BY <1>1, <4>1 DEF CallType
    <3> QED
      BY <2>1, <3>1, <3>2, <3>3
  <2> QED
    BY <1>2, <2>2 DEF ParentInv, Stating, Answers
<1>3. CASE r.op = "MKCOL"
  <2>1. MkdirStatted(c, kind)
    BY <1>3 DEF Statted, DeleteStatted, MoveStatted
  <2>2. CASE Answer(c, 405) \/ Answer(c, 409)
    <3>1. call'[c].pc = "idle" /\ call'[c].reply \in {405, 409}
      BY <2>2, AnswerSeen
    <3> QED
      BY <3>1, IdleParent DEF Answers
  <2>3. CASE /\ Goto(c, "PutMarker")
             /\ \/ l.at = r.path /\ Len(r.path) = 1
                \/ l.at # r.path /\ kind = "dir"
    <3>1. call'[c].pc = "PutMarker" /\ call'[c].req = r
      BY <1>1, <2>3, GotoFields
    <3>2. Len(r.path) > 1 => Listed(Parent(r)) # {}
      <4> SUFFICES ASSUME Len(r.path) > 1
                   PROVE  Listed(Parent(r)) # {}
        OBVIOUS
      <4>1. Len(r.path) # 1
        BY <1>1, PathIsSeq
      <4>2. l.at # r.path /\ kind = "dir"
        BY <2>3, <4>1
      <4>3. l.at = ParentDir(r.path)
        BY <1>3, <4>2 DEF ParentInv
      <4>4. Len(ParentDir(r.path)) = Len(r.path) - 1 /\ Len(r.path) \in Nat
        BY <1>1, PathIsSeq DEF ParentDir, Path
      <4>5. ParentDir(r.path) # <<>>
        BY <4>4
      <4> QED
        BY <4>2, <4>3, <4>5 DEF Parent
    <3>3. (Listed(Parent(r)))' = Listed(Parent(r))
      BY <3>1 DEF Listed, Parent
    <3> QED
      BY <3>1, <3>2, <3>3 DEF ParentInv, Stating, Answers, Listed, Parent
  <2>4. CASE Become(c, [l EXCEPT !.pc = "StatFile", !.at = ParentDir(r.path)])
    <3>1. call'[c] = [l EXCEPT !.pc = "StatFile", !.at = ParentDir(r.path)]
      BY <2>4, BecomeEffect
    <3>2. /\ call'[c].pc = "StatFile" /\ call'[c].req = r
          /\ call'[c].at = ParentDir(r.path)
      BY <1>1, <3>1 DEF CallType
    <3> QED
      BY <3>2 DEF ParentInv, Answers
  <2> QED
    BY <2>1, <2>2, <2>3, <2>4 DEF MkdirStatted
<1> QED
  BY <1>2, <1>3

LEMMA SharedParent ==
    ASSUME TypeOK, NEW c \in Client, CallInv(call[c]), SharedStep(c), ParentInv(c),
           faults' = 0 => SeenInv(c)
    PROVE  ParentInv(c)' /\ (faults' = 0 => MkdirPromise(c))
<1> DEFINE l == call[c]
           r == l.req
<1>1. l \in CallType /\ MethodInv(l) /\ l.at \in Path
  BY DEF TypeOK, CallInv, CallType
<1>2. ASSUME l.pc \in Stating, NEW kind, Statted(c, kind), UNCHANGED objects,
             kind = "dir" /\ l.at # <<>> => Listed(AddSlash(KeyFor(l.at))) # {}
      PROVE  ParentInv(c)' /\ MkdirPromise(c)
  BY <1>2, StattedParent DEF MkdirPromise
<1>3. ASSUME l.pc \in Stating, NEW pc \in {"StatMarker", "StatList"}, Goto(c, pc)
      PROVE  ParentInv(c)' /\ MkdirPromise(c)
  <2>1. call'[c].pc = pc /\ call'[c].req = r /\ call'[c].at = l.at
    BY <1>1, <1>3, GotoFields
  <2> QED
    BY <1>3, <2>1 DEF ParentInv, MkdirPromise, Answers, Stating
<1>4. CASE StatFile(c)
  <2>1. l.pc \in Stating /\ UNCHANGED objects
    BY <1>4 DEF StatFile, At, Stating, HeadOk, HeadErr
  <2>2. CASE KeyFor(l.at) = RootKey /\ Statted(c, "dir")
    <3>1. l.at = <<>>
      BY <1>1, <2>2, OneFolder
    <3> QED
      BY <1>2, <2>1, <2>2, <3>1
  <2>3. CASE Statted(c, "file")
    BY <1>2, <2>1, <2>3
  <2>4. CASE Goto(c, "StatMarker")
    BY <1>3, <2>1, <2>4
  <2> QED
    BY <1>4, <2>2, <2>3, <2>4 DEF StatFile
<1>5. CASE StatMarker(c)
  <2> DEFINE d == AddSlash(KeyFor(l.at))
  <2>1. l.pc \in Stating /\ UNCHANGED objects
    BY <1>5 DEF StatMarker, At, Stating, HeadOk, HeadErr
  <2>2. CASE HeadOk(d) /\ Statted(c, "dir")
    <3>1. d \in DOMAIN objects /\ d \in Key
      BY <2>2 DEF HeadOk, TypeOK, IsStore
    <3>2. d \in Listed(d)
      BY <3>1, UnderSelf DEF Listed
    <3> QED
      BY <1>2, <2>1, <2>2, <3>2
  <2>3. CASE Goto(c, "StatList")
    BY <1>3, <2>1, <2>3
  <2> QED
    BY <1>5, <2>2, <2>3 DEF StatMarker
<1>6. CASE StatList(c)
  <2>1. l.pc \in Stating /\ UNCHANGED objects
    BY <1>6 DEF StatList, At, Stating, AnyOk, AnyErr
  <2>2. CASE AnyOk(AddSlash(KeyFor(l.at))) /\ Statted(c, "dir")
    BY <1>2, <2>1, <2>2 DEF AnyOk
  <2>3. CASE Statted(c, "none")
    BY <1>2, <2>1, <2>3
  <2> QED
    BY <1>6, <2>2, <2>3 DEF StatList
<1>7. CASE PutMarker(c)
  <2>1. l.pc = "PutMarker" /\ \E s : Answer(c, s)
    BY <1>7 DEF PutMarker, At
  <2>2. call'[c].pc = "idle"
    BY <2>1, AnswerSeen
  <2>3. faults' = 0 => MkdirPromise(c)
    BY <2>1 DEF SeenInv, ParentInv, MkdirPromise
  <2> QED
    BY <2>2, <2>3, IdleParent
<1>8. CASE LockDst(c) \/ OpenMarker(c) \/ OpenList(c) \/ Upload(c)
  <2>1. r.op \in {"MOVE", "PUT"}
    BY <1>1, <1>8 DEF LockDst, OpenMarker, OpenList, Upload, At, MethodInv, Opening
  <2>2. \/ \E s : Answer(c, s)
        \/ r.op = "PUT" /\ \E pc \in {"OpenList", "Upload"} : Goto(c, pc)
        \/ r.op = "MOVE" /\ Goto(c, "StatFile")
    BY <1>1, <1>8 DEF LockDst, OpenMarker, OpenList, Upload, At, MethodInv, Opening,
                      Entry
  <2>3. CASE \E s : Answer(c, s)
    BY <2>1, <2>3, AnswerSeen, IdleParent DEF MkdirPromise, Answers
  <2>4. ASSUME NEW pc \in {"OpenList", "Upload", "StatFile"}, Goto(c, pc)
        PROVE  ParentInv(c)' /\ MkdirPromise(c)
    <3>1. call'[c].pc = pc /\ call'[c].req = r
      BY <1>1, <2>4, GotoFields
    <3> QED
      BY <2>1, <3>1 DEF ParentInv, MkdirPromise, Answers
  <2> QED
    BY <2>2, <2>3, <2>4
<1> QED
  BY <1>4, <1>5, <1>6, <1>7, <1>8 DEF SharedStep

\* Only DELETE and MOVE remove anything.
LEMMA SharedAdds ==
    ASSUME NEW c \in Client, SharedStep(c)
    PROVE  DOMAIN objects \subseteq DOMAIN objects'
  BY DEF SharedStep, LockDst, StatFile, StatMarker, StatList, PutMarker, OpenMarker,
         OpenList, Upload, HeadOk, HeadErr, AnyOk, AnyErr, PutOk, PutErr, Write

\* A parent that was a folder still is.
LEMMA ParentStays ==
    ASSUME TypeOK, NEW c \in Client, call[c].req \in Request, ChangesOnly(Own(c)),
           call[c].req.op \notin {"DELETE", "MOVE"}
               => DOMAIN objects \subseteq DOMAIN objects',
           NEW r \in Request, Below(r), ParentKept(r)
    PROVE  ParentKept(r)' /\ (Listed(Parent(r)) # {} => (Listed(Parent(r)))' # {})
<1> DEFINE q == call[c].req
           p == ParentDir(r.path)
<1>1. r.path \in Path /\ Len(r.path) \in Nat /\ Len(r.path) > 1
      /\ \A t \in PathsOf(q) : t \in Path
  BY PathIsSeq, RequestAssumption DEF Below, RequestType, Path, PathsOf
<1>2. p \in Path /\ p # <<>>
  <2>1. p \in Path
    BY <1>1, ParentDirType
  <2>2. Len(p) = Len(r.path) - 1
    BY <1>1, PathIsSeq DEF ParentDir, Path
  <2> QED
    BY <1>1, <2>1, <2>2
<1>3. ASSUME NEW k \in DOMAIN objects, Untouched(k)
      PROVE  k \in DOMAIN objects'
  BY <1>3 DEF Untouched, Own, ChangesOnly
<1>4. CASE NeverEmptied(r)
  <2>1. ASSUME NEW k \in Listed(Parent(r))
        PROVE  k \in DOMAIN objects'
    <3>1. k \in DOMAIN objects /\ k \in Key /\ Under(k, Parent(r))
      BY DEF Listed, TypeOK, IsStore
    <3>2. Covers(p, k)
      BY <1>2, <3>1, OneFolder DEF Covers, Parent
    <3>3. CASE q.op \in {"DELETE", "MOVE"}
      <4>1. \A t \in PathsOf(q) : Apart(t, p)
        BY <1>4, <3>3 DEF NeverEmptied
      <4>2. \A t \in PathsOf(q) : ~Covers(t, k)
        BY <1>1, <1>2, <3>1, <3>2, <4>1, ApartCovers
      <4>3. k \notin Own(c)
        BY <4>2 DEF Own
      <4> QED
        BY <3>1, <4>3 DEF ChangesOnly
    <3> QED
      BY <3>1, <3>3
  <2>2. ParentKept(r)'
    BY <1>4 DEF ParentKept, NeverEmptied
  <2> QED
    BY <2>1, <2>2 DEF Listed, Parent
<1>5. CASE \E k \in DOMAIN objects : Under(k, Parent(r)) /\ Untouched(k)
  BY <1>3, <1>5 DEF ParentKept, Listed, Parent, Untouched
<1> QED
  BY <1>4, <1>5 DEF ParentKept

\* What the others have found of their parents.
LEMMA OthersParent ==
    ASSUME NEW d \in Client, call'[d] = call[d], CallInv(call[d]), ParentInv(d),
           \A r \in Request : Below(r) /\ Listed(Parent(r)) # {}
               => (Listed(Parent(r)))' # {}
    PROVE  ParentInv(d)' /\ MkdirPromise(d)
<1> DEFINE r == call[d].req
<1>1. MkdirPromise(d)
  BY NoMkdir
<1>2. call[d].pc = "PutMarker" /\ Len(r.path) > 1 => r \in Request /\ Below(r)
  BY DEF CallInv, MethodInv, Below
<1>3. call[d].pc = "PutMarker" /\ Len(r.path) > 1 => (Listed(Parent(r)))' # {}
  BY <1>2 DEF ParentInv
<1>4. r' = r
  OBVIOUS
<1>5. (Listed(Parent(r)))' = Listed(Parent(r))'
  BY DEF Listed
<1> QED
  BY <1>1, <1>3, <1>4 DEF ParentInv, Parent, Listed

LEMMA BeginParent ==
    ASSUME TypeOK, NEW c \in Client, NEW s \in Server, NEW r \in Request,
           Begin(c, s, r)
    PROVE  ParentInv(c)'
<1>1. CASE Answer(c, 423)
  BY <1>1, AnswerSeen, IdleParent
<1>2. CASE ~Answer(c, 423)
  <2> DEFINE l == [Quiet EXCEPT
                 !.pc = IF r.op = "MOVE" THEN "LockDst" ELSE Entry(r),
                 !.req = r, !.server = s, !.at = Target(r),
                 !.body = IF r.op = "PUT" THEN sent + 1 ELSE 0]
  <2>1. call'[c] = l
    BY <1>2, BecomeEffect DEF Begin
  <2>2. /\ l.pc = IF r.op = "MOVE" THEN "LockDst" ELSE Entry(r)
        /\ l.req = r /\ l.at = Target(r)
    BY DEF Quiet
  <2> HIDE DEF l
  <2>3. call'[c].pc \in {"LockDst", "OpenMarker", "StatFile"}
    BY <2>1, <2>2 DEF Entry
  <2> QED
    BY <2>1, <2>2, <2>3 DEF ParentInv, Target
<1> QED
  BY <1>1, <1>2

LEMMA InitParent ==
    ASSUME ParentsStay, Init
    PROVE  /\ \A c \in Client : ParentInv(c)
           /\ \A r \in Request : Below(r) => ParentKept(r)
  BY DEF Init, ParentsStay, ParentKept, ParentInv, Quiet, Stating
=============================================================================
