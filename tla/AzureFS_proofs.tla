---------------------------- MODULE AzureFS_proofs --------------------------
(***************************************************************************)
(* Theorems about the Azure backend, for every prefix, workload and bound. *)
(* Every step of it is one of the steps CloudFS_proofs reasons about as    *)
(* EachNext, and inherits what is proved of them.                          *)
(***************************************************************************)
EXTENDS AzureFS, CloudFS_proofs

----------------------------------------------------------------------------
\* Step by step.

LEMMA DeleteDeletes ==
    ASSUME NEW k, DeleteOk(k) \/ DeleteErr(k)
    PROVE  Deletes(k)
  BY DEF DeleteOk, DeleteErr, Deletes, Erase

LEMMA RmNextEachNext ==
    ASSUME NEW c, NEW l \in CallType, RmNext(c, l)
    PROVE  EachRmNext(c, l)
<1>1. l.errFile \in BOOLEAN
  BY DEF CallType
<1> QED
  BY <1>1 DEF RmNext, EachRmNext

LEMMA MvNextEachNext ==
    ASSUME NEW c, NEW l, MvNext(c, l)
    PROVE  EachMvNext(c, l)
  BY DEF MvNext, EachMvNext

LEMMA StepSimulates ==
    ASSUME TypeOK, NEW c \in Client, Step(c)
    PROVE  SharedStep(c) \/ EachStep(c)
<1> DEFINE l == call[c]
           k == First(l.todo)
<1>1. l \in CallType /\ l.errFile \in BOOLEAN
  BY DEF TypeOK, CallType
<1>2. CASE RmFile(c)
  <2>1. [l EXCEPT !.pc = "RmList"]
          = [l EXCEPT !.pc = "RmList", !.errFile = l.errFile]
    BY <1>1 DEF CallType
  <2>2. EachRmFile(c)
    BY <1>1, <1>2, <2>1, DeleteDeletes DEF RmFile, EachRmFile, Goto
  <2> QED
    BY <2>2 DEF EachStep
<1>3. CASE RmList(c)
  <2>1. ASSUME NEW m \in NextPage(c, WithSlash(KeyFor(l.at))), RmNext(c, m)
        PROVE  EachRmNext(c, m)
    BY <2>1, NextPageType, RmNextEachNext
  <2>2. EachRmList(c)
    BY <1>3, <2>1 DEF RmList, EachRmList
  <2> QED
    BY <2>2 DEF EachStep
<1>4. CASE RmKey(c)
  <2>1. [l EXCEPT !.todo = @ \ {k}, !.errFile = FALSE] \in CallType
    BY <1>1 DEF CallType
  <2>2. EachRmKey(c)
    BY <1>4, <2>1, DeleteDeletes, RmNextEachNext DEF RmKey, EachRmKey
  <2> QED
    BY <2>2 DEF EachStep
<1>5. CASE MvFile(c)
  <2>1. EachMvFile(c)
    BY <1>5 DEF MvFile, EachMvFile
  <2> QED
    BY <2>1 DEF EachStep
<1>6. CASE MvFileDelete(c)
  <2>1. EachMvFileDelete(c)
    BY <1>6, DeleteDeletes DEF MvFileDelete, EachMvFileDelete
  <2> QED
    BY <2>1 DEF EachStep
<1>7. CASE MvList(c)
  <2>1. EachMvList(c)
    BY <1>7, MvNextEachNext DEF MvList, EachMvList
  <2> QED
    BY <2>1 DEF EachStep
<1>8. CASE MvCopy(c)
  <2>1. EachMvCopy(c)
    BY <1>8 DEF MvCopy, EachMvCopy
  <2> QED
    BY <2>1 DEF EachStep
<1>9. CASE MvDelete(c)
  <2>1. EachMvDelete(c)
    BY <1>9, DeleteDeletes, MvNextEachNext DEF MvDelete, EachMvDelete
  <2> QED
    BY <2>1 DEF EachStep
<1>10. CASE LockDst(c) \/ Stat(c) \/ Mkdir(c) \/ OpenFile(c)
  BY <1>10 DEF SharedStep, Stat, Mkdir, OpenFile
<1> QED
  BY <1>2, <1>3, <1>4, <1>5, <1>6, <1>7, <1>8, <1>9, <1>10 DEF Step

LEMMA NextSimulates ==
    ASSUME TypeOK, [Next]_vars
    PROVE  [EachNext]_vars
  BY StepSimulates DEF Next, EachNext

----------------------------------------------------------------------------
\* What Azure inherits.

\* The inductive invariant: IInv, and that a goroutine which handles a listed
\* object has one in hand.
THEOREM Invariance == Spec => []EachInv
<1>1. Init => EachInv
  BY EachInvInit
<1>2. EachInv /\ [Next]_vars => EachInv'
  BY NextSimulates, EachInvStep DEF EachInv, IInv
<1> QED
  BY <1>1, <1>2, PTL DEF Spec

\* Every variable of the Azure backend keeps its type: keys stay keys,
\* whatever Rename makes of them, and no counter passes its bound.
THEOREM TypeCorrect == Spec => []TypeOK
<1>1. EachInv => TypeOK
  BY DEF EachInv, IInv
<1> QED
  BY <1>1, Invariance, PTL

\* Two requests of one process never work on the same path, the source and
\* the destination of a MOVE included, whatever fails and whoever dies.
THEOREM LocksExclude == Spec => []LockExclusion
<1>1. EachInv => LockExclusion
  BY LockInvExcludes DEF EachInv, IInv
<1> QED
  BY <1>1, Invariance, PTL

\* No step writes or deletes a key outside the configured prefix, whatever
\* the paths of the requests and the keys a listing returns.
THEOREM StaysInPrefix == Spec => PrefixContained
<1> DEFINE A == \A k \in DOMAIN objects \cup DOMAIN objects' :
                  ~Under(k, RootKey) =>
                      /\ k \in DOMAIN objects /\ k \in DOMAIN objects'
                      /\ objects'[k] = objects[k]
<1>1. EachInv /\ [Next]_vars => [A]_vars
  <2> SUFFICES ASSUME EachInv, Next PROVE [A]_vars
    BY DEF A
  <2>1. CASE EachNext
    <3>1. ChangesOnly(InPrefix)
      BY <2>1, EachChanges
    <3> QED
      BY <3>1, ChangesPrefixContained DEF A
  <2>2. CASE UNCHANGED vars
    BY <2>2
  <2> QED
    BY <2>1, <2>2, NextSimulates DEF EachInv, IInv
<1> QED
  BY <1>1, Invariance, PTL DEF Spec, PrefixContained

\* With one process, and no request inside a folder a MOVE names, nothing a
\* key holds is lost unless a request was asked to replace or remove it:
\* whatever calls fail, and whenever the process dies.
THEOREM LosesNothing ==
    ASSUME MovesApart, OneServer, SeedMarkers
    PROVE  Spec => ContentKept
<1>1. Init => EachKept
  BY EachKeptInit
<1>2. EachKept /\ [Next]_vars => [EachNext]_vars
  BY NextSimulates DEF EachKept, EachInv, IInv
<1>3. EachKept /\ [Next]_vars => EachKept'
  BY <1>2, EachKeptStep
<1>4. EachKept /\ [Next]_vars => [KeptOrAsked]_vars
  BY <1>2, EachKeeps
<1> QED
  BY <1>1, <1>3, <1>4, PTL DEF Spec, ContentKept

----------------------------------------------------------------------------
\* What the answers of DELETE and MOVE say.

\* With one process, and no request inside a folder another one names, a
\* DELETE answered with success leaves neither the object of that name nor
\* anything below it, as long as no call has failed: the pager overlooks
\* nothing of what other requests leave alone, whoever else is at work and
\* whenever the process dies.
THEOREM DeletesAll ==
    ASSUME PathsApart, OneServer
    PROVE  Spec => DeleteSound
<1>1. Init => EachSound
  BY EachSoundInit
<1>2. EachSound /\ [Next]_vars => [EachNext]_vars
  BY NextSimulates DEF EachSound, EachInv, IInv
<1>3. EachSound /\ [Next]_vars => EachSound'
  BY <1>2, EachSoundStep
<1>4. EachSound /\ [Next]_vars => [faults' = 0 => DeleteEmptied]_vars
  BY <1>2, EachSoundStep, PromisesKept
<1> QED
  BY <1>1, <1>3, <1>4, PTL DEF Spec, DeleteSound

\* Under the same hypotheses a MOVE that may not overwrite leaves what is at
\* its destination, from the calls of Stat that found nothing there to its
\* last copy.
THEOREM OverwritesNothing ==
    ASSUME PathsApart, OneServer
    PROVE  Spec => OverwriteSound
<1>1. Init => EachSound
  BY EachSoundInit
<1>2. EachSound /\ [Next]_vars => [EachNext]_vars
  BY NextSimulates DEF EachSound, EachInv, IInv
<1>3. EachSound /\ [Next]_vars => EachSound'
  BY <1>2, EachSoundStep
<1>4. EachSound /\ [Next]_vars => [faults' = 0 => OverwriteKept]_vars
  BY <1>2, EachSoundStep, PromisesKept
<1> QED
  BY <1>1, <1>3, <1>4, PTL DEF Spec, OverwriteSound

\* Every MOVE has a destination whose name the service accepts.
KeysFit == \A r \in Request : r.op = "MOVE" => Storable(KeyFor(r.dst))

\* Rename lists below its source only when there is no blob of its name: not
\* when the URL of the blob makes another error read like that (azure.go:460).
LEMMA NextListsMissing ==
    ASSUME KeysFit, EachInv, [Next]_vars
    PROVE  ListsMissing
<1> SUFFICES ASSUME NEW c \in Client, faults' = 0, At(c, "MvFile"),
                    call'[c].pc = "MvList"
             PROVE  KeyFor(call[c].req.path) \notin DOMAIN objects
  BY DEF ListsMissing
<1> DEFINE src == KeyFor(call[c].req.path)
           dst == KeyFor(call[c].req.dst)
<1>1. IInv /\ TypeOK /\ ~Breaks /\ call[c].pc = "MvFile"
  BY NoBreak DEF EachInv, IInv, At
<1>2. CASE \E d \in Client, s \in Server, r \in Request : Begin(d, s, r)
  <2>1. PICK d \in Client, s \in Server, r \in Request : Begin(d, s, r)
    BY <1>2
  <2>2. d # c /\ call'[c] = call[c]
    BY <1>1, <2>1, BeginEffect DEF Begin, Active
  <2> QED
    BY <1>1, <2>2
<1>3. CASE \E d \in Client : Step(d)
  <2>1. PICK d \in Client : Step(d)
    BY <1>3
  <2>2. CASE d # c
    <3>1. call'[c] = call[c]
      BY <1>1, <2>1, <2>2, StepSimulates, SharedTodo, EachStepGoes DEF Goes, IInv, EachInv
    <3> QED
      BY <1>1, <3>1
  <2>3. CASE d = c
    <3>1. MvFile(c)
      BY <1>1, <2>1, <2>3 DEF Step, Stat, Mkdir, OpenFile, LockDst, StatFile,
             StatMarker, StatList, PutMarker, OpenMarker, OpenList, Upload,
             RmFile, RmList, RmKey, MvFileDelete, MvList, MvCopy, MvDelete, At
    <3>2. CASE CopyMissing(src)
      BY <3>2 DEF CopyMissing
    <3>3. CASE Goto(c, "MvFileDelete")
      <4>1. call[c] \in CallType /\ "MvFileDelete" # "MvList"
        BY <1>1 DEF TypeOK
      <4>2. call'[c].pc = "MvFileDelete"
        BY <1>1, <3>3, <4>1, GotoFields
      <4> QED
        BY <4>1, <4>2
    <3>4. CASE Renamed(c, TRUE)
      BY <1>1, <3>4, AnswerSeen DEF Renamed
    <3>5. ~CopyErr(src, dst)
      <4>1. call[c].req \in Request /\ call[c].req.op = "MOVE"
        BY <1>1 DEF IInv, CallInv, MethodInv, Renaming
      <4>2. Storable(dst)
        BY <4>1 DEF KeysFit
      <4> QED
        BY <1>1, <4>2 DEF CopyErr, PutErr
    <3> QED
      BY <3>1, <3>2, <3>3, <3>4, <3>5 DEF MvFile
  <2> QED
    BY <2>2, <2>3
<1>4. CASE \E s \in Server : Crash(s)
  <2>1. call'[c] = Quiet \/ call'[c] = call[c]
    BY <1>1, <1>4, CrashEffect
  <2> QED
    BY <1>1, <2>1 DEF Quiet
<1>5. CASE UNCHANGED vars
  BY <1>1, <1>5 DEF vars
<1> QED
  BY <1>2, <1>3, <1>4, <1>5 DEF Next, AllServed

\* When, moreover, no path of a request starts out as both a blob and a
\* folder, and every destination of a MOVE can be stored, a MOVE answered with
\* success leaves nothing at its source: no path ever becomes both, and what
\* Rename has listed and what it has still to list is all there is.
THEOREM MovesAll ==
    ASSUME PathsApart, OneServer, SeedClashless, KeysFit
    PROVE  Spec => MoveSound
<1>1. Init => EachMoved
  BY EachMovedInit
<1>2. EachMoved /\ [Next]_vars => [EachNext]_vars
  BY NextSimulates DEF EachMoved, EachSound, EachInv, IInv
<1>3. EachMoved /\ [Next]_vars => ListsMissing
  BY NextListsMissing DEF EachMoved, EachSound, EachInv
<1>4. EachMoved /\ [Next]_vars => EachMoved'
  BY <1>2, <1>3, EachMovedStep
<1>5. EachMoved /\ [Next]_vars => [faults' = 0 => SourceEmptied]_vars
  BY <1>2, <1>3, EachMovedStep
<1> QED
  BY <1>1, <1>4, <1>5, PTL DEF Spec, MoveSound
=============================================================================
