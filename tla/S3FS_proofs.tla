----------------------------- MODULE S3FS_proofs -----------------------------
(***************************************************************************)
(* Theorems about the S3 backend, for every prefix, workload and bound.    *)
(***************************************************************************)
EXTENDS S3FS, CloudFS_proofs

----------------------------------------------------------------------------
\* No name is decoded to another one that may be in use.
DecodesApart == \A m, n \in Name : Decoded[m] = n => m = n

\* Then S3 copies the object it was meant to copy, or none.
LEMMA CopySourceSame ==
    ASSUME DecodesApart, IsStore(objects), NEW k \in Key,
           CopySource(k) \in DOMAIN objects
    PROVE  CopySource(k) = k
<1> DEFINE j == CopySource(k)
<1>1. j \in Seq(Name \cup {Empty}) /\ k \in Seq(Name \cup {Empty})
  BY DEF IsStore, Key
<1>2. /\ DOMAIN j = DOMAIN k
      /\ \A i \in DOMAIN k :
            j[i] = IF k[i] = Empty THEN Empty ELSE Decoded[k[i]]
  BY DEF CopySource
<1>3. ASSUME NEW i \in DOMAIN k
      PROVE  j[i] = k[i]
  <2>1. CASE k[i] = Empty
    BY <1>2, <2>1
  <2>2. CASE k[i] # Empty
    <3>1. k[i] \in Name /\ j[i] = Decoded[k[i]] /\ j[i] \in Name \cup {Empty}
      BY <1>1, <1>2, <2>2
    <3>2. j[i] # Empty
      BY <3>1, DecodedAssumption
    <3> QED
      BY <3>1, <3>2 DEF DecodesApart
  <2> QED
    BY <2>1, <2>2
<1>4. Len(j) = Len(k) /\ DOMAIN j = 1..Len(j) /\ DOMAIN k = 1..Len(k)
  BY <1>1, <1>2
<1> HIDE DEF j
<1>5. j = k
  BY <1>1, <1>3, <1>4
<1> QED
  BY <1>5 DEF j

----------------------------------------------------------------------------
\* Types.

LEMMA DeleteType ==
    ASSUME TypeOK, NEW k, DeleteOk(k) \/ DeleteErr(k)
    PROVE  IsStore(objects') /\ faults' \in 0..MaxFaults
<1>1. (Erase({k}) \/ UNCHANGED objects) /\ (Works \/ Breaks)
  BY DEF DeleteOk, DeleteErr
<1> QED
  BY <1>1, EraseType, SameType, WorksType DEF TypeOK

LEMMA BatchType ==
    ASSUME TypeOK, NEW K, BatchOk(K) \/ BatchErr(K)
    PROVE  IsStore(objects') /\ faults' \in 0..MaxFaults
<1>1. (UNCHANGED objects \/ \E J : Erase(J)) /\ (Works \/ Breaks)
  BY DEF BatchOk, BatchErr
<1> QED
  BY <1>1, EraseType, SameType, WorksType DEF TypeOK

LEMMA MvNextType ==
    ASSUME TypeOK, NEW c \in Client, NEW l \in CallType, MvNext(c, l)
    PROVE  call' \in [Client -> CallType]
<1>1. \A pc \in PC : [l EXCEPT !.pc = pc] \in CallType
  BY ZenonT(60) DEF CallType
<1> QED
  BY <1>1, BecomeType, RenamedType DEF MvNext, PC

LEMMA StepType ==
    ASSUME TypeOK, NEW c \in Client, Step(c)
    PROVE  TypeOK'
<1> USE CallKeys
<1>1. CASE SharedStep(c)
  BY <1>1, SharedStepType
<1>2. CASE RmFile(c)
  <2>1. [call[c] EXCEPT !.pc = "RmList", !.errFile = TRUE] \in CallType
    BY ZenonT(60) DEF CallType, PC
  <2>2. call' \in [Client -> CallType]
    BY <1>2, <2>1, GotoType, BecomeType DEF RmFile, PC
  <2>3. IsStore(objects') /\ faults' \in 0..MaxFaults
    BY <1>2, DeleteType DEF RmFile
  <2> QED
    BY <1>2, <2>2, <2>3, ServingType DEF RmFile
<1>3. CASE RmList(c)
  <2> DEFINE d == WithSlash(KeyFor(call[c].at))
             cursor == call[c].cursor
  <2>1. ASSUME NEW last \in Rest(d, cursor) \cup {cursor},
               RmListed(c, Page(d, cursor, last), last,
                        Page(d, cursor, last) = Rest(d, cursor))
        PROVE  call' \in [Client -> CallType]
    <3> DEFINE l == [call[c] EXCEPT !.del = @ \cup Page(d, cursor, last),
                                    !.cursor = last]
    <3>1. Page(d, cursor, last) \in SUBSET (Key \ {<<Empty>>}) /\ last \in Seq(Name \cup {Empty})
      BY PageType
    <3>2. l \in CallType
      BY <3>1, ZenonT(60) DEF CallType
    <3> HIDE DEF l
    <3>3. [l EXCEPT !.pc = "RmBatch"] \in CallType
      BY <3>2, ZenonT(60) DEF CallType, PC
    <3> QED
      BY <2>1, <3>2, <3>3, BecomeType, RemovedType DEF RmListed, l
  <2>2. call' \in [Client -> CallType]
    BY <1>3, <2>1, RemovedType DEF RmList
  <2>3. IsStore(objects') /\ faults' \in 0..MaxFaults
    BY <1>3, SameType, WorksType DEF RmList, TypeOK
  <2> QED
    BY <1>3, <2>2, <2>3, ServingType DEF RmList
<1>4. CASE RmBatch(c)
  <2>1. call' \in [Client -> CallType]
    BY <1>4, RemovedType DEF RmBatch
  <2>2. IsStore(objects') /\ faults' \in 0..MaxFaults
    BY <1>4, BatchType DEF RmBatch
  <2> QED
    BY <1>4, <2>1, <2>2, ServingType DEF RmBatch
<1>5. CASE MvFile(c)
  <2>1. call' \in [Client -> CallType]
    BY <1>5, GotoType DEF MvFile, PC
  <2>2. IsStore(objects') /\ faults' \in 0..MaxFaults
    BY <1>5, CopyType DEF MvFile
  <2> QED
    BY <1>5, <2>1, <2>2, ServingType DEF MvFile
<1>6. CASE MvFileDelete(c)
  <2>1. call' \in [Client -> CallType]
    BY <1>6, RenamedType DEF MvFileDelete
  <2>2. IsStore(objects') /\ faults' \in 0..MaxFaults
    BY <1>6, DeleteType DEF MvFileDelete
  <2> QED
    BY <1>6, <2>1, <2>2, ServingType DEF MvFileDelete
<1>7. CASE MvList(c)
  <2> DEFINE d == OldDir(call[c].req)
             cursor == call[c].cursor
  <2>1. ASSUME NEW last \in Rest(d, cursor) \cup {cursor},
               MvNext(c, [call[c] EXCEPT
                   !.todo = Page(d, cursor, last), !.cursor = last,
                   !.more = Page(d, cursor, last) # Rest(d, cursor)])
        PROVE  call' \in [Client -> CallType]
    <3>1. [call[c] EXCEPT
             !.todo = Page(d, cursor, last), !.cursor = last,
             !.more = Page(d, cursor, last) # Rest(d, cursor)] \in CallType
      BY PageType, ZenonT(60) DEF CallType
    <3> QED
      BY <2>1, <3>1, MvNextType
  <2>2. call' \in [Client -> CallType]
    BY <1>7, <2>1, RenamedType DEF MvList
  <2>3. IsStore(objects') /\ faults' \in 0..MaxFaults
    BY <1>7, SameType, WorksType DEF MvList, TypeOK
  <2> QED
    BY <1>7, <2>2, <2>3, ServingType DEF MvList
<1>8. CASE MvCopy(c)
  <2>1. PICK k \in call[c].todo :
          LET src == CopySource(k)
              dst == NewKey(call[c].req, k)
          IN
          \/ /\ CopyOk(src, dst)
             /\ MvNext(c, [call[c] EXCEPT !.todo = @ \ {k},
                                          !.del = @ \cup {k}])
          \/ (CopyMissing(src) \/ CopyErr(src, dst)) /\ Renamed(c, TRUE)
    BY <1>8 DEF MvCopy
  <2>2. k \in Key
    BY DEF CallType
  <2>3. [call[c] EXCEPT !.todo = @ \ {k}, !.del = @ \cup {k}] \in CallType
    BY <2>2, ZenonT(60) DEF CallType
  <2>4. call' \in [Client -> CallType]
    BY <2>1, <2>3, MvNextType, RenamedType
  <2>5. IsStore(objects') /\ faults' \in 0..MaxFaults
    BY <2>1, <2>2, NewKeyType, CopyType
  <2> QED
    BY <1>8, <2>4, <2>5, ServingType DEF MvCopy
<1>9. CASE MvBatch(c)
  <2>1. call' \in [Client -> CallType]
    BY <1>9, RenamedType DEF MvBatch
  <2>2. IsStore(objects') /\ faults' \in 0..MaxFaults
    BY <1>9, BatchType DEF MvBatch
  <2> QED
    BY <1>9, <2>1, <2>2, ServingType DEF MvBatch
<1> QED
  BY <1>1, <1>2, <1>3, <1>4, <1>5, <1>6, <1>7, <1>8, <1>9 DEF Step

\* Every variable of the S3 backend keeps its type: keys stay keys, whatever
\* Rename makes of them, and no counter passes its bound.
THEOREM TypeCorrect == Spec => []TypeOK
<1>1. Init => TypeOK
  BY InitType
<1>2. TypeOK /\ [Next]_vars => TypeOK'
  <2> SUFFICES ASSUME TypeOK, [Next]_vars PROVE TypeOK'
    OBVIOUS
  <2>1. CASE \E c \in Client, s \in Server, r \in Request : Begin(c, s, r)
    BY <2>1, BeginType
  <2>2. CASE \E c \in Client : Step(c)
    BY <2>2, StepType
  <2>3. CASE \E s \in Server : Crash(s)
    BY <2>3, CrashType
  <2>4. CASE UNCHANGED vars
    BY <2>4 DEF vars, TypeOK, IsStore
  <2> QED
    BY <2>1, <2>2, <2>3, <2>4 DEF Next, AllServed
<1> QED
  BY <1>1, <1>2, PTL DEF Spec
----------------------------------------------------------------------------
\* Locks.

\* A Rename that goes on keeps to its request and to the keys below its source.
LEMMA MvNextGoes ==
    ASSUME TypeOK, NEW c \in Client, CallInv(call[c]), call[c].pc \in Renaming,
           NEW l \in CallType, l.req = call[c].req, l.server = call[c].server,
           l.at = call[c].at,
           \A k \in l.todo \cup l.del : Under(k, OldDir(call[c].req)),
           MvNext(c, l)
    PROVE  Goes(c) /\ CallInv(call'[c])
<1>1. Active(c) /\ call[c].pc # "LockDst"
  BY DEF Active, Renaming
<1>2. CASE Renamed(c, TRUE)
  BY <1>1, <1>2, RenamedGoes
<1>3. ASSUME NEW pc \in {"MvCopy", "MvList", "MvBatch"},
             Become(c, [l EXCEPT !.pc = pc])
      PROVE  Goes(c) /\ CallInv(call'[c])
  <2>1. /\ call'[c] = [l EXCEPT !.pc = pc]
        /\ \A d \in Client \ {c} : call'[d] = call[d]
    BY <1>3, BecomeEffect
  <2>2. /\ call'[c].pc = pc /\ call'[c].req = call[c].req
        /\ call'[c].server = call[c].server /\ call'[c].at = call[c].at
        /\ call'[c].todo = l.todo /\ call'[c].del = l.del
    BY <2>1 DEF CallType
  <2>3. CallInv(call'[c])
    BY <1>1, <2>2 DEF CallInv, MethodInv, ListInv, Opening, Stating, Removing,
                      Renaming, Listing, Active
  <2> QED
    BY <1>1, <1>3, <2>1, <2>2, <2>3 DEF Goes
<1> QED
  BY <1>2, <1>3 DEF MvNext

LEMMA StepGoes ==
    ASSUME TypeOK, NEW c \in Client, CallInv(call[c]), Step(c), ~LockDst(c)
    PROVE  Goes(c) /\ CallInv(call'[c])
<1> DEFINE r == call[c].req
<1>1. /\ call[c] \in CallType /\ MethodInv(call[c]) /\ ListInv(call[c])
  BY DEF TypeOK, CallInv
<1>2. CASE SharedStep(c)
  BY <1>2, SharedStepGoes
<1>3. CASE RmFile(c)
  <2>1. Active(c) /\ call[c].pc = "RmFile" /\ call[c].todo = {} /\ call[c].del = {}
    BY <1>1, <1>3 DEF RmFile, At, Active, ListInv, Listing
  <2>2. PICK e \in BOOLEAN :
          Become(c, [call[c] EXCEPT !.pc = "RmList", !.errFile = e])
    <3>1. [call[c] EXCEPT !.pc = "RmList"]
            = [call[c] EXCEPT !.pc = "RmList", !.errFile = call[c].errFile]
      BY <1>1 DEF CallType
    <3>2. call[c].errFile \in BOOLEAN
      BY <1>1 DEF CallType
    <3> QED
      BY <1>3, <3>1, <3>2 DEF RmFile, Goto
  <2>3. /\ call'[c] = [call[c] EXCEPT !.pc = "RmList", !.errFile = e]
        /\ \A d \in Client \ {c} : call'[d] = call[d]
    BY <2>2, BecomeEffect
  <2>4. /\ call'[c].pc = "RmList" /\ call'[c].req = r
        /\ call'[c].server = call[c].server /\ call'[c].at = call[c].at
        /\ call'[c].todo = {} /\ call'[c].del = {}
    BY <1>1, <2>1, <2>3 DEF CallType
  <2>5. CallInv(call'[c])
    BY <1>1, <2>1, <2>4 DEF CallInv, MethodInv, ListInv, Opening, Stating,
                            Removing, Renaming, Listing
  <2> QED
    BY <2>1, <2>3, <2>4, <2>5 DEF Goes
<1>4. CASE RmList(c)
  <2> DEFINE d == WithSlash(KeyFor(call[c].at))
             cursor == call[c].cursor
  <2>1. Active(c) /\ call[c].pc = "RmList" /\ call[c].pc \in Removing
    BY <1>4 DEF RmList, At, Active, Removing
  <2>2. CASE Removed(c, TRUE)
    BY <2>1, <2>2, RemovedGoes
  <2>3. ASSUME NEW last \in Rest(d, cursor) \cup {cursor},
               RmListed(c, Page(d, cursor, last), last,
                        Page(d, cursor, last) = Rest(d, cursor))
        PROVE  Goes(c) /\ CallInv(call'[c])
    <3> DEFINE page == Page(d, cursor, last)
               l == [call[c] EXCEPT !.del = @ \cup page, !.cursor = last]
    <3>1. CASE Removed(c, l.errFile)
      BY <2>1, <3>1, RemovedGoes
    <3>2. ASSUME NEW m, m = l \/ m = [l EXCEPT !.pc = "RmBatch"], Become(c, m)
          PROVE  Goes(c) /\ CallInv(call'[c])
      <4>1. call'[c] = m /\ \A b \in Client \ {c} : call'[b] = call[b]
        BY <3>2, BecomeEffect
      <4>2. /\ call'[c].pc \in {"RmList", "RmBatch"} /\ call'[c].req = r
            /\ call'[c].server = call[c].server /\ call'[c].at = call[c].at
            /\ call'[c].todo = call[c].todo
            /\ call'[c].del = call[c].del \cup page
        BY <1>1, <2>1, <3>2, <4>1, ZenonT(60) DEF CallType
      <4>3. \A k \in page : Under(k, d)
        BY DEF Page, Rest, Listed
      <4>4. MethodInv(call'[c])
        BY <1>1, <2>1, <4>2 DEF MethodInv, Opening, Stating, Removing, Renaming
      <4>5. ListInv(call'[c])
        BY <1>1, <2>1, <4>2, <4>3 DEF ListInv, Removing, Renaming, Listing
      <4> QED
        BY <2>1, <4>1, <4>2, <4>4, <4>5 DEF Goes, CallInv
    <3> QED
      BY <2>3, <3>1, <3>2 DEF RmListed
  <2> QED
    BY <1>4, <2>2, <2>3 DEF RmList
<1>5. CASE RmBatch(c)
  <2>1. call[c].pc \in Removing
    BY <1>5 DEF RmBatch, At, Removing
  <2> QED
    BY <1>5, <2>1, RemovedGoes DEF RmBatch
<1>6. CASE MvFile(c)
  <2>1. Active(c) /\ call[c].pc = "MvFile" /\ call[c].todo = {} /\ call[c].del = {}
    BY <1>1, <1>6 DEF MvFile, At, Active, ListInv, Listing
  <2>2. PICK pc \in {"MvFileDelete", "MvList"} : Goto(c, pc)
    BY <1>6 DEF MvFile
  <2>3. MethodInv([call[c] EXCEPT !.pc = pc])
    BY <1>1, <2>1 DEF CallType, MethodInv, Opening, Stating, Removing, Renaming
  <2> QED
    BY <2>1, <2>2, <2>3, GotoGoes DEF Listing, PC
<1>7. CASE MvFileDelete(c)
  BY <1>7, RenamedGoes DEF MvFileDelete, At, Active
<1>8. CASE MvList(c)
  <2> DEFINE d == OldDir(r)
             cursor == call[c].cursor
  <2>1. Active(c) /\ call[c].pc \in Renaming
    BY <1>8 DEF MvList, At, Active, Renaming
  <2>2. CASE Renamed(c, TRUE)
    BY <2>1, <2>2, RenamedGoes
  <2>3. ASSUME NEW last \in Rest(d, cursor) \cup {cursor},
               MvNext(c, [call[c] EXCEPT
                   !.todo = Page(d, cursor, last), !.cursor = last,
                   !.more = Page(d, cursor, last) # Rest(d, cursor)])
        PROVE  Goes(c) /\ CallInv(call'[c])
    <3> DEFINE page == Page(d, cursor, last)
               l == [call[c] EXCEPT !.todo = page, !.cursor = last,
                                    !.more = page # Rest(d, cursor)]
    <3>1. l \in CallType
      BY <1>1, PageType, ZenonT(60) DEF CallType
    <3>2. /\ l.req = r /\ l.server = call[c].server /\ l.at = call[c].at
          /\ l.todo = page /\ l.del = call[c].del
      BY <1>1 DEF CallType
    <3>3. \A k \in page : Under(k, d)
      BY DEF Page, Rest, Listed
    <3>4. \A k \in l.todo \cup l.del : Under(k, d)
      BY <1>1, <2>1, <3>2, <3>3 DEF ListInv
    <3> HIDE DEF l
    <3> QED
      BY <2>1, <2>3, <3>1, <3>2, <3>4, MvNextGoes DEF l
  <2> QED
    BY <1>8, <2>2, <2>3 DEF MvList
<1>9. CASE MvCopy(c)
  <2>1. Active(c) /\ call[c].pc \in Renaming
    BY <1>9 DEF MvCopy, At, Active, Renaming
  <2>2. CASE Renamed(c, TRUE)
    BY <2>1, <2>2, RenamedGoes
  <2>3. ASSUME NEW k \in call[c].todo,
               MvNext(c, [call[c] EXCEPT !.todo = @ \ {k}, !.del = @ \cup {k}])
        PROVE  Goes(c) /\ CallInv(call'[c])
    <3> DEFINE l == [call[c] EXCEPT !.todo = @ \ {k}, !.del = @ \cup {k}]
    <3>1. l \in CallType
      BY <1>1 DEF CallType
    <3>2. /\ l.req = r /\ l.server = call[c].server /\ l.at = call[c].at
          /\ l.todo \cup l.del = call[c].todo \cup call[c].del
      BY <1>1 DEF CallType
    <3>3. \A j \in l.todo \cup l.del : Under(j, OldDir(r))
      BY <1>1, <2>1, <3>2 DEF ListInv
    <3> HIDE DEF l
    <3> QED
      BY <2>1, <2>3, <3>1, <3>2, <3>3, MvNextGoes DEF l
  <2> QED
    BY <1>9, <2>2, <2>3 DEF MvCopy
<1>10. CASE MvBatch(c)
  BY <1>10, RenamedGoes DEF MvBatch, At, Active
<1> QED
  BY <1>2, <1>3, <1>4, <1>5, <1>6, <1>7, <1>8, <1>9, <1>10 DEF Step

LEMMA IInvStep ==
    ASSUME IInv, [Next]_vars
    PROVE  IInv'
<1>1. CASE \E c \in Client, s \in Server, r \in Request : Begin(c, s, r)
  BY <1>1, BeginIInv
<1>2. CASE \E c \in Client : Step(c)
  <2>1. PICK c \in Client : Step(c)
    BY <1>2
  <2>2. CASE LockDst(c)
    BY <2>2, LockDstIInv
  <2>3. CASE ~LockDst(c)
    <3>1. TypeOK'
      BY <2>1, StepType DEF IInv
    <3>2. Goes(c) /\ CallInv(call'[c])
      BY <2>1, <2>3, StepGoes DEF IInv
    <3> QED
      BY <3>1, <3>2, GoesIInv
  <2> QED
    BY <2>2, <2>3
<1>3. CASE \E s \in Server : Crash(s)
  BY <1>3, CrashIInv
<1>4. CASE UNCHANGED vars
  BY <1>4, StutterIInv
<1> QED
  BY <1>1, <1>2, <1>3, <1>4 DEF Next, AllServed

\* The inductive invariant: the types, the locks, and what each goroutine's
\* record says of the method it runs and of the keys it has listed.
THEOREM Invariance == Spec => []IInv
<1>1. Init => IInv
  BY InitType, InitInv DEF IInv
<1>2. IInv /\ [Next]_vars => IInv'
  BY IInvStep
<1> QED
  BY <1>1, <1>2, PTL DEF Spec

\* Two requests of one process never work on the same path, the source and
\* the destination of a MOVE included, whatever fails and whoever dies.
THEOREM LocksExclude == Spec => []LockExclusion
<1>1. IInv => LockExclusion
  BY LockInvExcludes DEF IInv
<1> QED
  BY <1>1, Invariance, PTL
----------------------------------------------------------------------------
\* The prefix.

LEMMA StepChanges ==
    ASSUME TypeOK, NEW c \in Client, CallInv(call[c]), Step(c)
    PROVE  ChangesOnly(InPrefix)
<1>1. /\ call[c] \in CallType /\ ListInv(call[c])
      /\ call[c].todo \cup call[c].del \subseteq Key
  BY DEF TypeOK, CallInv, CallType
<1>2. ASSUME NEW k \in InPrefix, DeleteOk(k) \/ DeleteErr(k)
      PROVE  ChangesOnly(InPrefix)
  BY <1>2, SameChanges, EraseChanges DEF DeleteOk, DeleteErr
<1>3. ASSUME NEW K \in SUBSET InPrefix, BatchOk(K) \/ BatchErr(K)
      PROVE  ChangesOnly(InPrefix)
  BY <1>3, SameChanges, EraseChanges DEF BatchOk, BatchErr
<1>4. CASE SharedStep(c)
  BY <1>4, SharedStepChanges
<1>5. CASE RmFile(c)
  BY <1>2, <1>5, CallInPrefix DEF RmFile
<1>6. CASE RmList(c) \/ MvList(c)
  BY <1>6, SameChanges DEF RmList, MvList
<1>7. CASE RmBatch(c)
  <2>1. call[c].pc \in Removing
    BY <1>7 DEF RmBatch, At, Removing
  <2>2. call[c].del \subseteq InPrefix
    BY <1>1, <2>1, CallInPrefix, BelowInPrefix DEF ListInv
  <2> QED
    BY <1>3, <1>7, <2>2 DEF RmBatch
<1>8. CASE MvFile(c)
  BY <1>8, CallInPrefix, CopyChanges DEF MvFile
<1>9. CASE MvFileDelete(c)
  BY <1>2, <1>9, CallInPrefix DEF MvFileDelete
<1>10. CASE MvCopy(c)
  <2>1. PICK k \in call[c].todo :
          LET src == CopySource(k)
              dst == NewKey(call[c].req, k)
          IN
          CopyOk(src, dst) \/ CopyMissing(src) \/ CopyErr(src, dst)
    BY <1>10 DEF MvCopy
  <2>2. call[c].pc \in Renaming
    BY <1>10 DEF MvCopy, At, Renaming
  <2>3. k \in Key /\ Under(k, OldDir(call[c].req))
    BY <1>1, <2>2 DEF ListInv
  <2> QED
    BY <2>1, <2>3, NewKeyInPrefix, CopyChanges
<1>11. CASE MvBatch(c)
  <2>1. call[c].pc \in Renaming
    BY <1>11 DEF MvBatch, At, Renaming
  <2>2. call[c].del \subseteq InPrefix
    BY <1>1, <2>1, CallInPrefix, BelowInPrefix DEF ListInv
  <2> QED
    BY <1>3, <1>11, <2>2 DEF MvBatch
<1> QED
  BY <1>4, <1>5, <1>6, <1>7, <1>8, <1>9, <1>10, <1>11 DEF Step

\* No step writes or deletes a key outside the configured prefix, whatever
\* the paths of the requests and the keys a listing returns.
THEOREM StaysInPrefix == Spec => PrefixContained
<1> DEFINE A == \A k \in DOMAIN objects \cup DOMAIN objects' :
                  ~Under(k, RootKey) =>
                      /\ k \in DOMAIN objects /\ k \in DOMAIN objects'
                      /\ objects'[k] = objects[k]
<1>1. IInv /\ [Next]_vars => [A]_vars
  <2> SUFFICES ASSUME IInv, Next PROVE A
    BY DEF A
  <2>1. CASE \E c \in Client, s \in Server, r \in Request : Begin(c, s, r)
    BY <2>1, SameChanges, ChangesPrefixContained DEF Begin
  <2>2. CASE \E c \in Client : Step(c)
    BY <2>2, StepChanges, ChangesPrefixContained DEF IInv
  <2>3. CASE \E s \in Server : Crash(s)
    BY <2>3, SameChanges, ChangesPrefixContained DEF Crash
  <2>4. CASE AllServed
    BY <2>4, SameChanges, ChangesPrefixContained DEF AllServed, vars
  <2> QED
    BY <2>1, <2>2, <2>3, <2>4 DEF Next
<1> QED
  BY <1>1, Invariance, PTL DEF Spec, PrefixContained
----------------------------------------------------------------------------
\* Losing nothing.

Deleting == {"MvList", "MvCopy", "MvBatch"}

\* What c's Rename is going to delete is copied.
CopyInv(c) ==
    LET r == call[c].req IN
    /\ At(c, "MvFileDelete") => Copied(KeyFor(r.path), KeyFor(r.dst))
    /\ call[c].pc \in Deleting =>
          \A k \in call[c].del : Copied(k, NewKey(r, k))

KeptInv ==
    /\ IInv
    /\ Served
    /\ Markers
    /\ \A c \in Client : CopyInv(c)

LEMMA KeptInvDeletesOnlyCopies == KeptInv => DeletesOnlyCopies
  BY DEF KeptInv, CopyInv, Copied, DeletesOnlyCopies, Deleting

\* A step after which c's goroutine is not about to delete a copied object.
Settled(c) == call'[c].pc \notin Deleting \cup {"MvFileDelete"}

LEMMA FreshSettled == ASSUME NEW c, Fresh(c) PROVE Settled(c)
  BY DEF Fresh, Settled, Deleting, Listing

LEMMA RemovingSettled ==
    ASSUME TypeOK, NEW c \in Client, RmFile(c) \/ RmList(c) \/ RmBatch(c)
    PROVE  Settled(c)
<1>1. call[c] \in CallType
  BY DEF TypeOK
<1>2. CASE RmFile(c)
  <2>1. CASE Goto(c, "RmList")
    <3>1. call'[c].pc = "RmList"
      BY <2>1, GotoEffect
    <3> QED
      BY <3>1 DEF Settled, Deleting
  <2>2. CASE Become(c, [call[c] EXCEPT !.pc = "RmList", !.errFile = TRUE])
    <3>1. call'[c] = [call[c] EXCEPT !.pc = "RmList", !.errFile = TRUE]
      BY <2>2, BecomeEffect
    <3>2. call'[c].pc = "RmList"
      BY <1>1, <3>1 DEF CallType
    <3> QED
      BY <3>2 DEF Settled, Deleting
  <2> QED
    BY <1>2, <2>1, <2>2 DEF RmFile
<1>3. CASE RmBatch(c)
  BY <1>3, RemovedFresh, FreshSettled DEF RmBatch
<1>4. CASE RmList(c)
  <2>1. ASSUME NEW page, NEW last, NEW lastPage, RmListed(c, page, last, lastPage)
        PROVE  Settled(c)
    <3> DEFINE l == [call[c] EXCEPT !.del = @ \cup page, !.cursor = last]
    <3>1. ASSUME NEW m, m = l \/ m = [l EXCEPT !.pc = "RmBatch"], Become(c, m)
          PROVE  Settled(c)
      <4>1. call'[c] = m
        BY <3>1, BecomeEffect
      <4>2. call'[c].pc \in {"RmList", "RmBatch"}
        BY <1>1, <1>4, <3>1, <4>1, ZenonT(60) DEF CallType, RmList, At
      <4> QED
        BY <4>2 DEF Settled, Deleting
    <3>2. CASE Removed(c, l.errFile)
      BY <3>2, RemovedFresh, FreshSettled
    <3> QED
      BY <2>1, <3>1, <3>2 DEF RmListed
  <2> QED
    BY <1>4, <2>1, RemovedFresh, FreshSettled DEF RmList
<1> QED
  BY <1>2, <1>3, <1>4


----------------------------------------------------------------------------
\* A step works on the keys of its own request.

LEMMA StepOwns ==
    ASSUME TypeOK, NEW c \in Client, CallInv(call[c]), Step(c)
    PROVE  ChangesOnly(Own(c))
<1> DEFINE r == call[c].req
<1>1. ASSUME NEW k \in Own(c), DeleteOk(k) \/ DeleteErr(k)
      PROVE  ChangesOnly(Own(c))
  BY <1>1, SameChanges, EraseChanges DEF DeleteOk, DeleteErr
<1>2. ASSUME NEW K \in SUBSET Own(c), BatchOk(K) \/ BatchErr(K)
      PROVE  ChangesOnly(Own(c))
  BY <1>2, SameChanges, EraseChanges DEF BatchOk, BatchErr
<1>3. CASE SharedStep(c)
  BY <1>3, SharedOwns
<1>4. CASE RmFile(c)
  BY <1>1, <1>4, OwnKeys DEF RmFile, At, Removing
<1>5. CASE RmList(c) \/ MvList(c)
  BY <1>5, SameChanges DEF RmList, MvList
<1>6. CASE RmBatch(c)
  <2>1. call[c].del \subseteq Own(c)
    BY <1>6, OwnKeys DEF RmBatch, At, Removing
  <2> QED
    BY <1>2, <1>6, <2>1 DEF RmBatch
<1>7. CASE MvFile(c)
  <2>1. KeyFor(r.dst) \in Own(c)
    BY <1>7, OwnKeys DEF MvFile, At, Renaming
  <2> QED
    BY <1>7, <2>1, CopyChanges DEF MvFile
<1>8. CASE MvFileDelete(c)
  BY <1>1, <1>8, OwnKeys DEF MvFileDelete
<1>9. CASE MvCopy(c)
  <2>1. PICK k \in call[c].todo :
          LET src == CopySource(k)
              dst == NewKey(r, k)
          IN
          CopyOk(src, dst) \/ CopyMissing(src) \/ CopyErr(src, dst)
    BY <1>9 DEF MvCopy
  <2>2. NewKey(r, k) \in Own(c)
    BY <1>9, OwnKeys DEF MvCopy, At, Renaming
  <2> QED
    BY <2>1, <2>2, CopyChanges
<1>10. CASE MvBatch(c)
  <2>1. call[c].del \subseteq Own(c)
    BY <1>10, OwnKeys DEF MvBatch, At, Renaming
  <2> QED
    BY <1>2, <1>10, <2>1 DEF MvBatch
<1> QED
  BY <1>3, <1>4, <1>5, <1>6, <1>7, <1>8, <1>9, <1>10 DEF Step

LEMMA StepMarkers ==
    ASSUME MovesApart, DecodesApart, TypeOK, Markers, NEW c \in Client, CallInv(call[c]), Step(c)
    PROVE  Markers'
<1>1. CASE SharedStep(c)
  BY <1>1, SharedMarkers
<1>2. CASE RmFile(c) \/ MvFileDelete(c)
  BY <1>2, EraseMarkers DEF RmFile, MvFileDelete, DeleteOk, DeleteErr
<1>3. CASE RmList(c) \/ MvList(c)
  BY <1>3, EraseMarkers DEF RmList, MvList
<1>4. CASE RmBatch(c) \/ MvBatch(c)
  <2>1. UNCHANGED objects \/ \E K : Erase(K)
    BY <1>4 DEF RmBatch, MvBatch, BatchOk, BatchErr
  <2> QED
    BY <2>1, EraseMarkers
<1>5. ASSUME NEW k \in Key, CopySource(k) # k, NEW j,
             \/ CopyOk(CopySource(k), j) \/ CopyMissing(CopySource(k))
             \/ CopyErr(CopySource(k), j)
      PROVE  Markers'
  <2>1. CopySource(k) \notin DOMAIN objects
    BY <1>5, CopySourceSame DEF TypeOK
  <2> QED
    BY <1>5, <2>1, EraseMarkers DEF CopyOk, CopyMissing, CopyErr
<1>6. CASE MvFile(c)
  <2>1. KeyFor(call[c].req.path) \in Key
    BY CallKeys
  <2> QED
    BY <1>5, <1>6, <2>1, RenameMarkers DEF MvFile, At, Renaming
<1>7. CASE MvCopy(c)
  <2>1. PICK k \in call[c].todo :
          LET src == CopySource(k)
              dst == NewKey(call[c].req, k)
          IN
          CopyOk(src, dst) \/ CopyMissing(src) \/ CopyErr(src, dst)
    BY <1>7 DEF MvCopy
  <2>2. k \in Key
    BY DEF TypeOK, CallType
  <2>3. call[c].pc \in Renaming
    BY <1>7 DEF MvCopy, At, Renaming
  <2> QED
    BY <1>5, <2>1, <2>2, <2>3, RenameMarkers
<1> QED
  BY <1>1, <1>2, <1>3, <1>4, <1>6, <1>7 DEF Step

----------------------------------------------------------------------------
\* The copies of a Rename stay what they are.

\* Another request's step.
LEMMA OthersCopies ==
    ASSUME MovesApart, OneServer, KeptInv, NEW c \in Client, NEW d \in Client,
           c # d, Step(c), ~LockDst(c), call'[d] = call[d]
    PROVE  CopyInv(d)'
<1> DEFINE r == call[d].req
<1>1. /\ TypeOK /\ IInv /\ Served /\ CallInv(call[d]) /\ call[d] \in CallType
      /\ CopyInv(d) /\ ChangesOnly(Own(c))
  BY StepOwns DEF KeptInv, IInv, TypeOK
<1>2. Active(c) /\ ~At(c, "LockDst")
  BY <1>1 DEF Step, SharedStep, StatFile, StatMarker, StatList, PutMarker,
              OpenMarker, OpenList, Upload, RmFile, RmList, RmBatch, MvFile,
              MvFileDelete, MvList, MvCopy, MvBatch, At, Active
<1>3. call[d].pc \in Deleting \cup {"MvFileDelete"} => call[d].pc \in Renaming
  BY DEF Deleting, Renaming
<1>4. ASSUME At(d, "MvFileDelete")
      PROVE  CopiedThen(KeyFor(r.path), KeyFor(r.dst))
  <2>1. /\ KeyFor(r.path) \in Key /\ Covers(r.path, KeyFor(r.path))
        /\ KeyFor(r.dst) \in Key /\ Covers(r.dst, KeyFor(r.dst))
        /\ Copied(KeyFor(r.path), KeyFor(r.dst))
    BY <1>1, <1>4, MoveCovers, CallKeys DEF CopyInv
  <2> QED
    BY <1>1, <1>2, <1>3, <1>4, <2>1, OthersCopied DEF At
<1>5. ASSUME call[d].pc \in Deleting, NEW k \in call[d].del
      PROVE  CopiedThen(k, NewKey(r, k))
  <2>1. k \in Key /\ Under(k, OldDir(r))
    BY <1>1, <1>3, <1>5 DEF CallType, CallInv, ListInv
  <2>2. /\ Covers(r.path, k) /\ NewKey(r, k) \in Key
        /\ Covers(r.dst, NewKey(r, k)) /\ Copied(k, NewKey(r, k))
    BY <1>1, <1>5, <2>1, MoveCovers DEF CopyInv
  <2> QED
    BY <1>1, <1>2, <1>3, <1>5, <2>1, <2>2, OthersCopied
<1> QED
  BY <1>4, <1>5 DEF CopyInv, At, Copied, CopiedThen

\* A Rename that goes on deletes what l.del holds, and nothing more.
LEMMA MvNextDel ==
    ASSUME TypeOK, NEW c \in Client, NEW l \in CallType, MvNext(c, l),
           ~Settled(c)
    PROVE  call'[c].req = l.req /\ call'[c].del = l.del
           /\ call'[c].pc # "MvFileDelete"
<1>1. ~Renamed(c, TRUE)
  BY AnswerFresh, FreshSettled DEF Renamed
<1>2. PICK pc \in {"MvCopy", "MvList", "MvBatch"} :
        Become(c, [l EXCEPT !.pc = pc])
  BY <1>1 DEF MvNext
<1>3. call'[c] = [l EXCEPT !.pc = pc]
  BY <1>2, BecomeEffect
<1> QED
  BY <1>3 DEF CallType

\* Its own step.
LEMMA OwnCopies ==
    ASSUME MovesApart, DecodesApart, KeptInv, NEW c \in Client, Step(c)
    PROVE  CopyInv(c)'
<1> DEFINE r == call[c].req
<1>1. /\ TypeOK /\ CallInv(call[c]) /\ call[c] \in CallType /\ CopyInv(c)
      /\ IsStore(objects)
  BY DEF KeptInv, IInv, TypeOK
<1>2. ASSUME Settled(c)
      PROVE  CopyInv(c)'
  BY <1>2 DEF Settled, CopyInv, At
<1>3. CASE SharedStep(c) \/ RmFile(c) \/ RmList(c) \/ RmBatch(c)
  BY <1>1, <1>2, <1>3, SharedFresh, FreshSettled, RemovingSettled
<1>4. CASE MvFileDelete(c) \/ MvBatch(c)
  BY <1>1, <1>2, <1>4, AnswerFresh, FreshSettled DEF MvFileDelete, MvBatch, Renamed
<1>5. CASE MvFile(c)
  <2> DEFINE src == KeyFor(r.path)
             dst == KeyFor(r.dst)
  <2>1. call[c].del = {} /\ r \in Request /\ r.op = "MOVE"
    BY <1>1, <1>5 DEF MvFile, At, CallInv, ListInv, MethodInv, Renaming, Listing
  <2>2. CASE CopyOk(CopySource(src), dst) /\ Goto(c, "MvFileDelete")
    <3>1. call'[c] = [call[c] EXCEPT !.pc = "MvFileDelete"]
          /\ call'[c].pc = "MvFileDelete"
      BY <1>1, <2>2, GotoEffect
    <3>2. call'[c].req = r
      BY <1>1, <3>1 DEF CallType
    <3>3. src # dst
      BY <1>1, <2>1, CallKeys, MoveCovers, MoveDisjoint
    <3>4. CopySource(src) = src
      BY <1>1, <2>2, CallKeys, CopySourceSame DEF CopyOk
    <3>5. dst \in DOMAIN objects' /\ objects'[dst] = objects'[src]
      BY <2>2, <3>3, <3>4 DEF CopyOk, PutOk, Write
    <3> HIDE DEF src, dst
    <3> QED
      BY <3>1, <3>2, <3>5 DEF CopyInv, At, Copied, Deleting, src, dst
  <2>3. CASE Goto(c, "MvList")
    <3>1. call'[c] = [call[c] EXCEPT !.pc = "MvList"] /\ call'[c].pc = "MvList"
      BY <1>1, <2>3, GotoEffect
    <3>2. call'[c].del = {}
      BY <1>1, <2>1, <3>1 DEF CallType
    <3> QED
      BY <3>1, <3>2 DEF CopyInv, At
  <2> QED
    BY <1>5, <2>2, <2>3 DEF MvFile
<1>6. CASE MvList(c)
  <2> DEFINE d == OldDir(r)
             cursor == call[c].cursor
  <2>1. CASE Renamed(c, TRUE)
    BY <1>1, <1>2, <2>1, AnswerFresh, FreshSettled DEF Renamed
  <2>2. ASSUME NEW last \in Rest(d, cursor) \cup {cursor},
               MvNext(c, [call[c] EXCEPT
                   !.todo = Page(d, cursor, last), !.cursor = last,
                   !.more = Page(d, cursor, last) # Rest(d, cursor)])
        PROVE  CopyInv(c)'
    <3> DEFINE l == [call[c] EXCEPT
                   !.todo = Page(d, cursor, last), !.cursor = last,
                   !.more = Page(d, cursor, last) # Rest(d, cursor)]
    <3>1. l \in CallType
      BY <1>1, PageType, ZenonT(60) DEF CallType
    <3>2. l.req = r /\ l.del = call[c].del
      BY <1>1 DEF CallType
    <3> HIDE DEF l
    <3>3. CASE ~Settled(c)
      <4>1. call'[c].req = r /\ call'[c].del = call[c].del
            /\ call'[c].pc # "MvFileDelete"
        BY <1>1, <2>2, <3>1, <3>2, <3>3, MvNextDel DEF l
      <4>2. \A k \in call[c].del : Copied(k, NewKey(r, k))
        BY <1>1, <1>6 DEF MvList, At, CopyInv, Deleting
      <4>3. objects' = objects
        BY <1>6 DEF MvList
      <4> QED
        BY <4>1, <4>2, <4>3 DEF CopyInv, At, Copied
    <3> QED
      BY <1>2, <3>3
  <2> QED
    BY <1>6, <2>1, <2>2 DEF MvList
<1>7. CASE MvCopy(c)
  <2>1. CASE Renamed(c, TRUE)
    BY <1>1, <1>2, <2>1, AnswerFresh, FreshSettled DEF Renamed
  <2>2. ASSUME NEW k \in call[c].todo, CopyOk(CopySource(k), NewKey(r, k)),
               MvNext(c, [call[c] EXCEPT !.todo = @ \ {k}, !.del = @ \cup {k}])
        PROVE  CopyInv(c)'
    <3> DEFINE l == [call[c] EXCEPT !.todo = @ \ {k}, !.del = @ \cup {k}]
               dst == NewKey(r, k)
    <3>1. l \in CallType
      BY <1>1 DEF CallType
    <3>2. l.req = r /\ l.del = call[c].del \cup {k}
      BY <1>1 DEF CallType
    <3> HIDE DEF l
    <3>3. r \in Request /\ r.op = "MOVE"
          /\ \A j \in call[c].todo \cup call[c].del : j \in Key /\ Under(j, OldDir(r))
      BY <1>1, <1>7 DEF MvCopy, At, CallInv, MethodInv, ListInv, Renaming, CallType
    <3>4. \A j \in call[c].del \cup {k} : dst # j
      BY <1>1, <3>3, MoveCovers, MoveDisjoint
    <3>5. \A j \in call[c].del : dst = NewKey(r, j) => j = k
      BY <1>1, <3>3, CallKeys, RebaseInjective DEF NewKey
    <3>6. \A j \in call[c].del : Copied(j, NewKey(r, j))
      BY <1>1, <1>7 DEF MvCopy, At, CopyInv, Deleting
    <3>7. /\ DOMAIN objects' = DOMAIN objects \cup {dst}
          /\ \A i \in DOMAIN objects' :
                objects'[i] = IF i = dst THEN objects[k] ELSE objects[i]
          /\ k \in DOMAIN objects
      <4>1. CopySource(k) = k
        BY <1>1, <2>2, <3>3, CopySourceSame DEF CopyOk
      <4> QED
        BY <2>2, <4>1 DEF CopyOk, PutOk, Write
    <3>8. \A j \in call[c].del \cup {k} : j \in DOMAIN objects' =>
            /\ NewKey(r, j) \in DOMAIN objects'
            /\ objects'[NewKey(r, j)] = objects'[j]
      <4> HIDE DEF dst
      <4> SUFFICES ASSUME NEW j \in call[c].del \cup {k}, j \in DOMAIN objects'
                   PROVE  /\ NewKey(r, j) \in DOMAIN objects'
                          /\ objects'[NewKey(r, j)] = objects'[j]
        OBVIOUS
      <4>1. CASE j = k
        BY <3>4, <3>7, <4>1 DEF dst
      <4>2. CASE j # k
        BY <3>4, <3>5, <3>6, <3>7, <4>2 DEF Copied
      <4> QED
        BY <4>1, <4>2
    <3>9. CASE ~Settled(c)
      <4>1. call'[c].req = r /\ call'[c].del = call[c].del \cup {k}
            /\ call'[c].pc # "MvFileDelete"
        BY <1>1, <2>2, <3>1, <3>2, <3>9, MvNextDel DEF l
      <4> QED
        BY <3>8, <4>1 DEF CopyInv, At, Copied
    <3> QED
      BY <1>2, <3>9
  <2> QED
    BY <1>7, <2>1, <2>2 DEF MvCopy
<1> QED
  BY <1>3, <1>4, <1>5, <1>6, <1>7 DEF Step

----------------------------------------------------------------------------
\* The invariant.

LEMMA KeptInvInit ==
    ASSUME SeedMarkers, Init
    PROVE  KeptInv
<1>1. IInv
  BY InitType, InitInv DEF IInv
<1>2. Served /\ \A c \in Client : CopyInv(c)
  BY DEF Init, Quiet, Served, Active, CopyInv, At, Deleting
<1>3. Markers
  BY DEF Init, SeedMarkers, Markers
<1> QED
  BY <1>1, <1>2, <1>3 DEF KeptInv

\* A goroutine the step does not touch, in a bucket the step does not touch.
LEMMA SameCopies ==
    ASSUME NEW d \in Client, CopyInv(d), UNCHANGED objects, call'[d] = call[d]
    PROVE  CopyInv(d)'
  BY DEF CopyInv, At, Copied

LEMMA KeptInvStep ==
    ASSUME MovesApart, DecodesApart, OneServer, KeptInv, [Next]_vars
    PROVE  KeptInv'
<1>1. IInv' /\ IInv /\ TypeOK
  BY IInvStep DEF KeptInv, IInv
<1>2. CASE \E c \in Client, s \in Server, r \in Request : Begin(c, s, r)
  <2>1. PICK c \in Client, s \in Server, r \in Request : Begin(c, s, r)
    BY <1>2
  <2>2. /\ \A d \in Client \ {c} : call'[d] = call[d]
        /\ UNCHANGED objects
        /\ CallInv(call'[c])
        /\ \/ call'[c].pc = "idle"
           \/ /\ call'[c].server = s /\ call'[c].req = r
              /\ call'[c].pc = "LockDst" <=> r.op = "MOVE"
    BY <1>1, <2>1, BeginEffect
  <2>3. Served'
    BY <1>1, <2>1, BeginServed DEF KeptInv
  <2>4. Settled(c)
    BY <2>2 DEF Settled, Deleting, CallInv, MethodInv, Renaming
  <2>5. \A d \in Client : CopyInv(d)'
    BY <2>2, <2>4, SameCopies DEF KeptInv, Settled, CopyInv, At
  <2> QED
    BY <1>1, <2>2, <2>3, <2>5 DEF KeptInv, Markers
<1>3. CASE \E c \in Client : Step(c)
  <2>1. PICK c \in Client : Step(c)
    BY <1>3
  <2>2. CopyInv(c)' /\ Markers'
    BY <1>1, <2>1, OwnCopies, StepMarkers DEF KeptInv, IInv
  <2>3. CASE LockDst(c)
    <3>1. /\ \A d \in Client \ {c} : call'[d] = call[d]
          /\ UNCHANGED objects
      BY <1>1, <2>3, LockDstEffect DEF IInv
    <3>2. Served'
      BY <1>1, <2>3, LockDstServed DEF KeptInv, IInv
    <3>3. \A d \in Client : CopyInv(d)'
      BY <2>2, <3>1, SameCopies DEF KeptInv
    <3> QED
      BY <1>1, <2>2, <3>2, <3>3 DEF KeptInv
  <2>4. CASE ~LockDst(c)
    <3>1. Goes(c)
      BY <1>1, <2>1, <2>4, StepGoes DEF IInv
    <3>2. Served'
      BY <3>1, GoesServed DEF KeptInv
    <3>3. \A d \in Client : CopyInv(d)'
      BY <2>1, <2>2, <2>4, <3>1, OthersCopies DEF Goes
    <3> QED
      BY <1>1, <2>2, <3>2, <3>3 DEF KeptInv
  <2> QED
    BY <2>3, <2>4
<1>4. CASE \E s \in Server : Crash(s)
  <2>1. UNCHANGED objects /\ \A c \in Client : call'[c] = Quiet \/ call'[c] = call[c]
    BY <1>1, <1>4, CrashEffect
  <2>2. Served'
    BY <1>1, <1>4, CrashServed DEF KeptInv
  <2>3. ASSUME NEW c \in Client
        PROVE  CopyInv(c)'
    <3>1. CASE call'[c] = Quiet
      BY <3>1 DEF CopyInv, At, Deleting, Quiet
    <3>2. CASE call'[c] = call[c]
      BY <2>1, <3>2, SameCopies DEF KeptInv
    <3> QED
      BY <2>1, <3>1, <3>2
  <2> QED
    BY <1>1, <2>1, <2>2, <2>3 DEF KeptInv, Markers
<1>5. CASE UNCHANGED vars
  <2>1. \A c \in Client : CopyInv(c)'
    BY <1>5, SameCopies DEF KeptInv, vars
  <2> QED
    BY <1>1, <1>5, <2>1 DEF vars, KeptInv, Served, Active, Markers
<1> QED
  BY <1>2, <1>3, <1>4, <1>5 DEF Next, AllServed

\* If no name is decoded to another one, a process never deletes, in a Rename,
\* what has no copy at the destination: whoever else is at work, whatever
\* fails, and whenever the process dies.
THEOREM DeletesCopies ==
    ASSUME MovesApart, DecodesApart, OneServer, SeedMarkers
    PROVE  Spec => []DeletesOnlyCopies
<1>1. Init => KeptInv
  BY KeptInvInit
<1>2. KeptInv /\ [Next]_vars => KeptInv'
  BY KeptInvStep
<1> QED
  BY <1>1, <1>2, KeptInvDeletesOnlyCopies, PTL DEF Spec

----------------------------------------------------------------------------
\* What a step of c may take away.

LEMMA DeleteStays ==
    ASSUME NEW j, DeleteOk(j) \/ DeleteErr(j), NEW k \in DOMAIN objects, k # j
    PROVE  Stays(k)
  BY DEF DeleteOk, DeleteErr, Erase, Stays

LEMMA BatchStays ==
    ASSUME NEW K, BatchOk(K) \/ BatchErr(K), NEW k \in DOMAIN objects, k \notin K
    PROVE  Stays(k)
  BY DEF BatchOk, BatchErr, Erase, Stays

LEMMA StepKeeps ==
    ASSUME MovesApart, KeptInv, NEW c \in Client, Step(c),
           NEW k \in DOMAIN objects
    PROVE  Stays(k) \/ Asked(c, k) \/ Moved(c, k)
<1> DEFINE r == call[c].req
<1>1. /\ TypeOK /\ CallInv(call[c]) /\ call[c] \in CallType /\ CopyInv(c)
      /\ Markers /\ k \in Key
      /\ r.path \in Path /\ r.dst \in Path /\ call[c].at \in Path
  BY DEF KeptInv, IInv, TypeOK, IsStore, CallType, RequestType
<1>2. CASE UNCHANGED objects
  BY <1>2 DEF Stays
<1>3. CASE SharedStep(c)
  BY <1>1, <1>3, SharedKeeps
<1>4. CASE RmList(c) \/ MvList(c)
  BY <1>2, <1>4 DEF RmList, MvList
<1>5. CASE RmFile(c)
  <2>1. CASE k = KeyFor(call[c].at)
    BY <1>1, <1>5, <2>1, DirKeyCovered, RemovingAsked DEF RmFile, At, Removing
  <2>2. CASE k # KeyFor(call[c].at)
    BY <1>5, <2>2, DeleteStays DEF RmFile
  <2> QED
    BY <2>1, <2>2
<1>6. CASE RmBatch(c)
  <2>1. CASE k \in call[c].del
    <3>1. call[c].pc \in Removing /\ Covers(call[c].at, k)
      BY <1>1, <1>6, <2>1 DEF RmBatch, At, Removing, CallInv, ListInv, Covers
    <3> QED
      BY <1>1, <3>1, RemovingAsked
  <2>2. CASE k \notin call[c].del
    BY <1>6, <2>2, BatchStays DEF RmBatch
  <2> QED
    BY <2>1, <2>2
<1>7. CASE MvFile(c)
  <2>1. CASE k = KeyFor(r.dst)
    BY <1>1, <1>7, <2>1, DirKeyCovered, RenamingAsked DEF MvFile, At, Renaming
  <2>2. CASE k # KeyFor(r.dst)
    BY <1>7, <2>2, CopyStays DEF MvFile
  <2> QED
    BY <2>1, <2>2
<1>8. CASE MvFileDelete(c)
  <2> DEFINE src == KeyFor(r.path)
             dst == KeyFor(r.dst)
  <2>1. CASE k = src
    <3>1. r \in Request /\ r.op = "MOVE" /\ Active(c)
      BY <1>1, <1>8 DEF MvFileDelete, At, CallInv, MethodInv, Renaming, Active
    <3>2. src # dst
      BY <1>1, <3>1, CallKeys, MoveCovers, MoveDisjoint
    <3>3. dst \in DOMAIN objects /\ objects[dst] = objects[src]
      BY <1>1, <1>8, <2>1 DEF MvFileDelete, CopyInv, Copied
    <3>4. Stays(dst)
      BY <1>8, <3>2, <3>3, DeleteStays DEF MvFileDelete
    <3>5. Moves(c, k, dst)
      BY <2>1, <3>1 DEF Moves
    <3> QED
      BY <2>1, <3>3, <3>4, <3>5 DEF Stays, Moved
  <2>2. CASE k # src
    BY <1>8, <2>2, DeleteStays DEF MvFileDelete
  <2> QED
    BY <2>1, <2>2
<1>9. CASE MvCopy(c)
  <2>1. PICK i \in call[c].todo :
          LET src == CopySource(i)
              dst == NewKey(r, i)
          IN
          CopyOk(src, dst) \/ CopyMissing(src) \/ CopyErr(src, dst)
    BY <1>9 DEF MvCopy
  <2>2. CASE k = NewKey(r, i)
    <3>1. call[c].pc \in Renaming /\ i \in Key /\ Under(i, OldDir(r))
      BY <1>1, <1>9 DEF MvCopy, At, Renaming, CallInv, ListInv, CallType
    <3> QED
      BY <1>1, <2>2, <3>1, MoveCovers, RenamingAsked
  <2>3. CASE k # NewKey(r, i)
    BY <2>1, <2>3, CopyStays
  <2> QED
    BY <2>2, <2>3
<1>10. CASE MvBatch(c)
  <2>1. CASE k \in call[c].del
    <3> DEFINE j == NewKey(r, k)
    <3>1. /\ r \in Request /\ r.op = "MOVE" /\ Active(c)
          /\ \A i \in call[c].del : i \in Key /\ Under(i, OldDir(r))
      BY <1>1, <1>10 DEF MvBatch, At, CallInv, MethodInv, ListInv, Renaming,
                         Active, CallType
    <3>2. j \notin call[c].del
      BY <1>1, <2>1, <3>1, MoveCovers, MoveDisjoint
    <3>3. j \in DOMAIN objects /\ objects[j] = objects[k]
      BY <1>1, <1>10, <2>1 DEF MvBatch, At, CopyInv, Copied, Deleting
    <3>4. Stays(j)
      BY <1>10, <3>2, <3>3, BatchStays DEF MvBatch
    <3>5. Moves(c, k, j)
      BY <2>1, <3>1 DEF Moves
    <3> QED
      BY <3>3, <3>4, <3>5 DEF Stays, Moved
  <2>2. CASE k \notin call[c].del
    BY <1>10, <2>2, BatchStays DEF MvBatch
  <2> QED
    BY <2>1, <2>2
<1> QED
  BY <1>3, <1>4, <1>5, <1>6, <1>7, <1>8, <1>9, <1>10 DEF Step

\* With one process, no request inside a folder a MOVE names, and no name that
\* is decoded to another one, nothing a key holds is lost unless a request was
\* asked to replace or remove it: whatever calls fail, and whenever the process
\* dies.
THEOREM LosesNothing ==
    ASSUME MovesApart, DecodesApart, OneServer, SeedMarkers
    PROVE  Spec => ContentKept
<1>1. Init => KeptInv
  BY KeptInvInit
<1>2. KeptInv /\ [Next]_vars => KeptInv'
  BY KeptInvStep
<1>3. KeptInv /\ [Next]_vars => [KeptOrAsked]_vars
  <2> SUFFICES ASSUME KeptInv, Next PROVE KeptOrAsked
    OBVIOUS
  <2>1. CASE UNCHANGED objects
    BY <2>1 DEF KeptOrAsked
  <2>2. CASE \E c \in Client, s \in Server, r \in Request : Begin(c, s, r)
    BY <2>1, <2>2 DEF Begin
  <2>3. CASE \E c \in Client : Step(c)
    BY <2>3, StepKeeps DEF KeptOrAsked, Stays, Moved
  <2>4. CASE \E s \in Server : Crash(s)
    BY <2>1, <2>4 DEF Crash
  <2>5. CASE AllServed
    BY <2>1, <2>5 DEF AllServed, vars
  <2> QED
    BY <2>2, <2>3, <2>4, <2>5 DEF Next
<1> QED
  BY <1>1, <1>2, <1>3, PTL DEF Spec, ContentKept

----------------------------------------------------------------------------
\* RemoveAll: what it has in hand and what it has still to list is all.

LEMMA RemoveSeen ==
    ASSUME IInv, NEW c \in Client, faults' = 0, SeenInv(c),
           RmFile(c) \/ RmList(c) \/ RmBatch(c)
    PROVE  /\ SeenInv(c)' /\ NewInv(c)' /\ MovedInv(c)' /\ MissedInv(c)'
           /\ DeletePromise(c) /\ AbsentPromise(c) /\ MovePromise(c)
           /\ OverwritePromise(c)
<1> DEFINE l == call[c]
           d == WithSlash(KeyFor(l.at))
           Good == /\ SeenInv(c)' /\ NewInv(c)' /\ MovedInv(c)' /\ MissedInv(c)'
                   /\ DeletePromise(c) /\ AbsentPromise(c) /\ MovePromise(c)
<1>1. /\ TypeOK /\ l \in CallType /\ CallInv(l) /\ ListInv(l) /\ ~Breaks
      /\ l.pc \in Removing /\ DOMAIN objects \subseteq Key \ {<<Empty>>}
  BY NoBreak DEF IInv, TypeOK, CallInv, RmFile, RmList, RmBatch, At, Removing, IsStore
<1>2. l.req.op = "MOVE" => l.req.over
  BY <1>1 DEF SeenInv
<1>3. OverwritePromise(c)
  BY <1>2 DEF OverwritePromise
<1>4. ASSUME NEW e \in BOOLEAN, Removed(c, e), ~e => EmptyThen(l.at)
      PROVE  Good
  <2>1. /\ SeenInv(c)' /\ NewInv(c)' /\ MovedInv(c)' /\ Fresh(c)
        /\ DeletePromise(c) /\ AbsentPromise(c) /\ MovePromise(c)
    BY <1>1, <1>4, RemovedSeen, RemovedFresh
  <2> QED
    BY <2>1 DEF Fresh, MissedInv, Listing
\* RemoveAll goes on.
<1>5. ASSUME call'[c].pc \in {"RmList", "RmBatch"}, call'[c].req = l.req,
             call'[c].at = l.at, KeyFor(l.at) \notin DOMAIN objects',
             \A k \in DOMAIN objects' : Under(k, d) => InHand(call'[c], k)
      PROVE  Good
  <2>1. SeenInv(c)'
    BY <1>2, <1>5 DEF SeenInv, NoFile, Listed, Stating, Listing
  <2> QED
    BY <1>5, <2>1 DEF NewInv, MovedInv, MissedInv, Answers, DeletePromise,
                      AbsentPromise, MovePromise
<1>6. CASE RmFile(c)
  <2>1. PICK e \in BOOLEAN : Become(c, [l EXCEPT !.pc = "RmList", !.errFile = e])
    <3>1. [l EXCEPT !.pc = "RmList"]
            = [l EXCEPT !.pc = "RmList", !.errFile = l.errFile]
          /\ l.errFile \in BOOLEAN
      BY <1>1 DEF CallType
    <3> QED
      BY <1>6, <3>1 DEF RmFile, Goto
  <2>2. call'[c] = [l EXCEPT !.pc = "RmList", !.errFile = e]
    BY <1>1, <2>1, BecomeEffect
  <2>3. /\ call'[c].pc = "RmList" /\ call'[c].req = l.req /\ call'[c].at = l.at
        /\ call'[c].cursor = l.cursor
    BY <1>1, <2>2 DEF CallType
  <2>4. l.cursor = <<>>
    BY <1>6 DEF RmFile, At, SeenInv, Listing
  <2>5. KeyFor(l.at) \notin DOMAIN objects' /\ DOMAIN objects' \subseteq Key
    BY <1>1, <1>6 DEF RmFile, DeleteOk, DeleteErr, Erase
  <2>6. \A k \in DOMAIN objects' : InHand(call'[c], k)
    BY <2>3, <2>4, <2>5, BeforeAll DEF InHand
  <2> QED
    BY <1>3, <1>5, <2>3, <2>5, <2>6
<1>7. CASE RmList(c)
  <2> DEFINE cursor == l.cursor
             rest == Rest(d, cursor)
  <2>1. /\ UNCHANGED objects /\ KeyFor(l.at) \notin DOMAIN objects
        /\ l.pc = "RmList" /\ l.cursor \in Seq(Name \cup {Empty})
        /\ \A k \in Listed(d) : k \in l.del \/ Before(cursor, k)
    BY <1>1, <1>7 DEF RmList, At, SeenInv, InHand, NoFile, CallType
  <2>2. PICK last \in rest \cup {cursor} :
          /\ IsPageEnd(d, cursor, last)
          /\ RmListed(c, Page(d, cursor, last), last, Page(d, cursor, last) = rest)
    BY <1>1, <1>7 DEF RmList
  <2> DEFINE page == Page(d, cursor, last)
             m == [l EXCEPT !.del = @ \cup page, !.cursor = last]
  <2>3. \A k \in Listed(d) :
           k \in l.del \cup page \/ (page # rest /\ Before(last, k))
    BY <1>1, <2>1, <2>2, PageCovers
  <2>4. page \in SUBSET (Key \ {<<Empty>>}) /\ last \in Seq(Name \cup {Empty})
    BY <1>1, <2>1, PageType
  <2>5. m \in CallType
    BY <1>1, <2>4, ZenonT(60) DEF CallType
  <2>6. /\ m.req = l.req /\ m.at = l.at /\ m.cursor = last /\ m.pc = "RmList"
        /\ m.del = l.del \cup page /\ m.errFile \in BOOLEAN
    BY <1>1, <2>1 DEF CallType
  <2>7. \/ page # rest /\ Become(c, m)
        \/ page = rest /\ m.del # {} /\ Become(c, [m EXCEPT !.pc = "RmBatch"])
        \/ page = rest /\ m.del = {} /\ Removed(c, m.errFile)
    BY <2>2 DEF RmListed
  <2> HIDE DEF m, page, rest, cursor
  <2>8. CASE page # rest /\ Become(c, m)
    <3>1. call'[c] = m
      BY <1>1, <2>8, BecomeEffect
    <3>2. \A k \in DOMAIN objects' : Under(k, d) => InHand(call'[c], k)
      BY <2>1, <2>3, <2>6, <3>1 DEF InHand, Listed
    <3> QED
      BY <1>3, <1>5, <2>1, <2>6, <3>1, <3>2
  <2>9. CASE page = rest /\ Become(c, [m EXCEPT !.pc = "RmBatch"])
    <3>1. /\ call'[c].pc = "RmBatch" /\ call'[c].req = l.req /\ call'[c].at = l.at
          /\ call'[c].del = l.del \cup page
      BY <1>1, <2>5, <2>6, <2>9, BecomeFields
    <3>2. \A k \in DOMAIN objects' : Under(k, d) => InHand(call'[c], k)
      BY <2>1, <2>3, <2>9, <3>1 DEF InHand, Listed
    <3> QED
      BY <1>3, <1>5, <2>1, <3>1, <3>2
  <2>10. CASE page = rest /\ m.del = {} /\ Removed(c, m.errFile)
    <3>1. EmptyThen(l.at)
      BY <2>1, <2>3, <2>6, <2>10 DEF EmptyThen, Covers, Listed
    <3> QED
      BY <1>3, <1>4, <2>6, <2>10, <3>1
  <2> QED
    BY <2>7, <2>8, <2>9, <2>10
<1>8. CASE RmBatch(c)
  <2>1. NoFile(l.at) /\ \A k \in Listed(d) : k \in l.del
    BY <1>8 DEF RmBatch, At, SeenInv, InHand
  <2>2. CASE Removed(c, TRUE)
    BY <1>3, <1>4, <2>2
  <2>3. CASE BatchOk(l.del) /\ Removed(c, FALSE)
    <3>1. DOMAIN objects' = DOMAIN objects \ l.del
      BY <1>1, <2>3 DEF BatchOk, Erase
    <3>2. EmptyThen(l.at)
      BY <2>1, <3>1 DEF EmptyThen, Covers, NoFile, Listed
    <3> QED
      BY <1>3, <1>4, <2>3, <3>2
  <2> QED
    BY <1>8, <2>2, <2>3 DEF RmBatch
<1> QED
  BY <1>6, <1>7, <1>8

----------------------------------------------------------------------------
\* Rename: what it has still to copy has no copy yet.

\* What a step of Rename makes of the record m.
LEMMA MvNextMakes ==
    ASSUME TypeOK, NEW c \in Client, NEW m \in CallType, MvNext(c, m)
    PROVE  \/ m.todo = {} /\ ~m.more /\ m.del = {} /\ Renamed(c, TRUE)
           \/ /\ \/ call'[c].pc = "MvCopy"
                 \/ call'[c].pc = "MvList" /\ m.todo = {}
                 \/ call'[c].pc = "MvBatch" /\ m.todo = {} /\ ~m.more
              /\ call'[c].req = m.req /\ call'[c].cursor = m.cursor
              /\ call'[c].more = m.more /\ call'[c].todo = m.todo
              /\ call'[c].del = m.del
<1>1. ASSUME NEW pc \in {"MvCopy", "MvList", "MvBatch"},
             Become(c, [m EXCEPT !.pc = pc])
      PROVE  /\ call'[c].pc = pc
             /\ call'[c].req = m.req /\ call'[c].cursor = m.cursor
             /\ call'[c].more = m.more /\ call'[c].todo = m.todo
             /\ call'[c].del = m.del
  BY <1>1, BecomeFields
<1>2. CASE m.todo # {} /\ Become(c, [m EXCEPT !.pc = "MvCopy"])
  BY <1>1, <1>2
<1>3. CASE m.todo = {} /\ Become(c, [m EXCEPT !.pc = "MvList"])
  BY <1>1, <1>3
<1>4. CASE m.todo = {} /\ ~m.more /\ Become(c, [m EXCEPT !.pc = "MvBatch"])
  BY <1>1, <1>4
<1> QED
  BY <1>2, <1>3, <1>4 DEF MvNext

\* Having copied the object at k.
LEMMA CopyMakes ==
    ASSUME TypeOK, NEW c \in Client, NEW k \in call[c].todo
    PROVE  LET m == [call[c] EXCEPT !.todo = @ \ {k}, !.del = @ \cup {k}] IN
           /\ m \in CallType /\ m.req = call[c].req /\ m.cursor = call[c].cursor
           /\ m.more = call[c].more /\ m.todo = call[c].todo \ {k}
           /\ m.del = call[c].del \cup {k}
<1>1. call[c] \in CallType /\ k \in Key
  BY DEF TypeOK, CallType
<1> QED
  BY <1>1 DEF CallType

LEMMA RenameNew ==
    ASSUME MovesApart, IInv, NEW c \in Client, faults' = 0, SeenInv(c), NewInv(c),
           MvFile(c) \/ MvFileDelete(c) \/ MvList(c) \/ MvCopy(c) \/ MvBatch(c)
    PROVE  /\ SeenInv(c)' /\ NewInv(c)'
           /\ DeletePromise(c) /\ AbsentPromise(c) /\ OverwritePromise(c)
<1> DEFINE l == call[c]
           r == l.req
           d == OldDir(r)
           src == KeyFor(r.path)
           dst == KeyFor(r.dst)
           Good == /\ SeenInv(c)' /\ NewInv(c)'
                   /\ DeletePromise(c) /\ AbsentPromise(c)
<1>1. /\ TypeOK /\ l \in CallType /\ CallInv(l) /\ ListInv(l) /\ ~Breaks
      /\ l.pc \in Renaming /\ DOMAIN objects \subseteq Key
      /\ l.cursor \in Seq(Name \cup {Empty})
  BY NoBreak DEF IInv, TypeOK, CallInv, MvFile, MvFileDelete, MvList, MvCopy,
                 MvBatch, At, Renaming, IsStore, CallType
<1>2. /\ r \in Request /\ r.op = "MOVE" /\ r.path \in Path /\ r.dst \in Path
      /\ d = WithSlash(src)
      /\ \A k \in Listed(d) :
            /\ Covers(r.path, k) /\ ~Covers(r.dst, k)
            /\ NewKey(r, k) \in Key /\ Covers(r.dst, NewKey(r, k))
            /\ ~Covers(r.path, NewKey(r, k))
            /\ \A j \in Listed(d) : NewKey(r, j) = NewKey(r, k) => j = k
  BY <1>1, MoveKeys
<1>3. \A e \in BOOLEAN : Renamed(c, e) => Good
  BY <1>1, RenamedSeen
<1>4. ASSUME UNCHANGED objects \/ \A k \in DOMAIN objects : ~Covers(r.dst, k)
      PROVE  OverwritePromise(c)
  BY <1>4 DEF OverwritePromise, Stays
<1>5. CASE MvFile(c)
  <2>1. l.cursor = <<>> /\ l.todo = {}
        /\ \A k \in DOMAIN objects : ~Covers(r.dst, k)
    BY <1>1, <1>5, VacantCovers DEF MvFile, At, SeenInv, ListInv, Listing
  <2>2. CASE Goto(c, "MvFileDelete")
    <3>1. /\ call'[c].pc = "MvFileDelete" /\ call'[c].req = r
          /\ call'[c].cursor = <<>>
      BY <1>1, <2>1, <2>2, GotoFields
    <3> QED
      BY <1>2, <1>4, <2>1, <3>1, RenameSeen DEF NewInv
  <2>3. CASE /\ CopyMissing(CopySource(src)) \/ CopyErr(CopySource(src), dst)
             /\ Goto(c, "MvList")
    <3>1. /\ call'[c].pc = "MvList" /\ call'[c].req = r /\ call'[c].todo = {}
      BY <1>1, <2>1, <2>3, GotoFields
    <3>2. UNCHANGED objects
      BY <1>1, <2>3 DEF CopyMissing, CopyErr, PutErr
    <3>3. NewInv(c)'
      BY <1>2, <2>1, <3>1, <3>2 DEF NewInv, Listed
    <3> QED
      BY <1>2, <1>4, <3>1, <3>2, <3>3, RenameSeen
  <2> QED
    BY <1>5, <2>2, <2>3 DEF MvFile
<1>6. CASE MvFileDelete(c)
  <2>1. ~Covers(r.dst, src)
    BY <1>1, <1>2, CallKeys, DirKeyCovered, MoveApart, ApartCovers
  <2>2. OverwritePromise(c)
    BY <1>6, <2>1, DeleteStays DEF MvFileDelete, OverwritePromise
  <2> QED
    BY <1>3, <1>6, <2>2 DEF MvFileDelete
<1>7. CASE MvList(c)
  <2>1. UNCHANGED objects
    BY <1>7 DEF MvList
  <2>2. PICK last \in Rest(d, l.cursor) \cup {l.cursor} :
          /\ IsPageEnd(d, l.cursor, last)
          /\ MvNext(c, [l EXCEPT
                 !.todo = Page(d, l.cursor, last), !.cursor = last,
                 !.more = Page(d, l.cursor, last) # Rest(d, l.cursor)])
    BY <1>1, <1>7 DEF MvList
  <2> DEFINE page == Page(d, l.cursor, last)
             m == [l EXCEPT !.todo = page, !.cursor = last,
                            !.more = page # Rest(d, l.cursor)]
  <2>3. m \in CallType /\ m.req = r /\ m.todo = page /\ m.cursor = last
    <3>1. m \in CallType
      BY <1>1, <2>2, PageType, ZenonT(60) DEF CallType
    <3>2. m.req = r /\ m.todo = page /\ m.cursor = last
      BY <1>1 DEF CallType
    <3> QED
      BY <3>1, <3>2
  <2>4. /\ page \subseteq Listed(d)
        /\ \A k \in Listed(d) :
              /\ k \in page => Before(l.cursor, k) /\ ~Before(last, k)
              /\ Before(last, k) => Before(l.cursor, k)
    <3>1. page \subseteq Listed(d)
      BY DEF Page, Rest
    <3>2. \A k \in Listed(d) :
              /\ k \in page => Before(l.cursor, k) /\ ~Before(last, k)
              /\ Before(last, k) => Before(l.cursor, k)
      BY <1>1, <2>2, PageCovers
    <3> QED
      BY <3>1, <3>2
  <2>5. \A k \in Listed(d) :
           Before(l.cursor, k) => NewKey(r, k) \notin DOMAIN objects
    BY <1>7 DEF MvList, At, NewInv, ToCopy
  <2> HIDE DEF m, page
  <2>6. CASE Renamed(c, TRUE)
    BY <1>3, <1>4, <2>1, <2>6
  <2>7. CASE /\ call'[c].pc \in {"MvCopy", "MvList", "MvBatch"}
             /\ call'[c].req = r /\ call'[c].cursor = last /\ call'[c].todo = page
    <3>1. NewInv(c)'
      BY <2>1, <2>4, <2>5, <2>7 DEF NewInv, ToCopy, Listed
    <3> QED
      BY <1>2, <1>4, <2>1, <2>7, <3>1, RenameSeen
  <2>8. MvNext(c, m)
    BY <2>2 DEF m, page
  <2> QED
    BY <1>1, <2>3, <2>6, <2>7, <2>8, MvNextMakes
<1>8. CASE MvCopy(c)
  <2>1. PICK k \in l.todo :
          \/ /\ CopyOk(CopySource(k), NewKey(r, k))
             /\ MvNext(c, [l EXCEPT !.todo = @ \ {k}, !.del = @ \cup {k}])
          \/ /\ \/ CopyMissing(CopySource(k))
                \/ CopyErr(CopySource(k), NewKey(r, k))
             /\ Renamed(c, TRUE)
    BY <1>8 DEF MvCopy
  <2>2. l.pc = "MvCopy"
    BY <1>8 DEF MvCopy, At
  <2>3. k \in Key /\ Under(k, d)
    BY <1>1, <2>2 DEF ListInv, Renaming, CallType
  <2>4. CASE /\ \/ CopyMissing(CopySource(k))
                \/ CopyErr(CopySource(k), NewKey(r, k))
             /\ Renamed(c, TRUE)
    <3>1. UNCHANGED objects
      BY <1>1, <2>4 DEF CopyMissing, CopyErr, PutErr
    <3> QED
      BY <1>3, <1>4, <2>4, <3>1
  <2>5. CASE /\ CopyOk(CopySource(k), NewKey(r, k))
             /\ MvNext(c, [l EXCEPT !.todo = @ \ {k}, !.del = @ \cup {k}])
    <3> DEFINE m == [l EXCEPT !.todo = @ \ {k}, !.del = @ \cup {k}]
    <3>1. /\ m \in CallType /\ m.req = r /\ m.cursor = l.cursor
          /\ m.todo = l.todo \ {k} /\ MvNext(c, m)
      BY <1>1, <2>5, CopyMakes
    <3> HIDE DEF m
    <3>2. k \in Listed(d) /\ DOMAIN objects' = DOMAIN objects \cup {NewKey(r, k)}
      BY <2>2, <2>5 DEF CopyOk, PutOk, Write, NewInv
    <3>3. NewKey(r, k) \notin DOMAIN objects
      BY <2>2, <3>2 DEF NewInv, ToCopy
    <3>4. OverwritePromise(c)
      BY <2>5, <3>3, CopyStays DEF OverwritePromise
    <3>5. ASSUME NEW j \in DOMAIN objects', Under(j, d),
                 Before(l.cursor, j) \/ j \in l.todo \ {k}
          PROVE  NewKey(r, j) \notin DOMAIN objects'
      <4>1. j # NewKey(r, k)
        BY <1>2, <3>2, <3>5 DEF Covers
      <4>2. j \in Listed(d) /\ j # k
        BY <2>2, <3>2, <3>5, <4>1 DEF Listed, NewInv
      <4>3. NewKey(r, j) \notin DOMAIN objects
        BY <2>2, <3>5, <4>2 DEF NewInv, ToCopy
      <4> QED
        BY <1>2, <3>2, <4>2, <4>3
    <3>6. CASE Renamed(c, TRUE)
      BY <1>3, <3>4, <3>6
    <3>7. CASE /\ call'[c].pc \in {"MvCopy", "MvList", "MvBatch"}
               /\ call'[c].req = r /\ call'[c].cursor = l.cursor
               /\ call'[c].todo = l.todo \ {k}
      <4>1. \A j \in l.todo : /\ j \in DOMAIN objects' /\ Under(j, d)
                             /\ ~Before(l.cursor, j)
        BY <2>2, <3>2 DEF NewInv, Listed
      <4>2. \A j \in call'[c].todo : /\ j \in (Listed(d))'
                                     /\ ~Before(call'[c].cursor, j)
        BY <3>7, <4>1 DEF Listed
      <4>3. \A j \in (Listed(d))' :
               ToCopy(call'[c], j) => NewKey(r, j) \notin DOMAIN objects'
        BY <3>5, <3>7 DEF ToCopy, Listed
      <4>4. NewInv(c)'
        BY <3>7, <4>2, <4>3 DEF NewInv
      <4> QED
        BY <1>2, <3>4, <3>7, <4>4, RenameSeen
    <3> QED
      BY <1>1, <3>1, <3>6, <3>7, MvNextMakes
  <2> QED
    BY <2>1, <2>4, <2>5
<1>9. CASE MvBatch(c)
  <2>1. \A k \in l.del : Under(k, d)
    BY <1>1 DEF ListInv
  <2>2. \A k \in DOMAIN objects : Covers(r.dst, k) => k \notin l.del
    BY <1>2, <2>1 DEF Listed
  <2>3. OverwritePromise(c)
    BY <1>9, <2>2, BatchStays DEF MvBatch, OverwritePromise
  <2> QED
    BY <1>3, <1>9, <2>3 DEF MvBatch
<1> QED
  BY <1>5, <1>6, <1>7, <1>8, <1>9

----------------------------------------------------------------------------
\* What Rename leaves behind.

LEMMA StepClashless ==
    ASSUME PathsApart, DecodesApart, IInv, Clashless, NEW c \in Client, Step(c),
           SeenInv(c), MovedInv(c)
    PROVE  Clashless'
<1> DEFINE l == call[c]
           r == l.req
<1>1. TypeOK /\ CallInv(l) /\ ListInv(l)
  BY DEF IInv, CallInv
<1>2. CASE SharedStep(c)
  BY <1>1, <1>2, SharedClashless
<1>3. CASE MvFile(c)
  <2>1. NoDir(r.dst) /\ l.pc \in Renaming
    BY <1>3 DEF MvFile, At, SeenInv, Vacant, Renaming
  <2>2. LET src == CopySource(KeyFor(r.path))
            dst == KeyFor(r.dst)
        IN  CopyOk(src, dst) \/ CopyMissing(src) \/ CopyErr(src, dst)
    BY <1>3 DEF MvFile
  <2> QED
    BY <1>1, <2>1, <2>2, CopyClashless
<1>4. CASE MvCopy(c)
  <2>1. PICK k \in l.todo :
          \/ CopyOk(CopySource(k), NewKey(r, k))
          \/ CopyMissing(CopySource(k))
          \/ CopyErr(CopySource(k), NewKey(r, k))
    BY <1>4 DEF MvCopy
  <2>2. NoFile(r.dst) /\ l.pc \in Renaming /\ Under(k, OldDir(r))
    BY <1>1, <1>4 DEF MvCopy, At, MovedInv, Renaming, ListInv
  <2>3. CASE k \in DOMAIN objects
    <3>1. k \in Listed(OldDir(r))
      BY <2>2, <2>3 DEF Listed
    <3> QED
      BY <1>1, <2>1, <2>2, <3>1, CopyClashless
  <2>4. CASE k \notin DOMAIN objects
    <3>1. k \in Key /\ IsStore(objects)
      BY <1>1 DEF TypeOK, CallType
    <3>2. CopySource(k) \notin DOMAIN objects
      BY <2>4, <3>1, CopySourceSame
    <3>3. UNCHANGED objects
      BY <2>1, <3>2 DEF CopyOk, CopyMissing, CopyErr
    <3> QED
      BY <3>3, EraseClashless
  <2> QED
    BY <2>3, <2>4
<1>5. CASE \/ RmFile(c) \/ RmList(c) \/ RmBatch(c)
           \/ MvFileDelete(c) \/ MvList(c) \/ MvBatch(c)
  <2>1. DOMAIN objects' \subseteq DOMAIN objects
    BY <1>5 DEF RmFile, RmList, RmBatch, MvFileDelete, MvList, MvBatch,
                DeleteOk, DeleteErr, BatchOk, BatchErr, Erase
  <2> QED
    BY <2>1, EraseClashless
<1> QED
  BY <1>2, <1>3, <1>4, <1>5 DEF Step

LEMMA NextMoved ==
    ASSUME TypeOK, NEW c \in Client, NEW m \in CallType, m.req = call[c].req,
           CallInv(call[c]), call[c].pc \in Renaming, MvNext(c, m),
           KeyFor(call[c].req.path) \notin DOMAIN objects',
           KeyFor(call[c].req.dst) \notin DOMAIN objects',
           \A k \in DOMAIN objects' : Under(k, OldDir(call[c].req))
               => k \in m.todo \cup m.del \/ (m.more /\ Before(m.cursor, k))
    PROVE  MovedInv(c)' /\ MissedInv(c)' /\ MovePromise(c)
<1> DEFINE r == call[c].req
<1>1. CASE Renamed(c, TRUE)
  <2>1. MovedInv(c)' /\ MovePromise(c) /\ Fresh(c)
    BY <1>1, RenamedSeen, AnswerFresh DEF Renamed
  <2> QED
    BY <2>1 DEF Fresh, MissedInv, Listing
<1>2. CASE /\ \/ call'[c].pc = "MvCopy"
              \/ call'[c].pc = "MvList" /\ m.todo = {}
              \/ call'[c].pc = "MvBatch" /\ m.todo = {} /\ ~m.more
           /\ call'[c].req = m.req /\ call'[c].cursor = m.cursor
           /\ call'[c].more = m.more /\ call'[c].todo = m.todo
           /\ call'[c].del = m.del
  <2>1. \A k \in DOMAIN objects' : Under(k, OldDir(r)) => InHand(call'[c], k)
    BY <1>2 DEF InHand
  <2>2. MovedInv(c)' /\ MissedInv(c)'
    BY <1>2, <2>1 DEF MovedInv, MissedInv, NoFile, Listed
  <2> QED
    BY <1>2, <2>2 DEF Answers, MovePromise
<1> QED
  BY <1>1, <1>2, MvNextMakes

LEMMA RenameMoved ==
    ASSUME MovesApart, DecodesApart, IInv, Clashless, NEW c \in Client, faults' = 0,
           SeenInv(c), MovedInv(c), MissedInv(c),
           MvFile(c) \/ MvFileDelete(c) \/ MvList(c) \/ MvCopy(c) \/ MvBatch(c)
    PROVE  MovedInv(c)' /\ MissedInv(c)' /\ MovePromise(c)
<1> DEFINE l == call[c]
           r == l.req
           d == OldDir(r)
           src == KeyFor(r.path)
           dst == KeyFor(r.dst)
           Good == MovedInv(c)' /\ MissedInv(c)' /\ MovePromise(c)
<1>1. /\ TypeOK /\ l \in CallType /\ CallInv(l) /\ ListInv(l) /\ ~Breaks
      /\ l.pc \in Renaming /\ DOMAIN objects \subseteq Key \ {<<Empty>>}
      /\ l.cursor \in Seq(Name \cup {Empty})
  BY NoBreak DEF IInv, TypeOK, CallInv, MvFile, MvFileDelete, MvList, MvCopy,
                 MvBatch, At, Renaming, IsStore, CallType
<1>2. /\ r \in Request /\ r.op = "MOVE" /\ r.path \in Path /\ r.dst \in Path
      /\ r.path # <<>> /\ r.dst # <<>> /\ d = WithSlash(src)
      /\ \A k \in Listed(d) :
            /\ Covers(r.path, k) /\ Covers(r.dst, NewKey(r, k))
            /\ ~Covers(r.path, NewKey(r, k)) /\ NewKey(r, k) # dst
  BY <1>1, MoveKeys
<1>3. /\ src \in Key /\ dst \in Key /\ Covers(r.path, src) /\ Covers(r.dst, dst)
      /\ ~Covers(r.path, dst)
  BY <1>1, <1>2, CallKeys, DirKeyCovered, MoveApart, ApartCovers
<1>4. ASSUME NEW e \in BOOLEAN, Renamed(c, e), e \/ EmptyThen(r.path)
      PROVE  Good
  <2>1. MovedInv(c)' /\ MovePromise(c) /\ Fresh(c)
    BY <1>1, <1>4, RenamedSeen, AnswerFresh DEF Renamed
  <2> QED
    BY <2>1 DEF Fresh, MissedInv, Listing
<1>5. CASE MvFile(c)
  <2>1. l.cursor = <<>> /\ l.del = {} /\ NoFile(r.dst) /\ NoDir(r.dst)
    BY <1>1, <1>5 DEF MvFile, At, SeenInv, Vacant, Listing, ListInv
  <2>2. src \in DOMAIN objects => NoDir(r.path)
    BY <1>2 DEF Clashless, NoFile, PathsOf
  <2>3. CASE CopyOk(CopySource(src), dst) /\ Goto(c, "MvFileDelete")
    <3>1. call'[c].pc = "MvFileDelete" /\ call'[c].req = r
      <4>1. Become(c, [l EXCEPT !.pc = "MvFileDelete"])
        BY <2>3 DEF Goto
      <4>2. TypeOK /\ l \in CallType
        BY <1>1
      <4> QED
        BY <4>1, <4>2, BecomeFields
    <3>2. src \in DOMAIN objects /\ DOMAIN objects' = DOMAIN objects \cup {dst}
      BY <1>1, <1>3, <2>3, CopySourceSame DEF CopyOk, PutOk, Write, TypeOK
    <3>3. ~Under(dst, WithSlash(src)) /\ ~Under(dst, WithSlash(dst))
      BY <1>2, <1>3, OneFolder DEF Covers
    <3>4. MovedInv(c)' /\ MissedInv(c)'
      BY <2>1, <2>2, <3>1, <3>2, <3>3 DEF MovedInv, MissedInv, NoDir
    <3> QED
      BY <3>1, <3>4 DEF Answers, MovePromise
  <2>4. CASE /\ CopyMissing(CopySource(src)) \/ CopyErr(CopySource(src), dst)
             /\ Goto(c, "MvList")
    <3>1. /\ call'[c].pc = "MvList" /\ call'[c].req = r
          /\ call'[c].cursor = <<>> /\ call'[c].del = {}
      BY <1>1, <2>1, <2>4, GotoFields
    <3>2. UNCHANGED objects
      BY <1>1, <2>4 DEF CopyMissing, CopyErr, PutErr
    <3>3. \A k \in DOMAIN objects' : InHand(call'[c], k)
      BY <1>1, <3>1, <3>2, BeforeAll DEF InHand
    <3>4. MovedInv(c)' /\ MissedInv(c)'
      BY <2>1, <2>2, <3>1, <3>2, <3>3
         DEF MovedInv, MissedInv, NoFile, NoDir, Listed
    <3> QED
      BY <3>1, <3>4 DEF Answers, MovePromise
  <2> QED
    BY <1>5, <2>3, <2>4 DEF MvFile
<1>6. CASE MvFileDelete(c)
  <2>1. NoDir(r.path) /\ src \notin DOMAIN objects'
        /\ DOMAIN objects' \subseteq DOMAIN objects
    BY <1>1, <1>6 DEF MvFileDelete, At, MovedInv, DeleteOk, DeleteErr, Erase
  <2>2. EmptyThen(r.path)
    BY <2>1 DEF EmptyThen, Covers, NoDir
  <2> QED
    BY <1>4, <1>6, <2>2 DEF MvFileDelete
<1>7. CASE MvList(c)
  <2>1. /\ UNCHANGED objects /\ NoFile(r.dst)
        /\ NoFile(r.path) \/ (NoDir(r.path) /\ l.del = {})
        /\ \A k \in Listed(d) : k \in l.del \/ Before(l.cursor, k)
    BY <1>1, <1>7 DEF MvList, At, MovedInv, MissedInv, InHand
  <2>2. PICK last \in Rest(d, l.cursor) \cup {l.cursor} :
          /\ IsPageEnd(d, l.cursor, last)
          /\ MvNext(c, [l EXCEPT
                 !.todo = Page(d, l.cursor, last), !.cursor = last,
                 !.more = Page(d, l.cursor, last) # Rest(d, l.cursor)])
    BY <1>1, <1>7 DEF MvList
  <2> DEFINE page == Page(d, l.cursor, last)
             m == [l EXCEPT !.todo = page, !.cursor = last,
                            !.more = page # Rest(d, l.cursor)]
  <2>3. /\ m \in CallType /\ m.req = r /\ m.todo = page /\ m.cursor = last
        /\ m.del = l.del /\ (m.more <=> page # Rest(d, l.cursor))
    <3>1. m \in CallType
      BY <1>1, <2>2, PageType, ZenonT(60) DEF CallType
    <3>2. /\ m.req = r /\ m.todo = page /\ m.cursor = last
          /\ m.del = l.del /\ (m.more <=> page # Rest(d, l.cursor))
      BY <1>1 DEF CallType
    <3> QED
      BY <3>1, <3>2
  <2>4. MvNext(c, m)
    BY <2>2
  <2>5. \A k \in Listed(d) : Before(l.cursor, k) =>
           k \in page \/ (page # Rest(d, l.cursor) /\ Before(last, k))
    BY <1>1, <2>2, PageCovers
  <2>6. NoDir(r.path) => page = {} /\ Rest(d, l.cursor) = {}
    BY <1>2 DEF NoDir, Page, Rest, Listed
  <2> HIDE DEF m, page
  <2>7. CASE NoFile(r.path)
    <3>1. \A k \in DOMAIN objects' : Under(k, d)
            => k \in m.todo \cup m.del \/ (m.more /\ Before(m.cursor, k))
      BY <2>1, <2>3, <2>5 DEF Listed
    <3> QED
      BY <1>1, <2>1, <2>3, <2>4, <2>7, <3>1, NextMoved DEF NoFile
  <2>8. CASE NoDir(r.path) /\ l.del = {}
    <3>1. Renamed(c, TRUE)
      BY <2>3, <2>4, <2>6, <2>8 DEF MvNext
    <3> QED
      BY <1>4, <3>1
  <2> QED
    BY <2>1, <2>7, <2>8
<1>8. CASE MvCopy(c)
  <2>1. PICK k \in l.todo :
          \/ /\ CopyOk(CopySource(k), NewKey(r, k))
             /\ MvNext(c, [l EXCEPT !.todo = @ \ {k}, !.del = @ \cup {k}])
          \/ Renamed(c, TRUE)
    BY <1>8 DEF MvCopy
  <2>2. /\ l.pc = "MvCopy" /\ NoFile(r.path) /\ NoFile(r.dst)
        /\ \A j \in Listed(d) :
              j \in l.todo \cup l.del \/ (l.more /\ Before(l.cursor, j))
    BY <1>8 DEF MvCopy, At, MovedInv, MissedInv, InHand
  <2>3. CASE Renamed(c, TRUE)
    BY <1>4, <2>3
  <2>4. CASE /\ CopyOk(CopySource(k), NewKey(r, k))
             /\ MvNext(c, [l EXCEPT !.todo = @ \ {k}, !.del = @ \cup {k}])
    <3> DEFINE m == [l EXCEPT !.todo = @ \ {k}, !.del = @ \cup {k}]
    <3>1. /\ m \in CallType /\ m.req = r /\ m.cursor = l.cursor
          /\ m.more = l.more /\ m.todo = l.todo \ {k} /\ m.del = l.del \cup {k}
          /\ MvNext(c, m)
      BY <1>1, <2>4, CopyMakes
    <3> HIDE DEF m
    <3>2. k \in Listed(d) /\ DOMAIN objects' = DOMAIN objects \cup {NewKey(r, k)}
      <4>1. k \in Key /\ IsStore(objects)
        BY <1>1 DEF TypeOK, CallType
      <4>2. CopySource(k) = k
        BY <2>4, <4>1, CopySourceSame DEF CopyOk
      <4> QED
        BY <1>1, <2>2, <2>4, <4>2 DEF ListInv, CopyOk, PutOk, Write, Listed
    <3>3. ~Under(NewKey(r, k), d) /\ NewKey(r, k) # src /\ NewKey(r, k) # dst
      BY <1>2, <1>3, <3>2 DEF Covers
    <3>4. \A j \in DOMAIN objects' : Under(j, d)
            => j \in m.todo \cup m.del \/ (m.more /\ Before(m.cursor, j))
      BY <2>2, <3>1, <3>2, <3>3 DEF Listed
    <3>5. src \notin DOMAIN objects' /\ dst \notin DOMAIN objects'
      BY <2>2, <3>2, <3>3 DEF NoFile
    <3> QED
      BY <1>1, <3>1, <3>4, <3>5, NextMoved
  <2> QED
    BY <2>1, <2>3, <2>4
<1>9. CASE MvBatch(c)
  <2>1. NoFile(r.path) /\ \A k \in Listed(d) : k \in l.del
    BY <1>9 DEF MvBatch, At, MovedInv, MissedInv, InHand
  <2>2. CASE Renamed(c, TRUE)
    BY <1>4, <2>2
  <2>3. CASE BatchOk(l.del) /\ Renamed(c, FALSE)
    <3>1. DOMAIN objects' = DOMAIN objects \ l.del
      BY <1>1, <2>3 DEF BatchOk, Erase
    <3>2. EmptyThen(r.path)
      BY <1>2, <2>1, <3>1 DEF EmptyThen, Covers, NoFile, Listed
    <3> QED
      BY <1>4, <2>3, <3>2
  <2> QED
    BY <1>9, <2>2, <2>3 DEF MvBatch
<1> QED
  BY <1>5, <1>6, <1>7, <1>8, <1>9

----------------------------------------------------------------------------
\* The invariant, and what it promises.

Sound ==
    /\ IInv
    /\ Served
    /\ faults = 0 => \A c \in Client : SeenInv(c) /\ NewInv(c)

LEMMA NextServed ==
    ASSUME IInv, Served, [Next]_vars
    PROVE  Served'
<1>1. CASE \E c \in Client, s \in Server, r \in Request : Begin(c, s, r)
  BY <1>1, BeginServed DEF IInv
<1>2. CASE \E c \in Client : Step(c)
  <2>1. PICK c \in Client : Step(c)
    BY <1>2
  <2>2. CASE LockDst(c)
    BY <2>2, LockDstServed DEF IInv
  <2>3. CASE ~LockDst(c)
    <3>1. Goes(c)
      BY <2>1, <2>3, StepGoes DEF IInv
    <3> QED
      BY <3>1, GoesServed
  <2> QED
    BY <2>2, <2>3
<1>3. CASE \E s \in Server : Crash(s)
  BY <1>3, CrashServed DEF IInv
<1>4. CASE UNCHANGED vars
  BY <1>4 DEF vars, Served, Active
<1> QED
  BY <1>1, <1>2, <1>3, <1>4 DEF Next, AllServed

\* A call that fails is counted for good.
LEMMA FaultFree ==
    ASSUME IInv, [Next]_vars, faults' = 0
    PROVE  faults = 0
<1>1. TypeOK
  BY DEF IInv
<1>2. ASSUME NEW c \in Client, Step(c)
      PROVE  Works \/ Breaks \/ UNCHANGED faults
  <2>1. CASE SharedStep(c)
    BY <2>1, SharedCounts
  <2>2. CASE RmFile(c) \/ RmList(c) \/ RmBatch(c)
    BY <2>2 DEF RmFile, RmList, RmBatch, DeleteOk, DeleteErr, BatchOk, BatchErr
  <2>3. CASE MvFile(c) \/ MvFileDelete(c) \/ MvList(c)
    BY <2>3 DEF MvFile, MvFileDelete, MvList, CopyOk, CopyMissing, CopyErr,
                PutOk, PutErr, DeleteOk, DeleteErr
  <2>4. CASE MvCopy(c) \/ MvBatch(c)
    BY <2>4 DEF MvCopy, MvBatch, CopyOk, CopyMissing, CopyErr, PutOk, PutErr,
                BatchOk, BatchErr
  <2> QED
    BY <1>2, <2>1, <2>2, <2>3, <2>4 DEF Step
<1>3. Works \/ Breaks \/ UNCHANGED faults
  BY <1>2 DEF Next, Begin, Crash, AllServed, vars
<1> QED
  BY <1>1, <1>3, NoBreak

\* A step of c leaves the paths of the others alone.
LEMMA StepOthersSeen ==
    ASSUME PathsApart, OneServer, IInv, IInv', Served, NEW c \in Client, Step(c),
           NEW d \in Client, d # c
    PROVE  /\ call'[d] = call[d]
           /\ SeenInv(d) => SeenInv(d)'
           /\ NewInv(d) => NewInv(d)'
           /\ MovedInv(d) => MovedInv(d)'
           /\ MissedInv(d) => MissedInv(d)'
           /\ Active(d) => OverwritePromise(d)
<1>1. TypeOK /\ TypeOK' /\ CallInv(call[c])
  BY DEF IInv
<1>2. CASE LockDst(c)
  <2>1. call'[d] = call[d] /\ UNCHANGED objects
    BY <1>1, <1>2, LockDstEffect DEF IInv
  <2> QED
    BY <1>1, <2>1, OthersSeen
<1>3. CASE ~LockDst(c)
  <2>1. call'[d] = call[d]
    BY <1>1, <1>3, StepGoes DEF Goes
  <2>2. ChangesOnly(Own(c))
    BY <1>1, StepOwns
  <2>3. Active(c) /\ ~At(c, "LockDst")
    BY <1>3 DEF Step, SharedStep, StatFile, StatMarker, StatList, PutMarker,
                OpenMarker, OpenList, Upload, RmFile, RmList, RmBatch, MvFile,
                MvFileDelete, MvList, MvCopy, MvBatch, At, Active
  <2> QED
    BY <1>1, <2>1, <2>2, <2>3, OthersSeen
<1> QED
  BY <1>2, <1>3

\* Its own.
LEMMA StepSeen ==
    ASSUME MovesApart, IInv, NEW c \in Client, Step(c), faults' = 0,
           SeenInv(c), NewInv(c)
    PROVE  /\ SeenInv(c)' /\ NewInv(c)'
           /\ DeletePromise(c) /\ AbsentPromise(c) /\ OverwritePromise(c)
<1>1. CASE SharedStep(c)
  BY <1>1, SharedSeen DEF IInv
<1>2. CASE RmFile(c) \/ RmList(c) \/ RmBatch(c)
  BY <1>2, RemoveSeen
<1>3. CASE MvFile(c) \/ MvFileDelete(c) \/ MvList(c) \/ MvCopy(c) \/ MvBatch(c)
  BY <1>3, RenameNew
<1> QED
  BY <1>1, <1>2, <1>3 DEF Step

LEMMA SoundInit == ASSUME Init PROVE Sound
  BY InitType, InitInv, InitSeen DEF Sound, IInv, Init, Quiet, Served, Active

\* What one step keeps, and what it promises.
LEMMA SoundStep ==
    ASSUME PathsApart, OneServer, Sound, [Next]_vars
    PROVE  Sound' /\ (Next /\ faults' = 0 => Promises)
<1>1. IInv /\ TypeOK /\ Served /\ IInv' /\ Served' /\ TypeOK' /\ MovesApart
  BY IInvStep, NextServed, PathsMovesApart DEF Sound, IInv
<1> SUFFICES ASSUME faults' = 0
             PROVE  /\ \A c \in Client : SeenInv(c)' /\ NewInv(c)'
                    /\ Next => Promises
  BY <1>1 DEF Sound
<1>2. \A c \in Client : SeenInv(c) /\ NewInv(c)
  BY <1>1, FaultFree DEF Sound
<1>3. CASE \E c \in Client, s \in Server, r \in Request : Begin(c, s, r)
  <2>1. PICK c \in Client, s \in Server, r \in Request : Begin(c, s, r)
    BY <1>3
  <2>2. /\ UNCHANGED objects /\ ~Active(c)
        /\ \A d \in Client \ {c} : call'[d] = call[d]
    BY <1>1, <2>1, BeginEffect DEF Begin
  <2>3. SeenInv(c)' /\ NewInv(c)'
    BY <1>1, <2>1, BeginSeen
  <2>4. \A d \in Client \ {c} :
           SeenInv(d)' /\ NewInv(d)' /\ (Active(d) => OverwritePromise(d))
    BY <1>1, <1>2, <2>2, OthersSeen
  <2> QED
    BY <2>2, <2>3, <2>4, NoAnswer DEF Promises
<1>4. CASE \E c \in Client : Step(c)
  <2>1. PICK c \in Client : Step(c)
    BY <1>4
  <2>2. /\ SeenInv(c)' /\ NewInv(c)'
        /\ DeletePromise(c) /\ AbsentPromise(c) /\ OverwritePromise(c)
    BY <1>1, <1>2, <2>1, StepSeen
  <2>3. \A d \in Client \ {c} :
           /\ call'[d] = call[d]
           /\ SeenInv(d)' /\ NewInv(d)' /\ (Active(d) => OverwritePromise(d))
    BY <1>1, <1>2, <2>1, StepOthersSeen
  <2> QED
    BY <2>2, <2>3, NoAnswer DEF Promises
<1>5. CASE \E s \in Server : Crash(s)
  <2>1. /\ UNCHANGED objects
        /\ \A c \in Client : call'[c] = Quiet \/ call'[c] = call[c]
    BY <1>1, <1>5, CrashEffect
  <2>2. ASSUME NEW c \in Client
        PROVE  SeenInv(c)' /\ NewInv(c)'
    <3>1. CASE call'[c] = Quiet
      BY <3>1, QuietSeen DEF Quiet
    <3>2. CASE call'[c] = call[c]
      BY <1>1, <1>2, <2>1, <3>2, SameAsBefore, SeenAsBefore
    <3> QED
      BY <2>1, <3>1, <3>2
  <2> QED
    BY <2>1, <2>2, NoAnswer DEF Promises, OverwritePromise, Stays
<1>6. CASE UNCHANGED vars
  <2>1. UNCHANGED objects /\ \A c \in Client : call'[c] = call[c]
    BY <1>6 DEF vars
  <2>2. \A c \in Client : SeenInv(c)' /\ NewInv(c)'
    BY <1>1, <1>2, <2>1, SameAsBefore, SeenAsBefore
  <2> QED
    BY <2>1, <2>2, NoAnswer DEF Promises, OverwritePromise, Stays
<1> QED
  BY <1>3, <1>4, <1>5, <1>6 DEF Next, AllServed

\* What MOVE promises needs more: no name that is both an object and a folder.
SoundMove ==
    /\ Sound
    /\ faults = 0 => Clashless /\ \A c \in Client : MovedInv(c) /\ MissedInv(c)

LEMMA OwnMoved ==
    ASSUME MovesApart, DecodesApart, IInv, Clashless, NEW c \in Client, faults' = 0,
           SeenInv(c), MovedInv(c), MissedInv(c), Step(c)
    PROVE  MovedInv(c)' /\ MissedInv(c)' /\ MovePromise(c)
<1>1. CASE SharedStep(c)
  <2>1. MovedInv(c)' /\ MovePromise(c) /\ Fresh(c)
    BY <1>1, SharedSeen, SharedFresh DEF IInv
  <2> QED
    BY <2>1 DEF Fresh, MissedInv, Listing
<1>2. CASE RmFile(c) \/ RmList(c) \/ RmBatch(c)
  BY <1>2, RemoveSeen
<1>3. CASE MvFile(c) \/ MvFileDelete(c) \/ MvList(c) \/ MvCopy(c) \/ MvBatch(c)
  BY <1>3, RenameMoved
<1> QED
  BY <1>1, <1>2, <1>3 DEF Step

LEMMA SoundMoveStep ==
    ASSUME PathsApart, DecodesApart, OneServer, SoundMove, [Next]_vars
    PROVE  SoundMove' /\ (Next /\ faults' = 0 => SourceEmptied)
<1>1. /\ IInv /\ TypeOK /\ Served /\ IInv' /\ TypeOK' /\ MovesApart
      /\ Sound /\ Sound'
  BY SoundStep, PathsMovesApart DEF SoundMove, Sound, IInv
<1>2. SUFFICES ASSUME faults' = 0
               PROVE  /\ Clashless'
                      /\ \A c \in Client : MovedInv(c)' /\ MissedInv(c)'
                      /\ Next => \A c \in Client : MovePromise(c)
  BY <1>1 DEF SoundMove, MovePromise, EmptyThen, SourceEmptied
<1>3. /\ Clashless
      /\ \A c \in Client : SeenInv(c) /\ MovedInv(c) /\ MissedInv(c)
  BY <1>1, <1>2, FaultFree DEF SoundMove, Sound
<1>4. CASE \E c \in Client, s \in Server, r \in Request : Begin(c, s, r)
  <2>1. PICK c \in Client, s \in Server, r \in Request : Begin(c, s, r)
    BY <1>4
  <2>2. /\ UNCHANGED objects /\ ~Active(c)
        /\ \A d \in Client \ {c} : call'[d] = call[d]
    BY <1>1, <2>1, BeginEffect DEF Begin
  <2>3. MovedInv(c)' /\ MissedInv(c)'
    BY <1>1, <2>1, BeginSeen
  <2>4. \A d \in Client \ {c} : MovedInv(d)' /\ MissedInv(d)'
    BY <1>1, <1>3, <2>2, OthersSeen
  <2>5. Clashless'
    BY <1>3, <2>2, EraseClashless
  <2> QED
    BY <2>2, <2>3, <2>4, <2>5, NoAnswer
<1>5. CASE \E c \in Client : Step(c)
  <2>1. PICK c \in Client : Step(c)
    BY <1>5
  <2>2. MovedInv(c)' /\ MissedInv(c)' /\ MovePromise(c)
    BY <1>1, <1>2, <1>3, <2>1, OwnMoved
  <2>3. \A d \in Client \ {c} : call'[d] = call[d] /\ MovedInv(d)' /\ MissedInv(d)'
    BY <1>1, <1>3, <2>1, StepOthersSeen
  <2>4. Clashless'
    BY <1>1, <1>3, <2>1, StepClashless
  <2> QED
    BY <2>2, <2>3, <2>4, NoAnswer
<1>6. CASE \E s \in Server : Crash(s)
  <2>1. /\ UNCHANGED objects
        /\ \A c \in Client : call'[c] = Quiet \/ call'[c] = call[c]
    BY <1>1, <1>6, CrashEffect
  <2>2. ASSUME NEW c \in Client
        PROVE  MovedInv(c)' /\ MissedInv(c)'
    <3>1. CASE call'[c] = Quiet
      BY <3>1, QuietSeen DEF Quiet
    <3>2. CASE call'[c] = call[c]
      BY <1>1, <1>3, <2>1, <3>2, SameAsBefore, SeenAsBefore
    <3> QED
      BY <2>1, <3>1, <3>2
  <2> QED
    BY <1>3, <2>1, <2>2, NoAnswer, EraseClashless
<1>7. CASE UNCHANGED vars
  <2>1. UNCHANGED objects /\ \A c \in Client : call'[c] = call[c]
    BY <1>7 DEF vars
  <2>2. \A c \in Client : MovedInv(c)' /\ MissedInv(c)'
    BY <1>1, <1>3, <2>1, SameAsBefore, SeenAsBefore
  <2> QED
    BY <1>3, <2>1, <2>2, NoAnswer, EraseClashless
<1> QED
  BY <1>4, <1>5, <1>6, <1>7 DEF Next, AllServed

----------------------------------------------------------------------------
\* What MKCOL promises needs more: the parents stay what checkMkdir found.
SoundMkdir ==
    /\ Sound
    /\ \A c \in Client : ParentInv(c)
    /\ \A r \in Request : Below(r) => ParentKept(r)

LEMMA StepParent ==
    ASSUME IInv, IInv', NEW c \in Client, Step(c), ParentInv(c),
           faults' = 0 => SeenInv(c)
    PROVE  ParentInv(c)' /\ (faults' = 0 => MkdirPromise(c))
<1>1. TypeOK /\ CallInv(call[c]) /\ CallInv(call[c])'
  BY DEF IInv
<1>2. CASE SharedStep(c)
  BY <1>1, <1>2, SharedParent
<1>3. CASE ~SharedStep(c)
  <2>1. call[c].req.op \in {"DELETE", "MOVE"}
    BY <1>1, <1>3 DEF Step, RmFile, RmList, RmBatch, MvFile, MvFileDelete, MvList,
                      MvCopy, MvBatch, At, CallInv, MethodInv, Removing, Renaming
  <2>2. call'[c].pc = "idle" \/ call'[c].req = call[c].req
    BY <1>1, <1>3, StepGoes DEF Goes, SharedStep
  <2>3. CASE call'[c].pc = "idle"
    BY <2>1, <2>3, IdleParent DEF MkdirPromise, Answers
  <2>4. CASE call'[c].req = call[c].req
    <3>1. call'[c].pc # "PutMarker"
      BY <1>1, <2>1, <2>4 DEF CallInv, MethodInv
    <3> QED
      BY <2>1, <2>4, <3>1 DEF ParentInv, MkdirPromise, Answers
  <2> QED
    BY <2>2, <2>3, <2>4
<1> QED
  BY <1>2, <1>3

LEMMA StepAdds ==
    ASSUME NEW c \in Client, CallInv(call[c]), Step(c),
           call[c].req.op \notin {"DELETE", "MOVE"}
    PROVE  DOMAIN objects \subseteq DOMAIN objects'
<1>1. SharedStep(c)
  BY DEF Step, RmFile, RmList, RmBatch, MvFile, MvFileDelete, MvList, MvCopy,
         MvBatch, At, CallInv, MethodInv, Removing, Renaming
<1> QED
  BY <1>1, SharedAdds

LEMMA SoundMkdirStep ==
    ASSUME PathsApart, OneServer, SoundMkdir, [Next]_vars
    PROVE  SoundMkdir' /\ (Next /\ faults' = 0 => MkdirAllowed)
<1>1. /\ IInv /\ TypeOK /\ IInv' /\ TypeOK' /\ Sound /\ Sound'
      /\ \A c \in Client : CallInv(call[c]) /\ ParentInv(c)
      /\ \A r \in Request : Below(r) => ParentKept(r)
  BY SoundStep DEF SoundMkdir, Sound, IInv
<1>2. faults' = 0 => \A c \in Client : SeenInv(c)
  BY <1>1, FaultFree DEF Sound
<1>3. SUFFICES
        /\ \A c \in Client : ParentInv(c)' /\ (Next /\ faults' = 0 => MkdirPromise(c))
        /\ \A r \in Request : Below(r) => ParentKept(r)'
  BY <1>1, VacantCovers DEF SoundMkdir, MkdirPromise, MkdirAllowed, Parent
<1>4. ASSUME UNCHANGED objects
      PROVE  \A r \in Request : Below(r) =>
                /\ ParentKept(r)'
                /\ Listed(Parent(r)) # {} => (Listed(Parent(r)))' # {}
  BY <1>1, <1>4 DEF ParentKept, NeverEmptied, Untouched, Parent, Listed
<1>5. CASE \E c \in Client, s \in Server, r \in Request : Begin(c, s, r)
  <2>1. PICK c \in Client, s \in Server, r \in Request : Begin(c, s, r)
    BY <1>5
  <2>2. /\ UNCHANGED objects /\ ~Active(c)
        /\ \A d \in Client \ {c} : call'[d] = call[d]
    BY <1>1, <2>1, BeginEffect DEF Begin
  <2>3. ParentInv(c)'
    BY <1>1, <2>1, BeginParent
  <2>4. \A d \in Client \ {c} : ParentInv(d)' /\ MkdirPromise(d)
    BY <1>1, <1>4, <2>2, OthersParent
  <2> QED
    BY <1>4, <2>2, <2>3, <2>4, NoMkdir
<1>6. CASE \E c \in Client : Step(c)
  <2>1. PICK c \in Client : Step(c)
    BY <1>6
  <2>2. ParentInv(c)' /\ (faults' = 0 => MkdirPromise(c))
    BY <1>1, <1>2, <2>1, StepParent
  <2>3. call[c].req \in Request /\ ChangesOnly(Own(c))
    <3>1. call[c].pc # "idle"
      BY <2>1 DEF Step, SharedStep, LockDst, StatFile, StatMarker, StatList,
                  PutMarker, OpenMarker, OpenList, Upload, RmFile, RmList,
                  RmBatch, MvFile, MvFileDelete, MvList, MvCopy, MvBatch, At
    <3> QED
      BY <1>1, <2>1, <3>1, StepOwns DEF CallInv, MethodInv
  <2>4. \A r \in Request : Below(r) =>
            /\ ParentKept(r)'
            /\ Listed(Parent(r)) # {} => (Listed(Parent(r)))' # {}
    BY <1>1, <2>1, <2>3, StepAdds, ParentStays
  <2>5. \A d \in Client \ {c} : call'[d] = call[d]
    BY <1>1, <2>1, StepGoes, LockDstEffect DEF Goes
  <2>6. \A d \in Client \ {c} : ParentInv(d)' /\ MkdirPromise(d)
    BY <1>1, <2>4, <2>5, OthersParent
  <2> QED
    BY <2>2, <2>4, <2>6
<1>7. CASE \E s \in Server : Crash(s)
  <2>1. /\ UNCHANGED objects
        /\ \A c \in Client : call'[c] = Quiet \/ call'[c] = call[c]
    BY <1>1, <1>7, CrashEffect
  <2>2. ASSUME NEW c \in Client
        PROVE  ParentInv(c)'
    <3>1. CASE call'[c] = Quiet
      BY <3>1, IdleParent DEF Quiet
    <3>2. CASE call'[c] = call[c]
      BY <1>1, <1>4, <2>1, <3>2, OthersParent
    <3> QED
      BY <2>1, <3>1, <3>2
  <2> QED
    BY <1>4, <2>1, <2>2, NoMkdir
<1>8. CASE UNCHANGED vars
  <2>1. UNCHANGED objects /\ \A c \in Client : call'[c] = call[c]
    BY <1>8 DEF vars
  <2> QED
    BY <1>1, <1>4, <2>1, OthersParent
<1> QED
  BY <1>5, <1>6, <1>7, <1>8 DEF Next, AllServed

----------------------------------------------------------------------------
\* With one process, and no request inside a folder another one names, a
\* DELETE answered with success leaves neither the object of that name nor
\* anything below it, as long as no call has failed: the pages and the batch
\* overlook nothing of what other requests leave alone, whoever else is at
\* work and whenever the process dies.
THEOREM DeletesAll ==
    ASSUME PathsApart, OneServer
    PROVE  Spec => DeleteSound
<1>1. Init => Sound
  BY SoundInit
<1>2. Sound /\ [Next]_vars => Sound'
  BY SoundStep
<1>3. Sound /\ [Next]_vars => [faults' = 0 => DeleteEmptied]_vars
  BY SoundStep, PromisesKept
<1> QED
  BY <1>1, <1>2, <1>3, PTL DEF Spec, DeleteSound

\* Under the same hypotheses a DELETE answered with 404 had nothing to
\* delete: nothing appears between the three calls of Stat.
THEOREM FindsAll ==
    ASSUME PathsApart, OneServer
    PROVE  Spec => NotFoundSound
<1>1. Init => Sound
  BY SoundInit
<1>2. Sound /\ [Next]_vars => Sound'
  BY SoundStep
<1>3. Sound /\ [Next]_vars => [faults' = 0 => WasAbsent]_vars
  BY SoundStep, PromisesKept
<1> QED
  BY <1>1, <1>2, <1>3, PTL DEF Spec, NotFoundSound

\* A MOVE that may not overwrite leaves what is at its destination, from the
\* calls of Stat that found nothing there to its last copy.
THEOREM OverwritesNothing ==
    ASSUME PathsApart, OneServer
    PROVE  Spec => OverwriteSound
<1>1. Init => Sound
  BY SoundInit
<1>2. Sound /\ [Next]_vars => Sound'
  BY SoundStep
<1>3. Sound /\ [Next]_vars => [faults' = 0 => OverwriteKept]_vars
  BY SoundStep, PromisesKept
<1> QED
  BY <1>1, <1>2, <1>3, PTL DEF Spec, OverwriteSound

\* When, moreover, no path of a request starts out as both an object and a
\* folder, and no name is decoded to another one, a MOVE answered with success leaves nothing at its source, although
\* Rename takes any error of its first copy for a missing object (s3.go:251):
\* the folder it then looks for is not there, and the MOVE fails.
THEOREM MovesAll ==
    ASSUME PathsApart, DecodesApart, OneServer, SeedClashless
    PROVE  Spec => MoveSound
<1>1. Init => SoundMove
  BY SoundInit, InitSeen, SeedClash DEF SoundMove
<1>2. SoundMove /\ [Next]_vars => SoundMove'
  BY SoundMoveStep
<1>3. SoundMove /\ [Next]_vars => [faults' = 0 => SourceEmptied]_vars
  BY SoundMoveStep
<1> QED
  BY <1>1, <1>2, <1>3, PTL DEF Spec, MoveSound

\* When, moreover, the parent of a new folder stays one, because something in
\* it is nobody's business or nobody removes anything from it, an MKCOL that
\* succeeds made a folder where there was nothing, inside one (checkMkdir,
\* filesystem.go:48-50).
THEOREM MakesFolders ==
    ASSUME PathsApart, OneServer, ParentsStay
    PROVE  Spec => MkdirSound
<1>1. Init => SoundMkdir
  BY SoundInit, InitParent DEF SoundMkdir
<1>2. SoundMkdir /\ [Next]_vars => SoundMkdir'
  BY SoundMkdirStep
<1>3. SoundMkdir /\ [Next]_vars => [faults' = 0 => MkdirAllowed]_vars
  BY SoundMkdirStep
<1> QED
  BY <1>1, <1>2, <1>3, PTL DEF Spec, MkdirSound
=============================================================================
