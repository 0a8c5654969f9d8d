--------------------------- MODULE TransferProofs ---------------------------
(***************************************************************************)
(* Proofs about artifact localisation, for any numbers of calls,           *)
(* references, artifacts and Workers, and for every set of faults.         *)
(***************************************************************************)
EXTENDS Transfer, TLAPS

USE TransferAssumption
USE DEF Locking, Holding, Results, Running, PullStates, Contents
-----------------------------------------------------------------------------
(* Types.  What PullFetch reads is a file only because the call that       *)
(* caused the pull has chosen a source first, and never chooses again.     *)
SourceChosen ==
  \A t \in Tasks :
    /\ pc[t] = "start" \/ pull[t] # "none" => source[t] \in Workers
    /\ pc[t] \in {"idle", "wait", "start"} => pull[t] = "none"

TypeInv == TypeOK /\ SourceChosen

\* Appending a known Worker to a list of Workers.
LEMMA ExtendedType ==
  ASSUME TypeOK, NEW t \in Tasks
  PROVE  /\ arg[t].ref \in Refs
         /\ Target(t) \in Workers
         /\ Artifact(t) \in Artifacts
         /\ Key(t) \in Artifacts \X Workers
         /\ Extended(t) \in Seq(Workers)
BY DEF TypeOK, Target, Artifact, Key, Extended

\* Where the steps of a call leave its pc and the lock queues.
LEMMA GotoType ==
  ASSUME TypeOK, NEW t \in Tasks,
         NEW label \in {"idle"} \cup Locking \cup Results, Goto(t, label)
  PROVE  pc' \in [Tasks -> {"idle"} \cup Locking \cup Results]
BY DEF TypeOK, Goto

LEMMA LeaveType ==
  ASSUME TypeOK, NEW t \in Tasks, NEW result \in Results, Leave(t, result)
  PROVE  /\ pc' \in [Tasks -> {"idle"} \cup Locking \cup Results]
         /\ ahead' \in [Tasks -> SUBSET Tasks]
BY DEF TypeOK, Leave, Goto, Release

LEMMA LockedType ==
  ASSUME TypeOK, NEW t \in Tasks, Locked(t)
  PROVE  TypeOK'
<1> USE ExtendedType DEF TypeOK, Goto, Leave, Release, refVars, workerVars
<1>1. CASE ReuseCompleted(t)
  BY <1>1 DEF ReuseCompleted
<1>2. CASE ReuseLocation(t)
  BY <1>2 DEF ReuseLocation
<1>3. CASE RejectTransfer(t)
  BY <1>3 DEF RejectTransfer
<1>4. CASE BeginTransfer(t)
  BY <1>4 DEF BeginTransfer
<1> QED
  BY <1>1, <1>2, <1>3, <1>4 DEF Locked

LEMMA ControllerType ==
  ASSUME TypeOK, NEW t \in Tasks, Controller(t)
  PROVE  TypeOK'
<1> USE ExtendedType DEF TypeOK, Goto, Leave, Release, callVars, refVars, workerVars
<1>1. CASE AlreadyLocal(t)
  BY <1>1 DEF AlreadyLocal
<1>2. CASE AwaitLock(t)
  BY <1>2 DEF AwaitLock, Contenders
<1>3. CASE EnterLock(t)
  BY <1>3, LockedType DEF EnterLock
<1>4. CASE ResumeLocked(t)
  BY <1>4, LockedType DEF ResumeLocked
<1>5. CASE RecordStart(t)
  <2> HIDE DEF Goto, Leave, Release
  <2>1. /\ pc' \in [Tasks -> {"idle"} \cup Locking \cup Results]
        /\ ahead' \in [Tasks -> SUBSET Tasks]
    BY <1>5, GotoType, LeaveType DEF RecordStart
  <2>2. pull' \in [Tasks -> PullStates]
    BY <1>5 DEF RecordStart
  <2>3. UNCHANGED <<arg, source, locations, completed, body, store>>
    BY <1>5 DEF RecordStart
  <2> QED
    BY <2>1, <2>2, <2>3
<1>6. CASE PullSucceeded(t)
  BY <1>6 DEF PullSucceeded
<1>7. CASE PullFailed(t)
  BY <1>7 DEF PullFailed
<1>8. CASE PullTimedOut(t)
  BY <1>8 DEF PullTimedOut
<1>9. CASE RecordEnd(t)
  <2> HIDE DEF Goto, Leave, Release
  <2>1. /\ pc' \in [Tasks -> {"idle"} \cup Locking \cup Results]
        /\ ahead' \in [Tasks -> SUBSET Tasks]
    BY <1>9, GotoType, LeaveType DEF RecordEnd
  <2>2. completed' \subseteq Artifacts \X Workers
    BY <1>9 DEF RecordEnd
  <2>3. UNCHANGED <<arg, source, locations, pull, body, store>>
    BY <1>9 DEF RecordEnd
  <2> QED
    BY <2>1, <2>2, <2>3
<1>10. CASE RecordAbort(t)
  BY <1>10 DEF RecordAbort
<1> QED
  BY <1>1, <1>2, <1>3, <1>4, <1>5, <1>6, <1>7, <1>8, <1>9, <1>10
  DEF Controller, EnsureLocal

LEMMA HandlerType ==
  ASSUME TypeInv, NEW t \in Tasks, Handler(t)
  PROVE  TypeInv'
<1> USE ExtendedType DEF TypeInv, SourceChosen, TypeOK, PullGoto, Put, Stored, callVars, refVars
<1>1. CASE PullLookup(t)
  BY <1>1 DEF PullLookup
<1>2. CASE PullFound(t)
  BY <1>2 DEF PullFound
<1>3. CASE PullFetch(t)
  <2>1. store[source[t]][Artifact(t)] \in Contents
    BY <1>3 DEF PullFetch
  <2> QED
    BY <1>3, <2>1 DEF PullFetch
<1>4. CASE PullBroken(t)
  BY <1>4 DEF PullBroken
<1>5. CASE PullReplace(t)
  BY <1>5 DEF PullReplace
<1>6. CASE PullReject(t)
  BY <1>6 DEF PullReject
<1> QED
  BY <1>1, <1>2, <1>3, <1>4, <1>5, <1>6 DEF Handler

LEMMA CrashType ==
  ASSUME TypeInv, NEW w \in Workers, WorkerCrash(w)
  PROVE  TypeInv'
BY DEF TypeInv, TypeOK, SourceChosen, WorkerCrash, callVars, refVars, Target

LEMMA ControllerSource ==
  ASSUME TypeInv, NEW t \in Tasks, Controller(t)
  PROVE  SourceChosen'
<1> USE DEF TypeInv, TypeOK, SourceChosen, Goto, Leave, refVars, workerVars
<1>1. CASE AlreadyLocal(t) \/ AwaitLock(t)
  BY <1>1 DEF AlreadyLocal, AwaitLock
<1>2. CASE ReuseCompleted(t) \/ ReuseLocation(t) \/ RejectTransfer(t)
  BY <1>2 DEF ReuseCompleted, ReuseLocation, RejectTransfer
<1>3. CASE (pc[t] = "idle" \/ pc[t] = "wait") /\ BeginTransfer(t)
  BY <1>3 DEF BeginTransfer
<1>4. CASE RecordStart(t)
  BY <1>4 DEF RecordStart
<1>5. CASE PullSucceeded(t) \/ PullFailed(t) \/ PullTimedOut(t)
  BY <1>5 DEF PullSucceeded, PullFailed, PullTimedOut
<1>6. CASE RecordEnd(t)
  BY <1>6 DEF RecordEnd
<1>7. CASE RecordAbort(t)
  BY <1>7 DEF RecordAbort
<1> QED
  BY <1>1, <1>2, <1>3, <1>4, <1>5, <1>6, <1>7
  DEF Controller, EnsureLocal, EnterLock, ResumeLocked, Locked

LEMMA TypeStep == TypeInv /\ [Next]_vars => TypeInv'
<1> SUFFICES ASSUME TypeInv, [Next]_vars PROVE TypeInv'
  OBVIOUS
<1>1. ASSUME NEW t \in Tasks, Controller(t) PROVE TypeInv'
  BY <1>1, ControllerType, ControllerSource DEF TypeInv
<1>2. ASSUME NEW t \in Tasks, Handler(t) PROVE TypeInv'
  BY <1>2, HandlerType
<1>3. ASSUME NEW w \in Workers, WorkerCrash(w) PROVE TypeInv'
  BY <1>3, CrashType
<1>4. CASE UNCHANGED vars
  BY <1>4 DEF TypeInv, TypeOK, SourceChosen, vars, callVars, refVars, workerVars
<1> QED
  BY <1>1, <1>2, <1>3, <1>4 DEF Next

LEMMA TypeInvariant == Spec => []TypeInv
<1>1. Init => TypeInv
  BY DEF Init, TypeInv, TypeOK, SourceChosen
<1> QED
  BY <1>1, TypeStep, PTL DEF Spec

\* Every variable of the Controller and of the Workers keeps its type.
THEOREM TypeCorrect == Spec => []TypeOK
BY TypeInvariant, PTL DEF TypeInv
-----------------------------------------------------------------------------
(* Mutual exclusion.  A call that waits knows the calls in front of it;    *)
(* of two calls that contend for a lock, one is in front of the other.     *)
LockInv ==
  /\ \A t \in Tasks : ahead[t] # {} => pc[t] = "wait"
  /\ \A t, u \in Tasks :
        t # u /\ Key(t) = Key(u) /\ pc[t] \in Locking /\ pc[u] \in Locking
          => t \in ahead[u] \/ u \in ahead[t]

\* A call that leaves takes only itself out of the queues.
LEMMA LeaveLock ==
  ASSUME TypeOK, LockInv, NEW t \in Tasks, NEW result \in Results,
         Leave(t, result), UNCHANGED arg, ahead[t] = {}
  PROVE  LockInv'
BY DEF TypeOK, LockInv, Leave, Goto, Release, Key, Artifact, Target

\* A call that holds its lock keeps it.
LEMMA KeepLock ==
  ASSUME TypeOK, LockInv, NEW t \in Tasks, NEW label \in Holding,
         Goto(t, label), UNCHANGED <<arg, ahead>>,
         ahead[t] = {},
         pc[t] \in Locking \/ Contenders(t) = {}
  PROVE  LockInv'
<1> USE DEF TypeOK, LockInv, Goto, Contenders, Key, Artifact, Target
<1>1. \A u \in Tasks : Key(u)' = Key(u) /\ ahead'[u] = ahead[u]
  OBVIOUS
<1>2. \A u \in Tasks : u # t => pc'[u] = pc[u]
  OBVIOUS
<1>3. ASSUME NEW u \in Tasks, u # t, Key(u) = Key(t), pc[u] \in Locking
      PROVE  t \in ahead[u]
  BY <1>3
<1> QED
  BY <1>1, <1>2, <1>3

LEMMA LockedLock ==
  ASSUME TypeOK, LockInv, NEW t \in Tasks, Locked(t), ahead[t] = {},
         pc[t] \in Locking \/ Contenders(t) = {}
  PROVE  LockInv'
BY LeaveLock, KeepLock
DEF Locked, ReuseCompleted, ReuseLocation, RejectTransfer, BeginTransfer

LEMMA ControllerLock ==
  ASSUME TypeOK, LockInv, NEW t \in Tasks, Controller(t)
  PROVE  LockInv'
<1>1. pc[t] # "wait" => ahead[t] = {}
  BY DEF LockInv
<1>2. CASE AlreadyLocal(t)
  BY <1>1, <1>2 DEF AlreadyLocal, TypeOK, LockInv, Goto, Key, Artifact, Target
<1>3. CASE AwaitLock(t)
  BY <1>3 DEF AwaitLock, TypeOK, LockInv, Goto, Contenders, Key, Artifact, Target
<1>4. CASE EnterLock(t)
  BY <1>1, <1>4, LockedLock DEF EnterLock
<1>5. CASE ResumeLocked(t)
  BY <1>5, LockedLock DEF ResumeLocked
<1>6. CASE RecordStart(t)
  BY <1>1, <1>6, LeaveLock, KeepLock DEF RecordStart
<1>7. CASE PullSucceeded(t) \/ PullFailed(t) \/ PullTimedOut(t)
  BY <1>1, <1>7, KeepLock DEF PullSucceeded, PullFailed, PullTimedOut
<1>8. CASE RecordEnd(t)
  BY <1>1, <1>8, LeaveLock, KeepLock DEF RecordEnd
<1>9. CASE RecordAbort(t)
  BY <1>1, <1>9, LeaveLock DEF RecordAbort
<1> QED
  BY <1>2, <1>3, <1>4, <1>5, <1>6, <1>7, <1>8, <1>9 DEF Controller, EnsureLocal

\* Handlers and crashes do not touch the Controller's queues.
LEMMA WorkerStepsKeepCalls ==
  ASSUME NEW t \in Tasks, Handler(t)
  PROVE  UNCHANGED <<callVars, refVars>>
BY DEF Handler, PullLookup, PullFound, PullFetch, PullBroken, PullReplace,
       PullReject

LEMMA LockStep == TypeInv /\ LockInv /\ [Next]_vars => LockInv'
<1> SUFFICES ASSUME TypeInv, LockInv, [Next]_vars PROVE LockInv'
  OBVIOUS
<1>1. ASSUME NEW t \in Tasks, Controller(t) PROVE LockInv'
  BY <1>1, ControllerLock DEF TypeInv
<1>2. CASE UNCHANGED callVars
  BY <1>2 DEF LockInv, callVars, Key, Artifact, Target
<1>3. ASSUME NEW t \in Tasks, Handler(t) PROVE LockInv'
  BY <1>2, <1>3, WorkerStepsKeepCalls
<1>4. ASSUME NEW w \in Workers, WorkerCrash(w) PROVE LockInv'
  BY <1>2, <1>4 DEF WorkerCrash
<1>5. CASE UNCHANGED vars
  BY <1>2, <1>5 DEF vars
<1> QED
  BY <1>1, <1>3, <1>4, <1>5 DEF Next

LEMMA LockInvariant == Spec => []LockInv
<1>1. Init => LockInv
  BY DEF Init, LockInv
<1> QED
  BY <1>1, LockStep, TypeInvariant, PTL DEF Spec

\* Two calls never transfer the same artifact to the same Worker at once,
\* whatever references they use and however pulls fail.
THEOREM TransfersExclude == Spec => []OneTransferAtATime
<1>1. LockInv => OneTransferAtATime
  BY DEF LockInv, OneTransferAtATime, SameTransfer, Key
<1> QED
  BY <1>1, LockInvariant, PTL
-----------------------------------------------------------------------------
(* Bytes.  A call inside a transfer found its key not completed, and no    *)
(* other call can complete it meanwhile; a call that reports moved bytes   *)
(* has completed its key.                                                  *)
OnceInv ==
  /\ \A t \in Tasks : pc[t] \in Holding => Key(t) \notin completed
  /\ \A t \in Tasks : pc[t] = "pulled" => Key(t) \in completed
  /\ BytesMoveOnce

\* A step of a call that ends neither in "pulled" nor adds to the keys.
LEMMA OnceGoto ==
  ASSUME TypeOK, OnceInv, NEW t \in Tasks,
         NEW l \in {"wait", "local", "failed"} \cup Holding,
         pc' = [pc EXCEPT ![t] = l],
         UNCHANGED <<arg, completed>>,
         l \in Holding => Key(t) \notin completed
  PROVE  OnceInv'
<1>1. \A u \in Tasks : Key(u)' = Key(u)
  BY DEF Key, Artifact, Target
<1>2. /\ pc'[t] = l
      /\ l # "pulled"
      /\ \A u \in Tasks : u # t => pc'[u] = pc[u]
  BY DEF TypeOK
<1>3. \A u \in Tasks : pc'[u] \in Holding => Key(u)' \notin completed'
  BY <1>1, <1>2 DEF OnceInv
<1>4. \A u \in Tasks : pc'[u] = "pulled" => Key(u)' \in completed'
  BY <1>1, <1>2 DEF OnceInv
<1>5. BytesMoveOnce'
  BY <1>1, <1>2 DEF OnceInv, BytesMoveOnce, SameTransfer, Key
<1> QED
  BY <1>3, <1>4, <1>5 DEF OnceInv

\* A call that has its lock completes its key, unless it is completed.
LEMMA OnceComplete ==
  ASSUME TypeOK, OnceInv, NEW t \in Tasks, NEW l \in {"local", "pulled"},
         pc' = [pc EXCEPT ![t] = l],
         completed' = completed \cup {Key(t)},
         UNCHANGED arg,
         Key(t) \notin completed,
         \A u \in Tasks \ {t} : pc[u] \in Holding => Key(u) # Key(t)
  PROVE  OnceInv'
<1>1. \A u \in Tasks : Key(u)' = Key(u)
  BY DEF Key, Artifact, Target
<1>2. /\ pc'[t] = l
      /\ \A u \in Tasks : u # t => pc'[u] = pc[u]
  BY DEF TypeOK
<1>3. \A u \in Tasks : pc'[u] \in Holding => Key(u)' \notin completed'
  BY <1>1, <1>2 DEF OnceInv
<1>4. \A u \in Tasks : pc'[u] = "pulled" => Key(u)' \in completed'
  BY <1>1, <1>2 DEF OnceInv
<1>5. \A u \in Tasks : u # t /\ pc[u] = "pulled" => Key(u) # Key(t)
  BY DEF OnceInv
<1>6. BytesMoveOnce'
  BY <1>1, <1>2, <1>5 DEF OnceInv, BytesMoveOnce, SameTransfer, Key
<1> QED
  BY <1>3, <1>4, <1>6 DEF OnceInv

\* Nobody else is inside the transfer of a call that has its lock.
LEMMA HolderAlone ==
  ASSUME TypeOK, LockInv, NEW t \in Tasks, ahead[t] = {},
         pc[t] \in Locking \/ Contenders(t) = {}
  PROVE  \A u \in Tasks \ {t} : pc[u] \in Holding => Key(u) # Key(t)
BY DEF TypeOK, LockInv, Contenders

LEMMA LockedOnce ==
  ASSUME TypeOK, LockInv, OnceInv, NEW t \in Tasks, Locked(t), ahead[t] = {},
         pc[t] \in Locking \/ Contenders(t) = {}
  PROVE  OnceInv'
<1> USE DEF Goto, Leave, refVars
<1>1. CASE ReuseCompleted(t) \/ RejectTransfer(t) \/ BeginTransfer(t)
  BY <1>1, OnceGoto DEF ReuseCompleted, RejectTransfer, BeginTransfer
<1>2. CASE ReuseLocation(t)
  BY <1>2, OnceComplete, HolderAlone DEF ReuseLocation
<1> QED
  BY <1>1, <1>2 DEF Locked

LEMMA ControllerOnce ==
  ASSUME TypeOK, LockInv, OnceInv, NEW t \in Tasks, Controller(t)
  PROVE  OnceInv'
<1> USE DEF Goto, Leave, refVars
<1>1. pc[t] # "wait" => ahead[t] = {}
  BY DEF LockInv
<1>2. pc[t] \in Holding => Key(t) \notin completed
  BY DEF OnceInv
<1>3. CASE AlreadyLocal(t) \/ AwaitLock(t)
  BY <1>3, OnceGoto DEF AlreadyLocal, AwaitLock
<1>4. CASE EnterLock(t) \/ ResumeLocked(t)
  BY <1>1, <1>4, LockedOnce DEF EnterLock, ResumeLocked
<1>5. CASE RecordStart(t)
  BY <1>2, <1>5, OnceGoto DEF RecordStart
<1>6. CASE PullSucceeded(t) \/ PullFailed(t) \/ PullTimedOut(t)
  BY <1>2, <1>6, OnceGoto DEF PullSucceeded, PullFailed, PullTimedOut
<1>7. CASE RecordEnd(t)
  <2>1. pc[t] = "end" /\ UNCHANGED arg
    BY <1>7 DEF RecordEnd
  <2>2. CASE pc' = [pc EXCEPT ![t] = "abort"] /\ UNCHANGED completed
    BY <1>2, <2>1, <2>2, OnceGoto
  <2>3. ASSUME NEW l \in {"local", "pulled"}, pc' = [pc EXCEPT ![t] = l],
               completed' = completed \cup {Key(t)}
        PROVE  OnceInv'
    BY <1>1, <1>2, <2>1, <2>3, OnceComplete, HolderAlone
  <2> QED
    BY <1>7, <2>2, <2>3 DEF RecordEnd
<1>8. CASE RecordAbort(t)
  BY <1>8, OnceGoto DEF RecordAbort
<1> QED
  BY <1>3, <1>4, <1>5, <1>6, <1>7, <1>8 DEF Controller, EnsureLocal

LEMMA OnceStep == TypeInv /\ LockInv /\ OnceInv /\ [Next]_vars => OnceInv'
<1> SUFFICES ASSUME TypeInv, LockInv, OnceInv, [Next]_vars PROVE OnceInv'
  OBVIOUS
<1>1. ASSUME NEW t \in Tasks, Controller(t) PROVE OnceInv'
  BY <1>1, ControllerOnce DEF TypeInv
<1>2. CASE UNCHANGED <<callVars, refVars>>
  BY <1>2 DEF OnceInv, BytesMoveOnce, SameTransfer, callVars, refVars, Key,
              Artifact, Target
<1>3. ASSUME NEW t \in Tasks, Handler(t) PROVE OnceInv'
  BY <1>2, <1>3, WorkerStepsKeepCalls
<1>4. ASSUME NEW w \in Workers, WorkerCrash(w) PROVE OnceInv'
  BY <1>2, <1>4 DEF WorkerCrash
<1>5. CASE UNCHANGED vars
  BY <1>2, <1>5 DEF vars
<1> QED
  BY <1>1, <1>3, <1>4, <1>5 DEF Next

\* Of all the calls that localise an artifact on a Worker, at most one
\* reports that bytes moved, whatever failed or timed out before it.
THEOREM MovedOnce == Spec => []BytesMoveOnce
<1>1. Init => OnceInv
  BY DEF Init, OnceInv, BytesMoveOnce
<1>2. OnceInv => BytesMoveOnce
  BY DEF OnceInv
<1> QED
  BY <1>1, <1>2, OnceStep, TypeInvariant, LockInvariant, PTL DEF Spec
-----------------------------------------------------------------------------
(* Files of the wrong size.                                                *)

\* A handler that leaves a wrong file behind is the one that will delete it.
LEMMA HandlerTransient ==
  ASSUME TypeInv, WrongSizeIsTransient, NEW t \in Tasks, Handler(t)
  PROVE  WrongSizeIsTransient'
<1> USE ExtendedType DEF TypeInv, TypeOK, WrongSizeIsTransient
<1>1. \A u \in Tasks : Target(u)' = Target(u) /\ Artifact(u)' = Artifact(u)
  BY WorkerStepsKeepCalls DEF callVars, Target, Artifact
<1>2. \A u \in Tasks : u # t => pull'[u] = pull[u]
  BY DEF Handler, PullLookup, PullFound, PullFetch, PullBroken, PullReplace,
         PullReject, PullGoto
<1>3. CASE PullReplace(t) \/ PullReject(t)
  <2>1. PICK c \in Contents :
          /\ store' = [store EXCEPT ![Target(t)][Artifact(t)] = c]
          /\ c = "bad" => pull'[t] = "reject"
    BY <1>3 DEF PullReplace, PullReject, PullGoto, Put
  <2>2. SUFFICES ASSUME NEW w \in Workers, NEW a \in Artifacts,
                        store'[w][a] = "bad", InitStore[w][a] # "bad"
                 PROVE  \E u \in Tasks :
                          /\ Target(u) = w
                          /\ Artifact(u) = a
                          /\ pull'[u] = "reject"
    BY <1>1
  <2>3. CASE Target(t) = w /\ Artifact(t) = a
    BY <2>1, <2>2, <2>3
  <2>4. CASE ~(Target(t) = w /\ Artifact(t) = a)
    <3>1. store[w][a] = "bad"
      BY <2>1, <2>2, <2>4
    <3>2. PICK u \in Tasks : Target(u) = w /\ Artifact(u) = a /\ pull[u] = "reject"
      BY <2>2, <3>1
    <3>3. u # t
      BY <2>4, <3>2
    <3> QED
      BY <1>2, <3>2, <3>3
  <2> QED
    BY <2>3, <2>4
<1>4. CASE PullLookup(t) \/ PullFound(t) \/ PullFetch(t) \/ PullBroken(t)
  <2>1. UNCHANGED store /\ pull[t] # "reject"
    BY <1>4 DEF PullLookup, PullFound, PullFetch, PullBroken
  <2>2. \A u \in Tasks : pull[u] = "reject" => pull'[u] = "reject"
    BY <1>2, <2>1
  <2> QED
    BY <1>1, <2>1, <2>2
<1> QED
  BY <1>3, <1>4 DEF Handler

\* Unless Workers die, every file of the wrong size that a pull has
\* published, rather than found, has a handler about to delete it.
THEOREM WrongSizeLeaves ==
  ASSUME "crash" \notin Faults
  PROVE  Spec => []WrongSizeIsTransient
<1>1. Init => WrongSizeIsTransient
  BY DEF Init, WrongSizeIsTransient
<1>2. TypeInv /\ WrongSizeIsTransient /\ [Next]_vars => WrongSizeIsTransient'
  <2> SUFFICES ASSUME TypeInv, WrongSizeIsTransient, [Next]_vars
               PROVE  WrongSizeIsTransient'
    OBVIOUS
  <2>1. ASSUME NEW t \in Tasks, Controller(t) PROVE WrongSizeIsTransient'
    <3>1. UNCHANGED <<arg, store>>
      BY <2>1 DEF Controller, EnsureLocal, AlreadyLocal, AwaitLock, EnterLock,
           ResumeLocked, Locked, ReuseCompleted, ReuseLocation, RejectTransfer,
           BeginTransfer, RecordStart, PullSucceeded, PullFailed, PullTimedOut,
           RecordEnd, RecordAbort, refVars, workerVars
    <3>2. \A u \in Tasks : pull[u] = "reject" => pull'[u] = "reject"
      <4>1. CASE RecordStart(t)
        BY <4>1 DEF RecordStart, TypeInv, SourceChosen, TypeOK
      <4>2. CASE UNCHANGED pull
        BY <4>2
      <4> QED
        BY <2>1, <4>1, <4>2 DEF Controller, EnsureLocal, AlreadyLocal, AwaitLock,
             EnterLock, ResumeLocked, Locked, ReuseCompleted, ReuseLocation,
             RejectTransfer, BeginTransfer, PullSucceeded, PullFailed,
             PullTimedOut, RecordEnd, RecordAbort, workerVars
    <3> QED
      BY <3>1, <3>2 DEF WrongSizeIsTransient, Target, Artifact
  <2>2. ASSUME NEW w \in Workers PROVE ~WorkerCrash(w)
    BY DEF WorkerCrash
  <2>3. CASE UNCHANGED vars
    BY <2>3 DEF vars, callVars, workerVars, WrongSizeIsTransient, Target, Artifact
  <2> QED
    BY <2>1, <2>2, <2>3, HandlerTransient DEF Next
<1> QED
  BY <1>1, <1>2, TypeInvariant, PTL DEF Spec
-----------------------------------------------------------------------------
(* Locations and copies, when the copies that exist at the start have the  *)
(* declared size.  Then no pull can publish anything else, nothing is ever *)
(* deleted, and what a handler learns about its store stays true.          *)
CopyInv ==
  /\ \A w \in Workers, a \in Artifacts : store[w][a] # "bad"
  /\ \A t \in Tasks : pull[t] # "reject"
  /\ \A t \in Tasks : pull[t] = "write" =>
        body[t] = "good" /\ store[source[t]][Artifact(t)] = "good"
  /\ \A t \in Tasks : pull[t] \in {"had", "copied"} => Stored(t) = "good"

ListInv ==
  /\ \A r \in Refs : \A w \in LocatedAt(r) :
        w \in Workers /\ store[w][ArtifactOf[r]] = "good"
  /\ \A k \in completed : store[k[2]][k[1]] = "good"
  /\ \A t \in Tasks : pc[t] \in {"end", "local", "pulled"} => IsLocal(t)

\* Appending to a list adds one element to it.
LEMMA AppendElements ==
  ASSUME NEW S, NEW s \in Seq(S), NEW e \in S
  PROVE  Elements(Append(s, e)) = Elements(s) \cup {e}
<1>1. /\ Len(Append(s, e)) = Len(s) + 1
      /\ \A i \in 1..Len(s) : Append(s, e)[i] = s[i]
      /\ Append(s, e)[Len(s) + 1] = e
      /\ Len(s) \in Nat
  OBVIOUS
<1>2. Elements(Append(s, e)) = {Append(s, e)[i] : i \in 1..(Len(s) + 1)}
  BY <1>1 DEF Elements
<1>3. Elements(Append(s, e)) \subseteq Elements(s) \cup {e}
  BY <1>1, <1>2 DEF Elements
<1>4. Elements(s) \subseteq Elements(Append(s, e))
  BY <1>1, <1>2 DEF Elements
<1>5. e \in Elements(Append(s, e))
  BY <1>1, <1>2
<1> QED
  BY <1>3, <1>4, <1>5

\* Extending one list adds one location to one reference.
LEMMA LocatedExtended ==
  ASSUME TypeOK, NEW t \in Tasks,
         locations' = [locations EXCEPT ![arg[t].ref] = Extended(t)]
  PROVE  \A r \in Refs : \A w :
           w \in Elements(locations'[r]) <=>
             w \in Elements(locations[r]) \/ (r = arg[t].ref /\ w = Target(t))
<1>1. /\ locations[arg[t].ref] \in Seq(Workers)
      /\ Target(t) \in Workers
      /\ arg[t].ref \in Refs
  BY ExtendedType DEF TypeOK
<1>2. Elements(Extended(t)) = Elements(locations[arg[t].ref]) \cup {Target(t)}
  BY <1>1, AppendElements DEF Extended
<1> QED
  BY <1>1, <1>2 DEF TypeOK

\* A handler adds copies and takes none away.
LEMMA HandlerCopies ==
  ASSUME TypeInv, CopyInv, NEW t \in Tasks, Handler(t)
  PROVE  /\ CopyInv'
         /\ \A w \in Workers, a \in Artifacts :
              store[w][a] = "good" => store'[w][a] = "good"
<1> USE ExtendedType DEF TypeInv, TypeOK, SourceChosen, CopyInv, PullGoto, Put,
        Stored, Artifact, Target, callVars, refVars
<1>1. CASE PullLookup(t)
  BY <1>1 DEF PullLookup
<1>2. CASE PullFound(t)
  BY <1>2 DEF PullFound
<1>3. CASE PullFetch(t)
  <2>1. source[t] \in Workers
    BY <1>3 DEF PullFetch
  <2>2. store[source[t]][Artifact(t)] \in {"none", "good"}
    BY <2>1
  <2>3. UNCHANGED <<arg, source, store>>
    BY <1>3 DEF PullFetch
  <2>4. CASE store[source[t]][Artifact(t)] = "none"
    BY <1>3, <2>3, <2>4 DEF PullFetch
  <2>5. CASE store[source[t]][Artifact(t)] = "good"
    BY <1>3, <2>3, <2>5 DEF PullFetch
  <2> QED
    BY <2>2, <2>4, <2>5
<1>4. CASE PullBroken(t)
  BY <1>4 DEF PullBroken
<1>5. CASE PullReplace(t)
  BY <1>5 DEF PullReplace
<1>6. CASE PullReject(t)
  BY <1>6 DEF PullReject
<1> QED
  BY <1>1, <1>2, <1>3, <1>4, <1>5, <1>6 DEF Handler

LEMMA CrashCopies ==
  ASSUME TypeInv, CopyInv, NEW w \in Workers, WorkerCrash(w)
  PROVE  CopyInv'
BY DEF TypeInv, TypeOK, CopyInv, WorkerCrash, Stored, Artifact, Target, callVars

\* A call asks for nothing it has no source for, and changes no store.
LEMMA ControllerCopies ==
  ASSUME TypeInv, CopyInv, NEW t \in Tasks, Controller(t)
  PROVE  CopyInv' /\ UNCHANGED <<arg, store>>
<1> USE DEF TypeInv, TypeOK, SourceChosen, CopyInv, Stored, Artifact, Target,
        Goto, Leave, refVars, workerVars
<1>1. CASE AlreadyLocal(t) \/ AwaitLock(t)
  BY <1>1 DEF AlreadyLocal, AwaitLock
<1>2. CASE ReuseCompleted(t) \/ ReuseLocation(t) \/ RejectTransfer(t)
  BY <1>2 DEF ReuseCompleted, ReuseLocation, RejectTransfer
<1>3. CASE (pc[t] = "idle" \/ pc[t] = "wait") /\ BeginTransfer(t)
  BY <1>3 DEF BeginTransfer
<1>4. CASE RecordStart(t)
  BY <1>4 DEF RecordStart
<1>5. CASE PullSucceeded(t) \/ PullFailed(t) \/ PullTimedOut(t)
  BY <1>5 DEF PullSucceeded, PullFailed, PullTimedOut
<1>6. CASE RecordEnd(t) \/ RecordAbort(t)
  BY <1>6 DEF RecordEnd, RecordAbort
<1> QED
  BY <1>1, <1>2, <1>3, <1>4, <1>5, <1>6
  DEF Controller, EnsureLocal, EnterLock, ResumeLocked, Locked

LEMMA CopyStep == TypeInv /\ CopyInv /\ [Next]_vars => CopyInv'
<1> SUFFICES ASSUME TypeInv, CopyInv, [Next]_vars PROVE CopyInv'
  OBVIOUS
<1>1. CASE UNCHANGED vars
  BY <1>1 DEF CopyInv, vars, callVars, refVars, workerVars, Stored, Artifact, Target
<1> QED
  BY <1>1, ControllerCopies, HandlerCopies, CrashCopies DEF Next

(* The Controller adds a location only after the target has answered that  *)
(* it has the artifact, or after an earlier call has.                      *)
LEMMA ControllerLists ==
  ASSUME TypeInv, CopyInv, ListInv, NEW t \in Tasks, Controller(t)
  PROVE  ListInv'
<1> USE ExtendedType DEF TypeInv, TypeOK, ListInv, Goto, Leave
<1>1. UNCHANGED <<arg, store>>
  BY ControllerCopies
<1>2. \A u \in Tasks : Target(u)' = Target(u) /\ Key(u)' = Key(u)
  BY <1>1 DEF Target, Key, Artifact
<1>3. Key(t) = <<Artifact(t), Target(t)>> /\ Artifact(t) = ArtifactOf[arg[t].ref]
  BY DEF Key, Artifact
<1>4. ASSUME IsLocal(t), UNCHANGED locations,
             completed' \in {completed, completed \cup {Key(t)}},
             NEW l \in {"end"} \cup Results, pc' = [pc EXCEPT ![t] = l]
      PROVE  ListInv'
  <2>1. store[Target(t)][Artifact(t)] = "good"
    BY <1>3, <1>4 DEF IsLocal
  <2>2. \A r \in Refs : LocatedAt(r)' = LocatedAt(r)
    BY <1>4 DEF LocatedAt
  <2>3. \A u \in Tasks : IsLocal(u)' <=> IsLocal(u)
    BY <1>1, <1>2, <2>2 DEF IsLocal
  <2> QED
    BY <1>1, <1>3, <1>4, <2>1, <2>2, <2>3
<1>5. ASSUME store[Target(t)][Artifact(t)] = "good", UNCHANGED completed,
             locations' = [locations EXCEPT ![arg[t].ref] = Extended(t)],
             NEW l \in {"end"} \cup Results, pc' = [pc EXCEPT ![t] = l]
      PROVE  ListInv'
  <2>1. \A r \in Refs : \A w :
          w \in Elements(locations'[r]) <=>
            w \in Elements(locations[r]) \/ (r = arg[t].ref /\ w = Target(t))
    BY <1>5, LocatedExtended
  <2>2. ASSUME NEW u \in Tasks, IsLocal(u) \/ u = t PROVE IsLocal(u)'
    <3>1. arg[u].ref \in Refs /\ arg'[u] = arg[u]
      BY <1>1
    <3>2. arg[u].target \in Elements(locations'[arg[u].ref])
      BY <2>1, <2>2, <3>1 DEF IsLocal, LocatedAt, Target
    <3> QED
      BY <3>1, <3>2 DEF IsLocal, LocatedAt, Target
  <2>3. ASSUME NEW r \in Refs, NEW w \in Elements(locations'[r])
        PROVE  w \in Workers /\ store[w][ArtifactOf[r]] = "good"
    <3>1. CASE w \in Elements(locations[r])
      BY <3>1 DEF LocatedAt
    <3>2. CASE r = arg[t].ref /\ w = Target(t)
      BY <1>3, <1>5, <3>2
    <3> QED
      BY <2>1, <3>1, <3>2
  <2>4. \A r \in Refs : \A w \in Elements(locations'[r]) :
          w \in Workers /\ store'[w][ArtifactOf[r]] = "good"
    BY <1>1, <2>3
  <2>5. \A k \in completed' : store'[k[2]][k[1]] = "good"
    BY <1>1, <1>5
  <2>6. \A u \in Tasks : pc'[u] \in {"end", "local", "pulled"} => IsLocal(u)'
    BY <1>5, <2>2
  <2> QED
    BY <2>4, <2>5, <2>6 DEF LocatedAt
<1>6. ASSUME UNCHANGED <<locations, completed>>,
             NEW l \in {"wait", "start", "pull", "abort", "failed"},
             pc' = [pc EXCEPT ![t] = l]
      PROVE  ListInv'
  <2>1. \A r \in Refs : LocatedAt(r)' = LocatedAt(r)
    BY <1>6 DEF LocatedAt
  <2>2. \A u \in Tasks : IsLocal(u)' <=> IsLocal(u)
    BY <1>1, <1>2, <2>1 DEF IsLocal
  <2> QED
    BY <1>1, <1>6, <2>1, <2>2
<1>7. CASE AlreadyLocal(t)
  BY <1>4, <1>7 DEF AlreadyLocal, refVars
<1>8. CASE ReuseCompleted(t)
  <2>1. store[Target(t)][Artifact(t)] = "good"
    BY <1>3, <1>8 DEF ReuseCompleted
  <2> QED
    BY <1>4, <1>5, <1>8, <2>1 DEF ReuseCompleted
<1>9. CASE ReuseLocation(t)
  BY <1>4, <1>9 DEF ReuseLocation
<1>10. CASE PullSucceeded(t)
  BY <1>5, <1>10 DEF PullSucceeded, CopyInv, Stored
<1>11. CASE RecordEnd(t)
  <2>1. IsLocal(t)
    BY <1>11 DEF RecordEnd
  <2> QED
    BY <1>4, <1>6, <1>11, <2>1 DEF RecordEnd
<1>12. CASE AwaitLock(t) \/ RejectTransfer(t) \/ BeginTransfer(t)
  BY <1>6, <1>12 DEF AwaitLock, RejectTransfer, BeginTransfer, refVars
<1>13. CASE RecordStart(t)
  BY <1>6, <1>13 DEF RecordStart, refVars
<1>14. CASE PullFailed(t) \/ PullTimedOut(t) \/ RecordAbort(t)
  BY <1>6, <1>14 DEF PullFailed, PullTimedOut, RecordAbort, refVars
<1> QED
  BY <1>7, <1>8, <1>9, <1>10, <1>11, <1>12, <1>13, <1>14
  DEF Controller, EnsureLocal, EnterLock, ResumeLocked, Locked

\* Steps that leave the Controller alone keep what it believes true.
LEMMA WorkerLists ==
  ASSUME TypeInv, ListInv, UNCHANGED <<callVars, refVars>>,
         \A w \in Workers, a \in Artifacts :
           store[w][a] = "good" => store'[w][a] = "good"
  PROVE  ListInv'
BY DEF TypeInv, TypeOK, ListInv, callVars, refVars, LocatedAt, IsLocal, Target

LEMMA ListStep == TypeInv /\ CopyInv /\ ListInv /\ [Next]_vars => ListInv'
<1> SUFFICES ASSUME TypeInv, CopyInv, ListInv, [Next]_vars PROVE ListInv'
  OBVIOUS
<1>1. ASSUME NEW t \in Tasks, Handler(t) PROVE ListInv'
  BY <1>1, HandlerCopies, WorkerStepsKeepCalls, WorkerLists
<1>2. ASSUME NEW w \in Workers, WorkerCrash(w) PROVE ListInv'
  BY <1>2, WorkerLists DEF WorkerCrash
<1>3. CASE UNCHANGED vars
  BY <1>3, WorkerLists DEF vars, workerVars
<1> QED
  BY <1>1, <1>2, <1>3, ControllerLists DEF Next

LEMMA InitCopies == IntactSources /\ Init => CopyInv /\ ListInv
<1> SUFFICES ASSUME IntactSources, Init PROVE CopyInv /\ ListInv
  OBVIOUS
<1>1. CopyInv
  BY DEF IntactSources, Init, CopyInv
<1>2. ASSUME NEW r \in Refs, NEW w \in LocatedAt(r)
      PROVE  w \in Workers /\ store[w][ArtifactOf[r]] = "good"
  <2>1. w \in Listed(r) /\ InitLocations[r] \in Seq(Workers)
    BY <1>2 DEF Init, LocatedAt, Listed
  <2>2. w \in Workers
    BY <2>1 DEF Listed, Elements
  <2> QED
    BY <2>1, <2>2 DEF IntactSources, Init
<1> QED
  BY <1>1, <1>2 DEF ListInv, Init

LEMMA CopyInvariant ==
  ASSUME IntactSources
  PROVE  Spec => [](TypeInv /\ CopyInv /\ ListInv)
<1>1. Init => CopyInv /\ ListInv
  BY InitCopies
<1> QED
  BY <1>1, CopyStep, ListStep, TypeInvariant, PTL DEF Spec

\* With intact sources, a location the Controller has recorded and a key it
\* has marked completed always stand for a copy of the declared size, even
\* when pulls time out and go on in the background, Workers crash between
\* two file operations, or the trace cannot be written.
THEOREM RecordedLocationsHold ==
  ASSUME IntactSources
  PROVE  Spec => []LocationSound
<1>1. ListInv => LocationSound
  BY DEF ListInv, LocationSound
<1> QED
  BY <1>1, CopyInvariant, PTL

\* With intact sources, a call that returned normally has left its target
\* in the reference it was given.
THEOREM AnswersRecorded ==
  ASSUME IntactSources
  PROVE  Spec => []AnswerRecorded
<1>1. ListInv => AnswerRecorded
  BY DEF ListInv, AnswerRecorded
<1> QED
  BY <1>1, CopyInvariant, PTL
-----------------------------------------------------------------------------
(* Locations and copies, when no handler outlives its call but a source    *)
(* may hold a file of another size.  The lock then covers the handler too: *)
(* what it has seen of its own file stays true, and it deletes nothing but *)
(* what it wrote.                                                          *)
PatientInv ==
  /\ HandlersAwaited
  /\ \A t \in Tasks : pull[t] \in {"fetch", "write"} => Stored(t) = "none"
  /\ \A t \in Tasks : pull[t] = "reject" => Stored(t) # "good"
  /\ \A t \in Tasks : pull[t] \in {"had", "copied"} => Stored(t) = "good"

\* A file that a recorded location stands for is not the one that was listed
\* at the start, of which nothing is known.
GoodInv ==
  /\ \A r \in Refs : Listed(r) \subseteq LocatedAt(r)
  /\ \A r \in Refs : \A w \in LocatedAt(r) \ Listed(r) :
        w \in Workers /\ store[w][ArtifactOf[r]] = "good"
  /\ \A k \in completed : store[k[2]][k[1]] = "good"
  /\ \A t \in Tasks : pc[t] \in Locking => Target(t) \notin Listed(arg[t].ref)
  /\ \A t \in Tasks : pc[t] = "end" => IsLocal(t)

Patient == TypeInv /\ LockInv /\ PatientInv

\* What a handler leaves under the id it serves, by where it gets to.
LEMMA PatientStep ==
  ASSUME Patient, NEW t \in Tasks, Handler(t)
  PROVE  \E c \in Contents :
           /\ \A w \in Workers, a \in Artifacts :
                store'[w][a] = IF w = Target(t) /\ a = Artifact(t) THEN c ELSE store[w][a]
           /\ Stored(t) = "good" => c = "good"
           /\ pull'[t] \in {"fetch", "write"} => c = "none"
           /\ pull'[t] = "reject" => c # "good"
           /\ pull'[t] \in {"had", "copied"} => c = "good"
<1> USE ExtendedType DEF Patient, TypeInv, TypeOK, PatientInv, HandlersAwaited, PullGoto, Put, Stored
<1>1. CASE PullLookup(t)
  <2> WITNESS Stored(t) \in Contents
  <2> QED
    BY <1>1 DEF PullLookup
<1>2. CASE PullFound(t)
  <2> WITNESS Stored(t) \in Contents
  <2> QED
    BY <1>2 DEF PullFound
<1>3. CASE PullFetch(t)
  <2> WITNESS Stored(t) \in Contents
  <2> QED
    BY <1>3 DEF PullFetch
<1>4. CASE PullBroken(t)
  <2> WITNESS Stored(t) \in Contents
  <2> QED
    BY <1>4 DEF PullBroken
<1>5. CASE PullReplace(t)
  <2> WITNESS body[t] \in Contents
  <2> QED
    BY <1>5 DEF PullReplace
<1>6. CASE PullReject(t)
  <2> WITNESS "none" \in Contents
  <2> QED
    BY <1>6 DEF PullReject
<1> QED
  BY <1>1, <1>2, <1>3, <1>4, <1>5, <1>6 DEF Handler

\* A handler leaves alone what the others have seen, and takes no copy of
\* the declared size away.
LEMMA PatientHandler ==
  ASSUME Patient, NEW t \in Tasks, Handler(t)
  PROVE  /\ PatientInv'
         /\ \A w \in Workers, a \in Artifacts :
              store[w][a] = "good" => store'[w][a] = "good"
<1> USE ExtendedType DEF Patient, TypeInv, TypeOK
<1>1. /\ UNCHANGED <<pc, arg>>
      /\ \A u \in Tasks : Target(u)' = Target(u) /\ Artifact(u)' = Artifact(u)
  BY WorkerStepsKeepCalls DEF callVars, Target, Artifact
<1>2. pull[t] \in Running
  BY DEF Handler, PullLookup, PullFound, PullFetch, PullBroken, PullReplace,
         PullReject
<1>3. \A u \in Tasks \ {t} : pull'[u] = pull[u]
  BY DEF Handler, PullLookup, PullFound, PullFetch, PullBroken, PullReplace,
         PullReject, PullGoto
<1>4. pc[t] = "pull"
  BY <1>2 DEF PatientInv, HandlersAwaited
<1>5. \A u \in Tasks \ {t} : pull[u] \in Running =>
          Artifact(u) # Artifact(t) \/ Target(u) # Target(t)
  <2>1. \A u \in Tasks \ {t} : pc[u] = "pull" => Key(u) # Key(t)
    BY <1>4 DEF LockInv
  <2> QED
    BY <2>1 DEF PatientInv, HandlersAwaited, Key
<1>6. PICK c \in Contents :
        /\ \A w \in Workers, a \in Artifacts :
             store'[w][a] = IF w = Target(t) /\ a = Artifact(t) THEN c ELSE store[w][a]
        /\ Stored(t) = "good" => c = "good"
        /\ pull'[t] \in {"fetch", "write"} => c = "none"
        /\ pull'[t] = "reject" => c # "good"
        /\ pull'[t] \in {"had", "copied"} => c = "good"
  BY PatientStep
<1>7. \A w \in Workers, a \in Artifacts : store[w][a] = "good" => store'[w][a] = "good"
  BY <1>6 DEF Stored
<1>8. Stored(t)' = c
  BY <1>1, <1>6 DEF Stored
<1>9. ASSUME NEW u \in Tasks \ {t}
      PROVE  /\ pull[u] \in Running => Stored(u)' = Stored(u)
             /\ Stored(u) = "good" => Stored(u)' = "good"
  BY <1>1, <1>5, <1>6, <1>7 DEF Stored
<1>10. \A u \in Tasks : pull'[u] \in Running => pc'[u] = "pull"
  BY <1>1, <1>3, <1>4 DEF PatientInv, HandlersAwaited
<1>11. \A u \in Tasks : pull'[u] \in {"fetch", "write"} => Stored(u)' = "none"
  <2>1. ASSUME NEW u \in Tasks \ {t}, pull'[u] \in {"fetch", "write"}
        PROVE  Stored(u)' = "none"
    <3>1. pull[u] \in {"fetch", "write"} /\ Stored(u) = "none"
      BY <1>3, <2>1 DEF PatientInv, HandlersAwaited
    <3> QED
      BY <1>9, <3>1
  <2> QED
    BY <1>6, <1>8, <2>1
<1>12. \A u \in Tasks : pull'[u] = "reject" => Stored(u)' # "good"
  <2>1. ASSUME NEW u \in Tasks \ {t}, pull'[u] = "reject"
        PROVE  Stored(u)' # "good"
    <3>1. pull[u] = "reject" /\ Stored(u) # "good"
      BY <1>3, <2>1 DEF PatientInv, HandlersAwaited
    <3> QED
      BY <1>9, <3>1
  <2> QED
    BY <1>6, <1>8, <2>1
<1>13. \A u \in Tasks : pull'[u] \in {"had", "copied"} => Stored(u)' = "good"
  BY <1>3, <1>6, <1>8, <1>9 DEF PatientInv, HandlersAwaited
<1> QED
  BY <1>7, <1>10, <1>11, <1>12, <1>13 DEF PatientInv, HandlersAwaited

\* A call starts its own handler, and goes on only when that has ended.
LEMMA PatientController ==
  ASSUME Patient, HandlersAwaited', NEW t \in Tasks, Controller(t)
  PROVE  PatientInv' /\ UNCHANGED <<arg, store>>
<1> USE DEF Patient, TypeInv, TypeOK, SourceChosen, PatientInv, HandlersAwaited, Stored, Artifact,
        Target, Goto, Leave, refVars, workerVars
<1>1. CASE AlreadyLocal(t) \/ AwaitLock(t)
  BY <1>1 DEF AlreadyLocal, AwaitLock
<1>2. CASE (pc[t] = "idle" \/ pc[t] = "wait")
           /\ (ReuseCompleted(t) \/ ReuseLocation(t) \/ RejectTransfer(t))
  BY <1>2 DEF ReuseCompleted, ReuseLocation, RejectTransfer
<1>3. CASE (pc[t] = "idle" \/ pc[t] = "wait") /\ BeginTransfer(t)
  BY <1>3 DEF BeginTransfer
<1>4. CASE RecordStart(t)
  <2>1. /\ pull[t] = "none"
        /\ UNCHANGED <<arg, store>>
    BY <1>4 DEF RecordStart
  <2>2. CASE pc' = [pc EXCEPT ![t] = "pull"] /\ pull' = [pull EXCEPT ![t] = "lookup"]
    BY <2>1, <2>2
  <2>3. CASE pc' = [pc EXCEPT ![t] = "failed"] /\ UNCHANGED pull
    BY <2>1, <2>3
  <2> QED
    BY <1>4, <2>2, <2>3 DEF RecordStart
<1>5. CASE PullSucceeded(t) \/ PullFailed(t) \/ PullTimedOut(t)
  BY <1>5 DEF PullSucceeded, PullFailed, PullTimedOut
<1>6. CASE RecordEnd(t) \/ RecordAbort(t)
  <2>1. pc[t] \in {"end", "abort"} /\ UNCHANGED <<arg, store, pull>>
    BY <1>6 DEF RecordEnd, RecordAbort
  <2>2. \A u \in Tasks \ {t} : pc'[u] = pc[u]
    BY <1>6 DEF RecordEnd, RecordAbort
  <2> QED
    BY <2>1, <2>2
<1> QED
  BY <1>1, <1>2, <1>3, <1>4, <1>5, <1>6
  DEF Controller, EnsureLocal, EnterLock, ResumeLocked, Locked

LEMMA PatientCrash ==
  ASSUME Patient, NEW w \in Workers, WorkerCrash(w)
  PROVE  PatientInv' /\ UNCHANGED <<callVars, refVars, store>>
BY DEF Patient, TypeInv, TypeOK, PatientInv, HandlersAwaited, WorkerCrash, Stored, Artifact, Target,
       callVars

\* A call that has added nothing yet has a target its reference did not list.
LEMMA ControllerAdds ==
  ASSUME Patient, GoodInv, UNCHANGED <<arg, store>>, NEW t \in Tasks, Controller(t)
  PROVE  GoodInv'
<1> USE ExtendedType DEF Patient, TypeInv, TypeOK, Goto, Leave
<1>1. /\ arg[t].ref \in Refs
      /\ \A u \in Tasks : Target(u)' = Target(u) /\ Key(u)' = Key(u)
  BY DEF Target, Key, Artifact
<1>2. Key(t) = <<Artifact(t), Target(t)>> /\ Artifact(t) = ArtifactOf[arg[t].ref]
  BY DEF Key, Artifact
<1>3. ASSUME ~IsLocal(t) PROVE Target(t) \notin Listed(arg[t].ref)
  BY <1>1, <1>3 DEF GoodInv, IsLocal
<1>4. ASSUME IsLocal(t), Target(t) \notin Listed(arg[t].ref)
      PROVE  store[Target(t)][Artifact(t)] = "good"
  BY <1>1, <1>2, <1>4 DEF GoodInv, IsLocal
<1>5. ASSUME UNCHANGED locations,
             completed' \in {completed, completed \cup {Key(t)}},
             completed' # completed => store[Target(t)][Artifact(t)] = "good",
             NEW l \in Locking \cup Results, pc' = [pc EXCEPT ![t] = l],
             l \in Locking => Target(t) \notin Listed(arg[t].ref),
             l # "end"
      PROVE  GoodInv'
  <2>1. \A r \in Refs : LocatedAt(r)' = LocatedAt(r)
    BY <1>5 DEF LocatedAt
  <2>2. \A u \in Tasks : IsLocal(u)' <=> IsLocal(u)
    BY <1>1, <2>1 DEF IsLocal
  <2>3. \A k \in completed' : store'[k[2]][k[1]] = "good"
    BY <1>2, <1>5 DEF GoodInv
  <2>4. \A u \in Tasks : pc'[u] \in Locking => Target(u)' \notin Listed(arg'[u].ref)
    BY <1>1, <1>5 DEF GoodInv
  <2>5. \A u \in Tasks : pc'[u] = "end" => IsLocal(u)'
    BY <1>5, <2>2 DEF GoodInv
  <2> QED
    BY <2>1, <2>3, <2>4, <2>5 DEF GoodInv
<1>6. ASSUME store[Target(t)][Artifact(t)] = "good", UNCHANGED completed,
             locations' = [locations EXCEPT ![arg[t].ref] = Extended(t)],
             NEW l \in {"end"} \cup Results, pc' = [pc EXCEPT ![t] = l],
             Target(t) \notin Listed(arg[t].ref)
      PROVE  GoodInv'
  <2>1. \A r \in Refs : \A w :
          w \in Elements(locations'[r]) <=>
            w \in Elements(locations[r]) \/ (r = arg[t].ref /\ w = Target(t))
    BY <1>6, LocatedExtended
  <2>2. ASSUME NEW u \in Tasks, IsLocal(u) \/ u = t PROVE IsLocal(u)'
    <3>1. arg[u].ref \in Refs /\ arg'[u] = arg[u]
      OBVIOUS
    <3>2. arg[u].target \in Elements(locations'[arg[u].ref])
      BY <2>1, <2>2, <3>1 DEF IsLocal, LocatedAt, Target
    <3> QED
      BY <3>1, <3>2 DEF IsLocal, LocatedAt, Target
  <2>3. \A r \in Refs : Listed(r) \subseteq Elements(locations'[r])
    BY <2>1 DEF GoodInv, LocatedAt
  <2>4. ASSUME NEW r \in Refs, NEW w \in Elements(locations'[r]), w \notin Listed(r)
        PROVE  w \in Workers /\ store[w][ArtifactOf[r]] = "good"
    <3>1. CASE w \in Elements(locations[r])
      BY <2>4, <3>1 DEF GoodInv, LocatedAt
    <3>2. CASE r = arg[t].ref /\ w = Target(t)
      BY <1>2, <1>6, <3>2
    <3> QED
      BY <2>1, <3>1, <3>2
  <2>5. \A k \in completed' : store'[k[2]][k[1]] = "good"
    BY <1>6 DEF GoodInv
  <2>6. \A u \in Tasks : pc'[u] \in Locking => Target(u)' \notin Listed(arg'[u].ref)
    BY <1>1, <1>6 DEF GoodInv
  <2>7. \A u \in Tasks : pc'[u] = "end" => IsLocal(u)'
    BY <1>6, <2>2 DEF GoodInv
  <2> QED
    BY <2>3, <2>4, <2>5, <2>6, <2>7 DEF GoodInv, LocatedAt
<1>7. pc[t] \in Locking => Target(t) \notin Listed(arg[t].ref)
  BY DEF GoodInv
<1>8. CASE AlreadyLocal(t)
  BY <1>5, <1>8 DEF AlreadyLocal, refVars
<1>9. CASE AwaitLock(t)
  BY <1>3, <1>5, <1>9 DEF AwaitLock, refVars
<1>10. CASE EnterLock(t) \/ ResumeLocked(t)
  <2>1. Target(t) \notin Listed(arg[t].ref) /\ Locked(t)
    BY <1>3, <1>7, <1>10 DEF EnterLock, ResumeLocked
  <2>2. CASE ReuseCompleted(t)
    <3>1. store[Target(t)][Artifact(t)] = "good"
      BY <1>2, <2>2 DEF ReuseCompleted, GoodInv
    <3> QED
      BY <1>5, <1>6, <2>1, <2>2, <3>1 DEF ReuseCompleted
  <2>3. CASE ReuseLocation(t)
    BY <1>4, <1>5, <2>1, <2>3 DEF ReuseLocation
  <2>4. CASE RejectTransfer(t) \/ BeginTransfer(t)
    BY <1>5, <2>1, <2>4 DEF RejectTransfer, BeginTransfer, refVars
  <2> QED
    BY <2>1, <2>2, <2>3, <2>4 DEF Locked
<1>11. CASE RecordStart(t)
  BY <1>5, <1>7, <1>11 DEF RecordStart, refVars
<1>12. CASE PullSucceeded(t)
  <2>1. store[Target(t)][Artifact(t)] = "good"
    BY <1>12 DEF PullSucceeded, PatientInv, HandlersAwaited, Stored
  <2> QED
    BY <1>6, <1>7, <1>12, <2>1 DEF PullSucceeded
<1>13. CASE PullFailed(t) \/ PullTimedOut(t) \/ RecordAbort(t)
  BY <1>5, <1>7, <1>13 DEF PullFailed, PullTimedOut, RecordAbort, refVars
<1>14. CASE RecordEnd(t)
  <2>1. IsLocal(t) /\ Target(t) \notin Listed(arg[t].ref)
    BY <1>7, <1>14 DEF RecordEnd, GoodInv
  <2>2. store[Target(t)][Artifact(t)] = "good"
    BY <1>4, <2>1
  <2> QED
    BY <1>5, <1>14, <2>1, <2>2 DEF RecordEnd
<1> QED
  BY <1>8, <1>9, <1>10, <1>11, <1>12, <1>13, <1>14 DEF Controller, EnsureLocal

\* Steps that leave the Controller alone keep what it believes true.
LEMMA WorkerAdds ==
  ASSUME TypeInv, GoodInv, UNCHANGED <<callVars, refVars>>,
         \A w \in Workers, a \in Artifacts :
           store[w][a] = "good" => store'[w][a] = "good"
  PROVE  GoodInv'
<1> USE DEF TypeInv, TypeOK, callVars, refVars, GoodInv
<1>1. /\ \A r \in Refs : LocatedAt(r)' = LocatedAt(r)
      /\ \A u \in Tasks : Target(u)' = Target(u) /\ (IsLocal(u)' <=> IsLocal(u))
  BY DEF LocatedAt, IsLocal, Target
<1>2. \A r \in Refs : \A w \in LocatedAt(r) \ Listed(r) :
        store'[w][ArtifactOf[r]] = "good"
  OBVIOUS
<1>3. \A k \in completed : store'[k[2]][k[1]] = "good"
  OBVIOUS
<1> QED
  BY <1>1, <1>2, <1>3

LEMMA PatientInvariant == Spec /\ []HandlersAwaited => []GoodInv
<1>1. Init /\ HandlersAwaited => PatientInv /\ GoodInv
  BY DEF Init, PatientInv, GoodInv, LocatedAt, Listed
<1>2. TypeInv /\ LockInv /\ PatientInv /\ GoodInv /\ HandlersAwaited' /\ [Next]_vars
        => PatientInv' /\ GoodInv'
  <2> SUFFICES ASSUME Patient, GoodInv, HandlersAwaited', [Next]_vars
               PROVE  PatientInv' /\ GoodInv'
    BY DEF Patient
  <2>1. ASSUME NEW t \in Tasks, Controller(t) PROVE PatientInv' /\ GoodInv'
    BY <2>1, PatientController, ControllerAdds
  <2>2. ASSUME NEW t \in Tasks, Handler(t) PROVE PatientInv' /\ GoodInv'
    BY <2>2, PatientHandler, WorkerStepsKeepCalls, WorkerAdds DEF Patient
  <2>3. ASSUME NEW w \in Workers, WorkerCrash(w) PROVE PatientInv' /\ GoodInv'
    BY <2>3, PatientCrash, WorkerAdds DEF Patient
  <2>4. CASE UNCHANGED vars
    <3>1. PatientInv'
      BY <2>4 DEF Patient, PatientInv, vars, callVars, refVars, workerVars, Stored, Artifact, Target
    <3> QED
      BY <2>4, <3>1, WorkerAdds DEF Patient, vars, workerVars
  <2> QED
    BY <2>1, <2>2, <2>3, <2>4 DEF Next
<1> QED
  BY <1>1, <1>2, TypeInvariant, LockInvariant, PTL DEF Spec

\* As long as no handler outlives its call, a recorded location and a
\* completed key stand for a copy of the declared size whatever the sources
\* hold: only rejected files are deleted, and never one that is recorded.
THEOREM PatientLocationsHold == Spec => LossIsLate
<1>1. GoodInv => LocationSound
  BY DEF GoodInv, LocationSound
<1> QED
  BY <1>1, PatientInvariant, PTL DEF LossIsLate
-----------------------------------------------------------------------------
(* The steps of Placement the Controller's steps are.  What a step does to *)
(* the lists of locations is given by its effect on their elements.        *)

AddsAtMost(t) ==
  \A r \in Refs : \A w :
    w \in Elements(locations'[r]) <=>
      w \in Elements(locations[r]) \/ (r = arg[t].ref /\ w = Target(t))

\* The location added to a list is the one placement added.
LEMMA PlacedStep ==
  ASSUME TypeInv, NEW t \in Tasks, AddsAtMost(t)
  PROVE  Placed' = Placed \cup {<<arg[t].ref, Target(t)>>}
<1> USE ExtendedType DEF TypeInv, TypeOK
<1>1. \A r \in Refs, w \in Workers :
        w \in Elements(locations'[r]) <=>
          w \in Elements(locations[r]) \/ <<r, w>> = <<arg[t].ref, Target(t)>>
  BY DEF AddsAtMost
<1>2. Placed' = {p \in Refs \X Workers : p[2] \in Elements(locations'[p[1]])}
  BY DEF Placed, LocatedAt
<1>3. Placed = {p \in Refs \X Workers : p[2] \in Elements(locations[p[1]])}
  BY DEF Placed, LocatedAt
<1> QED
  BY <1>1, <1>2, <1>3

\* A call that ends well at a sound location is one Grant.
LEMMA GrantStep ==
  ASSUME TypeInv, NEW t \in Tasks, NEW l \in {"local", "pulled"},
         pc[t] \notin Results, pc' = [pc EXCEPT ![t] = l],
         UNCHANGED <<arg, store>>, AddsAtMost(t),
         store[Target(t)][Artifact(t)] = "good"
  PROVE  P!Grant(t, arg[t].ref, Target(t))
<1> DEFINE g == <<t, arg[t].ref, Target(t)>>
<1> USE ExtendedType DEF TypeInv, TypeOK, Results
<1>1. ~P!Answered(t)
  BY DEF P!Answered, Granted, Refused
<1>2. <<ArtifactOf[arg[t].ref], Target(t)>> \in IntactCopies
  BY DEF IntactCopies, Artifact
<1>3. UNCHANGED <<IntactCopies, Refused>>
  BY DEF IntactCopies, Refused
<1>4. Placed' = Placed \cup {<<arg[t].ref, Target(t)>>}
  BY PlacedStep
<1>5. Granted' = Granted \cup {g}
  <2>1. \A u \in Tasks \ {t} : pc'[u] = pc[u] /\ arg'[u] = arg[u]
    OBVIOUS
  <2>2. \A h \in Granted' : h \in Granted \cup {g}
    BY <2>1 DEF Granted, Target
  <2>3. \A h \in Granted \cup {g} : h \in Granted'
    BY <2>1 DEF Granted, Target
  <2> QED
    BY <2>2, <2>3
<1> QED
  BY <1>1, <1>2, <1>3, <1>4, <1>5 DEF P!Grant

\* Recording a location of a copy is one Publish.
LEMMA PublishStep ==
  ASSUME TypeInv, NEW t \in Tasks,
         pc[t] \notin Results, pc' = [pc EXCEPT ![t] = "end"],
         UNCHANGED <<arg, store>>, AddsAtMost(t),
         store[Target(t)][Artifact(t)] = "good"
  PROVE  P!Publish(arg[t].ref, Target(t))
<1> USE ExtendedType DEF TypeInv, TypeOK, Results
<1>1. <<ArtifactOf[arg[t].ref], Target(t)>> \in IntactCopies
  BY DEF IntactCopies, Artifact
<1>2. \A u \in Tasks : pc'[u] \in Results \/ pc[u] \in Results => pc'[u] = pc[u]
  OBVIOUS
<1>3. UNCHANGED <<IntactCopies, Granted, Refused>>
  BY <1>2 DEF IntactCopies, Granted, Refused
<1>4. Placed' = Placed \cup {<<arg[t].ref, Target(t)>>}
  BY PlacedStep
<1> QED
  BY <1>1, <1>3, <1>4 DEF P!Publish

\* A call that fails is one Refuse.
LEMMA RefuseStep ==
  ASSUME TypeInv, NEW t \in Tasks,
         pc[t] \notin Results, pc' = [pc EXCEPT ![t] = "failed"],
         UNCHANGED <<arg, locations, store>>
  PROVE  P!Refuse(t)
<1> USE ExtendedType DEF TypeInv, TypeOK, Results
<1>1. ~P!Answered(t)
  BY DEF P!Answered, Granted, Refused
<1>2. UNCHANGED <<IntactCopies, Placed, Granted>>
  BY DEF IntactCopies, Placed, Granted, LocatedAt
<1>3. Refused' = Refused \cup {t}
  BY DEF Refused
<1> QED
  BY <1>1, <1>2, <1>3 DEF P!Refuse

\* Any other step of a call shows nothing outside.
LEMMA SilentStep ==
  ASSUME TypeInv, NEW t \in Tasks, NEW l \in Locking,
         pc[t] \notin Results, pc' = [pc EXCEPT ![t] = l],
         UNCHANGED <<arg, locations, store>>
  PROVE  UNCHANGED P!vars
<1> USE DEF TypeInv, TypeOK, Results, Locking, Holding
<1>1. \A u \in Tasks : pc'[u] \in Results \/ pc[u] \in Results => pc'[u] = pc[u]
  OBVIOUS
<1> QED
  BY <1>1 DEF P!vars, IntactCopies, Placed, Granted, Refused, LocatedAt

LEMMA ControllerMaps ==
  ASSUME TypeInv, CopyInv, ListInv, NEW t \in Tasks, Controller(t)
  PROVE  [P!Next]_P!vars
<1> USE ExtendedType DEF TypeInv, TypeOK, Goto, Leave, Locking, Holding, Results
<1>1. /\ UNCHANGED <<arg, store>>
      /\ arg[t].ref \in Refs
      /\ Target(t) \in Workers
      /\ Artifact(t) = ArtifactOf[arg[t].ref]
  BY ControllerCopies DEF Artifact
<1>2. P!Grant(t, arg[t].ref, Target(t)) => P!Next
  BY <1>1 DEF P!Next
<1>3. P!Publish(arg[t].ref, Target(t)) => P!Next
  BY <1>1 DEF P!Next
<1>4. P!Refuse(t) => P!Next
  BY DEF P!Next
<1>5. ASSUME IsLocal(t), UNCHANGED locations
      PROVE  AddsAtMost(t) /\ store[Target(t)][Artifact(t)] = "good"
  <2>1. store[Target(t)][Artifact(t)] = "good"
    BY <1>1, <1>5 DEF IsLocal, ListInv
  <2>2. Target(t) \in Elements(locations[arg[t].ref])
    BY <1>5 DEF IsLocal, LocatedAt
  <2> QED
    BY <1>5, <2>1, <2>2 DEF AddsAtMost
<1>6. ASSUME locations' = [locations EXCEPT ![arg[t].ref] = Extended(t)]
      PROVE  AddsAtMost(t)
  BY <1>6, LocatedExtended DEF AddsAtMost
<1>7. CASE AlreadyLocal(t)
  BY <1>1, <1>2, <1>5, <1>7, GrantStep DEF AlreadyLocal, refVars
<1>8. ASSUME ReuseCompleted(t), pc[t] \notin Results PROVE P!Next
  <2>1. store[Target(t)][Artifact(t)] = "good"
    BY <1>8 DEF ReuseCompleted, ListInv, Key
  <2>2. AddsAtMost(t)
    BY <1>5, <1>6, <1>8 DEF ReuseCompleted
  <2>3. pc' = [pc EXCEPT ![t] = "local"]
    BY <1>8 DEF ReuseCompleted
  <2> QED
    BY <1>1, <1>2, <1>8, <2>1, <2>2, <2>3, GrantStep
<1>9. ASSUME ReuseLocation(t), pc[t] \notin Results PROVE P!Next
  BY <1>1, <1>2, <1>5, <1>9, GrantStep DEF ReuseLocation
<1>10. ASSUME RejectTransfer(t), pc[t] \notin Results PROVE P!Next
  BY <1>1, <1>4, <1>10, RefuseStep DEF RejectTransfer, refVars
<1>11. ASSUME BeginTransfer(t), pc[t] \notin Results PROVE UNCHANGED P!vars
  BY <1>1, <1>11, SilentStep DEF BeginTransfer, refVars
<1>12. CASE AwaitLock(t)
  BY <1>1, <1>12, SilentStep DEF AwaitLock, refVars
<1>13. CASE EnterLock(t) \/ ResumeLocked(t)
  BY <1>8, <1>9, <1>10, <1>11, <1>13 DEF EnterLock, ResumeLocked, Locked
<1>14. CASE RecordStart(t)
  <2>1. CASE pc' = [pc EXCEPT ![t] = "pull"]
    BY <1>1, <1>14, <2>1, SilentStep DEF RecordStart, refVars
  <2>2. CASE pc' = [pc EXCEPT ![t] = "failed"]
    BY <1>1, <1>4, <1>14, <2>2, RefuseStep DEF RecordStart, refVars
  <2> QED
    BY <1>14, <2>1, <2>2 DEF RecordStart
<1>15. CASE PullSucceeded(t)
  <2>1. store[Target(t)][Artifact(t)] = "good"
    BY <1>15 DEF PullSucceeded, CopyInv, Stored
  <2> QED
    BY <1>1, <1>3, <1>6, <1>15, <2>1, PublishStep DEF PullSucceeded
<1>16. CASE PullFailed(t) \/ PullTimedOut(t)
  BY <1>1, <1>16, SilentStep DEF PullFailed, PullTimedOut, refVars
<1>17. CASE RecordEnd(t)
  <2>1. pc[t] = "end" /\ UNCHANGED locations
    BY <1>17 DEF RecordEnd
  <2>2. AddsAtMost(t) /\ store[Target(t)][Artifact(t)] = "good"
    BY <1>5, <2>1 DEF ListInv
  <2>3. CASE pc' = [pc EXCEPT ![t] = "abort"]
    BY <1>1, <2>1, <2>3, SilentStep
  <2>4. ASSUME NEW l \in {"local", "pulled"}, pc' = [pc EXCEPT ![t] = l]
        PROVE  P!Next
    BY <1>1, <1>2, <2>1, <2>2, <2>4, GrantStep
  <2> QED
    BY <1>17, <2>3, <2>4 DEF RecordEnd
<1>18. CASE RecordAbort(t)
  BY <1>1, <1>4, <1>18, RefuseStep DEF RecordAbort, refVars
<1> QED
  BY <1>7, <1>12, <1>13, <1>14, <1>15, <1>16, <1>17, <1>18
  DEF Controller, EnsureLocal

\* Nothing shows outside when neither calls, lists nor files change.
LEMMA UnseenStep ==
  ASSUME UNCHANGED <<callVars, refVars, store>>
  PROVE  UNCHANGED P!vars
BY DEF callVars, refVars, P!vars, IntactCopies, Placed, Granted, Refused,
       LocatedAt

LEMMA HandlerMaps ==
  ASSUME TypeInv, CopyInv, NEW t \in Tasks, Handler(t)
  PROVE  [P!Next]_P!vars
<1> USE ExtendedType DEF TypeInv, TypeOK, SourceChosen, CopyInv
<1>1. CASE UNCHANGED store
  BY <1>1, WorkerStepsKeepCalls, UnseenStep
<1>2. CASE PullReplace(t)
  <2>1. /\ source[t] \in Workers
        /\ <<Artifact(t), source[t]>> \in IntactCopies
    BY <1>2 DEF PullReplace, IntactCopies
  <2>2. store' = [store EXCEPT ![Target(t)][Artifact(t)] = "good"]
    BY <1>2 DEF PullReplace, Put
  <2>3. IntactCopies' = IntactCopies \cup {<<Artifact(t), Target(t)>>}
    BY <2>2 DEF IntactCopies
  <2>4. UNCHANGED <<callVars, refVars>>
    BY WorkerStepsKeepCalls
  <2>5. UNCHANGED <<Placed, Granted, Refused>>
    BY <2>4 DEF callVars, refVars, Placed, Granted, Refused, LocatedAt
  <2>6. P!Replicate(Artifact(t), Target(t))
    BY <2>1, <2>3, <2>5 DEF P!Replicate
  <2> QED
    BY <2>6 DEF P!Next
<1>3. CASE PullReject(t)
  BY <1>3 DEF PullReject
<1> QED
  BY <1>1, <1>2, <1>3
  DEF Handler, PullLookup, PullFound, PullFetch, PullBroken

LEMMA InitMaps == IntactSources /\ Init => P!Init
<1> SUFFICES ASSUME IntactSources, Init PROVE P!Init
  OBVIOUS
<1>1. \A p \in Placed : <<ArtifactOf[p[1]], p[2]>> \in IntactCopies
  BY InitCopies DEF ListInv, Placed, IntactCopies
<1>2. Granted = {} /\ Refused = {}
  BY DEF Init, Granted, Refused
<1>3. IntactCopies \subseteq Artifacts \X Workers /\ Placed \subseteq Refs \X Workers
  BY DEF IntactCopies, Placed
<1> QED
  BY <1>1, <1>2, <1>3 DEF P!Init

\* With intact sources, localisation implements the promise of Placement:
\* copies come from copies, locations are recorded where copies are, a call
\* is answered once, and nothing is ever taken back.
THEOREM TransferRefines ==
  ASSUME IntactSources
  PROVE  Spec => PlacementSpec
<1>1. TypeInv /\ CopyInv /\ ListInv /\ [Next]_vars => [P!Next]_P!vars
  <2> SUFFICES ASSUME TypeInv, CopyInv, ListInv, [Next]_vars
               PROVE  [P!Next]_P!vars
    OBVIOUS
  <2>1. ASSUME NEW w \in Workers, WorkerCrash(w) PROVE UNCHANGED P!vars
    BY <2>1, UnseenStep DEF WorkerCrash
  <2>2. CASE UNCHANGED vars
    BY <2>2, UnseenStep DEF vars, workerVars
  <2> QED
    BY <2>1, <2>2, ControllerMaps, HandlerMaps DEF Next
<1>2. Init => P!Init
  BY InitMaps
<1> QED
  BY <1>1, <1>2, CopyInvariant, PTL DEF Spec, PlacementSpec, P!Spec
=============================================================================
