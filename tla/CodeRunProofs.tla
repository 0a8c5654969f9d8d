--------------------------- MODULE CodeRunProofs ---------------------------
(***************************************************************************)
(* Proofs about the runs of a code task, for any set of files, calls and   *)
(* tools, any budget and any faults.                                       *)
(***************************************************************************)
EXTENDS CodeRun, FiniteSetTheorems, TLAPS

USE WorkspaceAssumption, RunAssumption
USE DEF Observing, Changing, Kinds, Locking, Answered, Settled, Exploring
-----------------------------------------------------------------------------
(* The Worker.                                                             *)

Contents == Calls \cup {"base", "absent", "left"}
Jobs == {"none", "queued", "scan", "write"} \cup Answered

ServerTyped == ServerTypeOK /\ got = [c \in Calls |-> got[c]]

\* What a handler can do.
LEMMA HandlerSteps ==
  ASSUME ServerTyped, NEW c \in Calls, Handler(c)
  PROVE  /\ job[c] \in {"queued", "scan", "write"}
         /\ job' \in [Calls -> Jobs]
         /\ job'[c] \in {"scan", "write"} \cup Answered
         /\ \A d \in Calls \ {c} : job'[d] = job[d]
         /\ \/ UNCHANGED lock
            \/ Holds(c) /\ lock' = Tail(lock) /\ job'[c] \in Answered
         /\ UNCHANGED tree \/ job[c] = "write"
<1>1. CASE BeginScan(c) \/ BeginChange(c) \/ BeginReset(c)
  BY <1>1 DEF BeginScan, BeginChange, BeginReset, ServerTyped, ServerTypeOK, Jobs
<1>2. CASE RefuseChange(c)
  BY <1>2 DEF RefuseChange, Finish, Release, ServerTyped, ServerTypeOK, Jobs
<1>3. CASE ScanFile(c)
  <2>1. /\ job[c] = "scan" /\ UNCHANGED tree
        /\ Finish(c, "done") \/ UNCHANGED <<job, lock>>
    BY <1>3 DEF ScanFile
  <2> QED
    BY <2>1 DEF Finish, Release, ServerTyped, ServerTypeOK, Jobs
<1>4. CASE WriteFile(c)
  <2>1. /\ job[c] = "write"
        /\ Finish(c, "done") \/ UNCHANGED <<job, lock>>
    BY <1>4 DEF WriteFile
  <2> QED
    BY <2>1 DEF Finish, Release, ServerTyped, ServerTypeOK, Jobs
<1> QED
  BY <1>1, <1>2, <1>3, <1>4 DEF Handler

LEMMA BaseType == Base \in [Files -> Contents]
  BY DEF Base, Contents

LEMMA TailType ==
  ASSUME ServerTyped, lock # <<>>
  PROVE  /\ Tail(lock) \in Seq(Calls)
         /\ Len(Tail(lock)) = Len(lock) - 1
         /\ \A i \in 1..(Len(lock) - 1) : Tail(lock)[i] = lock[i + 1]
         /\ Head(lock) = lock[1] /\ Len(lock) \in Nat \ {0}
<1>1. lock \in Seq(Calls)
  BY DEF ServerTyped, ServerTypeOK
<1>2. Tail(lock) \in Seq(Calls)
  BY <1>1
<1>3. Len(Tail(lock)) = Len(lock) - 1 /\ Len(lock) \in Nat \ {0}
  BY <1>1
<1>4. \A i \in 1..(Len(lock) - 1) : Tail(lock)[i] = lock[i + 1]
  BY <1>1, <1>3
<1>5. Head(lock) = lock[1]
  BY <1>1
<1> QED
  BY <1>2, <1>3, <1>4, <1>5

LEMMA HandlerType ==
  ASSUME ServerTyped, NEW c \in Calls, Handler(c), UNCHANGED requestVars
  PROVE  ServerTyped'
<1>1. lock' \in Seq(Calls)
  <2>1. CASE lock' = lock
    BY <2>1 DEF ServerTyped, ServerTypeOK
  <2>2. CASE Holds(c) /\ lock' = Tail(lock)
    BY <2>2, TailType DEF Holds
  <2> QED
    BY <2>1, <2>2, HandlerSteps
<1>2. tree' \in [Files -> Contents]
  <2>1. CASE UNCHANGED tree
    BY <2>1 DEF ServerTyped, ServerTypeOK, Contents
  <2>2. CASE WriteFile(c)
    <3>1. PICK f \in todo[c] :
            tree' = [tree EXCEPT ![f] = IF kind[c] = "reset" THEN Base[f] ELSE c]
      BY <2>2 DEF WriteFile
    <3>2. f \in Files
      BY DEF ServerTyped, ServerTypeOK
    <3>3. (IF kind[c] = "reset" THEN Base[f] ELSE c) \in Contents
      BY <3>2, BaseType DEF Contents
    <3> QED
      BY <3>1, <3>3 DEF ServerTyped, ServerTypeOK, Contents
  <2> QED
    BY <2>1, <2>2 DEF Handler, BeginScan, BeginChange, RefuseChange, BeginReset, ScanFile
<1>3. todo' \in [Calls -> SUBSET Files]
  <2>1. CASE UNCHANGED todo
    BY <2>1 DEF ServerTyped, ServerTypeOK
  <2>2. ASSUME NEW files \in SUBSET Files, todo' = [todo EXCEPT ![c] = files]
        PROVE  todo' \in [Calls -> SUBSET Files]
    BY <2>2 DEF ServerTyped, ServerTypeOK
  <2>3. scope[c] \subseteq Files /\ todo[c] \subseteq Files
    BY DEF ServerTyped, ServerTypeOK
  <2>4. CASE WriteFile(c)
    <3>1. PICK f \in todo[c] : todo' = [todo EXCEPT ![c] = todo[c] \ {f}]
      BY <2>4 DEF WriteFile
    <3>2. todo[c] \ {f} \in SUBSET Files
      BY <2>3
    <3> QED
      BY <2>2, <3>1, <3>2
  <2>5. CASE BeginChange(c) \/ BeginReset(c)
    BY <2>2, <2>3, <2>5 DEF BeginChange, BeginReset
  <2> QED
    BY <2>1, <2>4, <2>5 DEF Handler, BeginScan, RefuseChange, ScanFile
<1>4. got' = [d \in Calls |-> got'[d]] /\ \A d \in Calls : DOMAIN got'[d] \subseteq Files
  <2>1. CASE UNCHANGED got
    BY <2>1 DEF ServerTyped, ServerTypeOK
  <2>2. ASSUME NEW snapshot, got' = [got EXCEPT ![c] = snapshot],
               DOMAIN snapshot \subseteq Files
        PROVE  got' = [d \in Calls |-> got'[d]] /\ \A d \in Calls : DOMAIN got'[d] \subseteq Files
    BY <2>2 DEF ServerTyped, ServerTypeOK
  <2>3. CASE BeginChange(c) \/ BeginReset(c)
    <3>1. DOMAIN tree \subseteq Files
      BY DEF ServerTyped, ServerTypeOK
    <3> QED
      BY <2>2, <2>3, <3>1 DEF BeginChange, BeginReset
  <2>4. CASE ScanFile(c)
    <3>1. PICK f \in scope[c] \ DOMAIN got[c] :
            got' = [got EXCEPT ![c] = [g \in DOMAIN got[c] \cup {f} |->
                      IF g = f THEN tree[f] ELSE got[c][g]]]
      BY <2>4 DEF ScanFile
    <3> DEFINE snapshot == [g \in DOMAIN got[c] \cup {f} |->
                              IF g = f THEN tree[f] ELSE got[c][g]]
    <3>2. scope[c] \subseteq Files /\ DOMAIN got[c] \subseteq Files
      BY DEF ServerTyped, ServerTypeOK
    <3>3. DOMAIN snapshot = DOMAIN got[c] \cup {f}
      OBVIOUS
    <3>4. DOMAIN snapshot \subseteq Files
      BY <3>2, <3>3
    <3>5. got' = [got EXCEPT ![c] = snapshot]
      BY <3>1
    <3> HIDE DEF snapshot
    <3> QED
      BY <2>2, <3>4, <3>5
  <2>5. CASE WriteFile(c)
    <3>1. DOMAIN Nothing \subseteq Files
      BY DEF Nothing
    <3>2. got' = [got EXCEPT ![c] = Nothing] \/ UNCHANGED got
      BY <2>5 DEF WriteFile
    <3> QED
      BY <2>1, <2>2, <3>1, <3>2
  <2> QED
    BY <2>1, <2>3, <2>4, <2>5 DEF Handler, BeginScan, RefuseChange
<1> QED
  BY <1>1, <1>2, <1>3, <1>4, HandlerSteps
  DEF ServerTyped, ServerTypeOK, requestVars, Jobs, Contents
-----------------------------------------------------------------------------
(* The lock.  Those that hold it or wait for it are in its queue, once;    *)
(* only its head is inside.                                                *)
InLock(c) == \E i \in 1..Len(lock) : lock[i] = c
Inside(c) == job[c] = "write" \/ (job[c] = "scan" /\ kind[c] \in Observing)

LockInv ==
  /\ \A c \in Calls : InLock(c) <=> job[c] = "queued" \/ Inside(c)
  /\ \A i, j \in 1..Len(lock) : lock[i] = lock[j] => i = j
  /\ \A c \in Calls : Inside(c) => Holds(c)
  /\ \A c \in Calls : job[c] = "write" => kind[c] \in Changing \cup {"reset"}

LEMMA HandlerLock ==
  ASSUME ServerTyped, LockInv, NEW c \in Calls, Handler(c), UNCHANGED requestVars
  PROVE  LockInv'
<1> USE DEF requestVars
<1>1. CASE BeginScan(c) \/ BeginChange(c) \/ BeginReset(c)
  <2>1. /\ UNCHANGED lock /\ Holds(c) /\ job[c] = "queued"
        /\ job'[c] \in {"scan", "write"}
        /\ \A d \in Calls \ {c} : job'[d] = job[d]
        /\ Inside(c)'
        /\ job'[c] = "write" => kind[c] \in Changing \cup {"reset"}
    BY <1>1 DEF BeginScan, BeginChange, BeginReset, ServerTyped, ServerTypeOK, Inside
  <2> QED
    BY <2>1 DEF LockInv, InLock, Inside, Holds
<1>2. CASE \E r \in Answered : Finish(c, r)
  <2>1. job'[c] \in Answered /\ \A d \in Calls \ {c} : job'[d] = job[d]
    BY <1>2 DEF Finish, ServerTyped, ServerTypeOK
  <2>2. CASE Holds(c)
    <3>1. lock' = Tail(lock) /\ lock # <<>> /\ lock[1] = c
      BY <1>2, <2>2, TailType DEF Finish, Release, Holds
    <3>2. Len(lock') = Len(lock) - 1 /\ \A i \in 1..(Len(lock) - 1) : lock'[i] = lock[i + 1]
      BY <3>1, TailType
    <3>3. Len(lock) \in Nat \ {0}
      BY <3>1, TailType
    <3>4. \A d \in Calls \ {c} : InLock(d)' <=> InLock(d)
      <4>1. ASSUME NEW d \in Calls \ {c}, NEW i \in 1..Len(lock), lock[i] = d
            PROVE  InLock(d)'
        <5>1. i # 1
          BY <3>1, <4>1
        <5>2. i - 1 \in 1..Len(lock') /\ lock'[i - 1] = d
          BY <3>2, <3>3, <4>1, <5>1
        <5> QED
          BY <5>2 DEF InLock
      <4>2. ASSUME NEW d \in Calls \ {c}, NEW i \in 1..Len(lock'), lock'[i] = d
            PROVE  InLock(d)
        <5>1. i + 1 \in 1..Len(lock) /\ lock[i + 1] = d
          BY <3>2, <3>3, <4>2
        <5> QED
          BY <5>1 DEF InLock
      <4> QED
        BY <4>1, <4>2 DEF InLock
    <3>5. ~InLock(c)'
      <4>1. ASSUME NEW i \in 1..Len(lock'), lock'[i] = c PROVE FALSE
        <5>1. i + 1 \in 1..Len(lock) /\ lock[i + 1] = c /\ 1 \in 1..Len(lock) /\ i + 1 # 1
          BY <3>2, <3>3, <4>1
        <5> QED
          BY <3>1, <5>1 DEF LockInv
      <4> QED
        BY <4>1 DEF InLock
    <3>6. \A i, j \in 1..Len(lock') : lock'[i] = lock'[j] => i = j
      <4> SUFFICES ASSUME NEW i \in 1..Len(lock'), NEW j \in 1..Len(lock'), lock'[i] = lock'[j]
                   PROVE  i = j
        OBVIOUS
      <4>1. i + 1 \in 1..Len(lock) /\ j + 1 \in 1..Len(lock) /\ lock[i + 1] = lock[j + 1]
        BY <3>2, <3>3
      <4>2. i + 1 = j + 1
        BY <4>1 DEF LockInv
      <4> QED
        BY <3>2, <3>3, <4>2
    <3>7. \A d \in Calls : ~Inside(d)'
      BY <2>1, <2>2 DEF LockInv, Inside, Holds
    <3> QED
      BY <2>1, <3>4, <3>5, <3>6, <3>7 DEF LockInv, Inside
  <2>3. CASE ~Holds(c)
    <3>1. UNCHANGED lock /\ ~Inside(c)
      BY <1>2, <2>3 DEF Finish, LockInv
    <3>2. job[c] # "queued"
      BY <2>3, <3>1 DEF Handler, BeginScan, BeginChange, RefuseChange, BeginReset, ScanFile,
                        WriteFile, Inside
    <3> QED
      BY <2>1, <3>1, <3>2 DEF LockInv, InLock, Inside, Holds
  <2> QED
    BY <2>2, <2>3
<1>3. CASE UNCHANGED <<job, lock>>
  BY <1>3 DEF LockInv, InLock, Inside, Holds
<1> QED
  BY <1>1, <1>2, <1>3 DEF Handler, RefuseChange, ScanFile, WriteFile

\* A request that reaches the Worker: what it is about has not changed since it
\* was prepared, or it is prepared in the same step.
LEMMA ArriveLock ==
  ASSUME ServerTyped, LockInv, NEW c \in Calls, job[c] = "none", NEW files,
         NEW k \in Kinds \ {"none"}, Arrive(c, k, files), kind'[c] = k,
         \A d \in Calls \ {c} : kind'[d] = kind[d]
  PROVE  /\ LockInv'
         /\ job' \in [Calls -> Jobs] /\ job'[c] \in {"queued", "scan", "refused"}
         /\ \A d \in Calls \ {c} : job'[d] = job[d]
         /\ lock' \in Seq(Calls)
         /\ \A i \in 1..Len(lock') : lock'[i] = c \/ \E j \in 1..Len(lock) : lock'[i] = lock[j]
<1>1. /\ job' \in [Calls -> Jobs] /\ job'[c] \in {"queued", "scan", "refused"}
      /\ \A d \in Calls \ {c} : job'[d] = job[d]
  <2>1. PICK start \in {"queued", "scan", "refused"} : job' = [job EXCEPT ![c] = start]
    BY DEF Arrive
  <2>2. job \in [Calls -> Jobs]
    BY DEF ServerTyped, ServerTypeOK, Jobs
  <2> QED
    BY <2>1, <2>2 DEF Jobs
<1>2. ~InLock(c) /\ ~Inside(c)
  BY DEF LockInv, Inside
<1>3. lock \in Seq(Calls)
  BY DEF ServerTyped, ServerTypeOK
<1>4. CASE job'[c] = "queued"
  <2>1. lock' = Append(lock, c)
    BY <1>4 DEF Arrive, ServerTyped, ServerTypeOK
  <2>2. /\ lock' \in Seq(Calls) /\ Len(lock') = Len(lock) + 1 /\ Len(lock) \in Nat
        /\ lock'[Len(lock) + 1] = c /\ \A i \in 1..Len(lock) : lock'[i] = lock[i]
    BY <1>3, <2>1
  <2>3. \A i \in 1..Len(lock') : i = Len(lock) + 1 \/ i \in 1..Len(lock)
    BY <2>2
  <2>4. InLock(c)' /\ \A d \in Calls \ {c} : InLock(d)' <=> InLock(d)
    BY <2>2, <2>3 DEF InLock
  <2>5. \A i, j \in 1..Len(lock') : lock'[i] = lock'[j] => i = j
    BY <1>2, <2>2, <2>3 DEF LockInv, InLock
  <2>6. \A d \in Calls : Holds(d) => Holds(d)'
    BY <1>3, <2>1 DEF Holds
  <2>7. LockInv'
    BY <1>1, <1>4, <2>4, <2>5, <2>6 DEF LockInv, Inside
  <2> QED
    BY <1>1, <2>2, <2>3, <2>7
<1>5. CASE job'[c] # "queued"
  <2>1. UNCHANGED lock /\ (job'[c] = "scan" => k \notin Locking)
    BY <1>5 DEF Arrive, ServerTyped, ServerTypeOK
  <2>2. ~Inside(c)'
    BY <1>1, <2>1 DEF Inside
  <2>3. LockInv'
    BY <1>1, <1>2, <1>5, <2>1, <2>2 DEF LockInv, InLock, Inside, Holds
  <2> QED
    BY <1>1, <1>3, <2>1, <2>3
<1> QED
  BY <1>4, <1>5
-----------------------------------------------------------------------------
(* Types.  The types of a submission need that a diff is of the tracked    *)
(* files.                                                                  *)
SubmitInv ==
  \A c \in Calls : kind[c] = "submit" =>
    scope[c] = Tracked /\ (job[c] = "done" => DOMAIN got[c] = Tracked)

\* Where calls are, in each phase of the Coordinator.
ClientInv ==
  /\ \A c \in Calls : pc[c] \in {"idle", "called", "recorded"} => job[c] = "none"
  /\ \A c \in Calls : pc[c] \in {"called", "recorded"} => kind[c] \in Tools
  /\ \A c \in mine : pc[c] # "idle"
  /\ \A c \in Calls \ mine : pc[c] \in Settled
  /\ \A c \in Calls : pc[c] \notin Settled =>
       \/ phase = "tools"
       \/ phase = "issue" /\ pc[c] = "called"
       \/ phase = "resetting" /\ pc[c] = "sent"
  /\ phase = "resetting" =>
       \E r \in Calls : mine = {r} /\ kind[r] = "reset" /\ pc[r] = "sent"

Typed == TypeOK /\ ServerTyped
BaseInv == Typed /\ LockInv /\ SubmitInv /\ ClientInv

LEMMA InitBase == Init => BaseInv
<1> SUFFICES ASSUME Init PROVE BaseInv
  OBVIOUS
<1> USE DEF Init, InitServer
<1>1. tree \in [Files -> Calls \cup {"base", "absent", "left"}]
  BY BaseType DEF Contents
<1>2. basis \in [Calls -> [Files -> Calls \cup {"base", "absent", "left"}]]
  BY BaseType DEF Contents
<1>3. got = [c \in Calls |-> got[c]] /\ \A c \in Calls : DOMAIN got[c] \subseteq Files
  BY DEF Nothing
<1>4. lock \in Seq(Calls) /\ Len(lock) = 0
  OBVIOUS
<1>5. ServerTyped
  BY <1>1, <1>2, <1>3, <1>4 DEF ServerTyped, ServerTypeOK
<1>6. TypeOK
  BY <1>5 DEF TypeOK, ServerTyped
<1>7. LockInv
  BY <1>4 DEF LockInv, InLock, Inside
<1> QED
  BY <1>5, <1>6, <1>7 DEF BaseInv, Typed, SubmitInv, ClientInv

LEMMA NewCallIdle ==
  ASSUME Idle # {}
  PROVE  NewCall \in Calls /\ pc[NewCall] = "idle"
<1>1. NewCall \in Idle
  BY DEF NewCall
<1> QED
  BY <1>1 DEF Idle

LEMMA PrepareType ==
  ASSUME ServerTyped, NEW c \in Calls, NEW k \in Kinds \ {"none"}, Prepare(c, k)
  PROVE  /\ kind' \in [Calls -> Kinds] /\ scope' \in [Calls -> SUBSET Files]
         /\ basis' \in [Calls -> [Files -> Calls \cup {"base", "absent", "left"}]]
         /\ kind'[c] = k /\ (k = "submit" => scope'[c] = Tracked)
         /\ \A d \in Calls \ {c} : kind'[d] = kind[d] /\ scope'[d] = scope[d]
<1>1. kind' \in [Calls -> Kinds] /\ kind'[c] = k /\ \A d \in Calls \ {c} : kind'[d] = kind[d]
  BY DEF Prepare, ServerTyped, ServerTypeOK
<1>2. PICK files \in Scopes(k) : scope' = [scope EXCEPT ![c] = files]
  BY DEF Prepare
<1>3. files \subseteq Files /\ (k = "submit" => files = Tracked)
  BY <1>2 DEF Scopes, Files
<1>4. /\ scope' \in [Calls -> SUBSET Files] /\ (k = "submit" => scope'[c] = Tracked)
      /\ \A d \in Calls \ {c} : scope'[d] = scope[d]
  BY <1>2, <1>3 DEF ServerTyped, ServerTypeOK
<1>5. (IF k \in Changing THEN tree ELSE Base) \in [Files -> Calls \cup {"base", "absent", "left"}]
  BY BaseType DEF ServerTyped, ServerTypeOK, Contents
<1>6. basis' \in [Calls -> [Files -> Calls \cup {"base", "absent", "left"}]]
  BY <1>5 DEF Prepare, ServerTyped, ServerTypeOK
<1> QED
  BY <1>1, <1>4, <1>6

\* The requests and the Worker are left alone.
LEMMA ServerStands ==
  ASSUME ServerTyped, LockInv, SubmitInv, UNCHANGED <<requestVars, serverVars>>
  PROVE  ServerTyped' /\ LockInv' /\ SubmitInv'
BY DEF ServerTyped, ServerTypeOK, LockInv, SubmitInv, InLock, Inside, Holds,
       requestVars, serverVars

\* A step of the Coordinator or of a call that leaves the Worker alone.
LEMMA QuietSteps ==
  ASSUME BaseInv,
         \/ CleanStart \/ NoStart \/ RunTools \/ NextTurn \/ EndRun
         \/ \E c \in Calls : Announce(c) \/ Exhaust(c) \/ Reject(c) \/ Receive(c) \/ GiveUp(c)
  PROVE  BaseInv'
<1> USE DEF BaseInv, Typed, contextVars, clientVars, historyVars, Goto
<1>0. UNCHANGED <<requestVars, serverVars>>
  BY DEF CleanStart, NoStart, RunTools, NextTurn, EndRun, Announce, Exhaust, Reject,
         Receive, GiveUp
<1>1. ServerTyped' /\ LockInv' /\ SubmitInv'
  BY <1>0, ServerStands
<1>2. ServerTypeOK' /\ UNCHANGED <<kind, job>>
  BY <1>0, <1>1 DEF ServerTyped, requestVars, serverVars
<1>3. CASE CleanStart
  <2>1. TypeOK'
    BY <1>1, <1>2, <1>3 DEF CleanStart, TypeOK
  <2>2. PICK r \in Calls : mine = {r} /\ kind[r] = "reset" /\ pc[r] = "sent"
    BY <1>3 DEF CleanStart, ClientInv
  <2>3. \A c \in Calls \ {r} : pc[c] \in Settled
    BY <2>2 DEF ClientInv
  <2>4. /\ phase' = "model" /\ mine' = mine /\ pc' = [pc EXCEPT ![r] = "returned"]
    BY <1>3, <2>2 DEF CleanStart
  <2>5. ClientInv'
    BY <1>2, <2>2, <2>3, <2>4 DEF TypeOK, ClientInv
  <2> QED
    BY <1>1, <2>1, <2>5
<1>4. CASE NoStart
  <2>1. TypeOK'
    BY <1>1, <1>2, <1>4 DEF NoStart, TypeOK
  <2>2. PICK r \in Calls : mine = {r} /\ kind[r] = "reset" /\ pc[r] = "sent"
    BY <1>4 DEF NoStart, ClientInv
  <2>3. \A c \in Calls \ {r} : pc[c] \in Settled
    BY <2>2 DEF ClientInv
  <2>4. /\ phase' = "over" /\ mine' = mine /\ pc' = [pc EXCEPT ![r] = "raised"]
    BY <1>4, <2>2 DEF NoStart
  <2>5. ClientInv'
    BY <1>2, <2>2, <2>3, <2>4 DEF TypeOK, ClientInv
  <2> QED
    BY <1>1, <2>1, <2>5
<1>5. CASE RunTools
  BY <1>1, <1>2, <1>5 DEF RunTools, TypeOK, ClientInv
<1>6. CASE NextTurn
  BY <1>1, <1>2, <1>6 DEF NextTurn, TypeOK, ClientInv
<1>7. CASE EndRun
  BY <1>1, <1>2, <1>7 DEF EndRun, TypeOK, ClientInv
<1>8. ASSUME NEW c \in Calls, Announce(c) PROVE BaseInv'
  BY <1>1, <1>2, <1>8 DEF Announce, TypeOK, ClientInv
<1>9. ASSUME NEW c \in Calls, Exhaust(c) PROVE BaseInv'
  BY <1>1, <1>2, <1>9 DEF Exhaust, TypeOK, ClientInv
<1>10. ASSUME NEW c \in Calls, Reject(c) PROVE BaseInv'
  BY <1>1, <1>2, <1>10 DEF Reject, TypeOK, ClientInv
<1>11. ASSUME NEW c \in Calls, Receive(c) PROVE BaseInv'
  <2>1. submitted' # Nothing => DOMAIN submitted' = Tracked /\ IsPatch(submitted')
    BY <1>11 DEF Receive, Succeeded, SubmitInv, TypeOK
  <2> QED
    BY <1>1, <1>2, <1>11, <2>1 DEF Receive, TypeOK, ClientInv
<1>12. ASSUME NEW c \in Calls, GiveUp(c) PROVE BaseInv'
  <2>1. TypeOK'
    BY <1>1, <1>2, <1>12 DEF GiveUp, TypeOK
  <2>2. ClientInv'
    BY <1>1, <1>2, <1>12 DEF GiveUp, TypeOK, ClientInv
  <2> QED
    BY <1>1, <2>1, <2>2
<1> QED
  BY <1>3, <1>4, <1>5, <1>6, <1>7, <1>8, <1>9, <1>10, <1>11, <1>12

\* A handler leaves the client alone.
LEMMA ServeBase == ASSUME BaseInv, NEW c \in Calls, Serve(c) PROVE BaseInv'
<1> USE DEF BaseInv, Typed
<1>1. Handler(c) /\ UNCHANGED requestVars
  BY DEF Serve
<1>2. ServerTyped' /\ LockInv'
  BY <1>1, HandlerType, HandlerLock
<1>3. /\ job[c] # "none" /\ \A d \in Calls \ {c} : job'[d] = job[d]
      /\ UNCHANGED <<kind, phase, mine, pc, label, contextVars, historyVars>>
  BY <1>1, HandlerSteps DEF Serve, clientVars, requestVars
<1>4. TypeOK' /\ ClientInv'
  BY <1>2, <1>3 DEF TypeOK, ClientInv, ServerTyped, contextVars, historyVars
<1>5. SubmitInv'
  <2>1. ASSUME NEW d \in Calls, kind[d] = "submit" PROVE scope[d] = Tracked
    BY <2>1 DEF SubmitInv
  <2>2. ASSUME NEW d \in Calls, kind[d] = "submit", job'[d] = "done"
        PROVE  DOMAIN got'[d] = Tracked
    <3>1. CASE job[d] = "done" /\ got'[d] = got[d]
      BY <2>2, <3>1 DEF SubmitInv
    <3>2. CASE d # c
      <4>1. got' = got \/ \E snapshot : got' = [got EXCEPT ![c] = snapshot]
        BY <1>1 DEF Handler, BeginScan, BeginChange, RefuseChange, BeginReset, ScanFile,
                    WriteFile
      <4>2. got'[d] = got[d]
        BY <3>2, <4>1 DEF ServerTyped
      <4>3. job[d] = "done"
        BY <1>3, <2>2, <3>2
      <4> QED
        BY <3>1, <4>2, <4>3
    <3>3. CASE d = c
      <4>1. ScanFile(c)
        BY <1>1, <2>2, <3>3
        DEF Handler, BeginScan, BeginChange, RefuseChange, BeginReset, WriteFile, Finish,
            LockInv, ServerTyped, ServerTypeOK
      <4>2. PICK f \in scope[c] \ DOMAIN got[c] :
              /\ got' = [got EXCEPT ![c] = [g \in DOMAIN got[c] \cup {f} |->
                           IF g = f THEN tree[f] ELSE got[c][g]]]
              /\ IF DOMAIN got[c] \cup {f} = scope[c] THEN Finish(c, "done")
                                                      ELSE UNCHANGED <<job, lock>>
        BY <4>1 DEF ScanFile
      <4>3. DOMAIN got'[c] = DOMAIN got[c] \cup {f}
        BY <4>2 DEF ServerTyped, ServerTypeOK
      <4>4. job[c] = "scan"
        BY <4>1 DEF ScanFile
      <4>5. DOMAIN got[c] \cup {f} = scope[c]
        BY <2>2, <3>3, <4>2, <4>4
      <4> QED
        BY <2>1, <2>2, <3>3, <4>3, <4>5
    <3> QED
      BY <3>2, <3>3
  <2>3. UNCHANGED <<kind, scope>>
    BY <1>1 DEF requestVars
  <2> QED
    BY <2>1, <2>2, <2>3 DEF SubmitInv
<1> QED
  BY <1>2, <1>4, <1>5

\* What arrives at the Worker is a new call.
LEMMA SendBase == ASSUME BaseInv, NEW c \in Calls, Send(c) PROVE BaseInv'
<1> USE DEF BaseInv, Typed
<1>1. /\ job[c] = "none" /\ kind[c] \in Kinds \ {"none"} /\ Arrive(c, kind[c], scope[c])
      /\ UNCHANGED <<kind, scope, basis>>
  BY DEF Send, ClientInv, requestVars
<1>2. /\ LockInv'
      /\ job' \in [Calls -> Jobs] /\ job'[c] \in {"queued", "scan", "refused"}
      /\ \A d \in Calls \ {c} : job'[d] = job[d]
      /\ lock' \in Seq(Calls)
  BY <1>1, ArriveLock
<1>3. UNCHANGED <<tree, todo, got>>
  BY <1>1 DEF Arrive
<1>4. ServerTyped'
  BY <1>1, <1>2, <1>3 DEF ServerTyped, ServerTypeOK, Jobs
<1>5. SubmitInv'
  BY <1>1, <1>2, <1>3 DEF SubmitInv
<1>6. /\ pc[c] = "recorded" /\ pc' = [pc EXCEPT ![c] = "sent"]
      /\ explored' = IF Spends(c) THEN explored + 1 ELSE explored
      /\ UNCHANGED <<phase, mine, label, version, submitted, pending, fed, serial>>
  BY DEF Send, Goto, historyVars
<1>7. TypeOK'
  BY <1>4, <1>6 DEF TypeOK, ServerTyped
<1>8. phase = "tools"
  BY <1>6 DEF ClientInv
<1>9. ClientInv'
  BY <1>1, <1>2, <1>6, <1>8 DEF TypeOK, ClientInv
<1> QED
  BY <1>2, <1>4, <1>5, <1>7, <1>9

LEMMA StartBase == ASSUME BaseInv, StartRun PROVE BaseInv'
<1> USE DEF BaseInv, Typed
<1> DEFINE c == NewCall
<1>1. c \in Calls /\ pc[c] = "idle" /\ job[c] = "none"
  BY NewCallIdle DEF StartRun, ClientInv
<1>2. Prepare(c, "reset") /\ Arrive(c, "reset", Files) /\ Goto(c, "sent") /\ mine' = {c}
  BY DEF StartRun
<1> HIDE DEF c
<1>3. /\ kind' \in [Calls -> Kinds] /\ scope' \in [Calls -> SUBSET Files]
      /\ basis' \in [Calls -> [Files -> Calls \cup {"base", "absent", "left"}]]
      /\ kind'[c] = "reset"
      /\ \A d \in Calls \ {c} : kind'[d] = kind[d] /\ scope'[d] = scope[d]
  BY <1>1, <1>2, PrepareType
<1>4. /\ LockInv'
      /\ job' \in [Calls -> Jobs] /\ job'[c] \in {"queued", "scan", "refused"}
      /\ \A d \in Calls \ {c} : job'[d] = job[d]
      /\ lock' \in Seq(Calls)
  BY <1>1, <1>2, <1>3, ArriveLock
<1>5. UNCHANGED <<tree, todo, got>>
  BY <1>2 DEF Arrive
<1>6. ServerTyped'
  BY <1>3, <1>4, <1>5 DEF ServerTyped, ServerTypeOK, Jobs
<1>7. SubmitInv'
  BY <1>3, <1>4, <1>5 DEF SubmitInv
<1>8. /\ pc' = [pc EXCEPT ![c] = "sent"] /\ phase = "over" /\ phase' = "resetting"
      /\ UNCHANGED <<label, version, explored, submitted, pending, fed, serial>>
  BY <1>2 DEF StartRun, Goto, contextVars, historyVars
<1>9. TypeOK'
  BY <1>1, <1>2, <1>6, <1>8 DEF TypeOK, ServerTyped
<1>10. \A d \in Calls : pc[d] \in Settled
  BY <1>8 DEF ClientInv
<1>11. pc'[c] = "sent" /\ \A d \in Calls \ {c} : pc'[d] = pc[d]
  BY <1>1, <1>8 DEF TypeOK
<1>12. ClientInv'
  BY <1>1, <1>2, <1>3, <1>4, <1>8, <1>10, <1>11 DEF ClientInv
<1> QED
  BY <1>4, <1>6, <1>7, <1>9, <1>12

LEMMA IssueBase == ASSUME BaseInv, IssueCall PROVE BaseInv'
<1> USE DEF BaseInv, Typed
<1> DEFINE c == NewCall
<1>1. c \in Calls /\ pc[c] = "idle" /\ job[c] = "none"
  BY NewCallIdle DEF IssueCall, ClientInv
<1>2. PICK k \in Tools : Prepare(c, k)
  BY DEF IssueCall
<1>3. /\ pc' = [pc EXCEPT ![c] = "called"] /\ mine' = mine \cup {c}
      /\ phase \in {"model", "issue"} /\ phase' = "issue"
      /\ serial' = (serial /\ phase = "model")
      /\ UNCHANGED <<tree, lock, job, todo, got, label, version, explored, submitted,
                     pending, fed>>
  BY DEF IssueCall, Goto, serverVars, contextVars
<1> HIDE DEF c
<1>4. /\ kind' \in [Calls -> Kinds] /\ scope' \in [Calls -> SUBSET Files]
      /\ basis' \in [Calls -> [Files -> Calls \cup {"base", "absent", "left"}]]
      /\ kind'[c] = k /\ (k = "submit" => scope'[c] = Tracked)
      /\ \A d \in Calls \ {c} : kind'[d] = kind[d] /\ scope'[d] = scope[d]
  BY <1>1, <1>2, PrepareType
<1>5. ServerTyped'
  BY <1>3, <1>4 DEF ServerTyped, ServerTypeOK
<1>6. LockInv'
  BY <1>1, <1>3, <1>4 DEF LockInv, InLock, Inside, Holds
<1>7. SubmitInv'
  BY <1>1, <1>3, <1>4 DEF SubmitInv
<1>8. TypeOK'
  BY <1>1, <1>3, <1>5 DEF TypeOK, ServerTyped
<1>9. ClientInv'
  BY <1>1, <1>3, <1>4 DEF TypeOK, ClientInv
<1> QED
  BY <1>5, <1>6, <1>7, <1>8, <1>9

LEMMA StutterBase == BaseInv /\ UNCHANGED vars => BaseInv'
<1> SUFFICES ASSUME BaseInv, UNCHANGED vars PROVE BaseInv'
  OBVIOUS
<1>1. ServerTyped' /\ LockInv' /\ SubmitInv'
  BY ServerStands DEF BaseInv, Typed, vars
<1> QED
  BY <1>1 DEF BaseInv, Typed, TypeOK, ClientInv, ServerTyped, vars, clientVars,
              contextVars, historyVars, requestVars, serverVars

LEMMA BaseStep == BaseInv /\ [Next]_vars => BaseInv'
  BY QuietSteps, ServeBase, SendBase, StartBase, IssueBase, StutterBase
  DEF Next, Coordinate, InvokeTool

\* Every variable keeps its type.
THEOREM TypeCorrect == Spec => []TypeOK
<1>1. BaseInv => TypeOK
  BY DEF BaseInv, Typed
<1> QED
  BY <1>1, InitBase, BaseStep, PTL DEF Spec
-----------------------------------------------------------------------------
(* The budget.  The calls that reached the Worker were counted before they *)
(* were sent, in the same step as the check: the count is an upper bound   *)
(* even though it also counts the calls that were turned away.             *)
Reached == {c \in mine : kind[c] \in Exploring /\ job[c] # "none"}

BudgetInv ==
  /\ IsFiniteSet(mine)
  /\ phase # "over" =>
       Cardinality(Reached) <= explored /\ Cardinality(Reached) <= Budget

LEMMA ReachedFinite ==
  ASSUME BudgetInv
  PROVE  IsFiniteSet(Reached) /\ Cardinality(Reached) \in Nat
<1>1. Reached \subseteq mine
  BY DEF Reached
<1> QED
  BY <1>1, FS_Subset, FS_CardinalityType DEF BudgetInv

LEMMA BudgetInit == Init => BudgetInv
  BY FS_EmptySet DEF Init, BudgetInv

\* What reached the Worker does not change; the count does not go back.
LEMMA SameReached ==
  ASSUME BudgetInv, BaseInv, mine' = mine, Reached' = Reached, phase # "over",
         explored' \in {explored, explored + 1}
  PROVE  BudgetInv'
<1>1. explored \in Nat /\ Cardinality(Reached) \in Nat
  BY ReachedFinite DEF BaseInv, Typed, TypeOK
<1> QED
  BY <1>1 DEF BudgetInv

LEMMA BudgetStep == BaseInv /\ BudgetInv /\ [Next]_vars => BudgetInv'
<1> SUFFICES ASSUME BaseInv, BudgetInv, [Next]_vars PROVE BudgetInv'
  OBVIOUS
<1> USE DEF requestVars, serverVars, clientVars, contextVars, historyVars, BaseInv, Typed
<1>1. CASE StartRun
  <2> DEFINE c == NewCall
  <2>1. c \in Calls
    BY <1>1, NewCallIdle DEF StartRun
  <2>2. mine' = {c} /\ Prepare(c, "reset") /\ explored' = explored
    BY <1>1 DEF StartRun
  <2> HIDE DEF c
  <2>3. kind'[c] = "reset"
    BY <2>1, <2>2, PrepareType
  <2>4. Reached' = {}
    BY <2>2, <2>3 DEF Reached
  <2> QED
    <3>1. IsFiniteSet(mine')
      BY <2>2, FS_Singleton
    <3>2. Cardinality(Reached') = 0
      BY <2>4, FS_EmptySet
    <3>3. explored \in Nat
      BY DEF TypeOK
    <3> QED
      BY <2>2, <3>1, <3>2, <3>3 DEF BudgetInv
<1>2. CASE CleanStart
  <2>1. mine' = mine /\ kind' = kind /\ explored' = 0
    BY <1>2 DEF CleanStart
  <2>2. \A c \in mine : kind[c] = "reset"
    BY <1>2 DEF CleanStart, ClientInv
  <2>3. Reached' = {}
    BY <2>1, <2>2 DEF Reached
  <2> QED
    BY <2>1, <2>3, FS_EmptySet DEF BudgetInv
<1>3. CASE NoStart \/ EndRun
  BY <1>3 DEF NoStart, EndRun, BudgetInv
<1>4. CASE IssueCall
  <2> DEFINE c == NewCall
  <2>1. c \in Calls /\ job[c] = "none"
    BY <1>4, NewCallIdle DEF IssueCall, ClientInv
  <2>2. PICK k \in Tools : Prepare(c, k)
    BY <1>4 DEF IssueCall
  <2>3. mine' = mine \cup {c} /\ job' = job /\ explored' = explored /\ phase # "over"
    BY <1>4 DEF IssueCall
  <2> HIDE DEF c
  <2>4. \A d \in Calls \ {c} : kind'[d] = kind[d]
    BY <2>1, <2>2, PrepareType
  <2>5. mine \subseteq Calls
    BY DEF TypeOK
  <2>6. Reached' = Reached
    BY <2>1, <2>3, <2>4, <2>5 DEF Reached
  <2>7. IsFiniteSet(mine')
    BY <2>3, FS_AddElement DEF BudgetInv
  <2> QED
    BY <2>3, <2>6, <2>7 DEF BudgetInv
<1>5. CASE RunTools \/ NextTurn
  <2>1. UNCHANGED <<mine, kind, job, explored>> /\ phase # "over"
    BY <1>5 DEF RunTools, NextTurn
  <2> QED
    BY <2>1, SameReached DEF Reached
<1>6. ASSUME NEW c \in Calls, Announce(c) \/ Exhaust(c) \/ Reject(c) \/ Receive(c) \/ GiveUp(c)
      PROVE  BudgetInv'
  <2>1. /\ UNCHANGED <<mine, kind, job>> /\ explored' \in {explored, explored + 1}
        /\ pc[c] \notin Settled
    BY <1>6 DEF Announce, Exhaust, Reject, Receive, GiveUp
  <2>2. phase # "over"
    BY <2>1 DEF ClientInv
  <2> QED
    BY <2>1, <2>2, SameReached DEF Reached
<1>7. ASSUME NEW c \in Calls, Send(c) PROVE BudgetInv'
  <2>1. /\ pc[c] = "recorded" /\ UNCHANGED <<mine, kind>>
        /\ explored' = IF Spends(c) THEN explored + 1 ELSE explored
        /\ ~(Spends(c) /\ Exhausted)
    BY <1>7 DEF Send
  <2>2. phase # "over" /\ phase' = phase
    BY <1>7, <2>1 DEF ClientInv, Send
  <2>3. \A d \in Calls \ {c} : job'[d] = job[d]
    <3>1. job[c] = "none" /\ kind[c] \in Kinds \ {"none"} /\ Arrive(c, kind[c], scope[c])
      BY <1>7 DEF Send, ClientInv
    <3> QED
      BY <1>7, <2>1, <3>1, ArriveLock
  <2>4. mine \subseteq Calls /\ explored \in Nat /\ Cardinality(Reached) \in Nat
    BY ReachedFinite DEF TypeOK
  <2>5. CASE ~Spends(c)
    <3>1. Reached' = Reached
      BY <2>1, <2>3, <2>4, <2>5 DEF Reached, Spends
    <3> QED
      BY <2>1, <2>2, <2>5, <3>1, SameReached
  <2>6. CASE Spends(c)
    <3>1. Reached' \subseteq Reached \cup {c}
      BY <2>1, <2>3, <2>4 DEF Reached
    <3>2. explored' = explored + 1 /\ explored + 1 <= Budget
      BY <2>1, <2>4, <2>6 DEF Exhausted
    <3>3. IsFiniteSet(Reached \cup {c}) /\ Cardinality(Reached \cup {c}) <= Cardinality(Reached) + 1
      <4>1. Cardinality(Reached \cup {c}) =
              IF c \in Reached THEN Cardinality(Reached) ELSE Cardinality(Reached) + 1
        BY FS_AddElement, ReachedFinite
      <4> QED
        BY <2>4, <4>1, FS_AddElement, ReachedFinite
    <3>4. Cardinality(Reached') <= Cardinality(Reached) + 1 /\ Cardinality(Reached') \in Nat
      <4>1. IsFiniteSet(Reached') /\ Cardinality(Reached') <= Cardinality(Reached \cup {c})
        BY <3>1, <3>3, FS_Subset
      <4>2. Cardinality(Reached') \in Nat /\ Cardinality(Reached \cup {c}) \in Nat
        BY <3>3, <4>1, FS_CardinalityType
      <4> QED
        BY <2>4, <3>3, <4>1, <4>2
    <3>5. Cardinality(Reached) <= explored
      BY <2>2 DEF BudgetInv
    <3>6. Cardinality(Reached') <= explored + 1
      BY <2>4, <3>4, <3>5
    <3>7. Cardinality(Reached') <= Budget
      BY <2>4, <3>2, <3>4, <3>6
    <3> QED
      BY <2>1, <3>2, <3>6, <3>7 DEF BudgetInv
  <2> QED
    BY <2>5, <2>6
<1>8. ASSUME NEW c \in Calls, Serve(c) PROVE BudgetInv'
  <2>1. Handler(c) /\ UNCHANGED <<kind, mine, explored, phase>>
    BY <1>8 DEF Serve
  <2>2. \A d \in Calls : job'[d] = "none" <=> job[d] = "none"
    BY <2>1, HandlerSteps
  <2>3. mine \subseteq Calls
    BY DEF TypeOK
  <2>4. Reached' = Reached
    BY <2>1, <2>2, <2>3 DEF Reached
  <2> QED
    BY <2>1, <2>4 DEF BudgetInv
<1>9. CASE UNCHANGED vars
  BY <1>9 DEF BudgetInv, Reached, vars
<1> QED
  BY <1>1, <1>2, <1>3, <1>4, <1>5, <1>6, <1>7, <1>8, <1>9
  DEF Next, Coordinate, InvokeTool

\* However the calls of a turn race for the last searches and reads, no more of
\* them reach the Worker than the budget says.
THEOREM BudgetKept == Spec => []BudgetHeld
<1>1. Init => BaseInv /\ BudgetInv
  BY InitBase, BudgetInit
<1>2. BaseInv /\ BudgetInv /\ [Next]_vars => (BaseInv /\ BudgetInv)'
  BY BaseStep, BudgetStep
<1>3. BaseInv /\ BudgetInv => BudgetHeld
  BY DEF BudgetInv, BudgetHeld, Reached
<1> QED
  BY <1>1, <1>2, <1>3, PTL DEF Spec
-----------------------------------------------------------------------------
(* Observations.  What a call returned is pending until the next call of   *)
(* the model takes it, or the run ends without one.                        *)
FedInv ==
  /\ phase \in {"model", "issue"} => pending = {}
  /\ \A c \in Calls : fed[c] <= 1
  /\ \A c \in Calls : pc[c] # "returned" => fed[c] = 0
  /\ \A c \in pending : pc[c] = "returned" /\ fed[c] = 0
  /\ \A c \in mine : pc[c] = "returned" /\ kind[c] # "reset" => c \in pending \/ fed[c] = 1

LEMMA FedInit == Init => FedInv
  BY DEF Init, FedInv

LEMMA FedStep == BaseInv /\ FedInv /\ [Next]_vars => FedInv'
<1> SUFFICES ASSUME BaseInv, FedInv, [Next]_vars PROVE FedInv'
  OBVIOUS
<1> USE DEF requestVars, serverVars, clientVars, contextVars, historyVars, BaseInv, Typed, Goto
<1>0. mine \subseteq Calls /\ pending \subseteq Calls /\ fed \in [Calls -> Nat]
      /\ pc \in [Calls -> Settled \cup {"called", "recorded", "sent"}]
  BY DEF TypeOK
<1>1. CASE StartRun
  <2> DEFINE c == NewCall
  <2>1. c \in Calls /\ pc[c] = "idle"
    BY <1>1, NewCallIdle DEF StartRun
  <2>2. /\ mine' = {c} /\ pc' = [pc EXCEPT ![c] = "sent"] /\ UNCHANGED <<fed, pending>>
        /\ phase = "over" /\ phase' = "resetting"
    BY <1>1 DEF StartRun
  <2> HIDE DEF c
  <2> QED
    BY <1>0, <2>1, <2>2 DEF FedInv
<1>2. CASE CleanStart
  <2>1. PICK r \in Calls : mine = {r} /\ kind[r] = "reset" /\ pc[r] = "sent"
    BY <1>2 DEF CleanStart, ClientInv
  <2>2. /\ UNCHANGED <<kind, mine, fed>> /\ pending' = {}
        /\ pc' = [pc EXCEPT ![r] = "returned"]
    BY <1>2, <2>1 DEF CleanStart
  <2> QED
    BY <1>0, <2>1, <2>2 DEF FedInv
<1>3. CASE NoStart
  <2>1. PICK r \in Calls : mine = {r} /\ kind[r] = "reset" /\ pc[r] = "sent"
    BY <1>3 DEF NoStart, ClientInv
  <2>2. /\ UNCHANGED <<kind, mine, fed, pending>> /\ phase' = "over"
        /\ pc' = [pc EXCEPT ![r] = "raised"]
    BY <1>3, <2>1 DEF NoStart
  <2> QED
    BY <1>0, <2>1, <2>2 DEF FedInv
<1>4. CASE IssueCall
  <2> DEFINE c == NewCall
  <2>1. c \in Calls /\ pc[c] = "idle"
    BY <1>4, NewCallIdle DEF IssueCall
  <2>2. PICK k \in Tools : Prepare(c, k)
    BY <1>4 DEF IssueCall
  <2>3. /\ mine' = mine \cup {c} /\ pc' = [pc EXCEPT ![c] = "called"]
        /\ UNCHANGED <<fed, pending>> /\ phase \in {"model", "issue"}
    BY <1>4 DEF IssueCall
  <2> HIDE DEF c
  <2>4. \A d \in Calls \ {c} : kind'[d] = kind[d]
    BY <2>1, <2>2, PrepareType
  <2> QED
    BY <1>0, <2>1, <2>3, <2>4 DEF FedInv
<1>5. CASE RunTools \/ EndRun
  BY <1>5 DEF RunTools, EndRun, FedInv
<1>6. CASE NextTurn
  BY <1>0, <1>6 DEF NextTurn, FedInv
<1>7. ASSUME NEW c \in Calls, Announce(c) \/ Reject(c) \/ GiveUp(c) PROVE FedInv'
  <2>1. \E l \in {"recorded", "raised"} : pc' = [pc EXCEPT ![c] = l]
    BY <1>7 DEF Announce, Reject, GiveUp
  <2>2. pc[c] \notin Settled /\ UNCHANGED <<mine, kind, pending, fed, phase>>
    BY <1>7 DEF Announce, Reject, GiveUp
  <2> QED
    BY <1>0, <2>1, <2>2 DEF FedInv
<1>8. ASSUME NEW c \in Calls, Exhaust(c) \/ Receive(c) PROVE FedInv'
  <2>1. /\ pc' = [pc EXCEPT ![c] = "returned"] /\ pending' = pending \cup {c}
        /\ pc[c] \in {"recorded", "sent"} /\ UNCHANGED <<mine, kind, fed, phase>>
        /\ pc[c] = "sent" => phase = "tools"
    BY <1>8 DEF Exhaust, Receive
  <2>2. phase = "tools"
    BY <2>1 DEF ClientInv
  <2> QED
    BY <1>0, <2>1, <2>2 DEF FedInv
<1>9. ASSUME NEW c \in Calls, Send(c) PROVE FedInv'
  <2>1. /\ pc' = [pc EXCEPT ![c] = "sent"] /\ pc[c] = "recorded"
        /\ UNCHANGED <<mine, kind, pending, fed, phase>>
    BY <1>9 DEF Send
  <2> QED
    BY <1>0, <2>1 DEF FedInv
<1>10. ASSUME NEW c \in Calls, Serve(c) PROVE FedInv'
  BY <1>10 DEF Serve, FedInv
<1>11. CASE UNCHANGED vars
  BY <1>11 DEF FedInv, vars
<1> QED
  BY <1>1, <1>2, <1>3, <1>4, <1>5, <1>6, <1>7, <1>8, <1>9, <1>10, <1>11
  DEF Next, Coordinate, InvokeTool

\* Every tool result is an input of one model call, the one that follows, if the
\* limit of turns lets one follow.
THEOREM FedOnce == Spec => []ObservationsFedOnce
<1>1. Init => BaseInv /\ FedInv
  BY InitBase, FedInit
<1>2. BaseInv /\ FedInv /\ [Next]_vars => (BaseInv /\ FedInv)'
  BY BaseStep, FedStep
<1>3. BaseInv /\ FedInv => ObservationsFedOnce
  BY DEF FedInv, ObservationsFedOnce
<1> QED
  BY <1>1, <1>2, <1>3, PTL DEF Spec
-----------------------------------------------------------------------------
(* The reset.  It is the last request in the lock's queue until it is done,*)
(* because a run sends nothing before; so it is alone when it is done, and *)
(* what enters the queue after it is of its run.                           *)
Resetting(r) ==
  /\ job[r] \in {"queued", "write", "done"}
  /\ job[r] \in {"queued", "write"} => lock[Len(lock)] = r
  /\ job[r] = "write" => \A f \in Files \ todo[r] : tree[f] = Base[f]
  /\ job[r] = "done" => lock = <<>> /\ tree = Base

FreshInv ==
  /\ phase = "resetting" => \A r \in mine : Resetting(r)
  /\ phase \in {"model", "issue", "tools"} =>
       \A i \in 1..Len(lock) : lock[i] \in mine
  /\ FreshStart

LEMMA FreshInit == Init => FreshInv
  BY DEF Init, FreshInv, FreshStart

\* A handler of another request, which is ahead of the reset or does not write.
LEMMA OthersReset ==
  ASSUME ServerTyped, LockInv, NEW r \in Calls, Resetting(r),
         NEW c \in Calls \ {r}, Handler(c)
  PROVE  Resetting(r)'
<1>1. job'[r] = job[r] /\ todo'[r] = todo[r]
  <2>1. todo' = todo \/ \E files : todo' = [todo EXCEPT ![c] = files]
    BY DEF Handler, BeginScan, BeginChange, RefuseChange, BeginReset, ScanFile, WriteFile
  <2>2. todo'[r] = todo[r]
    BY <2>1 DEF ServerTyped, ServerTypeOK
  <2> QED
    BY <2>2, HandlerSteps
<1>2. CASE job[r] = "queued"
  <2>1. InLock(r) /\ lock[Len(lock)] = r
    BY <1>2 DEF LockInv, Resetting
  <2>2. lock # <<>> /\ Len(lock) \in Nat \ {0}
    BY <2>1 DEF InLock, ServerTyped, ServerTypeOK
  <2>3. CASE UNCHANGED lock
    BY <1>1, <1>2, <2>1, <2>3 DEF Resetting
  <2>4. CASE Holds(c) /\ lock' = Tail(lock)
    <3>1. lock[1] = c
      BY <2>2, <2>4, TailType DEF Holds
    <3>2. Len(lock) > 1
      BY <2>1, <2>2, <3>1
    <3>3. Len(lock') = Len(lock) - 1 /\ \A i \in 1..(Len(lock) - 1) : lock'[i] = lock[i + 1]
      BY <2>2, <2>4, TailType
    <3>4. Len(lock') \in 1..(Len(lock) - 1) /\ Len(lock') + 1 = Len(lock)
      BY <2>2, <3>2, <3>3
    <3>5. lock'[Len(lock')] = r
      BY <2>1, <3>3, <3>4
    <3> QED
      BY <1>1, <1>2, <3>5 DEF Resetting
  <2> QED
    BY <2>3, <2>4, HandlerSteps
<1>3. CASE job[r] # "queued"
  <2>1. ~Holds(c)
    BY <1>3 DEF Resetting, LockInv, Inside, Holds
  <2>2. UNCHANGED <<lock, tree>>
    BY <2>1, HandlerSteps DEF LockInv, Inside
  <2> QED
    BY <1>1, <2>2 DEF Resetting
<1> QED
  BY <1>2, <1>3

\* The handler of the reset itself.
LEMMA OwnReset ==
  ASSUME ServerTyped, ServerTyped', LockInv, NEW r \in Calls, Resetting(r),
         kind[r] = "reset", Handler(r)
  PROVE  Resetting(r)'
<1>1. job[r] \in {"queued", "write"} /\ lock[Len(lock)] = r
  BY HandlerSteps DEF Resetting
<1>2. InLock(r) /\ lock # <<>> /\ Len(lock) \in Nat \ {0}
  BY <1>1 DEF LockInv, InLock, Inside, ServerTyped, ServerTypeOK
<1>3. CASE BeginReset(r)
  <2>1. job'[r] = "write" /\ UNCHANGED <<lock, tree>> /\ todo'[r] = Files
    BY <1>3 DEF BeginReset, ServerTyped, ServerTypeOK
  <2> QED
    BY <1>1, <2>1 DEF Resetting
<1>4. CASE WriteFile(r)
  <2>1. PICK f \in todo[r] :
          /\ tree' = [tree EXCEPT ![f] = Base[f]]
          /\ todo' = [todo EXCEPT ![r] = @ \ {f}]
          /\ \/ todo[r] = {f} /\ Finish(r, "done")
             \/ UNCHANGED <<job, lock>>
    BY <1>4 DEF WriteFile
  <2>2. job[r] = "write" /\ Holds(r)
    BY <1>4 DEF WriteFile, LockInv, Inside
  <2>3. f \in Files /\ todo'[r] = todo[r] \ {f}
    BY <2>1 DEF ServerTyped, ServerTypeOK
  <2>4. \A g \in Files \ todo'[r] : tree'[g] = Base[g]
    BY <2>1, <2>2, <2>3 DEF Resetting, ServerTyped, ServerTypeOK
  <2>5. CASE UNCHANGED <<job, lock>>
    BY <1>1, <2>2, <2>4, <2>5 DEF Resetting
  <2>6. CASE todo[r] = {f} /\ Finish(r, "done")
    <3>1. job'[r] = "done" /\ lock' = Tail(lock)
      BY <2>2, <2>6 DEF Finish, Release, ServerTyped, ServerTypeOK
    <3>2. lock[1] = r
      BY <1>2, <2>2, TailType DEF Holds
    <3>3. Len(lock) = 1
      <4>1. 1 \in 1..Len(lock) /\ Len(lock) \in 1..Len(lock)
        BY <1>2
      <4> QED
        BY <1>1, <3>2, <4>1 DEF LockInv
    <3>4. lock' \in Seq(Calls) /\ Len(lock') = 0
      BY <1>2, <3>1, <3>3, TailType
    <3>5. lock' = <<>>
      BY <3>4
    <3>6. \A g \in Files : tree'[g] = Base[g]
      BY <2>3, <2>4, <2>6
    <3>7. tree' = [g \in Files |-> tree'[g]] /\ Base = [g \in Files |-> Base[g]]
      BY BaseType DEF ServerTyped, ServerTypeOK
    <3>8. tree' = Base
      BY <3>6, <3>7
    <3> QED
      BY <3>1, <3>5, <3>8 DEF Resetting
  <2> QED
    BY <2>1, <2>5, <2>6
<1> QED
  BY <1>1, <1>3, <1>4 DEF Handler, BeginScan, BeginChange, RefuseChange, ScanFile

\* A handler within the run.
LEMMA OthersFresh ==
  ASSUME ServerTyped, LockInv, NEW c \in Calls, Handler(c),
         \A i \in 1..Len(lock) : lock[i] \in mine,
         \A f \in Files : tree[f] = Base[f] \/ tree[f] \in mine
  PROVE  /\ \A i \in 1..Len(lock') : lock'[i] \in mine
         /\ \A f \in Files : tree'[f] = Base[f] \/ tree'[f] \in mine
<1>1. \A i \in 1..Len(lock') : lock'[i] \in mine
  <2>1. CASE UNCHANGED lock
    BY <2>1
  <2>2. CASE lock # <<>> /\ lock' = Tail(lock)
    <3>1. /\ Len(lock') = Len(lock) - 1 /\ Len(lock) \in Nat \ {0}
          /\ \A i \in 1..(Len(lock) - 1) : lock'[i] = lock[i + 1]
      BY <2>2, TailType
    <3>2. \A i \in 1..Len(lock') : i + 1 \in 1..Len(lock) /\ lock'[i] = lock[i + 1]
      BY <3>1
    <3> QED
      BY <3>2
  <2> QED
    BY <2>1, <2>2, HandlerSteps DEF Holds
<1>2. CASE WriteFile(c)
  <2>1. Holds(c)
    BY <1>2 DEF WriteFile, LockInv, Inside
  <2>2. lock # <<>> /\ lock[1] = c /\ 1 \in 1..Len(lock)
    BY <2>1, TailType DEF Holds
  <2>3. c \in mine
    BY <2>2
  <2>4. PICK f \in todo[c] :
          tree' = [tree EXCEPT ![f] = IF kind[c] = "reset" THEN Base[f] ELSE c]
    BY <1>2 DEF WriteFile
  <2>5. \A g \in Files : tree'[g] = tree[g] \/ tree'[g] = Base[g] \/ tree'[g] = c
    BY <2>4 DEF ServerTyped, ServerTypeOK
  <2> QED
    BY <1>1, <2>3, <2>5
<1>3. CASE ~WriteFile(c)
  <2>1. UNCHANGED tree
    BY <1>3 DEF Handler, BeginScan, BeginChange, RefuseChange, BeginReset, ScanFile
  <2> QED
    BY <1>1, <2>1
<1> QED
  BY <1>2, <1>3

LEMMA FreshStep == BaseInv /\ FreshInv /\ [Next]_vars => FreshInv'
<1> SUFFICES ASSUME BaseInv, BaseInv', FreshInv, [Next]_vars PROVE FreshInv'
  BY BaseStep
<1> USE DEF requestVars, serverVars, clientVars, contextVars, historyVars, BaseInv, Typed, Goto
<1>0. mine \subseteq Calls
  BY DEF TypeOK
<1>1. CASE StartRun
  <2>1. PICK c \in Calls : c = NewCall
    BY <1>1, NewCallIdle DEF StartRun
  <2>2. mine' = {c} /\ Arrive(c, "reset", Files) /\ phase' = "resetting"
    BY <1>1, <2>1 DEF StartRun
  <2>3. lock' = Append(lock, c) /\ job'[c] = "queued"
    BY <2>2 DEF Arrive, ServerTyped, ServerTypeOK
  <2>4. lock'[Len(lock')] = c
    BY <2>3 DEF ServerTyped, ServerTypeOK
  <2>5. Resetting(c)'
    BY <2>3, <2>4 DEF Resetting
  <2> QED
    BY <2>2, <2>5 DEF FreshInv, FreshStart
<1>2. CASE CleanStart
  <2>1. PICK r \in Calls : mine = {r} /\ job[r] = "done"
    BY <1>0, <1>2 DEF CleanStart, ClientInv
  <2>2. lock = <<>> /\ tree = Base
    BY <1>2, <2>1 DEF CleanStart, FreshInv, Resetting
  <2>3. UNCHANGED <<lock, tree>> /\ phase' = "model" /\ Len(<<>>) = 0
    BY <1>2 DEF CleanStart
  <2> QED
    BY <2>2, <2>3 DEF FreshInv, FreshStart
<1>3. CASE NoStart \/ EndRun
  BY <1>3 DEF NoStart, EndRun, FreshInv, FreshStart
<1>4. CASE IssueCall \/ RunTools \/ NextTurn
  <2>1. /\ UNCHANGED <<lock, tree>> /\ mine \subseteq mine'
        /\ phase \in {"model", "issue", "tools"} /\ phase' \in {"model", "issue", "tools"}
    BY <1>4 DEF IssueCall, RunTools, NextTurn
  <2> QED
    BY <2>1 DEF FreshInv, FreshStart
<1>5. ASSUME NEW c \in Calls, Announce(c) \/ Exhaust(c) \/ Reject(c) \/ Receive(c) \/ GiveUp(c)
      PROVE  FreshInv'
  <2>1. UNCHANGED <<lock, tree, job, todo, mine, phase>>
    BY <1>5 DEF Announce, Exhaust, Reject, Receive, GiveUp
  <2> QED
    BY <2>1 DEF FreshInv, FreshStart, Resetting
<1>6. ASSUME NEW c \in Calls, Send(c) PROVE FreshInv'
  <2>1. pc[c] = "recorded" /\ Arrive(c, kind[c], scope[c]) /\ UNCHANGED <<kind, mine, phase>>
    BY <1>6 DEF Send
  <2>2. phase = "tools" /\ c \in mine /\ job[c] = "none" /\ kind[c] \in Kinds \ {"none"}
    BY <2>1 DEF ClientInv
  <2>3. \A i \in 1..Len(lock') : lock'[i] = c \/ \E j \in 1..Len(lock) : lock'[i] = lock[j]
    BY <2>1, <2>2, ArriveLock
  <2>4. UNCHANGED tree
    BY <2>1 DEF Arrive
  <2> QED
    BY <2>1, <2>2, <2>3, <2>4 DEF FreshInv, FreshStart
<1>7. ASSUME NEW c \in Calls, Serve(c) PROVE FreshInv'
  <2>1. Handler(c) /\ UNCHANGED <<requestVars, mine, phase>>
    BY <1>7 DEF Serve
  <2>2. CASE phase = "resetting"
    <3>1. PICK r \in Calls : mine = {r} /\ kind[r] = "reset"
      BY <2>2 DEF ClientInv
    <3>2. Resetting(r)
      BY <2>2, <3>1 DEF FreshInv
    <3>3. Resetting(r)'
      BY <2>1, <3>1, <3>2, OthersReset, OwnReset
    <3> QED
      BY <2>1, <2>2, <3>1, <3>3 DEF FreshInv, FreshStart
  <2>3. CASE phase \in {"model", "issue", "tools"}
    <3>1. /\ \A i \in 1..Len(lock) : lock[i] \in mine
          /\ \A f \in Files : tree[f] = Base[f] \/ tree[f] \in mine
      BY <2>3 DEF FreshInv, FreshStart
    <3>2. /\ \A i \in 1..Len(lock') : lock'[i] \in mine
          /\ \A f \in Files : tree'[f] = Base[f] \/ tree'[f] \in mine
      BY <2>1, <3>1, OthersFresh
    <3> QED
      BY <2>1, <2>3, <3>2 DEF FreshInv, FreshStart
  <2>4. CASE phase = "over"
    BY <2>1, <2>4 DEF FreshInv, FreshStart
  <2> QED
    BY <2>2, <2>3, <2>4 DEF TypeOK
<1>8. CASE UNCHANGED vars
  BY <1>8 DEF FreshInv, FreshStart, Resetting, vars
<1> QED
  BY <1>1, <1>2, <1>3, <1>4, <1>5, <1>6, <1>7, <1>8
  DEF Next, Coordinate, InvokeTool

\* A run starts from the base commit, whatever earlier runs left or still have
\* queued at the Worker.
THEOREM StartsFresh == Spec => []FreshStart
<1>1. Init => BaseInv /\ FreshInv
  BY InitBase, FreshInit
<1>2. BaseInv /\ FreshInv /\ [Next]_vars => (BaseInv /\ FreshInv)'
  BY BaseStep, FreshStep
<1>3. FreshInv => FreshStart
  BY DEF FreshInv
<1> QED
  BY <1>1, <1>2, <1>3, PTL DEF Spec
-----------------------------------------------------------------------------
(* The Worker implements AtomicWorkspace.  A writer holds the lock: what it*)
(* has written so far is not committed.  A search or a test run that holds *)
(* the lock has read the tree as it is.                                    *)
Seen == [c \in Calls |-> IF kind[c] \in Observing /\ job[c] = "done" THEN got[c] ELSE Nothing]

Written(c, f) == IF kind[c] = "reset" THEN Base[f] ELSE c

Writing(c) ==
  /\ todo[c] \subseteq scope[c]
  /\ got[c] \in [Files -> Contents]
  /\ \A f \in Files :
       tree[f] = IF f \in scope[c] \ todo[c] THEN Written(c, f) ELSE got[c][f]

Scanning(c) ==
  /\ got[c] = [f \in DOMAIN got[c] |-> got[c][f]]
  /\ DOMAIN got[c] \subseteq scope[c]
  /\ kind[c] \in Observing => \A f \in DOMAIN got[c] : got[c][f] = tree[f]

AtomInv ==
  /\ \A c \in Calls : pc[c] = "idle" => scope[c] = {}
  /\ \A c \in Calls : kind[c] = "reset" => scope[c] = Files
  /\ \A c \in Calls : job[c] \in {"none", "queued"} => got[c] = Nothing
  /\ \A c \in Calls : job[c] = "scan" => Scanning(c)
  /\ \A c \in Calls : job[c] = "write" => Writing(c)

LEMMA InitAtom == Init => AtomInv /\ Atomic!Init
<1> SUFFICES ASSUME Init PROVE AtomInv /\ Atomic!Init
  OBVIOUS
<1>1. AtomInv
  BY DEF Init, InitServer, AtomInv
<1>2. Committed = tree /\ DOMAIN tree = Files
  BY DEF Init, InitServer, Committed, Base
<1> QED
  BY <1>1, <1>2 DEF Init, InitServer, Atomic!Init

CommittedFacts ==
  /\ \A c \in Calls : job[c] = "write" => Committed = got[c]
  /\ (\A c \in Calls : job[c] # "write") => Committed = tree
  /\ \A c, d \in Calls : Inside(c) /\ Inside(d) => c = d

LEMMA CommittedIs == BaseInv => CommittedFacts
<1> SUFFICES ASSUME ServerTyped, LockInv PROVE CommittedFacts
  BY DEF BaseInv, Typed
<1>1. \A c \in Calls : Inside(c) => Holds(c)
  BY DEF LockInv
<1>2. lock # <<>> => Head(lock) \in Calls
  BY DEF ServerTyped, ServerTypeOK
<1> QED
  BY <1>1, <1>2 DEF Committed, Inside, Holds, CommittedFacts

LEMMA CommittedNext == BaseInv' => CommittedFacts'
  BY CommittedIs, PTL

\* Steps that leave the tree alone, and what writers and observers have read.
LEMMA TreeStands ==
  ASSUME BaseInv, BaseInv', UNCHANGED tree,
         \A c \in Calls :
           job[c] = "write" \/ (kind[c] \in Observing /\ job[c] = "done") => got'[c] = got[c],
         \A c \in Calls : job'[c] = "write" <=> job[c] = "write",
         \A c \in Calls : kind'[c] \in Observing /\ job'[c] = "done" <=>
                          kind[c] \in Observing /\ job[c] = "done"
  PROVE  Committed' = Committed /\ Seen' = Seen
<1>1. Committed' = Committed
  <2>1. CASE \E c \in Calls : job[c] = "write"
    <3>1. PICK c \in Calls : job[c] = "write"
      BY <2>1
    <3>2. Committed = got[c] /\ (Committed = got[c])'
      BY <3>1, CommittedIs, CommittedNext DEF CommittedFacts
    <3> QED
      BY <3>1, <3>2
  <2>2. CASE \A c \in Calls : job[c] # "write"
    <3>1. Committed = tree /\ (Committed = tree)'
      BY <2>2, CommittedIs, CommittedNext DEF CommittedFacts
    <3> QED
      BY <3>1
  <2> QED
    BY <2>1, <2>2
<1>2. Seen' = Seen
  BY DEF Seen
<1> QED
  BY <1>1, <1>2

LEMMA QuietAtom ==
  ASSUME BaseInv, BaseInv', AtomInv,
         \/ CleanStart \/ NoStart \/ RunTools \/ NextTurn \/ EndRun
         \/ \E c \in Calls : Announce(c) \/ Exhaust(c) \/ Reject(c) \/ Receive(c) \/ GiveUp(c)
         \/ UNCHANGED vars
  PROVE  AtomInv' /\ UNCHANGED <<scope, Committed, Seen>>
<1>1. UNCHANGED <<requestVars, serverVars>>
  BY DEF CleanStart, NoStart, RunTools, NextTurn, EndRun, Announce, Exhaust, Reject,
         Receive, GiveUp, vars
<1>2. Committed' = Committed /\ Seen' = Seen
  BY <1>1, TreeStands DEF requestVars, serverVars
<1>3. \A c \in Calls : pc'[c] = "idle" => pc[c] = "idle"
  <2>1. ASSUME NEW c, NEW l \in {"recorded", "returned", "raised"}, Goto(c, l), NEW d \in Calls,
               pc'[d] = "idle"
        PROVE  pc[d] = "idle"
    BY <2>1 DEF Goto, BaseInv, Typed, TypeOK
  <2>2. pc' = pc \/ \E c : \E l \in {"recorded", "returned", "raised"} : Goto(c, l)
    BY DEF CleanStart, NoStart, RunTools, NextTurn, EndRun, Announce, Exhaust, Reject,
           Receive, GiveUp, vars, clientVars
  <2> QED
    BY <2>1, <2>2
<1>4. AtomInv'
  BY <1>1, <1>3 DEF AtomInv, Scanning, Writing, Written, requestVars, serverVars
<1> QED
  BY <1>1, <1>2, <1>4 DEF requestVars

\* Preparing a call: it is the first to say what it is about.
LEMMA AskAtom ==
  ASSUME BaseInv, BaseInv', AtomInv, NEW c \in Calls, pc[c] = "idle",
         NEW k \in Kinds \ {"none"}, Prepare(c, k),
         UNCHANGED <<tree, got, todo>>, job'[c] \in {"none", "queued"},
         \A d \in Calls \ {c} : job'[d] = job[d],
         \A d \in Calls : pc'[d] = "idle" => pc[d] = "idle" /\ d # c
  PROVE  AtomInv' /\ Atomic!Ask
<1>1. /\ scope' \in [Calls -> SUBSET Files] /\ kind'[c] = k
      /\ \A d \in Calls \ {c} : kind'[d] = kind[d] /\ scope'[d] = scope[d]
  BY PrepareType DEF BaseInv, Typed
<1>2. job[c] = "none" /\ scope[c] = {}
  BY DEF BaseInv, ClientInv, AtomInv
<1>3. Committed' = Committed /\ Seen' = Seen
  BY <1>1, <1>2, TreeStands
<1>4. k = "reset" => scope'[c] = Files
  <2>1. PICK files \in Scopes(k) : scope' = [scope EXCEPT ![c] = files]
    BY DEF Prepare
  <2>2. k = "reset" => files = Files
    BY <2>1 DEF Scopes
  <2> QED
    BY <2>1, <2>2 DEF BaseInv, Typed, ServerTyped, ServerTypeOK
<1>5. AtomInv'
  BY <1>1, <1>2, <1>4 DEF AtomInv, Scanning, Writing, Written
<1>6. Atomic!Ask
  BY <1>1, <1>2, <1>3 DEF Atomic!Ask, Seen
<1> QED
  BY <1>5, <1>6

LEMMA StartAtom == ASSUME BaseInv, BaseInv', AtomInv, StartRun PROVE AtomInv' /\ Atomic!Ask
<1> USE DEF BaseInv, Typed
<1>1. PICK c \in Calls : c = NewCall /\ pc[c] = "idle"
  BY NewCallIdle DEF StartRun
<1>2. /\ Prepare(c, "reset") /\ Arrive(c, "reset", Files) /\ pc' = [pc EXCEPT ![c] = "sent"]
  BY <1>1 DEF StartRun, Goto
<1>3. /\ job'[c] = "queued" /\ \A d \in Calls \ {c} : job'[d] = job[d]
      /\ UNCHANGED <<tree, got, todo>>
  BY <1>2 DEF Arrive, ServerTyped, ServerTypeOK
<1>4. \A d \in Calls : pc'[d] = "idle" => pc[d] = "idle" /\ d # c
  BY <1>2 DEF TypeOK
<1> HIDE DEF BaseInv, Typed
<1> QED
  BY <1>1, <1>2, <1>3, <1>4, AskAtom

LEMMA IssueAtom == ASSUME BaseInv, BaseInv', AtomInv, IssueCall PROVE AtomInv' /\ Atomic!Ask
<1> USE DEF BaseInv, Typed
<1>1. PICK c \in Calls : c = NewCall /\ pc[c] = "idle"
  BY NewCallIdle DEF IssueCall
<1>2. PICK k \in Tools : Prepare(c, k)
  BY <1>1 DEF IssueCall
<1>3. pc' = [pc EXCEPT ![c] = "called"] /\ UNCHANGED <<tree, got, todo, job>> /\ job[c] = "none"
  BY <1>1 DEF IssueCall, Goto, serverVars, ClientInv
<1>4. \A d \in Calls : pc'[d] = "idle" => pc[d] = "idle" /\ d # c
  BY <1>3 DEF TypeOK
<1> HIDE DEF BaseInv, Typed
<1> QED
  BY <1>1, <1>2, <1>3, <1>4, AskAtom

LEMMA SendAtom ==
  ASSUME BaseInv, BaseInv', AtomInv, NEW c \in Calls, Send(c)
  PROVE  AtomInv' /\ UNCHANGED <<scope, Committed, Seen>>
<1> USE DEF BaseInv, Typed
<1>1. /\ job[c] = "none" /\ kind[c] \in Kinds \ {"none"} /\ Arrive(c, kind[c], scope[c])
      /\ UNCHANGED <<kind, scope, basis>> /\ pc' = [pc EXCEPT ![c] = "sent"]
  BY DEF Send, ClientInv, requestVars, Goto
<1>2. /\ job'[c] \in {"queued", "scan", "refused"}
      /\ \A d \in Calls \ {c} : job'[d] = job[d]
  BY <1>1, ArriveLock
<1>3. UNCHANGED <<tree, todo, got>>
  BY <1>1 DEF Arrive
<1>4. Committed' = Committed /\ Seen' = Seen
  BY <1>1, <1>2, <1>3, TreeStands
<1>5. got[c] = Nothing
  BY <1>1 DEF AtomInv
<1>6. \A d \in Calls : pc'[d] = "idle" => pc[d] = "idle"
  BY <1>1 DEF TypeOK
<1>7. Scanning(c)'
  BY <1>3, <1>5 DEF Scanning, Nothing
<1>8. AtomInv'
  BY <1>1, <1>2, <1>3, <1>5, <1>6, <1>7 DEF AtomInv, Scanning, Writing, Written
<1> QED
  BY <1>1, <1>4, <1>8

\* The handlers: only the last write of a change or a reset, and the last read
\* of a search or a test run, are steps of AtomicWorkspace.
LEMMA BeginAtom ==
  ASSUME BaseInv, BaseInv', AtomInv, NEW c \in Calls, UNCHANGED <<requestVars, pc>>,
         BeginScan(c) \/ RefuseChange(c) \/ BeginChange(c) \/ BeginReset(c)
  PROVE  AtomInv' /\ UNCHANGED <<scope, Committed, Seen>>
<1> USE DEF BaseInv, Typed, requestVars
<1>0. /\ job[c] = "queued" /\ Holds(c) /\ UNCHANGED <<tree, kind, scope, pc>>
      /\ \A d \in Calls \ {c} : job'[d] = job[d] /\ todo'[d] = todo[d] /\ got'[d] = got[d]
  BY DEF BeginScan, RefuseChange, BeginChange, BeginReset, Finish, ServerTyped, ServerTypeOK
<1>1. CASE BeginScan(c)
  <2>1. job'[c] = "scan" /\ UNCHANGED <<got, todo>>
    BY <1>1 DEF BeginScan, ServerTyped, ServerTypeOK
  <2>2. Committed' = Committed /\ Seen' = Seen
    BY <1>0, <2>1, TreeStands
  <2>3. Scanning(c)'
    BY <1>0, <2>1 DEF Scanning, Nothing, AtomInv
  <2>4. AtomInv'
    BY <1>0, <2>1, <2>3 DEF AtomInv, Scanning, Writing, Written
  <2> QED
    BY <2>2, <2>4
<1>2. CASE RefuseChange(c)
  <2>1. job'[c] = "refused" /\ UNCHANGED <<got, todo>>
    BY <1>2 DEF RefuseChange, Finish, ServerTyped, ServerTypeOK
  <2>2. Committed' = Committed /\ Seen' = Seen
    BY <1>0, <2>1, TreeStands
  <2>3. AtomInv'
    BY <1>0, <2>1 DEF AtomInv, Scanning, Writing, Written
  <2> QED
    BY <2>2, <2>3
<1>3. CASE BeginChange(c) \/ BeginReset(c)
  <2>1. job'[c] = "write" /\ todo'[c] = scope[c] /\ got'[c] = tree /\ kind[c] \notin Observing
    BY <1>3 DEF BeginChange, BeginReset, ServerTyped, ServerTypeOK, AtomInv
  <2>2. \A d \in Calls : job[d] # "write"
    BY <1>0 DEF LockInv, Inside, Holds
  <2>3. Committed = tree /\ Committed' = got'[c]
    BY <2>1, <2>2, CommittedIs, CommittedNext DEF CommittedFacts
  <2>4. Seen' = Seen
    <3>1. \A d \in Calls : kind[d] \in Observing /\ job'[d] = "done" <=>
                           kind[d] \in Observing /\ job[d] = "done"
      BY <1>0, <2>1
    <3>2. \A d \in Calls : kind[d] \in Observing /\ job[d] = "done" => got'[d] = got[d]
      BY <1>0, <2>1
    <3> QED
      BY <1>0, <3>1, <3>2 DEF Seen
  <2>5. Writing(c)'
    BY <1>0, <2>1 DEF Writing, ServerTyped, ServerTypeOK, Contents
  <2>6. AtomInv'
    BY <1>0, <2>1, <2>5 DEF AtomInv, Scanning, Writing, Written
  <2> QED
    BY <1>0, <2>1, <2>3, <2>4, <2>6
<1> QED
  BY <1>1, <1>2, <1>3

LEMMA ScanAtom ==
  ASSUME BaseInv, BaseInv', AtomInv, NEW c \in Calls, UNCHANGED <<requestVars, pc>>, ScanFile(c)
  PROVE  AtomInv' /\ (UNCHANGED <<scope, Committed, Seen>> \/ Atomic!Observe(c))
<1> USE DEF BaseInv, Typed, requestVars
<1>1. PICK f \in scope[c] \ DOMAIN got[c] :
        LET read == DOMAIN got[c] \cup {f} IN
        /\ got' = [got EXCEPT ![c] = [g \in read |-> IF g = f THEN tree[f] ELSE got[c][g]]]
        /\ \/ read = scope[c] /\ Finish(c, "done")
           \/ UNCHANGED <<job, lock>>
  BY DEF ScanFile
<1>2. /\ job[c] = "scan" /\ UNCHANGED <<tree, todo, kind, scope, pc>>
      /\ \A d \in Calls \ {c} : job'[d] = job[d] /\ got'[d] = got[d]
      /\ job'[c] \in {"scan", "done"}
      /\ job'[c] = "done" => DOMAIN got[c] \cup {f} = scope[c]
  BY <1>1 DEF ScanFile, Finish, ServerTyped, ServerTypeOK
<1> DEFINE read == DOMAIN got[c] \cup {f}
           snapshot == [g \in read |-> IF g = f THEN tree[f] ELSE got[c][g]]
<1>3. got'[c] = snapshot
  BY <1>1 DEF ServerTyped, ServerTypeOK
<1>4. DOMAIN snapshot = read /\ snapshot = [g \in DOMAIN snapshot |-> snapshot[g]]
      /\ \A g \in read : snapshot[g] = IF g = f THEN tree[f] ELSE got[c][g]
  OBVIOUS
<1>5. Scanning(c)
  BY <1>2 DEF AtomInv
<1>6. kind[c] \in Observing => \A g \in read : snapshot[g] = tree[g]
  BY <1>4, <1>5 DEF Scanning
<1> HIDE DEF snapshot
<1>7. Scanning(c)'
  BY <1>2, <1>3, <1>4, <1>5, <1>6 DEF Scanning
<1>8. AtomInv'
  BY <1>2, <1>7 DEF AtomInv, Scanning, Writing, Written
<1>9. CASE kind[c] \in Observing /\ job'[c] = "done"
  <2>1. \A d \in Calls : job[d] # "write" /\ job'[d] # "write"
    BY <1>2, <1>9, CommittedIs DEF CommittedFacts, Inside
  <2>2. Committed = tree /\ Committed' = tree
    BY <1>2, <2>1, CommittedIs, CommittedNext DEF CommittedFacts
  <2>3. snapshot = [g \in scope[c] |-> tree[g]]
    BY <1>2, <1>4, <1>6, <1>9
  <2>4. Seen[c] = Nothing /\ Seen' = [Seen EXCEPT ![c] = snapshot]
    BY <1>2, <1>3, <1>9 DEF Seen
  <2>5. f \in scope[c]
    OBVIOUS
  <2>6. Atomic!Observe(c)
    BY <1>2, <2>2, <2>3, <2>4, <2>5 DEF Atomic!Observe, Seen
  <2> QED
    BY <1>8, <2>6
<1>10. CASE ~(kind[c] \in Observing /\ job'[c] = "done")
  <2>1. Committed' = Committed /\ Seen' = Seen
    BY <1>2, <1>10, TreeStands
  <2> QED
    BY <1>2, <1>8, <2>1
<1> QED
  BY <1>9, <1>10

LEMMA WriteAtom ==
  ASSUME BaseInv, BaseInv', AtomInv, NEW c \in Calls, UNCHANGED <<requestVars, pc>>, WriteFile(c)
  PROVE  /\ AtomInv'
         /\ UNCHANGED <<scope, Committed, Seen>> \/ Atomic!Change(c) \/ Atomic!Restore
<1> USE DEF BaseInv, Typed, requestVars
<1>1. PICK f \in todo[c] :
        /\ tree' = [tree EXCEPT ![f] = Written(c, f)]
        /\ todo' = [todo EXCEPT ![c] = @ \ {f}]
        /\ \/ todo[c] = {f} /\ Finish(c, "done") /\ got' = [got EXCEPT ![c] = Nothing]
           \/ UNCHANGED <<job, lock, got>>
  BY DEF WriteFile, Written
<1>2. /\ job[c] = "write" /\ UNCHANGED <<kind, scope, pc>> /\ Writing(c) /\ Inside(c)
      /\ kind[c] \in Changing \cup {"reset"}
  BY DEF WriteFile, AtomInv, Inside, LockInv
<1>3. f \in scope[c] /\ f \in Files /\ scope[c] \subseteq Files
  BY <1>2 DEF Writing, ServerTyped, ServerTypeOK
<1>4. /\ \A d \in Calls \ {c} : job'[d] = job[d] /\ todo'[d] = todo[d] /\ got'[d] = got[d]
      /\ todo'[c] = todo[c] \ {f}
  BY <1>1 DEF Finish, ServerTyped, ServerTypeOK
<1>5. \A d \in Calls \ {c} : ~Inside(d) /\ job[d] # "write"
  BY <1>2, CommittedIs DEF CommittedFacts, Inside
<1>6. \A g \in Files :
        tree'[g] = IF g \in scope[c] \ todo'[c] THEN Written(c, g) ELSE got[c][g]
  BY <1>1, <1>2, <1>3, <1>4 DEF Writing, ServerTyped, ServerTypeOK
<1>7. \A d \in Calls \ {c} : job'[d] = "scan" => Scanning(d)'
  BY <1>2, <1>4, <1>5 DEF AtomInv, Scanning, Inside
<1>8. Committed = got[c]
  BY <1>2, CommittedIs DEF CommittedFacts
<1>9. CASE UNCHANGED <<job, lock, got>>
  <2>1. Writing(c)'
    BY <1>2, <1>4, <1>6, <1>9 DEF Writing, Written
  <2>2. AtomInv'
    BY <1>2, <1>4, <1>5, <1>7, <1>9, <2>1 DEF AtomInv
  <2>3. Committed' = got[c]
    BY <1>2, <1>9, CommittedNext DEF CommittedFacts
  <2>4. Seen' = Seen
    BY <1>2, <1>9 DEF Seen
  <2> QED
    BY <1>2, <1>8, <2>2, <2>3, <2>4
<1>10. CASE todo[c] = {f} /\ Finish(c, "done") /\ got' = [got EXCEPT ![c] = Nothing]
  <2>1. job'[c] = "done" /\ todo'[c] = {}
    BY <1>4, <1>10 DEF Finish, ServerTyped, ServerTypeOK
  <2>2. AtomInv'
    BY <1>2, <1>4, <1>5, <1>7, <2>1 DEF AtomInv
  <2>3. Committed' = tree'
    BY <1>4, <1>5, <2>1, CommittedNext DEF CommittedFacts
  <2>4. Seen' = Seen
    <3>1. \A d \in Calls : kind[d] \in Observing =>
            (job'[d] = "done" <=> job[d] = "done") /\ got'[d] = got[d]
      BY <1>2, <1>4
    <3> QED
      BY <1>2, <3>1 DEF Seen
  <2>5. tree' = [g \in Files |-> tree'[g]]
    BY DEF ServerTyped, ServerTypeOK
  <2>6. CASE kind[c] = "reset"
    <3>1. scope[c] = Files
      BY <2>6 DEF AtomInv
    <3>2. \A g \in Files : tree'[g] = Base[g]
      BY <1>6, <2>1, <2>6, <3>1 DEF Written
    <3>3. Base = [g \in Files |-> Base[g]]
      BY BaseType
    <3>4. tree' = Base
      BY <2>5, <3>2, <3>3
    <3>5. Atomic!Restore
      BY <1>2, <2>3, <2>4, <3>4 DEF Atomic!Restore, Seen
    <3> QED
      BY <2>2, <3>5
  <2>7. CASE kind[c] # "reset"
    <3>1. \A g \in Files : tree'[g] = IF g \in scope[c] THEN c ELSE got[c][g]
      BY <1>6, <2>1, <2>7 DEF Written
    <3>2. tree' = [g \in Files |-> IF g \in scope[c] THEN c ELSE got[c][g]]
      BY <2>5, <3>1
    <3>3. Committed' = [g \in Files |-> IF g \in scope[c] THEN c ELSE Committed[g]]
      BY <1>8, <2>3, <3>2
    <3>4. Atomic!Change(c)
      BY <1>2, <1>3, <2>4, <3>3 DEF Atomic!Change, Seen
    <3> QED
      BY <2>2, <3>4
  <2> QED
    BY <2>6, <2>7
<1> QED
  BY <1>1, <1>9, <1>10

LEMMA AtomStep ==
  BaseInv /\ AtomInv /\ [Next]_vars => AtomInv' /\ [Atomic!Next]_(Atomic!vars)
<1> SUFFICES ASSUME BaseInv, BaseInv', AtomInv, [Next]_vars
             PROVE  AtomInv' /\ (Atomic!Next \/ UNCHANGED <<scope, Committed, Seen>>)
  BY BaseStep DEF Atomic!vars, Seen
<1>1. ASSUME NEW c \in Calls, Serve(c)
      PROVE  AtomInv' /\ (Atomic!Next \/ UNCHANGED <<scope, Committed, Seen>>)
  <2>1. Handler(c) /\ UNCHANGED <<requestVars, pc>>
    BY <1>1 DEF Serve, clientVars
  <2> QED
    BY <2>1, BeginAtom, ScanAtom, WriteAtom DEF Handler, Atomic!Next
<1>2. ASSUME StartRun \/ IssueCall
      PROVE  AtomInv' /\ (Atomic!Next \/ UNCHANGED <<scope, Committed, Seen>>)
  BY <1>2, StartAtom, IssueAtom DEF Atomic!Next
<1> QED
  BY <1>1, <1>2, QuietAtom, SendAtom DEF Next, Coordinate, InvokeTool

\* Changes of the working tree happen all at once, and a search or a test run
\* sees the tree of one moment, although Git goes through it file by file.
THEOREM WorkerIsAtomic == Spec => AtomicSpec
<1>1. Init => BaseInv /\ AtomInv /\ Atomic!Init
  BY InitBase, InitAtom
<1>2. BaseInv /\ AtomInv /\ [Next]_vars => (BaseInv /\ AtomInv)' /\ [Atomic!Next]_(Atomic!vars)
  BY BaseStep, AtomStep
<1> QED
  BY <1>1, <1>2, PTL DEF Spec, AtomicSpec, Atomic!Spec
-----------------------------------------------------------------------------
(* Labels.  While calls are made one at a time, a call is alone from the   *)
(* moment it gets the version until it returns.  What searches, test runs  *)
(* and submissions labelled with the current version have read is in the   *)
(* tree still, until a change begins; the call that made the change is the *)
(* one to be received next, and makes a new version of it.                 *)
Looking == {"test", "search", "submit"}

Looked == {c \in mine : kind[c] \in Looking /\ job[c] \in {"scan", "done"}}

\* A change begun or made, which no version stands for yet.
Dirty ==
  \E c \in mine : pc[c] = "sent" /\ kind[c] \in Changing /\ job[c] \in {"write", "done"}

Labelled(c) ==
  /\ label[c] <= version
  /\ label[c] = version /\ ~Dirty => \A f \in DOMAIN got[c] : got[c][f] = tree[f]
  /\ job[c] = "done" => DOMAIN got[c] = scope[c]

Alone ==
  /\ \A c, d \in mine : pc[c] \notin Settled /\ pc[d] \notin Settled => c = d
  /\ \A c \in mine : pc[c] \notin Settled => kind[c] \in Tools
  /\ \A c \in mine : pc[c] \in Settled => job[c] \in {"none"} \cup Answered
  /\ \A c \in mine : pc[c] \in {"recorded", "sent"} => label[c] = version

Named ==
  \A c, d \in {e \in mine : kind[e] \in Looking /\ job[e] = "done"} :
    label[c] = label[d] => \A f \in scope[c] \cap scope[d] : got[c][f] = got[d][f]

LookedRight == \A c \in Looked : Labelled(c)

LabelInv ==
  phase \in {"model", "issue", "tools"} /\ serial => Alone /\ Named /\ LookedRight

LEMMA LabelInit == Init => LabelInv
  BY DEF Init, LabelInv

\* A call that has looked keeps what it has read and its label; one that looks
\* now reads the tree of the current version.
Stays(c) ==
  /\ c \in Looked /\ scope'[c] = scope[c] /\ label'[c] = label[c]
  /\ got'[c] = got[c] /\ job'[c] = job[c]

LEMMA LabelsKept ==
  ASSUME Named, LookedRight, version \in Nat, \A c \in Looked' : label'[c] \in Nat,
         \/ version' = version + 1
         \/ version' = version /\ (Dirty' \/ (~Dirty /\ UNCHANGED tree)),
         \A c \in Looked' :
           \/ Stays(c)
           \/ Labelled(c)' /\ (job'[c] = "done" => label'[c] = version' /\ ~Dirty')
  PROVE  Named' /\ LookedRight'
<1>1. ASSUME NEW c \in Looked' PROVE Labelled(c)'
  <2>1. CASE Stays(c)
    <3>1. Labelled(c)
      BY <2>1 DEF LookedRight, Stays
    <3>2. label'[c] = label[c] /\ label[c] <= version /\ label[c] \in Nat
      BY <1>1, <2>1, <3>1 DEF Stays, Labelled
    <3>3. label'[c] <= version'
      BY <3>2
    <3>4. ASSUME label'[c] = version', ~Dirty'
          PROVE  \A f \in DOMAIN got'[c] : got'[c][f] = tree'[f]
      <4>1. version' = version /\ ~Dirty /\ UNCHANGED tree
        BY <3>2, <3>4
      <4> QED
        BY <2>1, <3>1, <3>2, <3>4, <4>1 DEF Stays, Labelled
    <3>5. job'[c] = "done" => DOMAIN got'[c] = scope'[c]
      BY <2>1, <3>1 DEF Stays, Labelled
    <3> QED
      BY <3>3, <3>4, <3>5 DEF Labelled
  <2> QED
    BY <1>1, <2>1
<1>2. LookedRight'
  BY <1>1 DEF LookedRight
<1>3. ASSUME NEW c \in mine', kind'[c] \in Looking, job'[c] = "done",
             NEW d \in mine', kind'[d] \in Looking, job'[d] = "done",
             label'[c] = label'[d], NEW f \in scope'[c] \cap scope'[d]
      PROVE  got'[c][f] = got'[d][f]
  <2>1. c \in Looked' /\ d \in Looked'
    BY <1>3 DEF Looked
  <2>2. Labelled(c)' /\ Labelled(d)'
    BY <1>1, <2>1
  <2>3. CASE label'[c] = version' /\ ~Dirty'
    BY <1>3, <2>2, <2>3 DEF Labelled
  <2>4. CASE ~(label'[c] = version' /\ ~Dirty')
    <3>1. Stays(c) /\ Stays(d)
      BY <1>3, <2>1, <2>4
    <3>2. /\ c \in mine /\ kind[c] \in Looking /\ job[c] = "done"
          /\ d \in mine /\ kind[d] \in Looking /\ job[d] = "done"
          /\ label[c] = label[d] /\ f \in scope[c] \cap scope[d]
      BY <1>3, <3>1 DEF Stays, Looked
    <3>3. got[c][f] = got[d][f]
      BY <3>2 DEF Named
    <3> QED
      BY <3>1, <3>3 DEF Stays
  <2> QED
    BY <2>3, <2>4
<1>4. Named'
  BY <1>3 DEF Named
<1> QED
  BY <1>2, <1>4

\* Nothing of another run writes, and what writes is a change under way.
LEMMA WriterOfRun ==
  ASSUME BaseInv, FreshInv, Alone, phase \in {"model", "issue", "tools"},
         NEW c \in Calls, c \notin mine \/ pc[c] \in Settled
  PROVE  ~InLock(c)
<1>1. CASE c \notin mine
  BY <1>1 DEF FreshInv, InLock
<1>2. CASE c \in mine /\ pc[c] \in Settled
  BY <1>2 DEF Alone, BaseInv, LockInv, Inside
<1> QED
  BY <1>1, <1>2

\* A handler that is not of the call under way: a read or a submission of an
\* earlier run.
LEMMA OthersLook ==
  ASSUME BaseInv, FreshInv, Alone, phase \in {"model", "issue", "tools"},
         NEW c \in Calls, c \notin mine \/ pc[c] \in Settled, Serve(c)
  PROVE  /\ c \notin mine /\ UNCHANGED <<tree, kind, scope, mine, pc, label, version>>
         /\ \A d \in mine : job'[d] = job[d] /\ got'[d] = got[d]
<1>1. Handler(c) /\ UNCHANGED <<kind, scope, mine, pc, label, version>>
  BY DEF Serve, requestVars, clientVars, contextVars
<1>2. ~InLock(c) /\ job[c] \in {"queued", "scan", "write"}
  BY <1>1, WriterOfRun, HandlerSteps DEF BaseInv, Typed
<1>3. job[c] = "scan" /\ ScanFile(c)
  BY <1>1, <1>2 DEF BaseInv, LockInv, Inside, Handler, BeginScan, BeginChange, RefuseChange,
                    BeginReset, WriteFile
<1>4. c \notin mine
  BY <1>3 DEF Alone
<1>5. UNCHANGED tree /\ \E snapshot : got' = [got EXCEPT ![c] = snapshot]
  BY <1>3 DEF ScanFile
<1>6. \A d \in mine : got'[d] = got[d]
  BY <1>4, <1>5 DEF BaseInv, Typed, TypeOK, ServerTyped
<1> QED
  BY <1>1, <1>4, <1>5, <1>6, HandlerSteps DEF BaseInv, Typed, TypeOK

\* The handler of the call under way.
LEMMA OwnLook ==
  ASSUME BaseInv, BaseInv', AtomInv, Alone, Named, LookedRight,
         phase \in {"model", "issue", "tools"},
         NEW c \in mine, pc[c] \notin Settled, Serve(c)
  PROVE  Named' /\ LookedRight'
<1> USE DEF BaseInv, Typed
<1>1. /\ Handler(c) /\ c \in Calls
      /\ UNCHANGED <<kind, scope, mine, pc, label, version>>
  BY DEF Serve, requestVars, clientVars, contextVars, TypeOK
<1>2. /\ job[c] # "none" /\ job' \in [Calls -> Jobs]
      /\ \A d \in Calls \ {c} : job'[d] = job[d]
  BY <1>1, HandlerSteps
<1>3. pc[c] = "sent" /\ kind[c] \in Tools /\ label[c] = version /\ kind[c] # "reset"
  BY <1>1, <1>2 DEF ClientInv, TypeOK, Alone
<1>4. version \in Nat /\ \A d \in mine : label[d] \in Nat
  BY DEF TypeOK
<1>5. \A d \in Calls \ {c} : got'[d] = got[d]
  <2>1. got' = got \/ \E snapshot : got' = [got EXCEPT ![c] = snapshot]
    BY <1>1 DEF Handler, BeginScan, BeginChange, RefuseChange, BeginReset, ScanFile, WriteFile
  <2> QED
    BY <2>1 DEF ServerTyped
<1>6. mine \subseteq Calls
  BY DEF TypeOK
<1>7. \A d \in Looked' : d # c => Stays(d)
  BY <1>1, <1>2, <1>5, <1>6 DEF Looked, Stays
<1>8. Looked' = {d \in mine : kind[d] \in Looking /\ job'[d] \in {"scan", "done"}}
  BY <1>1 DEF Looked
<1>9. Dirty <=> kind[c] \in Changing /\ job[c] \in {"write", "done"}
  BY <1>3 DEF Dirty, Alone
<1>10. Dirty' <=> kind[c] \in Changing /\ job'[c] \in {"write", "done"}
  BY <1>1, <1>3 DEF Dirty, Alone
<1>11. CASE kind[c] \in Changing
  <2>1. c \notin Looked'
    BY <1>8, <1>11 DEF Looking
  <2>2. Dirty' \/ (~Dirty /\ UNCHANGED tree)
    <3>1. CASE BeginChange(c) \/ RefuseChange(c)
      BY <1>9, <3>1 DEF BeginChange, RefuseChange
    <3>2. CASE WriteFile(c)
      <4>1. job[c] = "write" /\ (Finish(c, "done") \/ UNCHANGED job)
        BY <3>2 DEF WriteFile
      <4>2. job'[c] \in {"write", "done"}
        BY <1>1, <4>1 DEF Finish, ServerTyped, ServerTypeOK
      <4> QED
        BY <1>10, <1>11, <4>2
    <3>3. CASE ScanFile(c)
      BY <1>9, <3>3 DEF ScanFile
    <3> QED
      BY <1>1, <1>11, <3>1, <3>2, <3>3 DEF Handler, BeginScan, BeginReset
  <2> QED
    BY <1>1, <1>4, <1>7, <1>8, <2>1, <2>2, LabelsKept
<1>12. CASE kind[c] \notin Changing
  <2>1. ~Dirty /\ ~Dirty'
    BY <1>9, <1>10, <1>12
  <2>2. CASE BeginScan(c)
    <3>1. UNCHANGED <<tree, got>> /\ job'[c] = "scan" /\ got[c] = Nothing
      BY <1>1, <2>2 DEF BeginScan, AtomInv, ServerTyped, ServerTypeOK
    <3>2. Labelled(c)' /\ job'[c] # "done"
      BY <1>1, <1>3, <1>4, <3>1 DEF Labelled, Nothing
    <3> QED
      BY <1>1, <1>4, <1>7, <1>8, <2>1, <3>1, <3>2, LabelsKept
  <2>3. CASE ScanFile(c)
    <3>1. PICK f \in scope[c] \ DOMAIN got[c] :
            /\ got' = [got EXCEPT ![c] = [g \in DOMAIN got[c] \cup {f} |->
                         IF g = f THEN tree[f] ELSE got[c][g]]]
            /\ IF DOMAIN got[c] \cup {f} = scope[c] THEN Finish(c, "done")
                                                    ELSE UNCHANGED <<job, lock>>
      BY <2>3 DEF ScanFile
    <3>2. job[c] = "scan" /\ UNCHANGED tree
      BY <2>3 DEF ScanFile
    <3>3. /\ DOMAIN got'[c] = DOMAIN got[c] \cup {f}
          /\ \A g \in DOMAIN got'[c] : got'[c][g] = IF g = f THEN tree[f] ELSE got[c][g]
      BY <1>1, <3>1 DEF ServerTyped
    <3>4. job'[c] = "done" => DOMAIN got'[c] = scope[c]
      BY <3>1, <3>2, <3>3
    <3>5. CASE kind[c] \in Looking
      <4>1. c \in Looked
        BY <3>2, <3>5 DEF Looked
      <4>2. \A g \in DOMAIN got[c] : got[c][g] = tree[g]
        BY <1>3, <2>1, <4>1 DEF LookedRight, Labelled
      <4>3. \A g \in DOMAIN got'[c] : got'[c][g] = tree'[g]
        BY <3>2, <3>3, <4>2
      <4>4. Labelled(c)'
        BY <1>1, <1>3, <1>4, <3>4, <4>3 DEF Labelled
      <4> QED
        BY <1>1, <1>3, <1>4, <1>7, <1>8, <2>1, <3>2, <4>4, LabelsKept
    <3>6. CASE kind[c] \notin Looking
      BY <1>1, <1>4, <1>7, <1>8, <2>1, <3>2, <3>6, LabelsKept
    <3> QED
      BY <3>5, <3>6
  <2>4. CASE ~BeginScan(c) /\ ~ScanFile(c)
    BY <1>1, <1>3, <1>12, <2>4
    DEF Handler, BeginChange, RefuseChange, BeginReset, WriteFile, LockInv
  <2> QED
    BY <2>2, <2>3, <2>4
<1> QED
  BY <1>11, <1>12

\* A call that has not reached the Worker moves on.
LEMMA QuietLabels ==
  ASSUME BaseInv, BaseInv', AtomInv, Alone, Named, LookedRight,
         NEW c \in mine, pc[c] \in {"called", "recorded"},
         Announce(c) \/ Exhaust(c) \/ Reject(c)
  PROVE  Alone' /\ Named' /\ LookedRight'
<1> USE DEF BaseInv, Typed
<1>0. mine \subseteq Calls
  BY DEF TypeOK
<1>1. /\ UNCHANGED <<kind, scope, tree, job, got, mine, version>>
      /\ pc'[c] # "sent" /\ job[c] = "none" /\ c \in Calls
      /\ \A d \in mine \ {c} : pc'[d] = pc[d] /\ label'[d] = label[d]
  <2>1. UNCHANGED <<kind, scope, tree, job, got, mine, version>>
    BY DEF Announce, Exhaust, Reject, requestVars, serverVars, contextVars
  <2>2. PICK l \in {"recorded", "returned", "raised"} : pc' = [pc EXCEPT ![c] = l]
    BY DEF Announce, Exhaust, Reject, Goto
  <2>3. label' = label \/ label' = [label EXCEPT ![c] = version]
    BY DEF Announce, Exhaust, Reject
  <2>4. c \in Calls /\ job[c] = "none"
    BY <1>0 DEF ClientInv
  <2> QED
    BY <1>0, <2>1, <2>2, <2>3, <2>4 DEF TypeOK
<1>2. Alone'
  <2>1. pc'[c] \in {"recorded", "returned", "raised"}
    BY <1>1 DEF Announce, Exhaust, Reject, Goto, TypeOK
  <2>2. pc'[c] = "recorded" => label'[c] = version
    BY <1>1 DEF Announce, Exhaust, Reject, Goto, TypeOK
  <2> QED
    BY <1>1, <2>1, <2>2 DEF Alone
<1>3. Looked' = Looked /\ c \notin Looked
  BY <1>1 DEF Looked
<1>4. Dirty' <=> Dirty
  BY <1>1 DEF Dirty
<1>5. \A d \in Looked' : Stays(d)
  BY <1>1, <1>3 DEF Stays, Looked
<1>6. version \in Nat /\ \A d \in Looked' : label'[d] \in Nat
  BY DEF TypeOK, Looked
<1> QED
  BY <1>1, <1>2, <1>4, <1>5, <1>6, LabelsKept

LEMMA SendLabels ==
  ASSUME BaseInv, BaseInv', AtomInv, Alone, Named, LookedRight,
         NEW c \in mine, Send(c)
  PROVE  Alone' /\ Named' /\ LookedRight'
<1> USE DEF BaseInv, Typed
<1>1. /\ UNCHANGED <<kind, scope, mine, version, label>>
      /\ pc[c] = "recorded" /\ job[c] = "none" /\ c \in Calls /\ pc' = [pc EXCEPT ![c] = "sent"]
      /\ Arrive(c, kind[c], scope[c]) /\ kind[c] \in Kinds \ {"none"}
  BY DEF Send, Goto, requestVars, ClientInv, TypeOK
<1>2. /\ job'[c] \in {"queued", "scan", "refused"} /\ \A d \in Calls \ {c} : job'[d] = job[d]
      /\ UNCHANGED <<tree, got>>
  BY <1>1, ArriveLock DEF Arrive
<1>3. pc'[c] = "sent" /\ \A d \in mine \ {c} : pc'[d] = pc[d]
  BY <1>1 DEF TypeOK
<1>4. mine \subseteq Calls
  BY DEF TypeOK
<1>5. Alone'
  BY <1>1, <1>2, <1>3, <1>4 DEF Alone
<1>6. ~Dirty /\ ~Dirty'
  BY <1>1, <1>2, <1>3 DEF Dirty, Alone
<1>7. \A d \in Looked' : d # c => Stays(d)
  BY <1>1, <1>2, <1>4 DEF Stays, Looked
<1>8. Labelled(c)' /\ job'[c] # "done"
  BY <1>1, <1>2 DEF Labelled, AtomInv, Nothing, Alone, TypeOK
<1>9. version \in Nat /\ \A d \in Looked' : label'[d] \in Nat
  BY DEF TypeOK, Looked
<1> QED
  BY <1>1, <1>2, <1>5, <1>6, <1>7, <1>8, <1>9, LabelsKept

\* What the call under way has changed gets a version when it is received.
LEMMA ReceiveLabels ==
  ASSUME BaseInv, BaseInv', Alone, Named, LookedRight, NEW c \in mine, Receive(c)
  PROVE  Alone' /\ Named' /\ LookedRight'
<1> USE DEF BaseInv, Typed
<1>1. /\ UNCHANGED <<kind, scope, tree, job, got, mine, label>> /\ c \in Calls
      /\ pc[c] = "sent" /\ job[c] \in Answered /\ pc' = [pc EXCEPT ![c] = "returned"]
      /\ version' = IF kind[c] \in Changing /\ Succeeded(c) THEN version + 1 ELSE version
  BY DEF Receive, Goto, requestVars, serverVars, TypeOK
<1>2. pc'[c] = "returned" /\ \A d \in mine \ {c} : pc'[d] = pc[d]
  BY <1>1 DEF TypeOK
<1>3. \A d \in mine : pc'[d] \in Settled
  BY <1>1, <1>2 DEF Alone
<1>4. Alone'
  BY <1>1, <1>2, <1>3 DEF Alone
<1>5. \A d \in Looked' : Stays(d)
  BY <1>1 DEF Stays, Looked
<1>6. version \in Nat /\ \A d \in Looked' : label'[d] \in Nat
  BY DEF TypeOK, Looked
<1>7. Dirty => kind[c] \in Changing /\ job[c] = "done"
  BY <1>1 DEF Dirty, Alone
<1>8. Dirty => version' = version + 1
  BY <1>1, <1>7 DEF Succeeded
<1>9. version' = version + 1 \/ (version' = version /\ ~Dirty /\ UNCHANGED tree)
  BY <1>1, <1>6, <1>8
<1> QED
  BY <1>4, <1>5, <1>6, <1>9, LabelsKept

LEMMA LabelStep == BaseInv /\ FreshInv /\ AtomInv /\ LabelInv /\ [Next]_vars => LabelInv'
<1> SUFFICES ASSUME BaseInv, BaseInv', FreshInv, AtomInv, LabelInv, [Next]_vars,
                    phase' \in {"model", "issue", "tools"}, serial'
             PROVE  Alone' /\ Named' /\ LookedRight'
  BY BaseStep DEF LabelInv
<1> USE DEF requestVars, serverVars, clientVars, contextVars, historyVars, BaseInv, Typed, Goto
<1>0. /\ mine \subseteq Calls /\ version \in Nat /\ label \in [Calls -> Nat]
      /\ pc \in [Calls -> Settled \cup {"called", "recorded", "sent"}]
  BY DEF TypeOK
<1>1. CASE StartRun \/ NoStart \/ EndRun
  BY <1>1 DEF StartRun, NoStart, EndRun
<1>2. CASE CleanStart
  <2>1. PICK r \in Calls : mine = {r} /\ kind[r] = "reset" /\ job[r] = "done"
    BY <1>2 DEF CleanStart, ClientInv
  <2>2. mine' = {r} /\ kind'[r] = "reset" /\ job'[r] = "done" /\ pc'[r] = "returned"
    BY <1>0, <1>2, <2>1 DEF CleanStart
  <2> QED
    BY <2>2 DEF Alone, Named, LookedRight, Looked, Looking
<1>3. CASE IssueCall
  <2>1. PICK c \in Calls : c = NewCall /\ pc[c] = "idle"
    BY <1>3, NewCallIdle DEF IssueCall
  <2>2. PICK k \in Tools : Prepare(c, k)
    BY <1>3, <2>1 DEF IssueCall
  <2>3. /\ mine' = mine \cup {c} /\ pc' = [pc EXCEPT ![c] = "called"]
        /\ UNCHANGED <<tree, job, got, label, version>> /\ phase = "model" /\ serial
    BY <1>3, <2>1 DEF IssueCall
  <2>4. job[c] = "none" /\ c \notin mine
    BY <2>1 DEF ClientInv
  <2>5. /\ kind'[c] = k
        /\ \A d \in Calls \ {c} : kind'[d] = kind[d] /\ scope'[d] = scope[d]
    BY <2>1, <2>2, PrepareType
  <2>6. pc'[c] = "called" /\ \A d \in mine : pc'[d] = pc[d] /\ pc[d] \in Settled
    BY <1>0, <2>3, <2>4 DEF ClientInv
  <2>7. Alone /\ Named /\ LookedRight
    BY <2>3 DEF LabelInv
  <2>8. Alone'
    BY <1>0, <2>3, <2>4, <2>5, <2>6, <2>7 DEF Alone
  <2>9. \A d \in Looked' : Stays(d)
    BY <1>0, <2>3, <2>4, <2>5 DEF Looked, Stays
  <2>10. ~Dirty
    BY <2>6 DEF Dirty
  <2>11. \A d \in Looked' : label'[d] \in Nat
    BY DEF TypeOK, Looked
  <2> QED
    BY <1>0, <2>3, <2>7, <2>8, <2>9, <2>10, <2>11, LabelsKept
<1>4. CASE RunTools \/ NextTurn
  <2>1. /\ UNCHANGED <<kind, scope, tree, job, got, mine, pc, label, version, serial>>
        /\ phase \in {"model", "issue", "tools"}
    BY <1>4 DEF RunTools, NextTurn
  <2>2. Alone /\ Named /\ LookedRight
    BY <2>1 DEF LabelInv
  <2>3. Alone' /\ Named'
    BY <2>1, <2>2 DEF Alone, Named
  <2>4. LookedRight'
    BY <2>1, <2>2 DEF LookedRight, Looked, Labelled, Dirty
  <2> QED
    BY <2>3, <2>4
<1>5. ASSUME NEW c \in Calls, Announce(c) \/ Exhaust(c) \/ Reject(c)
      PROVE  Alone' /\ Named' /\ LookedRight'
  <2>1. pc[c] \in {"called", "recorded"} /\ UNCHANGED <<phase, serial>>
    BY <1>5 DEF Announce, Exhaust, Reject
  <2>2. c \in mine
    BY <2>1 DEF ClientInv
  <2> QED
    BY <1>5, <2>1, <2>2, QuietLabels DEF LabelInv
<1>6. ASSUME NEW c \in Calls, Send(c) PROVE Alone' /\ Named' /\ LookedRight'
  <2>1. pc[c] = "recorded" /\ UNCHANGED <<phase, serial>>
    BY <1>6 DEF Send
  <2>2. c \in mine
    BY <2>1 DEF ClientInv
  <2> QED
    BY <1>6, <2>1, <2>2, SendLabels DEF LabelInv
<1>7. ASSUME NEW c \in Calls, Receive(c) PROVE Alone' /\ Named' /\ LookedRight'
  <2>1. pc[c] = "sent" /\ UNCHANGED <<phase, serial>>
    BY <1>7 DEF Receive
  <2>2. c \in mine
    BY <2>1 DEF ClientInv
  <2> QED
    BY <1>7, <2>1, <2>2, ReceiveLabels DEF LabelInv
<1>8. ASSUME NEW c \in Calls, GiveUp(c) PROVE Alone' /\ Named' /\ LookedRight'
  BY <1>8 DEF GiveUp
<1>9. ASSUME NEW c \in Calls, Serve(c) PROVE Alone' /\ Named' /\ LookedRight'
  <2>1. UNCHANGED <<phase, serial, kind, scope, mine, pc, label, version>>
    BY <1>9 DEF Serve
  <2>2. Alone /\ Named /\ LookedRight /\ phase \in {"model", "issue", "tools"}
    BY <2>1 DEF LabelInv
  <2>3. CASE c \notin mine \/ pc[c] \in Settled
    <3>1. /\ c \notin mine /\ UNCHANGED tree
          /\ \A d \in mine : job'[d] = job[d] /\ got'[d] = got[d]
      BY <1>9, <2>2, <2>3, OthersLook
    <3>2. Alone'
      BY <2>1, <2>2, <3>1 DEF Alone
    <3>3. \A d \in Looked' : Stays(d)
      BY <2>1, <3>1 DEF Looked, Stays
    <3>4. Dirty' <=> Dirty
      BY <2>1, <3>1 DEF Dirty
    <3>5. \A d \in Looked' : label'[d] \in Nat
      BY DEF TypeOK, Looked
    <3> QED
      BY <1>0, <2>1, <2>2, <3>1, <3>2, <3>3, <3>4, <3>5, LabelsKept
  <2>4. CASE c \in mine /\ pc[c] \notin Settled
    <3>1. Named' /\ LookedRight'
      BY <1>9, <2>2, <2>4, OwnLook
    <3>2. \A d \in Calls \ {c} : job'[d] = job[d]
      BY <1>9, HandlerSteps DEF Serve
    <3>3. Alone'
      BY <1>0, <2>1, <2>2, <2>4, <3>2 DEF Alone
    <3> QED
      BY <3>1, <3>3
  <2> QED
    BY <2>3, <2>4
<1>10. CASE UNCHANGED vars
  BY <1>10 DEF vars, LabelInv, Alone, Named, LookedRight, Looked, Labelled, Dirty
<1> QED
  BY <1>1, <1>2, <1>3, <1>4, <1>5, <1>6, <1>7, <1>8, <1>9, <1>10
  DEF Next, Coordinate, InvokeTool

\* While calls are made one at a time, the repository version that a call is
\* given as its input names what it works on.
THEOREM LabelsTrue == Spec => []LabelsNameContents
<1> DEFINE IInv == BaseInv /\ FreshInv /\ AtomInv /\ LabelInv
<1>1. Init => IInv
  BY InitBase, FreshInit, InitAtom, LabelInit
<1>2. IInv /\ [Next]_vars => IInv'
  BY BaseStep, FreshStep, AtomStep, LabelStep
<1>3. IInv => LabelsNameContents
  <2> SUFFICES ASSUME BaseInv, LabelInv, phase # "over", serial PROVE LabelsNameContents
    BY DEF LabelsNameContents
  <2>1. CASE phase = "resetting"
    BY <2>1 DEF BaseInv, ClientInv, LabelsNameContents
  <2>2. CASE phase # "resetting"
    BY <2>2 DEF BaseInv, Typed, TypeOK, LabelInv, Named, Looking, LabelsNameContents
  <2> QED
    BY <2>1, <2>2
<1> QED
  BY <1>1, <1>2, <1>3, PTL DEF Spec
============================================================================
