------------------------------ MODULE Transfer ------------------------------
(***************************************************************************)
(* Artifact localisation: the Controller's TransferManager                 *)
(* (execution/transfer.py), the pull handler of the target Worker          *)
(* (worker/service.py, worker/server.py) and the Worker's artifact store   *)
(* (worker/artifact_store.py).                                             *)
(*                                                                         *)
(* A task of `Tasks` is one call of ensure_local.  The Controller is one   *)
(* asyncio loop: a call runs atomically between two awaits, and its pc     *)
(* names the await it is suspended at.  The pull it causes runs in another *)
(* process and is not cancelled when the Controller stops waiting for it.  *)
(***************************************************************************)
EXTENDS Naturals, Sequences

CONSTANTS
  Tasks,          \* calls of ensure_local
  Refs,           \* ArtifactRef objects; several may carry the same id
  Artifacts,      \* artifact ids
  Workers,        \* Worker ids that appear in requests and in locations
  Clients,        \* the Workers the Controller has a client for
  NoWorker,       \* placeholder: no source chosen yet
  ArtifactOf,     \* ArtifactOf[r]: the id of reference r
  InitLocations,  \* InitLocations[r]: the locations r is created with
  InitStore,      \* InitStore[w][a]: what Worker w stores under a at the start
  Faults          \* which faults happen, a subset of FaultKinds

FaultKinds == {"timeout", "crash", "trace"}

(* A stored file is abstracted to whether its size is the declared one.    *)
Contents == {"none", "good", "bad"}

ASSUME TransferAssumption ==
  /\ Clients \subseteq Workers
  /\ NoWorker \notin Workers
  /\ ArtifactOf \in [Refs -> Artifacts]
  /\ InitLocations \in [Refs -> Seq(Workers)]
  /\ \A r \in Refs : \A i, j \in 1..Len(InitLocations[r]) :
        InitLocations[r][i] = InitLocations[r][j] => i = j
  /\ InitStore \in [Workers -> [Artifacts -> Contents]]
  /\ Faults \subseteq FaultKinds

VARIABLES
  arg,        \* arg[t]: the reference and the target Worker of call t
  pc,         \* pc[t]: where call t is suspended, or its result
  ahead,      \* ahead[t]: the calls that got to t's lock before t did
  source,     \* source[t]: the Worker t's pull reads from
  locations,  \* locations[r]: ArtifactRef.locations, in order
  completed,  \* TransferManager._completed
  pull,       \* pull[t]: state of the pull handler serving call t
  body,       \* body[t]: what that handler read from the source
  store       \* store[w][a]: the file Worker w holds under id a

callVars == <<arg, pc, ahead, source>>
refVars == <<locations, completed>>
workerVars == <<pull, body, store>>
vars == <<callVars, refVars, workerVars>>

(* Calls in `Locking` wait for or hold a lock, `Holding` hold one.         *)
Holding == {"start", "pull", "end", "abort"}
Locking == {"wait"} \cup Holding
Results == {"local", "pulled", "failed"}

(* A handler in `Running` still has steps to take on its Worker.           *)
Running == {"lookup", "found", "fetch", "write", "reject"}
PullStates == {"none"} \cup Running \cup {"had", "copied", "error", "dead"}
-----------------------------------------------------------------------------
Artifact(t) == ArtifactOf[arg[t].ref]
Target(t) == arg[t].target

(* The key of _locks and _completed. *)
Key(t) == <<Artifact(t), Target(t)>>

Elements(list) == {list[i] : i \in 1..Len(list)}
LocatedAt(r) == Elements(locations[r])
IsLocal(t) == Target(t) \in LocatedAt(arg[t].ref)

(* `artifact.locations = [*artifact.locations, target]`: read and written  *)
(* without an await in between.                                            *)
Extended(t) == Append(locations[arg[t].ref], Target(t))

\* Bug variant: one lock per reference object instead of one per artifact id.
ContendersBug(t) == {u \in Tasks \ {t} : pc[u] \in Locking /\ arg[u] = arg[t]}

Contenders(t) == {u \in Tasks \ {t} : pc[u] \in Locking /\ Key(u) = Key(t)}

(* The first listed location the Controller has a client for.              *)
HasSource(t) == LocatedAt(arg[t].ref) \cap Clients # {}
IsSource(t, w) ==
  LET loc == locations[arg[t].ref] IN
  \E i \in 1..Len(loc) :
     /\ w = loc[i]
     /\ w \in Clients
     /\ \A j \in 1..Len(loc) : j < i => loc[j] \notin Clients

Goto(t, label) == pc' = [pc EXCEPT ![t] = label]

(* Leaving `async with lock`, normally or by an exception.                 *)
Release(t) == ahead' = [u \in Tasks |-> ahead[u] \ {t}]
Leave(t, result) == Goto(t, result) /\ Release(t)
-----------------------------------------------------------------------------
Init ==
  /\ arg \in [Tasks -> [ref : Refs, target : Workers]]
  /\ pc = [t \in Tasks |-> "idle"]
  /\ ahead = [t \in Tasks |-> {}]
  /\ source = [t \in Tasks |-> NoWorker]
  /\ locations = InitLocations
  /\ completed = {}
  /\ pull = [t \in Tasks |-> "none"]
  /\ body = [t \in Tasks |-> "none"]
  /\ store = InitStore

(* ---- the Controller: ensure_local and _transfer ---- *)

\* Bug variant: the reference of this call does not learn the location.
ReuseCompletedBug(t) ==
  /\ Key(t) \in completed
  /\ Leave(t, "local")
  /\ UNCHANGED <<arg, source, refVars, workerVars>>

(* A call that has the lock finds that an earlier one did the work: for    *)
(* this key, possibly through another reference to the same artifact ...   *)
ReuseCompleted(t) ==
  /\ Key(t) \in completed
  /\ locations' = IF IsLocal(t) THEN locations
                  ELSE [locations EXCEPT ![arg[t].ref] = Extended(t)]
  /\ Leave(t, "local")
  /\ UNCHANGED <<arg, source, completed, workerVars>>

(* ... or for this very reference, in a transfer that then failed.         *)
ReuseLocation(t) ==
  /\ Key(t) \notin completed
  /\ IsLocal(t)
  /\ completed' = completed \cup {Key(t)}
  /\ Leave(t, "local")
  /\ UNCHANGED <<arg, source, locations, workerVars>>

(* Otherwise it transfers: an unknown target or no reachable source is an  *)
(* error, else the call suspends to record artifact.transfer.start.        *)
RejectTransfer(t) ==
  /\ Key(t) \notin completed
  /\ ~IsLocal(t)
  /\ Target(t) \notin Clients \/ ~HasSource(t)
  /\ Leave(t, "failed")
  /\ UNCHANGED <<arg, source, refVars, workerVars>>

\* Bug variant: the location is recorded before the pull is made.
BeginTransferBug(t) ==
  /\ Key(t) \notin completed
  /\ ~IsLocal(t)
  /\ Target(t) \in Clients
  /\ \E w \in Workers : IsSource(t, w) /\ source' = [source EXCEPT ![t] = w]
  /\ locations' = [locations EXCEPT ![arg[t].ref] = Extended(t)]
  /\ Goto(t, "start")
  /\ UNCHANGED <<arg, ahead, completed, workerVars>>

BeginTransfer(t) ==
  /\ Key(t) \notin completed
  /\ ~IsLocal(t)
  /\ Target(t) \in Clients
  /\ \E w \in Workers : IsSource(t, w) /\ source' = [source EXCEPT ![t] = w]
  /\ Goto(t, "start")
  /\ UNCHANGED <<arg, ahead, refVars, workerVars>>

Locked(t) ==
  ReuseCompleted(t) \/ ReuseLocation(t) \/ RejectTransfer(t) \/ BeginTransfer(t)

(* ensure_local up to its first suspension: the fast path, a place in the  *)
(* lock's FIFO queue, or straight into the critical section.               *)
AlreadyLocal(t) ==
  /\ pc[t] = "idle"
  /\ IsLocal(t)
  /\ Goto(t, "local")
  /\ UNCHANGED <<arg, ahead, source, refVars, workerVars>>

AwaitLock(t) ==
  /\ pc[t] = "idle"
  /\ ~IsLocal(t)
  /\ Contenders(t) # {}
  /\ ahead' = [ahead EXCEPT ![t] = Contenders(t)]
  /\ Goto(t, "wait")
  /\ UNCHANGED <<arg, source, refVars, workerVars>>

EnterLock(t) ==
  /\ pc[t] = "idle"
  /\ ~IsLocal(t)
  /\ Contenders(t) = {}
  /\ Locked(t)

EnsureLocal(t) == AlreadyLocal(t) \/ AwaitLock(t) \/ EnterLock(t)

(* A waiter reaches the head of the queue.                                 *)
ResumeLocked(t) ==
  /\ pc[t] = "wait"
  /\ ahead[t] = {}
  /\ Locked(t)

(* artifact.transfer.start is written and the pull request is sent; if the *)
(* trace cannot be written the call fails before asking for anything.      *)
RecordStart(t) ==
  /\ pc[t] = "start"
  /\ \/ /\ Goto(t, "pull")
        /\ pull' = [pull EXCEPT ![t] = "lookup"]
        /\ UNCHANGED ahead
     \/ /\ "trace" \in Faults
        /\ Leave(t, "failed")
        /\ UNCHANGED pull
  /\ UNCHANGED <<arg, source, refVars, body, store>>

(* The target answered that it has the artifact: the location is recorded  *)
(* before artifact.transfer.end is.                                        *)
PullSucceeded(t) ==
  /\ pc[t] = "pull"
  /\ pull[t] \in {"had", "copied"}
  /\ locations' = [locations EXCEPT ![arg[t].ref] = Extended(t)]
  /\ Goto(t, "end")
  /\ UNCHANGED <<arg, ahead, source, completed, workerVars>>

PullFailed(t) ==
  /\ pc[t] = "pull"
  /\ pull[t] \in {"error", "dead"}
  /\ Goto(t, "abort")
  /\ UNCHANGED <<arg, ahead, source, refVars, workerVars>>

\* Bug variant: a request that got no answer is taken for a success.
PullTimedOutBug(t) ==
  /\ "timeout" \in Faults
  /\ pc[t] = "pull"
  /\ locations' = [locations EXCEPT ![arg[t].ref] = Extended(t)]
  /\ Goto(t, "end")
  /\ UNCHANGED <<arg, ahead, source, completed, workerVars>>

(* The client gives up on the request; the handler on the Worker does not. *)
PullTimedOut(t) ==
  /\ "timeout" \in Faults
  /\ pc[t] = "pull"
  /\ Goto(t, "abort")
  /\ UNCHANGED <<arg, ahead, source, refVars, workerVars>>

(* The success event is written and the key is done, or writing it raises  *)
(* inside the try block, and the handler of failures takes over.           *)
RecordEnd(t) ==
  /\ pc[t] = "end"
  /\ \/ /\ completed' = completed \cup {Key(t)}
        /\ Leave(t, IF pull[t] = "had" THEN "local" ELSE "pulled")
     \/ /\ "trace" \in Faults
        /\ Goto(t, "abort")
        /\ UNCHANGED <<ahead, completed>>
  /\ UNCHANGED <<arg, source, locations, workerVars>>

\* Bug variant: an error path that does not release the lock.
RecordAbortBug(t) ==
  /\ pc[t] = "abort"
  /\ Goto(t, "failed")
  /\ UNCHANGED <<arg, ahead, source, refVars, workerVars>>

(* The failure event is written (or fails to be) and the error is raised.  *)
RecordAbort(t) ==
  /\ pc[t] = "abort"
  /\ Leave(t, "failed")
  /\ UNCHANGED <<arg, source, refVars, workerVars>>

(* ---- the target Worker: pull_artifact ---- *)

PullGoto(t, state) == pull' = [pull EXCEPT ![t] = state]
Stored(t) == store[Target(t)][Artifact(t)]
Put(t, content) ==
  store' = [store EXCEPT ![Target(t)][Artifact(t)] = content]

PullLookup(t) ==
  /\ pull[t] = "lookup"
  /\ PullGoto(t, IF Stored(t) = "none" THEN "fetch" ELSE "found")
  /\ UNCHANGED <<callVars, refVars, body, store>>

(* The file seen by exists() is looked at again: it may be gone by now, or *)
(* have a size other than the declared one; both are errors.               *)
PullFound(t) ==
  /\ pull[t] = "found"
  /\ PullGoto(t, IF Stored(t) = "good" THEN "had" ELSE "error")
  /\ UNCHANGED <<callVars, refVars, body, store>>

(* The source's download endpoint streams its file, or answers 404.        *)
PullFetch(t) ==
  /\ pull[t] = "fetch"
  /\ LET content == store[source[t]][Artifact(t)] IN
     /\ PullGoto(t, IF content = "none" THEN "error" ELSE "write")
     /\ body' = [body EXCEPT ![t] = content]
  /\ UNCHANGED <<callVars, refVars, store>>

(* The connection to the source fails; the temporary file is removed.      *)
PullBroken(t) ==
  /\ pull[t] \in {"fetch", "write"}
  /\ PullGoto(t, "error")
  /\ UNCHANGED <<callVars, refVars, body, store>>

\* Bug variant: a wrong size is reported and the file is kept.
PullReplaceBug(t) ==
  /\ pull[t] = "write"
  /\ Put(t, body[t])
  /\ PullGoto(t, IF body[t] = "good" THEN "copied" ELSE "error")
  /\ UNCHANGED <<callVars, refVars, body>>

(* os.replace publishes the file, whatever its size ...                    *)
PullReplace(t) ==
  /\ pull[t] = "write"
  /\ Put(t, body[t])
  /\ PullGoto(t, IF body[t] = "good" THEN "copied" ELSE "reject")
  /\ UNCHANGED <<callVars, refVars, body>>

(* ... and a wrong size is only then found, and the file deleted.          *)
PullReject(t) ==
  /\ pull[t] = "reject"
  /\ Put(t, "none")
  /\ PullGoto(t, "error")
  /\ UNCHANGED <<callVars, refVars, body>>

(* The Worker process dies with its handlers; its files survive.           *)
WorkerCrash(w) ==
  /\ "crash" \in Faults
  /\ \E t \in Tasks : Target(t) = w /\ pull[t] \in Running
  /\ pull' = [t \in Tasks |->
                IF Target(t) = w /\ pull[t] \in Running THEN "dead" ELSE pull[t]]
  /\ UNCHANGED <<callVars, refVars, body, store>>
-----------------------------------------------------------------------------
Controller(t) ==
  \/ EnsureLocal(t)
  \/ ResumeLocked(t)
  \/ RecordStart(t)
  \/ PullSucceeded(t)
  \/ PullFailed(t)
  \/ PullTimedOut(t)
  \/ RecordEnd(t)
  \/ RecordAbort(t)

Handler(t) ==
  \/ PullLookup(t)
  \/ PullFound(t)
  \/ PullFetch(t)
  \/ PullBroken(t)
  \/ PullReplace(t)
  \/ PullReject(t)

Next ==
  \/ \E t \in Tasks : Controller(t) \/ Handler(t)
  \/ \E w \in Workers : WorkerCrash(w)

Spec == Init /\ [][Next]_vars

(* The event loop runs every ready call, and a Worker that is up runs its  *)
(* handlers; the call itself is made at a time of the caller's choosing.   *)
FairSpec ==
  /\ Spec
  /\ \A t \in Tasks : WF_vars(pc[t] # "idle" /\ Controller(t))
  /\ \A t \in Tasks : WF_vars(Handler(t))
-----------------------------------------------------------------------------
TypeOK ==
  /\ arg \in [Tasks -> [ref : Refs, target : Workers]]
  /\ pc \in [Tasks -> {"idle"} \cup Locking \cup Results]
  /\ ahead \in [Tasks -> SUBSET Tasks]
  /\ source \in [Tasks -> Workers \cup {NoWorker}]
  /\ locations \in [Refs -> Seq(Workers)]
  /\ completed \subseteq Artifacts \X Workers
  /\ pull \in [Tasks -> PullStates]
  /\ body \in [Tasks -> Contents]
  /\ store \in [Workers -> [Artifacts -> Contents]]

SameTransfer(t, u) == Artifact(t) = Artifact(u) /\ Target(t) = Target(u)

(* At most one call at a time is inside the transfer of an artifact to a   *)
(* Worker, whichever references the calls use (the lock of _lock_for).     *)
OneTransferAtATime ==
  \A t, u \in Tasks :
    SameTransfer(t, u) /\ pc[t] \in Holding /\ pc[u] \in Holding => t = u

(* However many calls localise an artifact on a Worker, timed-out and      *)
(* failed ones included, at most one of them reports that bytes moved:     *)
(* "have the target pull an artifact once when it is not already local".   *)
BytesMoveOnce ==
  \A t, u \in Tasks :
    SameTransfer(t, u) /\ pc[t] = "pulled" /\ pc[u] = "pulled" => t = u

(* A location the Controller has added to a reference, and a key it has    *)
(* marked completed, stand for a copy of the declared size in that         *)
(* Worker's store, from then on.  With intact sources this holds in spite  *)
(* of pulls that outlive their call.                                       *)
Listed(r) == Elements(InitLocations[r])
LocationSound ==
  /\ \A r \in Refs : \A w \in LocatedAt(r) \ Listed(r) :
        store[w][ArtifactOf[r]] = "good"
  /\ \A k \in completed :
        \/ store[k[2]][k[1]] = "good"
        \/ \E r \in Refs : ArtifactOf[r] = k[1] /\ k[2] \in Listed(r)

(* With sources of any size it holds as long as no handler outlives its    *)
(* call: the lock then covers what the handler does, and the deletion of a *)
(* rejected file never meets a recorded copy.  Otherwise it may: the pull  *)
(* of a call that gave up may delete what a later call recorded.           *)
HandlersAwaited == \A t \in Tasks : pull[t] \in Running => pc[t] = "pull"
LossIsLate == []HandlersAwaited => []LocationSound

(* A call that returned without an error left its target among the         *)
(* locations of the reference it was given, which is what the scheduler    *)
(* and later calls look at.                                                *)
AnswerRecorded ==
  \A t \in Tasks : pc[t] \in {"local", "pulled"} => IsLocal(t)

(* A file of the wrong size that a pull has published is on its way out:   *)
(* some handler is about to delete it.                                     *)
WrongSizeIsTransient ==
  \A w \in Workers, a \in Artifacts :
    store[w][a] = "bad" /\ InitStore[w][a] # "bad" =>
      \E t \in Tasks : Target(t) = w /\ Artifact(t) = a /\ pull[t] = "reject"

(* Every call that has started returns, with a result or an error.         *)
EveryCallReturns ==
  \A t \in Tasks : pc[t] \in Locking ~> pc[t] \in Results

(* What the calls, the references and the stores show outside is the       *)
(* behaviour module Placement allows (for intact sources): a copy is made  *)
(* from a copy, a location recorded where a copy is, a call answered once. *)
IntactCopies == {k \in Artifacts \X Workers : store[k[2]][k[1]] = "good"}
Placed == {p \in Refs \X Workers : p[2] \in LocatedAt(p[1])}
Granted == {g \in Tasks \X Refs \X Workers :
              /\ pc[g[1]] \in {"local", "pulled"}
              /\ arg[g[1]].ref = g[2]
              /\ arg[g[1]].target = g[3]}
Refused == {t \in Tasks : pc[t] = "failed"}

P == INSTANCE Placement WITH copies <- IntactCopies, placed <- Placed,
                             granted <- Granted, refused <- Refused
PlacementSpec == P!Spec

(* Every copy that exists or is listed at the start has the declared size. *)
IntactSources ==
  /\ \A w \in Workers, a \in Artifacts : InitStore[w][a] # "bad"
  /\ \A r \in Refs : \A w \in Listed(r) : InitStore[w][ArtifactOf[r]] = "good"
=============================================================================
