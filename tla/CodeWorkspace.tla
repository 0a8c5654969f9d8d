--------------------------- MODULE CodeWorkspace ---------------------------
(***************************************************************************)
(* A code Worker (code_tasks/server.py): one checked-out repository and    *)
(* the handlers of the requests to it.  Resets, searches, edits, patches   *)
(* and test runs take the Worker's lock, which is first come first served; *)
(* reads and submissions do not.  Git and the tests go through the working *)
(* tree file by file.                                                      *)
(*                                                                         *)
(* A file's content is the call that wrote it last, or "base", "absent" or *)
(* "left", which an earlier use of the Worker left there.  A text matches  *)
(* when the content is the one the caller had in mind.                     *)
(***************************************************************************)
EXTENDS Naturals, Sequences, FiniteSets

CONSTANTS Calls,    \* requests
          Tracked,  \* the files of the base commit
          New       \* files that a patch can create

ASSUME WorkspaceAssumption ==
  /\ Tracked \cap New = {}
  /\ Calls \cap {"base", "absent", "left"} = {}

VARIABLES kind,   \* what each call is
          scope,  \* the files it is about
          basis,  \* the content the caller of a change has in mind
          tree,   \* the content of each file
          lock,   \* the calls that hold the lock (the first) and wait for it
          job,    \* how far the handler of each call is
          todo,   \* the files it has yet to write
          got     \* what it has read, or what the tree was while it writes

requestVars == <<kind, scope, basis>>
serverVars == <<tree, lock, job, todo, got>>

Files == Tracked \cup New
Base == [f \in Files |-> IF f \in Tracked THEN "base" ELSE "absent"]
Nothing == [f \in {} |-> "absent"]

Observing == {"search", "test"}
Changing == {"edit", "patch"}
Kinds == Observing \cup Changing \cup {"reset", "read", "submit", "none"}
Locking == Observing \cup Changing \cup {"reset"}
Answered == {"done", "refused"}

\* What a request of a kind can be about: git grep and git diff know the
\* tracked files only.
Scopes(k) ==
  CASE k \in {"search", "submit"} -> {Tracked}
    [] k \in {"test", "reset"}    -> {Files}
    [] k \in {"edit", "read"}     -> {{f} : f \in Files}
    [] k = "patch"                -> SUBSET Files \ {{}}

\* A submission succeeds when what git diff shows is not empty.
IsPatch(diff) == \E f \in DOMAIN diff : diff[f] # "base"

InitServer ==
  /\ kind = [c \in Calls |-> "none"]
  /\ scope = [c \in Calls |-> {}]
  /\ basis = [c \in Calls |-> Base]
  /\ tree \in {Base, [f \in Files |-> "left"]}
  /\ lock = <<>>
  /\ job = [c \in Calls |-> "none"]
  /\ todo = [c \in Calls |-> {}]
  /\ got = [c \in Calls |-> Nothing]

Holds(c) == lock # <<>> /\ Head(lock) = c
Release == lock' = Tail(lock)

\* The handler answers, and leaves the lock if it is inside.
Finish(c, result) ==
  /\ job' = [job EXCEPT ![c] = result]
  /\ IF Holds(c) THEN Release ELSE UNCHANGED lock

\* Bug: a search or a test run does not take the lock.
ArriveBug(c, k, files) ==
  /\ IF k = "edit" /\ \A f \in files : tree[f] = "absent"
     THEN job' = [job EXCEPT ![c] = "refused"] /\ UNCHANGED lock
     ELSE IF k \in Changing \cup {"reset"}
     THEN job' = [job EXCEPT ![c] = "queued"] /\ lock' = Append(lock, c)
     ELSE job' = [job EXCEPT ![c] = "scan"] /\ UNCHANGED lock
  /\ UNCHANGED <<tree, todo, got>>

\* A request reaches the Worker.  edit_file looks for the file before it asks
\* for the lock.
Arrive(c, k, files) ==
  /\ IF k = "edit" /\ \A f \in files : tree[f] = "absent"
     THEN job' = [job EXCEPT ![c] = "refused"] /\ UNCHANGED lock
     ELSE IF k \in Locking
     THEN job' = [job EXCEPT ![c] = "queued"] /\ lock' = Append(lock, c)
     ELSE job' = [job EXCEPT ![c] = "scan"] /\ UNCHANGED lock
  /\ UNCHANGED <<tree, todo, got>>
-----------------------------------------------------------------------------
(* Handlers.                                                               *)

BeginScan(c) ==
  /\ job[c] = "queued" /\ Holds(c) /\ kind[c] \in Observing
  /\ job' = [job EXCEPT ![c] = "scan"]
  /\ UNCHANGED <<tree, lock, todo, got>>

\* old_text occurs once; git apply --check finds every hunk's context.
Applies(c) == \A f \in scope[c] : tree[f] = basis[c][f]

BeginChange(c) ==
  /\ job[c] = "queued" /\ Holds(c) /\ kind[c] \in Changing
  /\ Applies(c)
  /\ job' = [job EXCEPT ![c] = "write"]
  /\ todo' = [todo EXCEPT ![c] = scope[c]]
  /\ got' = [got EXCEPT ![c] = tree]
  /\ UNCHANGED <<tree, lock>>

\* Bug: the handler of a change that does not apply keeps the lock.
RefuseChangeBug(c) ==
  /\ job[c] = "queued" /\ Holds(c) /\ kind[c] \in Changing
  /\ ~Applies(c)
  /\ job' = [job EXCEPT ![c] = "refused"]
  /\ UNCHANGED <<tree, lock, todo, got>>

RefuseChange(c) ==
  /\ job[c] = "queued" /\ Holds(c) /\ kind[c] \in Changing
  /\ ~Applies(c)
  /\ Finish(c, "refused")
  /\ UNCHANGED <<tree, todo, got>>

\* Bug: git reset without git clean.
BeginResetBug(c) ==
  /\ job[c] = "queued" /\ Holds(c) /\ kind[c] = "reset"
  /\ job' = [job EXCEPT ![c] = "write"]
  /\ todo' = [todo EXCEPT ![c] = Tracked]
  /\ got' = [got EXCEPT ![c] = tree]
  /\ UNCHANGED <<tree, lock>>

BeginReset(c) ==
  /\ job[c] = "queued" /\ Holds(c) /\ kind[c] = "reset"
  /\ job' = [job EXCEPT ![c] = "write"]
  /\ todo' = [todo EXCEPT ![c] = Files]
  /\ got' = [got EXCEPT ![c] = tree]
  /\ UNCHANGED <<tree, lock>>

ScanFile(c) ==
  /\ job[c] = "scan"
  /\ \E f \in scope[c] \ DOMAIN got[c] :
       LET read == DOMAIN got[c] \cup {f} IN
       /\ got' = [got EXCEPT ![c] =
                    [g \in read |-> IF g = f THEN tree[f] ELSE got[c][g]]]
       /\ IF read = scope[c] THEN Finish(c, "done") ELSE UNCHANGED <<job, lock>>
  /\ UNCHANGED <<tree, todo>>

WriteFile(c) ==
  /\ job[c] = "write"
  /\ \E f \in todo[c] :
       /\ tree' = [tree EXCEPT ![f] = IF kind[c] = "reset" THEN Base[f] ELSE c]
       /\ todo' = [todo EXCEPT ![c] = @ \ {f}]
       /\ IF todo[c] = {f}
          THEN Finish(c, "done") /\ got' = [got EXCEPT ![c] = Nothing]
          ELSE UNCHANGED <<job, lock, got>>

Handler(c) ==
  \/ BeginScan(c) \/ BeginChange(c) \/ RefuseChange(c) \/ BeginReset(c)
  \/ ScanFile(c) \/ WriteFile(c)
-----------------------------------------------------------------------------
ServerTypeOK ==
  /\ kind \in [Calls -> Kinds]
  /\ scope \in [Calls -> SUBSET Files]
  /\ basis \in [Calls -> [Files -> Calls \cup {"base", "absent", "left"}]]
  /\ tree \in [Files -> Calls \cup {"base", "absent", "left"}]
  /\ lock \in Seq(Calls)
  /\ job \in [Calls -> {"none", "queued", "scan", "write"} \cup Answered]
  /\ todo \in [Calls -> SUBSET Files]
  /\ \A c \in Calls : DOMAIN got[c] \subseteq Files

\* The tree as the holders of the lock leave it for one another: while one of
\* them writes it is still what it was before.
Committed ==
  IF lock # <<>> /\ job[Head(lock)] = "write" THEN got[Head(lock)] ELSE tree

Atomic == INSTANCE AtomicWorkspace WITH
            asked <- scope,
            tree <- Committed,
            seen <- [c \in Calls |->
                       IF kind[c] \in Observing /\ job[c] = "done" THEN got[c]
                       ELSE Nothing]
AtomicSpec == Atomic!Spec
=============================================================================
