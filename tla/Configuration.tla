---------------------------- MODULE Configuration ----------------------------
(***************************************************************************)
(* The Workflow configuration of one data home: the snapshots under        *)
(* config/snapshots, the binding config/current, the lock                  *)
(* .workflows.lock, and the commands that fetch, publish, activate and     *)
(* read them (internal/configuration, internal/fornaxmirror/sync.go, and   *)
(* the callers in internal/flow, internal/ops, internal/release/install).  *)
(*                                                                         *)
(* A snapshot is <<center, version>>: a commit of the Git main branch or a *)
(* release set of Fornax, later versions being newer.  FANLOOP_CONFIG_     *)
(* SOURCE is unset.  Between its steps a process is at the label pc[p].    *)
(*                                                                         *)
(* An operator named X_Y stands before X and is X with the fault Y.        *)
(***************************************************************************)
EXTENDS Integers

CONSTANTS
    Procs,
    Newest,             \* bound: the last version each center publishes
    MaxFaults,          \* bound: failed steps, kills and edits by hand
    Invalid             \* the snapshots whose packages do not validate

Centers == {"git", "fornax"}
Snapshots == UNION {{center} \X (1..Newest[center]) : center \in Centers}
None == <<"none", 0>>

ASSUME ConfigurationAssumption ==
    /\ Newest \in [Centers -> Nat \ {0}]
    /\ MaxFaults \in Nat
    /\ Invalid \subseteq Snapshots

VARIABLES
    remote,     \* the newest version of each center
    installed,  \* the directories under config/snapshots
    edited,     \* those whose bytes no longer match their configuration.json
    current,    \* what config/current links to
    receipt,    \* cache/fornax-workflows.json: a release set and its bytes
    holds,      \* how each process holds .workflows.lock
    pc, op,     \* where each process is and what it works on
    seen,       \* what current was since an init began
    faults      \* failed steps, kills and edits so far

vars == <<remote, installed, edited, current, receipt, holds, pc, op, seen, faults>>
disk == <<installed, edited, current, receipt>>

NoReceipt == [release |-> 0, edited |-> FALSE]
NoOp == [command |-> "none", center |-> "git", dryRun |-> FALSE,
         snapshot |-> None, previous |-> None, floor |-> 0]

-----------------------------------------------------------------------------
(* Steps of a process *)

At(p, label) == pc[p] = label

Continue(p, label, work) ==
    /\ pc' = [pc EXCEPT ![p] = label]
    /\ op' = [op EXCEPT ![p] = work]

Unlock(p) == holds' = [holds EXCEPT ![p] = "none"]

\* The deferred unlock and the return of the command.
Finish(p) ==
    /\ Continue(p, "idle", NoOp)
    /\ Unlock(p)
    /\ seen' = [seen EXCEPT ![p] = {}]

Fault == faults < MaxFaults /\ faults' = faults + 1
NoFault == UNCHANGED faults

\* An error: what the code undoes is done, the lock is still held.
Fail(p) == Continue(p, "failed", op[p]) /\ UNCHANGED holds

\* flock(2), and the values the later steps are compared with.
Lock(p, mode) ==
    /\ \A q \in Procs \ {p} :
          holds[q] = "none" \/ (mode = "shared" /\ holds[q] = "shared")
    /\ holds' = [holds EXCEPT ![p] = mode]

\* Rename of a new link over config/current.
Rebind(snapshot) ==
    /\ current' = snapshot
    /\ seen' = [q \in Procs |->
                    IF op[q].command = "init" THEN seen[q] \cup {snapshot} ELSE {}]

KeepBinding == UNCHANGED <<current, seen>>

\* configuration.Read succeeds.
Readable(snapshot) == snapshot \in installed \ edited

Begin(p, label, work) ==
    /\ At(p, "idle")
    /\ Continue(p, label, work)
    /\ seen' = [seen EXCEPT ![p] = IF work.command = "init" THEN {current} ELSE {}]
    /\ UNCHANGED <<remote, disk, holds, faults>>

-----------------------------------------------------------------------------
(* The commands *)

\* flow init: a fetch of the Git center, the released Fornax snapshot, or
\* with FANLOOP_NO_AUTO_CONFIG the installed snapshot.
InitBegin(p) ==
    LET work == [NoOp EXCEPT !.command = "init"] IN
    \/ Begin(p, "readlink", work)
    \/ \E dryRun \in BOOLEAN :
           \/ Begin(p, "fetch", [work EXCEPT !.dryRun = dryRun])
           \/ Begin(p, "readlink", [work EXCEPT !.dryRun = dryRun, !.center = "fornax"])

SyncBegin_Unlocked(p) == Begin(p, "fetch", [NoOp EXCEPT !.command = "sync"])
SyncBegin(p) ==
    \E center \in Centers :
        Begin(p, "lock", [NoOp EXCEPT !.command = "sync", !.center = center])

InstallBegin(p) == Begin(p, "lock", [NoOp EXCEPT !.command = "install"])
ReadBegin(p) == Begin(p, "lock", [NoOp EXCEPT !.command = "read"])
DriftBegin(p) == Begin(p, "lock", [NoOp EXCEPT !.command = "drift"])
RebindBegin(p) == Begin(p, "lock", [NoOp EXCEPT !.command = "rebind"])

Mode_Shared(command) == "shared"
Mode(command) ==
    IF command \in {"init", "sync", "install"} THEN "exclusive" ELSE "shared"

\* The step after LockConfiguration.  An init of the Fornax center takes this
\* lock for the sync inside CurrentRoot.
AfterLock(work) ==
    CASE work.command = "init" -> IF work.center = "fornax" THEN "discover" ELSE "publish"
      [] work.command = "sync" -> IF work.center = "fornax" THEN "discover" ELSE "probe"
      [] work.command = "drift" -> "probe"
      [] work.command = "install" -> "select"
      [] OTHER -> "open"

LockBinding(p) ==
    /\ At(p, "lock")
    /\ Lock(p, Mode(op[p].command))
    /\ Continue(p, AfterLock(op[p]),
                [op[p] EXCEPT
                    !.previous = IF Mode(op[p].command) = "exclusive" THEN current ELSE None,
                    !.floor = IF op[p].command \in {"sync", "drift"}
                              THEN remote[op[p].center] ELSE 0])
    /\ UNCHANGED <<remote, disk, seen, faults>>

\* remoteCommit: the sync returns at once if the active commit is the remote's.
IsActive_AnyCommit(snapshot) == current[1] = snapshot[1]
IsActive(snapshot) == current = snapshot /\ Readable(current)

SyncProbe(p) ==
    /\ At(p, "probe") /\ op[p].command = "sync"
    /\ \/ /\ LET head == <<"git", remote.git>> IN
             IF IsActive(head)
             THEN Continue(p, "return", [op[p] EXCEPT !.snapshot = head])
             ELSE Continue(p, "fetch", op[p])
          /\ UNCHANGED holds
          /\ NoFault
       \/ Fail(p) /\ Fault
    /\ UNCHANGED <<remote, disk, seen>>

\* checkout and inspect.  Of an init the lock is not held yet, and a failed
\* fetch falls back to the installed snapshot, which a failed inspect does not;
\* there a dry run is like any other.
Fetched_Unvalidated(snapshot) == TRUE
Fetched(snapshot) == snapshot \notin Invalid

AfterFetch(work) ==
    IF work.command = "sync" THEN "publish"
    ELSE IF work.dryRun THEN "consume" ELSE "lock"

Fetch(p) ==
    LET candidate == <<"git", remote.git>> IN
    /\ At(p, "fetch")
    /\ \/ /\ Fetched(candidate)
          /\ Continue(p, AfterFetch(op[p]), [op[p] EXCEPT !.snapshot = candidate])
          /\ UNCHANGED holds
          /\ NoFault
       \/ ~ Fetched(candidate) /\ Fail(p) /\ NoFault
       \/ op[p].command = "sync" /\ Fail(p) /\ Fault
       \/ /\ op[p].command = "init"
          /\ Continue(p, "readlink", [op[p] EXCEPT !.dryRun = FALSE])
          /\ UNCHANGED holds
          /\ Fault
    /\ UNCHANGED <<remote, disk, seen>>

AfterPublish(work) == IF work.command = "install" THEN "verify" ELSE "activate"

\* publish: reuse the directory of that name if it still matches, else
\* stage the files, Read them and rename the stage.
Publish(p) ==
    LET snapshot == op[p].snapshot IN
    /\ At(p, "publish")
    /\ \/ /\ snapshot \in installed => Readable(snapshot)
          /\ installed' = installed \cup {snapshot}
          /\ Continue(p, AfterPublish(op[p]), op[p])
          /\ UNCHANGED holds
          /\ NoFault
       \/ snapshot \in edited /\ Fail(p) /\ NoFault /\ UNCHANGED installed
       \/ Fail(p) /\ Fault /\ UNCHANGED installed
    /\ UNCHANGED <<remote, edited, current, receipt, seen>>

AfterActivate(work) ==
    IF work.center = "fornax" THEN "receipt"
    ELSE CASE work.command = "install" -> "release"
           [] work.command = "sync" -> "return"
           [] OTHER -> "consume"

\* Activate, atomicSymlink of the binding.  A failed rename changes nothing, and restoring what was is no change.
Activate(p) ==
    /\ At(p, "activate")
    /\ \/ /\ Rebind(op[p].snapshot)
          /\ Continue(p, AfterActivate(op[p]), op[p])
          /\ UNCHANGED holds
          /\ NoFault
       \/ KeepBinding /\ Fail(p) /\ Fault
    /\ UNCHANGED <<remote, installed, edited, receipt>>

\* alreadyCurrent, or download and validation of the discovered release set.
AlreadyCurrent(release) ==
    /\ receipt.release = release
    /\ current = <<"fornax", release>>
    /\ receipt.edited = (current \in edited)

AfterFornaxSync(p, work) ==
    IF work.command = "init"
    THEN Continue(p, "relink", work) /\ Unlock(p)
    ELSE Continue(p, "return", work) /\ UNCHANGED holds

Discover(p) ==
    LET candidate == <<"fornax", remote.fornax>>
        work == [op[p] EXCEPT !.snapshot = candidate] IN
    /\ At(p, "discover")
    /\ \/ AlreadyCurrent(remote.fornax) /\ AfterFornaxSync(p, work) /\ NoFault
       \/ /\ ~ AlreadyCurrent(remote.fornax) /\ Fetched(candidate)
          /\ Continue(p, "publish", work)
          /\ UNCHANGED holds
          /\ NoFault
       \/ ~ AlreadyCurrent(remote.fornax) /\ ~ Fetched(candidate) /\ Fail(p) /\ NoFault
       \/ Fail(p) /\ Fault
    /\ UNCHANGED <<remote, disk, seen>>

\* The binding is put back if the step after the activation fails.  That this
\* fails too, an error the code ignores, is left out here (see Mirror!PutBack).
Restore_Forgotten(previous, orRemove) == KeepBinding
Restore(previous, orRemove) ==
    IF previous # None \/ orRemove THEN Rebind(previous) ELSE KeepBinding

\* treeIdentity and commitReceipt.  With no previous binding nothing is undone.
CommitReceipt(p) ==
    LET snapshot == op[p].snapshot IN
    /\ At(p, "receipt")
    /\ \/ /\ receipt' = [release |-> snapshot[2], edited |-> snapshot \in edited]
          /\ AfterFornaxSync(p, op[p])
          /\ KeepBinding
          /\ NoFault
       \/ Restore(op[p].previous, FALSE) /\ Fail(p) /\ Fault /\ UNCHANGED receipt
    /\ UNCHANGED <<remote, installed, edited>>

\* Run: the configuration of an installation is imported from a clean commit
\* or is the active one, if there is one.
SelectConfiguration(p) ==
    /\ At(p, "select")
    /\ \/ \E version \in 1..remote.git :
             IF Fetched(<<"git", version>>)
             THEN /\ Continue(p, "publish", [op[p] EXCEPT !.snapshot = <<"git", version>>])
                  /\ UNCHANGED holds
             ELSE Fail(p)
       \/ /\ Continue(p, IF current = None THEN "release" ELSE "verify",
                      [op[p] EXCEPT !.snapshot = current])
          /\ UNCHANGED holds
    /\ UNCHANGED <<remote, disk, seen, faults>>

\* activateInstallation after the binding: ensureCurrent switches the release.
SwitchRelease(p) ==
    /\ At(p, "release")
    /\ \/ Continue(p, "return", op[p]) /\ UNCHANGED holds /\ KeepBinding /\ NoFault
       \/ /\ Restore(op[p].previous, TRUE)
          /\ Fail(p)
          /\ Fault
    /\ UNCHANGED <<remote, installed, edited, receipt>>

\* installedSnapshot and CurrentRoot read the link before they take the lock.
InstalledTargets == {current} \ {None}

ReadLink(p) ==
    /\ pc[p] \in {"readlink", "relink"}
    /\ \/ \E target \in InstalledTargets :
             Continue(p, "share", [op[p] EXCEPT !.snapshot = target, !.dryRun = FALSE])
       \/ /\ current = None /\ At(p, "readlink") /\ op[p].center = "fornax"
          /\ Continue(p, IF op[p].dryRun THEN "failed" ELSE "lock", op[p])
       \/ /\ current = None /\ (At(p, "relink") \/ op[p].center = "git")
          /\ Continue(p, "failed", op[p])
    /\ UNCHANGED <<remote, disk, holds, seen, faults>>

ShareBinding(p) ==
    /\ At(p, "share")
    /\ Lock(p, "shared")
    /\ Continue(p, "verify", op[p])
    /\ UNCHANGED <<remote, disk, seen, faults>>

\* PrepareCurrent, and ConfigRebind, which may name an installed snapshot.
Open(p) ==
    /\ At(p, "open")
    /\ \/ /\ current = None
          /\ Fail(p)
       \/ \E target \in ({current} \ {None}) \cup
                        IF op[p].command = "rebind" THEN installed ELSE {} :
             Continue(p, "verify", [op[p] EXCEPT !.snapshot = target]) /\ UNCHANGED holds
    /\ UNCHANGED <<remote, disk, seen, faults>>

Verify(p) ==
    /\ At(p, "verify")
    /\ IF Readable(op[p].snapshot)
       THEN /\ Continue(p, IF op[p].command = "install" THEN "activate" ELSE "consume", op[p])
            /\ UNCHANGED holds
       ELSE Fail(p)
    /\ UNCHANGED <<remote, disk, seen, faults>>

\* Drift: the remote commit first, None if unknown; then the bytes.
DriftProbe(p) ==
    /\ At(p, "probe") /\ op[p].command = "drift"
    /\ \/ current = None /\ Fail(p) /\ NoFault
       \/ /\ current # None
          /\ Continue(p, "compare", [op[p] EXCEPT !.snapshot = <<"git", remote.git>>])
          /\ UNCHANGED holds
          /\ NoFault
       \/ /\ current # None
          /\ Continue(p, "compare", op[p])
          /\ UNCHANGED holds
          /\ Fault
    /\ UNCHANGED <<remote, disk, seen>>

DriftStatus(found) ==
    IF current[1] = "fornax" THEN "local_behind"
    ELSE CASE current \in edited -> "local_modified"
           [] current \notin edited /\ found = None -> "unavailable"
           [] current \notin edited /\ found # None ->
                IF found = current THEN "in_sync" ELSE "local_behind"

Compare(p) ==
    /\ At(p, "compare")
    /\ Continue(p, DriftStatus(op[p].snapshot), op[p])
    /\ UNCHANGED <<remote, disk, holds, seen, faults>>

\* A command ends after its readers are done with the snapshot, whatever it
\* reports; so do its locks.
DriftStatuses == {"in_sync", "local_behind", "local_modified", "unavailable"}
Ends_NotOnError == {"consume", "return"} \cup DriftStatuses
Ends == {"consume", "return", "failed"} \cup DriftStatuses

End(p) ==
    /\ pc[p] \in Ends
    /\ Finish(p)
    /\ UNCHANGED <<remote, disk, faults>>

-----------------------------------------------------------------------------
(* The rest of the world *)

\* A kill closes the descriptors, and so releases the lock.
Kill(p) ==
    /\ pc[p] # "idle"
    /\ Finish(p)
    /\ Fault
    /\ UNCHANGED <<remote, disk>>

PublishVersion(center) ==
    /\ remote[center] < Newest[center]
    /\ remote' = [remote EXCEPT ![center] = @ + 1]
    /\ UNCHANGED <<disk, holds, pc, op, seen, faults>>

EditByHand(snapshot) ==
    /\ Readable(snapshot)
    /\ edited' = edited \cup {snapshot}
    /\ Fault
    /\ UNCHANGED <<remote, installed, current, receipt, holds, pc, op, seen>>

-----------------------------------------------------------------------------
Init ==
    /\ remote = [center \in Centers |-> 1]
    /\ installed = {} /\ edited = {} /\ current = None /\ receipt = NoReceipt
    /\ holds = [p \in Procs |-> "none"]
    /\ pc = [p \in Procs |-> "idle"]
    /\ op = [p \in Procs |-> NoOp]
    /\ seen = [p \in Procs |-> {}]
    /\ faults = 0

Start(p) ==
    \/ InitBegin(p) \/ SyncBegin(p) \/ InstallBegin(p)
    \/ ReadBegin(p) \/ DriftBegin(p) \/ RebindBegin(p)

Step(p) ==
    \/ LockBinding(p) \/ SyncProbe(p) \/ Fetch(p) \/ Publish(p) \/ Activate(p)
    \/ Discover(p) \/ CommitReceipt(p) \/ SelectConfiguration(p) \/ SwitchRelease(p)
    \/ ReadLink(p) \/ ShareBinding(p) \/ Open(p) \/ Verify(p)
    \/ DriftProbe(p) \/ Compare(p) \/ End(p)

World ==
    \/ \E center \in Centers : PublishVersion(center)
    \/ \E snapshot \in installed : EditByHand(snapshot)

Next == (\E p \in Procs : Start(p) \/ Step(p) \/ Kill(p)) \/ World

\* A process that runs takes its next step: the calls of Git have deadlines,
\* those of fornax-cli are assumed to end.
Fairness == \A p \in Procs : WF_vars(Step(p))

Spec == Init /\ [][Next]_vars /\ Fairness

-----------------------------------------------------------------------------
(* Properties *)

Labels == {"idle", "lock", "probe", "fetch", "publish", "activate", "discover", "receipt",
           "select", "release", "readlink", "relink", "share", "open", "verify", "compare"}
          \cup Ends
Ops == [command: {"none", "init", "sync", "install", "read", "drift", "rebind"},
        center: Centers, dryRun: BOOLEAN, snapshot: Snapshots \cup {None},
        previous: Snapshots \cup {None}, floor: Nat]

\* Every variable has its type, and a command that has returned, or was
\* killed, holds no lock.
TypeOK ==
    /\ \A center \in Centers : remote[center] \in 1..Newest[center]
    /\ DOMAIN remote = Centers
    /\ installed \subseteq Snapshots
    /\ edited \subseteq installed
    /\ current \in Snapshots \cup {None}
    /\ receipt \in [release: Nat, edited: BOOLEAN]
    /\ holds \in [Procs -> {"none", "shared", "exclusive"}]
    /\ pc \in [Procs -> Labels]
    /\ op \in [Procs -> Ops]
    /\ seen \in [Procs -> SUBSET (Snapshots \cup {None})]
    /\ faults \in 0..MaxFaults
    /\ \A p \in Procs : At(p, "idle") => op[p] = NoOp /\ holds[p] = "none"

\* config/current never dangles and never selects packages that do not
\* validate: Activate is called after all validation, whatever is killed.
CurrentIsValid == current # None => current \in installed \ Invalid

\* PrepareCurrent keeps repeated loaders on one binding for the whole
\* operation, and Prepare keeps it until Init has consumed the tree; the
\* snapshot an init pins a Requirement to was active at some time while that
\* init ran, even if its link was read before the lock was taken.
OneBinding ==
    \A p \in Procs :
        At(p, "consume") =>
            /\ op[p].command = "read" \/ holds[p] = "exclusive" => current = op[p].snapshot
            /\ op[p].command = "init" /\ holds[p] # "none" => op[p].snapshot \in seen[p]

\* A sync that returns, updated or unchanged, and a drift of in_sync speak of
\* the active snapshot, and it is at least as new as the center was when the
\* lock was taken.
ReportsTheActiveVersion ==
    \A p \in Procs :
        \/ At(p, "return") /\ op[p].command = "sync"
        \/ At(p, "in_sync")
        => /\ current = op[p].snapshot
           /\ current[1] = op[p].center
           /\ current[2] >= op[p].floor

\* A command that fails with the lock held leaves config/current as it found
\* it, but for a Fornax sync that found none.  Of a restore that fails too it
\* says nothing.
FailureKeepsTheBinding ==
    \A p \in Procs :
        At(p, "failed") /\ holds[p] = "exclusive" =>
            \/ current = op[p].previous
            \/ op[p].previous = None /\ op[p].center = "fornax"

\* A sync never replaces a commit by an older one, because it takes the lock
\* before it asks the remote.
SyncNeverGoesBack ==
    [][\A p \in Procs :
          /\ At(p, "activate") /\ pc'[p] # "activate"
          /\ op[p].command = "sync" /\ current # current'
          /\ current[1] = current'[1]
          => current[2] <= current'[2]]_vars

\* Whoever takes the lock releases it, on every error path too.
LockIsReleased ==
    \A p \in Procs : holds[p] # "none" ~> holds[p] = "none"
=============================================================================
