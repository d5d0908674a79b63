------------------------------- MODULE Release -------------------------------
(***************************************************************************)
(* The CLI of one data home: the release trees in releases/, the name      *)
(* `current` that selects one of them, and the links to the public Skills. *)
(* The commands are `fanloop update`, the refresh of a fresh `flow init`,  *)
(* the installer of a native build (__install), the postinstall of the npm *)
(* package, and the activation that it asks for (__activate-current).      *)
(*   internal/distribution, internal/release/install,                      *)
(*   internal/release/currentlayout, packaging/npm                         *)
(*                                                                         *)
(* `current` is a directory of links after a native installation and one   *)
(* symlink after a distribution; the first update turns the one into the   *)
(* other and keeps the directory.  Only the moves of `current` are under   *)
(* releases/.current.lock: an update puts trees and links in place without *)
(* it, an installation holds it (and the configuration lock) throughout,   *)
(* and npm replaces a symlink `current` without it.                        *)
(***************************************************************************)
EXTENDS Naturals, Sequences, FiniteSets

CONSTANTS
    Procs, NoProc,
    MaxVersion,         \* releases are 1..MaxVersion, published in this order
    Exposed,            \* links to the Skills that releases expose now
    Retired,            \* links to the Skills that only release 1 exposed
    MaxCommands,        \* bound: commands that are started
    MaxFaults           \* bound: steps that fail, and kills

ASSUME ReleaseAssumption ==
    /\ NoProc \notin Procs
    /\ MaxVersion \in Nat \ {0}
    /\ IsFiniteSet(Exposed) /\ IsFiniteSet(Retired) /\ Exposed \cap Retired = {}
    /\ MaxCommands \in Nat /\ MaxFaults \in Nat

VARIABLES
    tree,               \* what releases/<version> holds
    current,            \* what `current` is and which release it selects
    retained,           \* the directories kept as current.backup-*
    links,              \* the Skill links that exist
    published,          \* the latest GitHub Release
    lock,               \* who holds .workflows.lock and releases/.current.lock
    pc, job,
    commands, faults,   \* counted against the bounds
    torn,               \* trees moved away by a killed process, and releases that
                        \* npm selected while they were being removed
    alone, before       \* the process that met no other, and what it met

files == <<tree, current, retained, links>>
seen == <<torn, alone, before>>
others == <<published, commands, seen>>
vars == <<files, published, lock, pc, job, commands, faults, seen>>

Versions == 1..MaxVersion

\* Bytes of a tree: of the published archive, of a native build, or neither.
Absent == "absent"
Contents == {"published", "native", "damaged"}

Layouts == [kind : {"link", "dir"}, version : Versions]
NoLayout == [kind |-> "missing", version |-> 0]

NoJob == [command |-> "none", version |-> 0, content |-> Absent, replace |-> FALSE,
          managed |-> FALSE, placed |-> FALSE, backup |-> Absent, todo |-> {},
          created |-> {}, obsolete |-> {}, removed |-> {}, result |-> "none"]

-----------------------------------------------------------------------------
(* Processes *)

At(p, label) == pc[p] = label

Goto(p, label, work) ==
    /\ pc' = [pc EXCEPT ![p] = label]
    /\ job' = [job EXCEPT ![p] = work]

Continue(p, label, work) == Goto(p, label, work) /\ UNCHANGED lock

Fault == faults < MaxFaults /\ faults' = faults + 1

Released(p, names) ==
    [l \in DOMAIN lock |-> IF l \in names /\ lock[l] = p THEN NoProc ELSE lock[l]]

Return_KeepsTheLocks(p, result) ==
    /\ Goto(p, "idle", [NoJob EXCEPT !.command = job[p].command, !.version = job[p].version,
                                     !.content = job[p].content, !.result = result])
    /\ UNCHANGED lock

\* A command returns: its deferred unlocks run, and only its result is left.
Return(p, result) ==
    /\ Goto(p, "idle", [NoJob EXCEPT !.command = job[p].command, !.version = job[p].version,
                                     !.content = job[p].content, !.result = result])
    /\ lock' = Released(p, DOMAIN lock)

Begin(p, label, work) ==
    /\ At(p, "idle")
    /\ commands < MaxCommands
    /\ commands' = commands + 1
    /\ alone' = IF \A q \in Procs : At(q, "idle") THEN p ELSE NoProc
    /\ before' = [tree |-> tree, current |-> current, links |-> links]
    /\ Continue(p, label, work)
    /\ UNCHANGED <<files, published, faults, torn>>

Take(p, name) == lock[name] = NoProc /\ lock' = [lock EXCEPT ![name] = p]

\* currentlayout.Inspect: a directory must select a release that is there, a
\* symlink need not.
Inspectable == current.kind = "dir" => tree[current.version] # Absent

Fail_KeepsTheTree(p) ==
    links' = links \ job[p].created /\ Return(p, "failed")

Fail_Locked(p) ==
    /\ links' = links \ job[p].created
    /\ IF job[p].backup = Absent THEN Return(p, "failed")
       ELSE Continue(p, "restore", job[p])

\* The last steps of an update run after its tree is in place: when one fails
\* the links it created are removed, and the release it replaced is restored.
Fail(p) ==
    /\ links' = links \ job[p].created
    /\ IF job[p].backup = Absent THEN Return(p, "failed")
       ELSE /\ Goto(p, "restore", job[p])
            /\ lock' = Released(p, {"current"})

-----------------------------------------------------------------------------
(* fanloop update *)

StartUpdate(p) ==
    Begin(p, "inspect", [NoJob EXCEPT !.command = "update", !.content = "published"])

\* AutoUpdate: only an installation that is a symlink is refreshed.
StartAuto(p) ==
    /\ current.kind = "link"
    /\ Begin(p, "auto", [NoJob EXCEPT !.command = "auto", !.content = "published",
                                      !.version = current.version])

AutoProbe(p) ==
    /\ At(p, "auto")
    /\ \/ /\ IF job[p].version >= published THEN Return(p, "kept")
             ELSE Continue(p, "inspect", job[p])
          /\ UNCHANGED faults
       \/ Fault /\ Return(p, "failed")
    /\ UNCHANGED <<files, others>>

\* The configuration is to be synchronized before a directory is migrated.
InspectCurrent(p) ==
    /\ At(p, "inspect")
    /\ IF Inspectable
       THEN Continue(p, "probe", [job[p] EXCEPT !.managed = /\ current.kind = "dir"
                                                           /\ job[p].command = "update"])
       ELSE Return(p, "failed")
    /\ UNCHANGED <<files, others, faults>>

Probe(p) ==
    /\ At(p, "probe")
    /\ \/ Continue(p, "compare", [job[p] EXCEPT !.version = published]) /\ UNCHANGED faults
       \/ Fault /\ Return(p, "failed")
    /\ UNCHANGED <<files, others>>

\* An installed release that is newer than the latest one is kept.
Compare(p) ==
    /\ At(p, "compare")
    /\ IF ~Inspectable THEN Return(p, "failed")
       ELSE IF current.version > job[p].version THEN Return(p, "kept")
       ELSE Continue(p, "download", job[p])
    /\ UNCHANGED <<files, others, faults>>

InstalledTree_Any(v, content) == tree[v] # Absent

\* treesMatch: an update leaves a tree that has the archive's very bytes.
InstalledTree(v, content) == tree[v] = content

\* The archive is downloaded, verified against checksums.txt and release.json
\* and unpacked in a staging directory; then installArchive looks at the tree.
Download(p) ==
    LET v == job[p].version IN
    /\ At(p, "download")
    /\ \/ /\ IF InstalledTree(v, job[p].content)
             THEN Continue(p, "ensure", [job[p] EXCEPT !.todo = Exposed])
             ELSE Continue(p, IF tree[v] = Absent THEN "put" ELSE "aside", job[p])
          /\ UNCHANGED faults
       \/ Fault /\ Return(p, "failed")
    /\ UNCHANGED <<files, others>>

\* The two renames by which an update or an installation replaces a tree: the
\* old one to a backup, the staged one to its place.
MoveAside(p) ==
    LET v == job[p].version IN
    /\ At(p, "aside")
    /\ \/ /\ tree[v] # Absent
          /\ tree' = [tree EXCEPT ![v] = Absent]
          /\ Continue(p, "put", [job[p] EXCEPT !.backup = tree[v]])
          /\ UNCHANGED faults
       \/ /\ IF tree[v] = Absent THEN UNCHANGED faults ELSE Fault
          /\ Return(p, "failed")
          /\ UNCHANGED tree
    /\ UNCHANGED <<current, retained, links, others>>

Placed(p) ==
    [job[p] EXCEPT !.placed = TRUE,
                   !.todo = IF job[p].command = "install" THEN @ ELSE Exposed]

AfterPut(p) == IF job[p].command = "install" THEN "create" ELSE "ensure"

\* A rename does not replace a directory that another command has put there.
\* When it fails the backup is renamed back, which fails for the same reason.
PutTree(p) ==
    LET v == job[p].version IN
    /\ At(p, "put")
    /\ \/ /\ tree[v] = Absent
          /\ tree' = [tree EXCEPT ![v] = job[p].content]
          /\ Continue(p, AfterPut(p), Placed(p))
          /\ UNCHANGED faults
       \/ /\ IF tree[v] = Absent
             THEN Fault /\ tree' = [tree EXCEPT ![v] = job[p].backup]
             ELSE UNCHANGED <<tree, faults>>
          /\ Return(p, "failed")
    /\ UNCHANGED <<current, retained, links, others>>

AfterLinks(p) ==
    IF job[p].command = "npm" THEN "select" ELSE IF job[p].managed THEN "sync" ELSE "check"

\* ensureSkillLinks, one link after the other.
EnsureLink(p) ==
    LET link == CHOOSE l \in job[p].todo : TRUE
        rest == [job[p] EXCEPT !.todo = @ \ {link}]
    IN
    /\ At(p, "ensure")
    /\ IF job[p].todo = {}
       THEN /\ Continue(p, AfterLinks(p), job[p])
            /\ UNCHANGED <<links, faults>>
       ELSE \/ /\ links' = links \cup {link}
               /\ Continue(p, "ensure", IF link \in links THEN rest
                                        ELSE [rest EXCEPT !.created = @ \cup {link}])
               /\ UNCHANGED faults
            \/ link \notin links /\ Fault /\ Fail(p)
    /\ UNCHANGED <<tree, current, retained, others>>

\* BeforeActivate: the staged binary synchronizes the configuration, under the
\* configuration lock of its own process.
SyncConfiguration(p) ==
    /\ At(p, "sync") /\ lock["config"] = NoProc
    /\ \/ Continue(p, "check", job[p]) /\ UNCHANGED <<links, faults>>
       \/ Fault /\ Fail(p)
    /\ UNCHANGED <<tree, current, retained, others>>

-----------------------------------------------------------------------------
(* currentlayout.Switch, also on its own as __activate-current *)

StartActivate(p, version) ==
    Begin(p, "check", [NoJob EXCEPT !.command = "activate", !.version = version])

Switchable(p) == tree[job[p].version] # Absent /\ Inspectable

CheckSwitch(p) ==
    /\ At(p, "check")
    /\ IF Switchable(p)
       THEN Continue(p, "switch", [job[p] EXCEPT !.managed = current.kind = "dir"])
            /\ UNCHANGED links
       ELSE Fail(p)
    /\ UNCHANGED <<tree, current, retained, others, faults>>

\* The binary that npm has spawned ends; npm itself goes on.
Conclude(p) ==
    IF job[p].command = "npm"
    THEN Goto(p, "confirm", job[p]) /\ lock' = Released(p, {"current"})
    ELSE Return(p, "done")

LockSwitch_TrustsTheCheck(p) ==
    /\ At(p, "switch")
    /\ Take(p, "current")
    /\ Goto(p, "move", job[p])
    /\ UNCHANGED <<files, others, faults>>

\* Under the lock everything is looked at again.
LockSwitch(p) ==
    /\ At(p, "switch") /\ lock["current"] = NoProc
    /\ IF ~Switchable(p) THEN Fail(p)
       ELSE IF current = [kind |-> "link", version |-> job[p].version]
       THEN Conclude(p) /\ UNCHANGED links
       ELSE /\ Take(p, "current")
            /\ Goto(p, "move", [job[p] EXCEPT !.managed = current.kind = "dir"])
            /\ UNCHANGED links
    /\ UNCHANGED <<tree, current, retained, others, faults>>

\* A directory is exchanged with the new symlink and kept, anything else is
\* replaced by it.
MoveCurrent(p) ==
    /\ At(p, "move")
    /\ \/ /\ current' = [kind |-> "link", version |-> job[p].version]
          /\ retained' = IF job[p].managed THEN Append(retained, current) ELSE retained
          /\ Conclude(p)
          /\ UNCHANGED <<links, faults>>
       \/ Fault /\ Fail(p) /\ UNCHANGED <<current, retained>>
    /\ UNCHANGED <<tree, others>>

\* RestoreRelease: the backup and the tree change places, if both are there.
RestoreRelease(p) ==
    LET v == job[p].version IN
    /\ At(p, "restore") /\ lock["current"] = NoProc
    /\ tree' = IF tree[v] = Absent THEN tree ELSE [tree EXCEPT ![v] = job[p].backup]
    /\ Return(p, "failed")
    /\ UNCHANGED <<current, retained, links, others, faults>>

-----------------------------------------------------------------------------
(* npm postinstall: the release of the package, whichever is installed.    *)
(* Its tree and links are put in place as those of an update; the profiles *)
(* of the shell, and the configuration that is synchronized afterwards and *)
(* whose failure is only reported, are left out.                           *)

StartNpm(p, version) ==
    /\ version <= published
    /\ Begin(p, "npm", [NoJob EXCEPT !.command = "npm", !.content = "published",
                                     !.version = version])

\* assertCurrentReplaceable
InspectPackage(p) ==
    /\ At(p, "npm")
    /\ IF Inspectable THEN Continue(p, "download", job[p]) ELSE Return(p, "failed")
    /\ UNCHANGED <<files, others, faults>>

\* switchCurrent: a directory is left to the downloaded binary.
SelectRelease(p) ==
    /\ At(p, "select")
    /\ IF ~Switchable(p) THEN Fail(p)
       ELSE IF current = [kind |-> "link", version |-> job[p].version]
       THEN Return(p, "done") /\ UNCHANGED links
       ELSE Continue(p, IF current.kind = "dir" THEN "check" ELSE "relink", job[p])
            /\ UNCHANGED links
    /\ UNCHANGED <<tree, current, retained, others, faults>>

\* The rename over a symlink, or over nothing, that asks for no lock; over a
\* directory, which an installation has put there meanwhile, it fails.
Relink(p) ==
    /\ At(p, "relink")
    /\ \/ /\ current.kind # "dir"
          /\ current' = [kind |-> "link", version |-> job[p].version]
          /\ torn' = IF lock["current"] = NoProc /\ tree[job[p].version] # Absent THEN torn
                     ELSE torn \cup {job[p].version}
          /\ Return(p, "done")
          /\ UNCHANGED <<links, faults>>
       \/ /\ IF current.kind = "dir" THEN UNCHANGED faults ELSE Fault
          /\ Fail(p)
          /\ UNCHANGED <<current, torn>>
    /\ UNCHANGED <<tree, retained, published, commands, alone, before>>

\* When the spawned binary has answered, its work is looked at.
ConfirmSwitch(p) ==
    /\ At(p, "confirm")
    /\ IF current = [kind |-> "link", version |-> job[p].version]
       THEN Return(p, "done") /\ UNCHANGED links
       ELSE Fail(p)
    /\ UNCHANGED <<tree, current, retained, others, faults>>

-----------------------------------------------------------------------------
(* __install *)

StartInstall(p, version, replace) ==
    Begin(p, "config", [NoJob EXCEPT !.command = "install", !.content = "native",
                                     !.version = version, !.replace = replace])

LockConfiguration(p) ==
    /\ At(p, "config")
    /\ Take(p, "config")
    /\ Goto(p, "exclude", job[p])
    /\ UNCHANGED <<files, others, faults>>

LockCurrent(p) ==
    /\ At(p, "exclude")
    /\ Take(p, "current")
    /\ Goto(p, "preflight", job[p])
    /\ UNCHANGED <<files, others, faults>>

\* currentSkills: what the selected release exposed and is exposed no more.
Obsolete ==
    IF current.kind = "missing" \/ tree[current.version] = Absent \/ current.version # 1
    THEN {} ELSE Retired \cap links

\* Everything that is refused before anything is changed; a source, a
\* configuration or a Skill path that is not acceptable is a fault.
Preflight(p) ==
    LET v == job[p].version
        work == [job[p] EXCEPT !.todo = Exposed \ links, !.obsolete = Obsolete]
    IN
    /\ At(p, "preflight")
    /\ \/ /\ IF current.kind = "link" \/ ~Inspectable THEN Return(p, "failed")
             ELSE IF tree[v] = job[p].content THEN Continue(p, "create", work)
             ELSE IF tree[v] = Absent THEN Continue(p, "put", work)
             ELSE IF job[p].replace THEN Continue(p, "aside", work)
             ELSE Return(p, "failed")
          /\ UNCHANGED faults
       \/ Fault /\ Return(p, "failed")
    /\ UNCHANGED <<files, others>>

\* An installation that fails puts back the links it removed, removes those it
\* created, and then its tree makes room for the one it replaced.
Undo(p) ==
    /\ links' = (links \cup job[p].removed) \ job[p].created
    /\ IF job[p].placed THEN Continue(p, "rollback", job[p]) ELSE Return(p, "failed")

CreateLink(p) ==
    LET link == CHOOSE l \in job[p].todo : TRUE IN
    /\ At(p, "create")
    /\ IF job[p].todo = {} THEN Continue(p, "retire", job[p]) /\ UNCHANGED <<links, faults>>
       ELSE \/ /\ link \notin links
               /\ links' = links \cup {link}
               /\ Continue(p, "create", [job[p] EXCEPT !.todo = @ \ {link},
                                                      !.created = @ \cup {link}])
               /\ UNCHANGED faults
            \/ IF link \in links THEN Undo(p) /\ UNCHANGED faults ELSE Fault /\ Undo(p)
    /\ UNCHANGED <<tree, current, retained, others>>

RetireLink(p) ==
    LET link == CHOOSE l \in job[p].obsolete : TRUE IN
    /\ At(p, "retire")
    /\ IF job[p].obsolete = {}
       THEN Continue(p, "activate", job[p]) /\ UNCHANGED <<links, faults>>
       ELSE \/ /\ link \in links
               /\ links' = links \ {link}
               /\ Continue(p, "retire", [job[p] EXCEPT !.obsolete = @ \ {link},
                                                      !.removed = @ \cup {link}])
               /\ UNCHANGED faults
            \/ IF link \in links THEN Fault /\ Undo(p) ELSE Undo(p) /\ UNCHANGED faults
    /\ UNCHANGED <<tree, current, retained, others>>

\* ensureCurrent: the directory is built beside and renamed, or its release
\* link is replaced.
ActivateRelease(p) ==
    /\ At(p, "activate")
    /\ \/ /\ current.kind # "link"
          /\ current' = [kind |-> "dir", version |-> job[p].version]
          /\ Return(p, "done")
          /\ UNCHANGED <<links, faults>>
       \/ /\ IF current.kind = "link" THEN UNCHANGED faults ELSE Fault
          /\ Undo(p)
          /\ UNCHANGED current
    /\ UNCHANGED <<tree, retained, others>>

RemoveTree(p) ==
    /\ At(p, "rollback")
    /\ tree' = [tree EXCEPT ![job[p].version] = Absent]
    /\ Continue(p, "putback", job[p])
    /\ UNCHANGED <<current, retained, links, others, faults>>

PutBack(p) ==
    LET v == job[p].version IN
    /\ At(p, "putback")
    /\ tree' = IF tree[v] = Absent THEN [tree EXCEPT ![v] = job[p].backup] ELSE tree
    /\ Return(p, "failed")
    /\ UNCHANGED <<current, retained, links, others, faults>>

-----------------------------------------------------------------------------
(* Environment *)

PublishRelease ==
    /\ published < MaxVersion
    /\ published' = published + 1
    /\ UNCHANGED <<files, lock, pc, job, commands, faults, seen>>

\* The tree that a process has moved away and not replaced yet.
Away(p) ==
    IF \/ At(p, "put") /\ job[p].backup # Absent
       \/ At(p, "putback")
    THEN {job[p].version} ELSE {}

\* The kernel drops the locks of a process that ends.
Kill(p) ==
    /\ ~At(p, "idle")
    /\ Fault
    /\ torn' = torn \cup Away(p)
    /\ Return(p, "killed")
    /\ UNCHANGED <<files, published, commands, alone, before>>

Init ==
    /\ \/ /\ current = NoLayout
          /\ tree = [v \in Versions |-> Absent]
          /\ links = {}
       \/ \E content \in Contents, kind \in {"link", "dir"}, l \in {Retired, Exposed \cup Retired} :
             /\ content = "native" => kind = "dir"
             /\ content = "published" => kind = "link"
             /\ current = [kind |-> kind, version |-> 1]
             /\ tree = [v \in Versions |-> IF v = 1 THEN content ELSE Absent]
             /\ links = l
    /\ retained = << >>
    /\ published = 1
    /\ lock = [l \in {"config", "current"} |-> NoProc]
    /\ pc = [p \in Procs |-> "idle"]
    /\ job = [p \in Procs |-> NoJob]
    /\ commands = 0 /\ faults = 0
    /\ torn = {} /\ alone = NoProc
    /\ before = [tree |-> tree, current |-> current, links |-> links]

Start(p) ==
    \/ StartUpdate(p) \/ StartAuto(p)
    \/ \E v \in Versions : StartActivate(p, v) \/ StartNpm(p, v)
    \/ \E v \in Versions, replace \in BOOLEAN : StartInstall(p, v, replace)

Step(p) ==
    \/ AutoProbe(p) \/ InspectCurrent(p) \/ Probe(p) \/ Compare(p) \/ Download(p)
    \/ MoveAside(p) \/ PutTree(p) \/ EnsureLink(p) \/ SyncConfiguration(p)
    \/ CheckSwitch(p) \/ LockSwitch(p) \/ MoveCurrent(p) \/ RestoreRelease(p)
    \/ LockConfiguration(p) \/ LockCurrent(p) \/ Preflight(p) \/ CreateLink(p)
    \/ RetireLink(p) \/ ActivateRelease(p) \/ RemoveTree(p) \/ PutBack(p)
    \/ InspectPackage(p) \/ SelectRelease(p) \/ Relink(p) \/ ConfirmSwitch(p)

Next ==
    \/ PublishRelease
    \/ \E p \in Procs : Start(p) \/ Step(p) \/ Kill(p)

Spec == Init /\ [][Next]_vars

FairSpec == Spec /\ \A p \in Procs : WF_vars(Step(p))

-----------------------------------------------------------------------------
(* Properties *)

Jobs ==
    [command : {"none", "update", "auto", "install", "activate", "npm"},
     version : {0} \cup Versions, content : Contents \cup {Absent}, replace : BOOLEAN,
     managed : BOOLEAN, placed : BOOLEAN, backup : Contents \cup {Absent},
     todo : SUBSET Exposed, created : SUBSET Exposed,
     obsolete : SUBSET Retired, removed : SUBSET Retired,
     result : {"none", "done", "kept", "failed", "killed"}]

Labels ==
    {"idle", "inspect", "auto", "probe", "compare", "download", "aside", "put", "ensure",
     "sync", "check", "switch", "move", "restore", "config", "exclude", "preflight",
     "create", "retire", "activate", "rollback", "putback", "npm", "select", "relink",
     "confirm"}

\* The type invariant, with what the code takes for granted of its locks: a
\* command that has returned holds none of them.
TypeOK ==
    /\ tree \in [Versions -> Contents \cup {Absent}]
    /\ current \in Layouts \cup {NoLayout}
    /\ retained \in Seq(Layouts)
    /\ links \in SUBSET (Exposed \cup Retired)
    /\ published \in Versions
    /\ lock \in [{"config", "current"} -> Procs \cup {NoProc}]
    /\ pc \in [Procs -> Labels] /\ job \in [Procs -> Jobs]
    /\ commands \in 0..MaxCommands /\ faults \in 0..MaxFaults
    /\ torn \in SUBSET Versions /\ alone \in Procs \cup {NoProc}
    /\ \A p \in Procs : At(p, "idle") => \A l \in DOMAIN lock : lock[l] # p

\* `current` selects a release that is there, through every interleaving of
\* updates, installations and activations, whatever fails: except while a
\* process is between the two renames of a repair of that very release, or
\* after it was killed there (TestMigrationNeverRemovesCurrentFromReaders;
\* ADR 0147: a rollback during the wait must not leave current dangling); and
\* except that npm, whose rename of a symlink waits for no lock, may select a
\* release that a native installation is about to take back, or just has.
CurrentResolves ==
    current.kind # "missing" /\ tree[current.version] = Absent =>
        current.version \in torn \cup UNION {Away(p) : p \in Procs}

Ended(p, results) == alone = p /\ At(p, "idle") /\ job[p].result \in results

\* What a command that met no other answers is what it did.  If it failed, at
\* whatever step, `current`, the Skill links and the selected release, if it
\* was there, are as they were (ADR 0147: restore the original release; a
\* configuration failure leaves current unchanged); a release that an earlier
\* command was killed in replacing may be there again.  If the command
\* succeeded, its release is selected, with the bytes it verified and with
\* every public Skill linked, and an installation has removed the links of
\* Skills the previous release exposed.
EndsAsAnswered ==
    \A p \in Procs :
        /\ Ended(p, {"failed"}) =>
              /\ current = before.current
              /\ links = before.links
              /\ current.kind # "missing" /\ before.tree[current.version] # Absent =>
                    tree[current.version] = before.tree[current.version]
        /\ Ended(p, {"done"}) =>
              /\ current.version = job[p].version
              /\ job[p].command # "activate" =>
                    tree[current.version] = job[p].content /\ Exposed \subseteq links
              /\ job[p].command = "install" /\ before.current.version = 1 =>
                    links \cap Retired = {}

\* The directory of a native installation is migrated once and kept for ever:
\* however many updates race to migrate it, one backup is left, and from then on
\* no native installation moves `current` (TestConcurrentMigrationRetainsOneOriginalDirectory).
MigrationIsFinal ==
    [][/\ current.kind = "link" => current'.kind = "link" /\ retained' = retained
       /\ current.kind = "dir" /\ current'.kind = "link" => retained' = <<current>>]_vars

\* Every command returns: none waits for a lock that is never released, its own
\* or that of a command that waits for it.
CommandsEnd == \A p \in Procs : pc[p] # "idle" ~> pc[p] = "idle"

-----------------------------------------------------------------------------
(* What the documents promise *)

\* README.md, ADR 0147: an update leaves an installed release that is newer
\* than its own; here, one that another distribution has selected.
NoDowngrade ==
    [][\A p \in Procs :
          /\ At(p, "move") /\ job[p].command \in {"update", "auto"}
          /\ current.kind = "link" /\ current' # current
          => current'.version >= current.version]_vars
=============================================================================
