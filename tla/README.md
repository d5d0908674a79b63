# Fanloop in TLA+

Fanloop is a command line program that leads a person and an agent through a
*Workflow*: an ordered graph of Steps, with forward Routes (Flow), backward
Routes (Loop) and, for some Workflows, a confirmation before each Step and Jumps
between any two of them. Everything it knows about one *Requirement* lies in a
handful of files under `.fanloop/`; every command is a process of its own that
loads them, decides, and commits one Event. There is no server and no database:
the difficulty is in the rules that decide what a report means, in reading them
the same way twice (when a report is evaluated, and whenever the history is
replayed), and in several processes that share files.

## Inventory

| Component | State | Operations | Talks to | Hard | Must hold |
|---|---|---|---|---|---|
| Workflow bundle (`internal/workflow`) | immutable after load | decode and validate a bundle; locks of the configuration | Flow, State, Store | the static checks stand for every report | no report is ever ambiguous; the graph can be finished |
| Flow State model (`internal/state`) | State, Output Registry, Event history | apply a Result; validate a State, an Event, a history | Flow, Trace, Store | two independent readings of a report | evaluation and replay agree for ever |
| Flow runtime (`internal/flow`) | none of its own | `flow init`, `status`, `report progress`, `report result` | Store, configuration, Card, Trace | long sequences of legal reports; stale bases | Loops and Jumps invalidate exactly what they must; no Step is worked at unconfirmed |
| Store (`internal/store`) | `flow/state.json`, `output/state.json`, `trace/events.jsonl`, `trace/events.md`, `configuration-snapshot`, `audit/*.jsonl`, `flow/state.lock` | `Load`, `LoadBound`, `Commit`, `PinConfiguration`, `RebindConfiguration`, `RebuildProjection` | everything | unlocked reads, several files, failing writes, kills | commits are atomic, loads see one moment, the pin fits the history |
| Trace (`internal/trace`, `traceconfig`) | Trace binding in State, remote document | `bind`, `sync`, `status`, `render` | Store, lark | a sync is two commits around a remote call | one Trace per Requirement |
| Trace projection (`store/trace_projection.go`) | `trace/events.md`, `trace/config.json` | rendered with every commit | Store, Trace, Workflow view | four readers of the same facts | all of them tell of the same syncs and reports |
| Card (`internal/card`) | `card/projection.json`, snapshots | `render`, projection after a commit | Store | the projection is written after the lock | a stale projection is recognised |
| Configuration center (`internal/configuration`) | `config/snapshots/*`, `config/current`, `.workflows.lock` | prepare, publish, activate, sync | flow init, install | fetches outside the lock | `current` names a complete snapshot; a reader sees one |
| Fornax mirror (`internal/fornaxmirror`) | `cache/fornax-workflows.json` (the receipt) | discover, accept, select, sync, drift | Configuration, fornax-cli | paged answers of a center that changes meanwhile | a sync activates all the accepted packages or none; drift does not hide an edit |
| Operations (`internal/ops`) | - | `config rebind`, `version` | Store, configuration | | only a rebind moves a pin |
| Distribution, Release installation (`internal/distribution`, `internal/release`) | `releases/*`, `current`, Skill links, two locks | `update`, the refresh before `flow init`, `__install`, `__activate-current`, the postinstall of the npm package (`packaging/npm`) | Configuration, GitHub | sequences of renames with rollbacks; not all of it under a lock | `current` resolves; a failed command undoes what it did |
| Verify (`internal/verify`) | `verification/work/*`, evidence directories with `manifest.json`, `report.md` | `smoke`, `snapshot`, `cleanup`, `doctor` | every public command; Flow reads the outcome | verdicts about what other processes may undo | a manifest says passed only of what was shown, and keeps saying it |
| Dashboard (`internal/dashboard`) | the page; `.dashboard-*` files | list, read, save, topology | the package tree, hand editors, every command that loads it | optimistic saves with several readers of interdependent files | no edit is lost; a load sees one valid tree |
| Execution log (`internal/executionlog`) | `log/cli.jsonl` | append, read | every command | concurrent appends | records are whole |
| Workflow view (`internal/workflowview`) | none | the status and the panorama an agent sees | Flow, Workflow bundle | a second reading of the Workflow beside that of the reports | what is offered is accepted, and nothing else; what is shown as done is done |
| Storage IDL (`idl/storageidl`), persistence (`state/persistence.go`) | the shapes of the files | encode, decode, check | Store, Trace | two conversions that each refuse what they cannot express | what is committed is read back as it was |
| CLI commands (`cmd/execute.go`), flow, trace and error IDL (`idl/flowidl`, `traceidl`, `erroridl`, `commands.go`) | none that lasts | decode, check, run an operation | every runtime | rules in generated code, contracts in a table, both apart from the code that answers | a refusal is one the contract lists |
| Doctor, output, the rest of the generated IDL | none that lasts | | | | |

`PROJECT.json` lists every component with its files, what is modelled of it, and
under `hazards` the places where the code can go wrong in a way that a test would
hardly reach, each with the properties that would notice.

## Modules

```
Bundle <- FlowState <- Flow <- Contract <- WorkflowView <- StorageIDL   (decisions)
       <- Persistence <- TraceIDL <- TraceViews <- MCFlow
           ^--- FlowProofs
CommitLog  <-(refines)-  Store  <-  MCStore      (files and processes)
                          ^--- StoreProofs
Projections  <-  MCProjections                   (Card, Trace document, Registry)
      ^---  ProjectionsProofs
Configuration  <-  MCConfiguration               (snapshots and their binding)
      ^---  ConfigurationProofs
Mirror  <-  MCMirror                             (what the Fornax center offers)
      ^---  MirrorProofs
Release  <-  MCRelease                           (releases, current, Skill links)
      ^---  ReleaseProofs
Verification  <-  MCVerification                 (smokes and their evidence)
      ^---  VerificationProofs
Dashboard  <-  MCDashboard                       (pages, saves, loads of the tree)
      ^---  DashboardProofs
```

Each module takes of the others what their properties allow: Projections takes
from Store that commits are atomic, Store from Flow that a report is evaluated in
one step, Release from Configuration that a sync is one step under its lock,
Mirror from Configuration that a sync holds that lock throughout.

**Bundle** is a validated Workflow. A Step is its position; a Route is a `when`
(an OR of ANDs of Conditions) and a target. `ValidBundle` is the logic of
`ValidateBundle`: targets lie forward (Flow) or not (Loop), exclusive groups
are respected, no two Routes of a Step to one target can hold together, every
Step is reached and some Route completes.

**FlowState** holds the pure functions of `state/model.go` and
`flow/result.go`, in the two readings the code has: `ResultRefusal`,
`ResultPayload`, `EvaluatedState` evaluate a request; `ValidNewEvent`, `Replays`,
`Replay`, `ReplayedState` are `validateCommit` and `ValidateHistory`, one Event at
a time. What Go iterates over a map is a set; what it iterates over a slice is
decided by the first element that fails, since error codes depend on it. A value
is a member of a small set, and `ValidateOutput` is a set of accepted values for
each Condition. Summary and Evidence of a report travel together and are one
value, except for the two facts that decide something: whether some Evidence is
from a human, and what the one `manifest.json` among it says.

**Flow** is the runtime of one Requirement. `current` is State with its Output
Registry, `replayed` the accumulator of `ValidateHistory` after all committed
Events (so that a history need not be kept), and `reply` the last error code. The
actions are `FlowInit`, `Progress`, `Result` (for business Routes and for the
start and jump controls) and `BindTrace`. Each is the whole command: load, refusals
in the code's order, evaluation, `validateAndCommit` (failures are `INTERNAL`) and
`validateCommit` (failures are `STATE_CORRUPT`). A command is atomic here; that it
may be regarded so is what Store is about.

The next six modules are about the same State and commands. They add no variable and no
action; each adds a reading of them that the code has beside the runtime.

**Contract** is the public contract of the commands. A request is a message of the
flow IDL, with the rules of its generated `IsValid` and the checks by hand of
`flow/result.go`; `Understood` is the report of module Flow that it comes to
(`SelectedRoute` asks the five optional fields of a Route in the order of the code).
`CommandSpecs` and `ErrorSpecs` are the tables of `idl/commands_gen.go` and
`erroridl`, `RunOperation` what `cmd/execute.go` refuses before a runtime runs.

**WorkflowView** is what `flow status` shows of a State: the Conditions and
Routes of the current Step, and the controls of the Workflow (`Project`). It reads the
Workflow by code of its own (`conditionViews`, `availableRouteViews`), so that what it
offers and what `flow report` accepts are compared, request by request. `Display`
is the panorama of `display.go`, which knows a position and the skipped Steps alone.

**StorageIDL** holds the shapes of the durable messages and what their generated
`IsValid` accepts; **Persistence** the way of a State and an Event to disk and back
(`state/persistence.go`), and of a Card projection. A field that may be absent is
a set of at most one value, the union of payloads a record of such sets; an operator
`...ToIDL` or `...FromIDL` is the function of that name, and the sets `Stored...` are
what is accepted. Headers, identifiers and times are
left out, and so are the types of Outputs; the profile of a Trace binding goes with its
document. The Events compared are those that the commands of Flow append from the
current State, and for the Events of a sync, which Flow does not run, all outcomes
that `trace/sync.go` can compute from its targets. `RefusalsAreContracted` puts
everything together that a command can answer, and asks the contract.

**TraceIDL** holds the messages of the trace commands, the shape of `trace/config.json`
and the Registry profiles of `traceconfig` with their rules and overrides.
**TraceViews** is what a reader of the Trace sees: `RenderTraceConfig` (a fold over all
syncs), `StatusOfTrace` (which looks for the last one), the status, Conditions, Outputs
and rows of `events.md`, and status, place and audit of the Registry row. `SyncViewsAgree`
compares them over every history of up to `MaxSyncs` (three) syncs, perhaps after one
that found nothing bound, with one code for all failures, and for Registries of which
none, one or all coordinates come from the environment: of a target the code keeps the
last success and the last failure, so that three tries tell all orders of them apart.
`StateViewsAgree` and `CommitViewsAgree` compare the others on every reachable State
and every commit from it.

**Store** is the file protocol. `files` holds for each file the Event history it
was rendered from, which is all that a load compares. A process goes through the
steps of its command with `pc` and `job` (what it has read and will write):

| Code | Actions |
|---|---|
| `Init` up to its commit | `StartInit` (asks `Exists`), `PinConfiguration`, then a commit |
| `LoadBound` | `StartLoad` (state.json), `ReadOutputs`, `LoadWorkflow` (the pin), `ReadEvents` |
| a report | a load, `Evaluate` or `RefuseReport`, then a commit |
| `RebuildProjection` | a load, `RebuildRead`, `RebuildWrite`, without the lock |
| `Commit` | `BeginCommit` (lock and `validateCommit`), `Write` for each file in order, `WriteFails` and `Restore` |
| `RebindConfiguration` | `BeginRebind`, `Prepare`, `MovePin`, `CommitAudit`, `Undo` |
| the end of a process | `Crash`: the kernel drops the `flock` |

The checks of `BeginCommit` are one step: they read only files that no other process
writes without the lock. (The pin is the exception, at initialization only: see
`init_race`.) A restore goes over a Go map, hence in any order. An Event keeps
its id, its cause, whether it changed the Output Registry and by which snapshot's
Workflow it was evaluated; `Accepts` says which Workflow accepts the Events of
which. The configuration lock of `flow init` is left out: it is exclusive only when
the configuration is fetched, shared when an installed snapshot is used and not
taken at all with an explicit source, and `Exists` is asked before it in every case.

**CommitLog** is what the Store promises: a log to which the commands append one
Event at a time, each evaluated on the log as it still is, and loads that answer
with one prefix of it, no older than the command. `Store` implements it with
`log <- files["state"]`: the last rename of a commit is its commit point.

**Projections** is what follows the commits. It takes from the Store what `Linear`
shows: `log` grows by one Event if it has not moved since the load the Event was
evaluated on, so `Commit` is one step, and a State is the number of Events it was
made of. `card` is the State `card/projection.json` was written from; what it shows
(`Shown`) changes with every init, report and bind and with no Event of a sync,
since `projectionMatchesState` compares just that. `document` and `rows` are the
remote side (external): an overwrite and an upsert may fail, or take effect and have
their answers lost; calls of two processes interleave freely.

| Code | Actions |
|---|---|
| `flow.Init` after its commit | `Provision` (may bind, as `trace bind` does), `Reload`, `Project` |
| a report | `Commit`, `Project` of its own State without the lock, then `Sync` if a Trace is bound |
| `trace.Bind` | `Commit` unless bound already, `Refresh` and `WriteRefreshed` under the lock |
| `trace.Sync` | `Sync`, `Commit` of sync_started, `ReadEvents`, the targets side by side (`SyncDocument`; `ListRows`, `UpsertRow`, `ResolveRow`), `Conclude`, `Commit` of synced |
| `card.Render` | `StartRender` (reads the projection), `LoadState`, `Rebuild`, `CheckRebuilt`, `NextCardPath`, `WriteSnapshot` |

`alone` is the process whose command has met no other command and no fault since it
began; it serves the properties alone. They say that the system repairs itself:
after any history of races and faults the next command that runs alone leaves its
projections as of its own Event.

**Configuration** is the configuration of one data home, shared by all its
Requirements: the snapshots, the link `config/current`, the lock `.workflows.lock`
and every command that takes it. A snapshot is a version of one of the two centers,
Git or Fornax; its packages validate or not (`Invalid`), and its bytes may be edited
by hand (`edited`), after which `Read` refuses it. A process holds the lock in
`holds`, and `op` is what it fetched or read.

| Code | Actions |
|---|---|
| `prepareConfiguration`, `Prepare` | `InitBegin`; `Fetch` without the lock, then `LockBinding`, `Publish`, `Activate`, and the lock is kept until `End` |
| `installedSnapshot` (also after a failed fetch), `fornaxmirror.CurrentRoot` | `ReadLink` without the lock, `ShareBinding`, `Verify` |
| `configuration.Sync` | `LockBinding` first, `SyncProbe`, `Fetch`, `Publish`, `Activate` |
| `fornaxmirror.Sync` | `LockBinding`, `Discover`, `Publish`, `Activate`, `CommitReceipt` or the restored binding |
| `install.Run` with its `Import` | `LockBinding`, `SelectConfiguration`, `Publish`, `Verify`, `Activate`, `SwitchRelease` or the restored binding |
| `PrepareCurrent`, `ConfigRebind` | `LockBinding`, `Open`, `Verify` |
| `Drift` | `LockBinding`, `DriftProbe`, `Compare`; the status is the label |
| the end of a process | `End`, with or without an error; `Kill` |

`Publish` is one step, since the stage is private until its rename and all publishers
hold the lock. `seen`, `previous` and `floor` are what a process met at its start and
under its lock, for the properties; the code too reads `previous` there, when it may
have to restore it. A lock on the package tree (`LockSource`) is shared by all of
these commands and left out; so is the author source, which has no snapshots. An
import is of a pushed commit.

**Mirror** is one of the two centers seen closely: the Skills it lists, their
releases, what is in their packages, and the commands that ask it. `since` is what
the center offered since a command began, for the properties.

| Code | Actions |
|---|---|
| `fornaxmirror.Sync` | `SyncBegin` (lock), `ListPage` until a source is listed, `AskRelease` for each Skill, `Accept` (`MaterializePackage`, `SelectClaims`, `alreadyCurrent`), `Publish`, `Activate`, `WriteReceipt`; after an error of the last two `PutBack` restores the binding, or fails itself |
| `Check` (drift) | `CheckBegin` (reads the binding), the same discovery without a lock, `CompareTrees`, `Judge` (reads the receipt, last) |
| the center and the disk | `PublishRelease`, `ListSkill` (a Skill appears or disappears), `Edit` |
| the end of a process | `End`, `Kill` |

A snapshot is the set of claims it was made of, and its directory is named by keys
and versions (`Digest`), not by sources: two different sets may want one directory.
`allSkills` checks the total on every page; `Page` and `ListPage` are that check.

**Release** is the CLI of one data home. `tree[v]` says whose bytes a release tree
holds, `current` whether it is a directory of links (native) or one symlink, and what
it selects. Only the moves of `current` are under `releases/.current.lock`; an update
places trees and links without it, an installation holds it throughout. The postinstall
of the npm package is an update that asks nobody for a version; it leaves a directory
`current` to the binary it has installed and replaces a symlink itself, without the lock.

| Code | Actions |
|---|---|
| `Update` | `StartUpdate`, `InspectCurrent`, `Probe`, `Compare`, `Download`, `MoveAside` and `PutTree` (`installArchive`), `EnsureLink` for each link, `SyncConfiguration`, then the switch |
| `AutoUpdate` | `StartAuto`, `AutoProbe`, then as an update |
| `currentlayout.Switch` (also `__activate-current`) | `CheckSwitch`, `LockSwitch` (everything again), `MoveCurrent` |
| `RestoreRelease` | `RestoreRelease`, after `Fail` gave the lock back |
| `install.Run` | `LockConfiguration`, `LockCurrent`, `Preflight`, `MoveAside`, `PutTree`, `CreateLink`, `RetireLink`, `ActivateRelease`; on a failure `Undo`, `RemoveTree`, `PutBack` |
| npm `install.js` | `StartNpm`, `InspectPackage`, then as an update up to the links; `SelectRelease`, `Relink` of a symlink or the switch of a directory, `ConfirmSwitch` |
| the rest | `PublishRelease`, `Kill` |

`alone`, `before` and `torn` serve the properties: the command that met no other,
what it met, and the trees that a killed process had moved away or that npm selected
while somebody held the lock of `current` to remove them.

**Verification** is `verify smoke` beside other smokes, snapshots and cleanups. What a
command of the candidate prints is right, wrong or nothing; what it really did to
the business files is `work[p].state`. The smoke judges by answers and by
fingerprints (`Verdict`, `Judge`), the property `PassedIsEarned` by `right`, which it
cannot see.

| Code | Actions |
|---|---|
| `newEvidenceRun` | `CreateEvidence`, `OpenManifest` |
| the journey of `Smoke` | `PrepareWork`; for each stage `RunCommand`, `RecordCommand`, `Judge` |
| `finishSmokeCleanup` | `SealEvidence`, `DryCleanup`, `CheckDryCleanup`, `RealCleanup`, `CheckCleanup` |
| the end of `Smoke` | `FinishManifest`, `WriteReport` |
| `Snapshot`, `Cleanup` | `FreezeConfiguration`, `CaptureSnapshot`; `Cleanup` |

**Dashboard** is the editable Dashboard with its page. A content stands for its
SHA-256. Since a page of `app.js` discards the answer of every load but the
newest, `load` is at most one; whoever advances `loadGeneration` drops it.

| Code | Actions |
|---|---|
| `app.js` | `Open` (every forced load, Refresh and Discard too), `Poll`, `Input`, `Receive` (`load` after its answer), `Save`, `Answered` |
| `GET /api/file` | `Load` (under the shared lock, in one step) |
| `POST /api/file` | `SaveCompare` (takes the lock), `SaveValidate`, `SaveRecheck` (up to the temporary file), `SaveReplace` |
| a command that loads the tree, `NewHandler`, the topology | `Begin`, `Read` of each file, `End`; `Restart` |
| others | `HandEdit` without a lock, `Kill`, `CleanUp` (of a temporary file, by hand) |

`saveMu` is not modelled: the lock of the source, held from the start of a request to
its answer, excludes already what the mutex would exclude. `unseen` are the files
edited by hand since a save, or a load, last looked at them.

Operators named `X_Y` are `X` with the fault `Y`. They are used by nobody but the
mutation entries of `PROJECT.json`: with `X` replaced by `X_Y` the paired property fails.

## Runs

| Run | Question | Bounds |
|---|---|---|
| `controls` | the test bundle `runtime-controls`: do evaluation and replay agree, do returns and Jumps invalidate exactly what they must, is nothing accepted that the status did not offer, is every refusal in the contract, is whatever is committed read back as it was, is what is shown as done done, and do all readers of the Trace tell the same? | 3 Steps, 1 Condition per report (each Route needs one), all requests, no bound on length: 2 thousand states are all there are; 3 syncs in a history of `TraceViewsAgree` |
| `example` | the example bundle without controls, with a Condition shared by all Routes, two Loop Routes of one Step, and Outputs bound to the Trace document or a verification outcome: can whatever the status offers be taken, so that the agent is never stuck? | 2 Steps, 2 documents, up to 2 Conditions per report (each Route needs at most two) |
| `store` | is the Store an atomic log with consistent loads, do pin, audit and history fit? | 2 processes of which one may initialize, 3 Events, 1 rebind, 1 failing write, 1 kill, 2 snapshots of which the newer accepts the older one's Events and not the other way round |
| `projections` | do Card projection, Trace document and Registry row come right again after any races and a fault? | 2 processes, 6 Events (an init with its Trace and two syncs, or one and a report), 1 snapshot before a race, 1 lost call, failed write or kill |
| `configuration` | does `config/current` always name a valid snapshot, does no reader see it move, does a sync or drift report what is active, does a failure leave the binding alone, is the lock always released? | 2 processes; 3 commits of which the first does not validate, 1 Fornax release set; 1 failed step, kill or edit by hand; no bound on the number of commands |
| `mirror` | does a sync activate exactly what the center offered at some time, or nothing; does drift tell the truth? | 2 processes, 2 sources, 3 Skills of 2 versions, pages of 1, four initial sets of releases; 3 of: a release, a change of the list, an edit, and up to two failing calls, failing writes or kills |
| `release` | does `current` resolve, does a command end as it answers, is a migration made once, does every command end? | 2 commands of 2 processes (of update, refresh, `__install`, `__activate-current` and npm), 2 releases, 2 links and a retired one, 1 failing step or kill |
| `verification` | is a manifest that says passed earned, final, and all there is? | 2 commands that want one evidence directory, 2 misbehaving commands of the candidate, 2 failing writes or kills, 1 cleanup by somebody else |
| `dashboard` | is no edit overwritten unseen, does whoever loads the tree under the lock load one valid tree? | 2 Dashboards with a page each, 1 other reader, 2 files that refer to each other, 3 contents of which pages write two and the hand editor the third; 2 saves, hand edits or kills |
| `jump_usable`, `init_race`, `no_downgrade` | where the code does not do what a document says | as above; none needs a fault |

`TypeOK` of Flow, Configuration and Dashboard is in no run: it is proved, for every
instance (below).

The Flow runs have no bound on the length of a history: their state spaces are
finite because the accumulator of the replay is. Two Steps behind the cursor and
one ahead are the smallest instance in which a Loop, a Jump over a Step and a
return behind it all occur. Two processes suffice for races on a file, since a
commit excludes all others and loads do not see each other; three Events give one
before, one during and one after a load. Two valid commits are the least by
which a binding can go back. Three events of `mirror` are a release with a sync
that fails and whose restore fails, or an edit with a release and a change of the
list; a page of one Skill makes every
change of the list fall between two pages. Two commands of `release` are every pair
of them, of which one may be killed. Two events of `dashboard` are two racing saves,
or a save with an edit by hand or a kill anywhere in it. `CHECK_DEADLOCK FALSE`
stands where the model stops: a Requirement whose init was killed between two
renames is refused for good (Store), and the commands of `release` and
`verification` are counted.

What the runs show beyond their names:

- Evaluation and replay agree (`HistoryAgrees`): no sequence of reports leads to
  `STATE_CORRUPT`.
- `RefusalsAreContracted` has one exception, which is the code's (below): `INTERNAL` of
  three trace commands.
- `ShownDoneIsDone` holds although the panorama is computed without the history, because
  a Loop undoes every Output from its target on; see below for what it shows of a Step
  that was skipped.
- `TraceViewsAgree` asks for a valid answer of `trace status` only where the Registry is
  turned on (below).
- `Linear` holds although loads take no lock. The order of the renames alone does
  not make it true; the chain of causes and the comparison of the Output Registry
  with the replay do (without the latter the run finds a load that mixes two commits).
- `FilesStayTogether` holds whatever fails: state.json is renamed last, so a torn
  commit leaves one Event too many, never one too few. Recovery from it is not
  claimed: every later command is answered `STATE_CORRUPT` (ADR 0016 leaves
  crash transactions out).
- `SyncedDescribesItsStart` holds although a sync keeps no lock during its calls and
  reads the Events a second time: if anything got between, the second commit is
  refused. The document itself may then show a mixture, or an older sync's
  overwrite may come last; `TraceIsRepaired` says that the next undisturbed sync
  mends this. It does not mend two rows of one key, which two first syncs can
  create: then each sync is `partial` for ever, and never claims success.
- `SyncNeverGoesBack` holds because a sync takes the lock before it asks the remote.
  An init fetches first: an init that fetched one commit and waited may activate it
  after a sync, or another init, activated the next one. Then `config/current` is
  behind until the next sync. An install activates what it is given. No document
  promises more.
- The second part of `OneBinding` is all that can be said of `installedSnapshot` and
  `CurrentRoot`: they read the link before they take the lock, so a Requirement can be pinned to the
  snapshot that another command has just replaced.
- `FailureKeepsTheBinding` has an exception: a first Fornax sync whose receipt cannot
  be written reports an error and leaves its snapshot active, there being no binding
  to restore. It is for one failure: the code ignores the error of a restore, which
  in this module always succeeds. Mirror has the restore as a step of its own that may
  fail (`PutBack`).
- A snapshot edited by hand is never mended: the next sync of its commit fails in
  `publish`, which refuses the directory (`Publish`, second disjunct).
- What `FilesStayTogether` says of a failed commit is for one failing write: the error
  of a restore is ignored, so two of them may leave the files torn as a kill does.
- `SyncIsAllOrNothing` is told of a failing restore too: `Sync` ignores the error of
  the `Activate` that is to put the previous binding back (`sync.go:164`, `171`, `184`).
  If it was the receipt that could not be written, the new set is active then, as
  complete as that of a sync that succeeds, but without its receipt, which the next
  sync to succeed writes; and so it is after a first sync that cannot write its
  receipt, when there is nothing to put back.
- `SyncIsAllOrNothing` excepts what `allSkills` cannot notice. It compares the totals
  of the pages: a Skill removed from the list of a source and another added leave the
  total as it was and move the pages, so that a Skill listed all the time may be
  missed. Of such a source (`Told` is false) nothing is claimed. The run has one
  change of the list and never gets there; the proof did.
- `DriftIsTrue` has a tolerance: the receipt is read last and may already be that of
  another sync, after which an untouched Workflow is called `local_modified`; so is a
  Workflow whose release the center has replaced by one that is not newer. The
  dangerous error, an edit that is called `local_behind`, does not occur while there
  is a receipt.
- `CurrentResolves` excepts the moment between the two renames by which a repair
  replaces the active release: a reader then finds `current` dangling, and a kill
  leaves it so. It excepts npm too, whose rename waits for no lock.
- `EndsAsAnswered` is for a command that met no other; two commands that create the same
  link may each remove it in their rollback. A tree that an earlier, killed command had
  moved away may lie at its place again after a command that failed.
- `PassedIsEarned` holds although others may clean the work root of a running smoke,
  because every later stage then fails. If `report.md` cannot be written the command
  answers an error while its manifest says passed (`NothingLeftBehind` speaks of
  answers with an outcome only).
- `NoEditIsLost` excepts an edit by hand after the second reading of a save, which
  takes no lock; so does `OneValidTree` for a file the candidate was validated with.
  That a killed Dashboard leaves its temporary file, and with it a tree that is refused
  as a whole, is no violation of either: it is described below and no property is
  about it.

Observed while modelling, and not the subject of a run:

- A Loop enters its target as `fixing` in a Workflow with `step_start` too, so that
  Step is worked at without a confirmation (ADR 0102 asks for one of each Step).
  `OnlyOfferedIsAccepted` holds: a Step that does await confirmation is shown with the
  controls only, and nothing but a start opens it.
- `ValidateBundle` does not ask that the Conditions of one group of a `when` write
  distinct Outputs. A valid bundle may so offer a Route that no report can take, since
  two Conditions with one Output are `CONDITION_CONFLICT`. `OfferedIsAccepted` holds for
  the bundles of the runs, whose groups have distinct Outputs.
- The contracts of `trace.status`, `trace.render` and `trace.sync` (`idl/commands_gen.go`)
  do not list `INTERNAL`, which `runOperation` answers for them when the data home or
  the configuration cannot be used (`cmd/execute.go:302-311`); ADR 0040 wants every code
  of a command listed (`LeaveOutInternal`).
- An init that loses the race of `init_race` is answered `STATE_CORRUPT`, which the
  contract of `flow.init` does not list.
- A flow command checks its answer with the generated `IsValid` before it commits, so that
  an answer that cannot be sent is not committed either. That rule does not reach into
  lists and maps: no Route, Condition or Output of an answer is ever checked.
- A dry run stops before `Validate` and `ValidateAgainst`: it may foretell an acceptance
  where the report itself is `INTERNAL`, for the cause of `jump_usable`
  (`DryRunForetells` excepts just these).
- A Step that a Jump skipped and a Loop came back to is shown as skipped while an agent
  works at it. After a Loop the Outputs that its report registered stay, while the
  panorama shows the Step that reported them as still to come.
- A blocked Step with a human executor is "Human Review" in `events.md` and "Blocked" in
  the Registry row; one that awaits confirmation is "Awaiting Confirmation" in the first
  and "Human Review" in the second. The branch of `registryLocation` for a completed
  Workflow (`trace/sync.go:443`) is never reached.
- A Trace bound under a profile whose Registry is turned off (`provider: none`, as
  `production` is now) is shown by `trace status` with an empty `url`, `base_token`,
  `table_id` and `view_id`, which the generated `IsValid` of that message refuses;
  nobody asks it (`trace/runtime.go:144-149`).
- The postinstall of npm renames a symlink `current` without `releases/.current.lock`.
  Beside a native installation of the same release, on a data home without one, it
  may so select the tree that the rollback of that installation is about to remove,
  and `current` dangles. ADR 0147 promises that much of the locked activation only. If
  the postinstall cannot write a shell profile afterwards it answers a failure with the
  new release selected.
- An error message of lark that is nothing but white space makes the Event of its sync
  invalid (`validTraceTargetResults` trims it), so such a sync is never recorded.
- Binding the bound document again is `PROTECTED_DOCUMENT`, not `unchanged` as in ADR
  0064, once an Output names it.
- `trace.synced` is committed on the State of its own `trace.sync_started`
  (`trace/sync.go:106`). Whatever commits during the remote calls makes that commit
  `STATE_CORRUPT`: document and row are written, but no Event says so, against ADR
  0016, and an automatic sync drops the error.
- A Dashboard that is killed between the creation of `.dashboard-*` and the rename
  leaves that file in the package, where `requireExactBundleFiles` refuses it: every
  command, and the next Dashboard, refuses the tree until somebody removes it
  (`Kill`, `Loadable`, `Restart`, `CleanUp`). Dashboards that still run answer reads
  from the remembered list, but refuse every save.
- Discard, Refresh or a click on a file is not prevented during a save. If its load was
  answered before the save, the editor shows the old text while the answer to the
  save sets the digest of the new one; a later Save then puts the old text over the
  saved one and is not stale. Text typed while a switch of the Workflow waits for
  its topology is replaced without a question. `NoEditIsLost` compares digests, and
  claims neither.

## Findings

Three places where the code differs from what the documents say. Each has a run
that must find its counterexample.

1. `jump_usable`: after a self-Loop at the first Step its Output is registered with
   the first Step as producer. A forward Jump would skip that producer, the new
   State is refused by `ValidateAgainst`, and the Jump is answered `INTERNAL`.
2. `init_race`: an init that saw no State overwrites the pin of the Requirement that
   another init has created meanwhile, and then fails.
3. `no_downgrade`: an update compares its release with the installed one long before
   it switches, and the switch compares no versions: of two updates, the one that was
   told the older release may switch last.

`OfferedIsAccepted` is checked for the Workflow without Jumps only. With Jumps it has the
cause of `jump_usable` against it: a Loop does not clear `skipped_step_ids`, so after a
Jump over a Step and a Loop back into it each report that registers an Output is
`INTERNAL`, and only a Jump leads out.

## Fairness

Safety runs assume none. `LockIsReleased` of Configuration assumes `WF_vars(Step(p))`:
a process that runs takes its next step. Between the lock and its release the code
waits only for Git, whose calls it bounds by a deadline, for fornax-cli, which it does
not (that those calls end is assumed), or for the command's own work, and never for
another lock of this module, which is what the property would find out; nothing is
assumed about who is granted a `flock`. `CommandsEnd` of Release assumes
`WF_vars(Step(p))` too, for commands that take two locks in turn; that a waiting
`flock` is granted needs no more there, because the number of commands is bounded and
none begins another: once the others are done, the step of the waiting one stays
enabled. `CardIsRepaired` and `TraceIsRepaired` of Projections are not liveness: they
speak of the moment an undisturbed command ends. The start of a command is never
assumed. Dashboard has no liveness: whether a save is granted its `flock` among ever
new readers is up to the kernel.

## Proofs

`FlowProofs` holds, for every bundle that satisfies `ValidBundle`, every set of
values, documents and reportable Conditions, and reports of any length up to any
`MaxResults`:

- `TypeCorrect`: `Spec => []TypeOK`;
- `HistoryCorrect`: `Spec => []HistoryAgrees`;
- `NeverAmbiguous`: `Spec => []RouteNeverAmbiguous`;
- `UndoneWorkIsGone`: `Spec => []NothingFromUndoneWork`;
- `TraceOutputsTrue`: `Spec => []TraceOutputsAuthoritative`;
- `EarlierFactsStay`: `Spec => EarlierFactsSurvive`;
- `OnlyOffered`: `Spec => []OnlyOfferedIsAccepted`, of WorkflowView;
- `WrittenIsReadable`: `Spec => []CommitsAreReadable`, of Persistence;
- `RefusedByContract`: `Spec => []RefusalsAreContracted`, of Persistence and Contract;
- `TraceToldTruly`: `Spec => []TraceViewsAgree`, of TraceViews;
- `PanoramaTrue`: `Spec => []ShownDoneIsDone`, of WorkflowView, for bundles with
  `OneStepAtATime`;
- `NeverStuck`: `Spec => []OfferedIsAccepted`, of WorkflowView, for bundles that are
  `Followable`.

The assumptions are `BundleAssumption`, `ParametersAssumption` and `ReportAssumption` of
Flow, which TLC evaluates for every bundle of the runs. The last one says that a report
may come without a manifest and that a summary is a text: `flow report` asks for one.
The last two theorems have a hypothesis on the bundle besides, because `ValidateBundle`
accepts bundles of which they are false (see below); `MCFlow` asks TLC whether it holds
of the bundle of the run that checks the property (`BundlesAssumption`).

`HistoryAgrees` is not inductive by itself, for two reasons. A command evaluates a
State only after the checks of the load (`ValidateAgainst`, `Validate`), and its
replay goes through only when the State passed them; so the invariant `IInv` says
that the State written by every command passes the checks of the next load. And
the initialisation replays from nothing, so `IInv` says that before it the replay is
the empty one. The types and `RouteNeverAmbiguous` complete it. The replay leaves the
status of the tail open after a Result (it keeps the effect as `pending` and
decides at the end), and the lemma `ReplayedFields` draws from `HistoryAgrees` what
the steps need of that: the replayed State shares every field with the current
one but the status, which is open or the current one. Each command then preserves
`IInv`: the proof of `Commit` needs that every payload the evaluation makes is well
formed, selects one Route (`SelectsOneRoute`) and replays, which are lemmas about
the operators of FlowState.

`NeverAmbiguous` rests on `StaticCheckSuffices`: a report that passed the exclusive
groups is a set of Conditions without an exclusive pair; were two Routes of one
target to match it, the union of their matching groups would have none either, so
`WhensOverlap` would hold, which `ValidBundle` excludes.

The three theorems about the Output Registry rest on two lemmas: `StepCases`, by which
only a Result changes the Registry, and `OutputsMove`, which says for one key what a
Result does to it. `NothingFromUndoneWork` is inductive beside `IInv`: a Flow Route
leads to a later Step (`FlowsGoForward`, from `ValidFlows`), so what a Step
registers on the way forward lies behind the cursor, and a return drops whatever
lies at its target or behind before it registers its own. For
`TraceOutputsAuthoritative` the delicate step is `BindTrace`: before it no Output of
that kind can be registered, because its value would be the missing document, which
is no value.

`OnlyOffered` compares the two readings that the code has of a Workflow, that of the
status and that of a report. A report that `ResultRefusal` accepts was checked Condition
by Condition and matches one Route; `ControlOffered` and `BusinessOffered` find the view
which the status shows of that Route. `SelectionUnderstood` counts the fields of a
selection: whichever is set alone is the one that is read.

`WrittenIsReadable` is about the two conversions between a State, its Outputs or an Event
and the files. What a command may write is `Sound`: of its type, and accepted by both
checks of the load. `StateWritten` and `StatusSound` show that such a State is
expressible in the shapes of the generated code, satisfies their rules, reads back as
it was and can be answered with; there is one lemma for each kind of Event that its line
does (`ResultReadsBack` is the long one, with optional members for target, summary and
Evidence), and one for each command that what it is about to commit is sound
(`InitKept`, `ProgressKept`, `ResultKept`, `TraceKept`). The induction is that of
`HistoryCorrect`: it is `IInv` that says that the State a command starts from is sound.

`RefusedByContract` puts together which codes an operation can answer (`ResultCodes`,
`RefusedBefore`) and which its row of the table lists (`TableOfCommands`). Its third part
compares a dry run with the commit: `EvaluatedValid` shows that the State a report
evaluates to passes every check of the commit except the one of finding 1.

`TraceToldTruly` has three parts. Of the State (`StateViews`): the Conditions that the
projection lists are those that the Routes of the status ask for (`TaskRows`, from
`ViewsOfRoutes`). Of a commit (`CommitViews`): each kind of Event, read back from its line
by `WrittenIsReadable`, tells of the move it belongs to; for a Result the Registry after it
is the one before it without the invalidated keys and with the accepted ones. Of the
history of syncs (`SyncViews`): `Folded` shows that the recursive function in
`RenderTraceConfig` exists and obeys its equations, by a least position at which it
would not, and `ConfigFolded` in the same way that after each position the configuration
`ConfigShows` the syncs up to there. That the error of the whole is that of the targets is
inductive only with the invariant that every sync of one binding reaches the same targets
(`OneSync`): one that an earlier binding alone reached would keep its error. These lemmas
do not use the bound `MaxSyncs`; the statement has it.

`PanoramaTrue` needs what the panorama does not look at. It is computed from the position
and the skipped Steps, so a Step before the position passes for completed. That is true
when each Flow Route leads to the next Step (the panorama shows a Step that a Route
passes over as completed), when no two Steps can register one Output key (the later
report takes the key over, and the earlier Step is left without an Output), and below
200 Steps (the share of the last one rounds to 100 % from there on): this is
`OneStepAtATime`. Of such a bundle `WorkLeft` is inductive beside `IInv`: an Output
has a key of the Step that produced it, and each Step left behind that no Jump has
skipped has one. A Loop drops only Outputs at its target or behind, its own report takes
over no key of an earlier Step, and a Jump forward marks as skipped just what it passes
over, also after a Loop into Steps skipped before.

`NeverStuck` is the converse of `OnlyOffered`. `Followable` asks that there be no Jumps
(with them it is false, see above) and that a report can hold each group of Conditions:
no more of them than `MaxResults`, of distinct Output keys, with one verification
outcome at most; that `Reportable` has their valid values and that there is a summary
only says that the run asks about such reports. `ValuesAtHand` picks for each Condition
of the group a valid value that agrees with the bound document or the manifest, `Listed`
puts them in some order, `FaultFree` goes through the checks of the loop in that
order, `StaticCheckSuffices` leaves one Route, and `DryRunForetells` says that what
passes is committed unless an Output belongs to a skipped Step, of which there is
none (`NothingSkipped`). `RouteCopied`, `EvidenceClaims` and `MessageUnderstood` show that
the message an agent copies from the status is valid and understood as that report,
and `HumanIgnored` that a human's Evidence, which comes along, changes nothing.

`ConfigurationProofs` holds for any number of processes, versions, invalid
snapshots and faults:

- `ConfigurationTypes`: `Spec => []TypeOK`;
- `BindingIsValid`: `Spec => []CurrentIsValid`;
- `OneBindingHeld`: `Spec => []OneBinding`;
- `ReportsTrue`: `Spec => []ReportsTheActiveVersion`;
- `FailureKeepsBinding`: `Spec => []FailureKeepsTheBinding`;
- `SyncGoesForward`: `Spec => SyncNeverGoesBack`.

Its assumption is `ConfigurationAssumption`. `CurrentIsValid` is not inductive: an
`Activate` binds whatever the process holds by then, and a restore binds what the
process read before. The invariant `IInv` adds that no published snapshot is
invalid, and for each process a `Claim`: what it is about to publish validated (an
init validates before it waits for the lock, so the claim spans that wait), what it
is about to activate is published, and so is the previous binding it may put back.
Since no step unpublishes a snapshot, the steps of the other processes keep the
claim (`Moves`); the locks are not needed for it.

The theorems about the binding need them. Their invariant `BInv` says that who holds
the lock exclusively holds it alone (`Exclusion`), that no version is newer than its
center, and for each process what it `Knows` at its label: how it holds the lock
and which command it is (`Holding`), what config/current is while it holds it (`Bound`),
how old the version is that it has fetched (`Recent`: at least as new as the center
was when the lock was taken, the `floor`), and what an init has seen (`Witnessed`).
`OthersKeep` shows that the steps of the others leave all of this alone, because the
center never goes back and whoever moves the binding is alone with it; then one lemma
for each action says that it takes its process from one label's knowledge to the
next. `FailureKeepsBinding` is about every failure but that of the restore
itself, whose error the code ignores and which is not modelled here; and it excepts a
Fornax sync that found no binding.

`StoreProofs` holds for any number of processes, initializers and snapshots, any
relation `Accepts` and any bounds on Events, rebinds, failing writes and kills:

- `TypeCorrect`: `Spec => []TypeOK`, which includes that the Requirement lock belongs
  to exactly the process that writes under it;
- `StaysTogether`: `Spec => []FilesStayTogether`;
- `Implements`: `Spec => Linear`, the refinement of `CommitLog`;
- `PinAccountedFor`: `Lone => Spec => []PinIsAccountedFor`.

Its assumption is `StoreAssumption`, and for the last one `Lone`. The invariant `IInv` has
three parts besides the types. `HistoryInv`: events.jsonl is in the order in which its Events were issued, and
state.json shows all of it or all but the last Event. `QuietInv`: while no commit is
under way, nothing was killed and one write failed at most, the files agree. And a
`Claim` for each process: the State it has read is the beginning of what state.json
shows now (`Prefix`), its Event is newer than all of that and caused by its last one
(`Fresh`), and a commit under way knows what each file holds (`Committing`, `Writing`,
`Restoring`). Everything rests on one lemma, `SameMoment`: two moments of a history in
order that end in the same Event are the same. By it a commit that passes
`ValidateCommit` under the lock was evaluated on the State as it still is
(`CommitStarts`), although that State was loaded without the lock, and a load that passes
`ValidateHistory` has read the State, the Output Registry and the Events of one moment
(`Answers`), although it read them one by one. For the refinement a step is then that of
the log (`Begins`, `ReadEventsAnswers`, `WriteCommits` when state.json is renamed,
`Abandons`) or unseen by it. `FilesStayTogether` states its second part for one failing
write; the proof shows where the second one would break it: `Restoring` says that every
file is as before or still to be put back, which a restore that fails makes false.

`Lone` says that there is one initializer at most and at most one failing write, as in
the run: a second `init` may overwrite the pin of the first (the finding of `init_race`), and
a rebind whose restore fails too, an error the code ignores, leaves a pin that no record
accounts for. Under it, and besides `IInv`, `PinInv` says who may touch the pin: as long
as there is no State only the founder is at work (`FounderIsAlone`), and what it commits
names the pin it wrote; a commit under the lock has a history that the pinned Workflow
accepts, which is what `ValidateCommit` found; and a rebind tells at each of its labels how
far the pin and the audit have come (`Rebound`), where a prepared record accounts for the
pin on both sides of its move (`PreparedAccounts`), so that a kill between them does no harm.

`DashboardProofs` holds for any number of Dashboards, readers, files and contents, any
set of consistent trees and any number of events:

- `TypeCorrect`: `Spec => []TypeOK`, which includes that the lock of the source belongs
  to exactly the Dashboard whose save is under way;
- `NoEditLost`: `Spec => NoEditIsLost`;
- `OneTree`: `Spec => OneValidTree`.

Its assumption is `DashboardAssumption`. The two action properties speak of single steps
and follow from an invariant with three parts. `SaveInv`: a save that has its temporary
file found its target as its page expects it, and one that has validated holds a valid
candidate, both unless a hand came between. It is kept by the steps of others because
`TypeOK` gives the lock to one save at a time (`Exclusive`), so that no other save
replaces a file. `LoadInv`: a load on its way was asked over the text that the editor
still holds, since whatever changes the text drops the load. `ReaderInv`: while a
reader loads nobody writes, so what it has read is still there.
`ReplacedByCandidate` then says that the tree after a replacement is the candidate
that was validated.

`VerificationProofs` holds for any number of processes and evidence directories and any
number of defects, faults and foreign cleanups:

- `TypeCorrect`: `Spec => []TypeOK`;
- `PassedManifestIsEarned`: `Spec => []PassedIsEarned`;
- `EndsClean`: `Spec => []NothingLeftBehind`;
- `FinishedStays`: `Spec => OutcomeIsFinal`.

Its assumption is `VerificationAssumption`. Besides the types, `IInv` says whose a
directory is (`Owned`: the process that created it, and nobody writes another's), and
for each process a `Claim` about where it is in its journey. The heart is `OnTheWay`:
the commands on record are the first of the journey, and what a command did not do as
it should is known or will be, by its answer or by the fingerprint of the files, as
long as the work root with its source is there. Others may only take that work root
away, after which no later command is answered; so the claim speaks of what is true
while the source lasts, and a cleanup by somebody else makes it weaker and never false.
`Concluded` follows a journey that passed to its manifest through the two cleanups.

`ReleaseProofs` holds for any number of processes, releases, commands and faults and
any finite sets of exposed and retired Skills:

- `TypeCorrect`: `Spec => []TypeOK`;
- `AlwaysResolves`: `Spec => []CurrentResolves`;
- `MigratedOnce`: `Spec => MigrationIsFinal`, by which a `current` that is a symlink never
  becomes a directory again, and the one step that exchanges the directory for the
  symlink retains it;
- `AnswersTruly`: `Spec => []EndsAsAnswered`.

Its assumption is `ReleaseAssumption`. `CurrentResolves` rests on `Relies`: what a
process is about to select has a tree that is there or accounted for (`Covered`), and
what the rollback of an installation is about to remove is not selected, unless npm
did (`torn`). The steps of others keep this because whoever removes a tree, and whoever
selects one except npm, holds `releases/.current.lock` (`LocksHeld`): it is a rely
and guarantee argument, with one lemma for each action. `EndsAsAnswered` has an invariant of its own, `SoloInv`,
about the process that met no other: `current`, trees and links are told at each label
from what they were before the command and what it has done since (`SoloCurrent`,
`SoloTrees`, `SoloLinks`, `SoloSkills`). This attempt found the property false
beyond the bounds of the run: a command that fails may put back a tree that an earlier
one was killed in replacing; the property now allows that much and no more.

`MirrorProofs` holds for any number of processes, sources, Skills, versions and
packages, any size of a page and any number of releases, changes of the list, edits
and faults:

- `TypeCorrect`: `Spec => []TypeOK`;
- `SyncIsWhole`: `Spec => []SyncIsAllOrNothing`;
- `DriftSpeaksTrue`: `Spec => DriftIsTrue`.

Its assumption is `MirrorAssumption`. `IInv` says of the disk that a digest names one
snapshot and that the receipt is of an unedited snapshot, made of what it says was
discovered (`Snapshots`, `Receipts`), and of each process what it knows at its label.
The discovery is the long part. `Paged` says that the pages read so far are all of one
list, if its length tells which list it is: then the last page completes that list
(`PagesOfOneList`, which counts positions), every Skill listed all the time is on it
(`Lasting`), and after the releases are asked for it is among what was found. What a
process has seen only grows, and `KnowledgeLasts` and `CompleteLasts` say that the
claims survive that. From there it is algebra of sets of packages: `Selected` of any
acceptable set holds one package for each Workflow, and of a writable source if there
is one (`SelectsOne`, `FoundIsComplete`). What a failed sync leaves (`Failed`) is told by the
label `restore`, at which the binding is the old one or the new: a restore that
succeeds makes it the old one, if there is one, and one that fails leaves either
(`RestoreBegins`, `PutBackKeeps`). The attempt found `SyncIsAllOrNothing` false
for two changes of a list that keep its length, which the run cannot reach.

`ProjectionsProofs` holds for any number of processes, Events, snapshots and faults:

- `TypeCorrect`: `Spec => []TypeOK`;
- `SyncsDescribeTheirStart`: `Spec => SyncedDescribesItsStart`;
- `SnapshotsStay`: `Spec => SnapshotsKept`;
- `CardRepaired`: `Spec => CardIsRepaired`;
- `TraceRepaired`: `Spec => TraceIsRepaired`.

Its assumption is `ProjectionsAssumption`. `IInv` has for each process what it `Knows` of
the log and which command is `Going` where, and for the process that is `alone` what it
finds (`Undisturbed`). `Knows` is about all commands: a sync remembers the number of
the sync_started it committed, and the last commit goes through only if the log is still
that long, so the Event before it is its own; since the log only grows,
`KnowledgeLasts` keeps this through the steps of others. `Undisturbed` follows the one
command through its labels: what it has loaded is the end of the log, a
report at its sync has projected a Card that shows what the last State shows
(`ShownSkips`: no Event of a sync changes that), and `Settled` says of the two targets
what each step of the sync has left there. The last two theorems read off what holds at
the labels at which such a command ends (`EndsIn`). The bound `MaxEvents` on the log is
one of the run and no part of `TypeOK`: that the Events which commands under way may
still commit fit below it is a sum over the processes, an induction over data.

Only model-checked: liveness (`LockIsReleased`, `CommandsEnd`), which is out of the
prover's reach, as is everything that needs `ENABLED`.

## Not modelled

The generated IDL but for its shapes, enums, rules and tables of `storageidl`, `flowidl`,
`traceidl`, `erroridl` and the commands: what is left (constructors, accessors,
comparison, the text of enums, and the packages of the card, the Dashboard, operations,
releases, verification and YAML) is more than a third of the implementation's lines and
holds no decision but field checks; the
text of responses and projections (the wording of `events.md` and of the Registry row,
Output, the names and Prompts of
the Workflow view); decoding of YAML and JSON (a torn or malformed file is not produced by
the program, since files are replaced by rename); clocks (an Event earlier than its
predecessor is refused at its commit); remote services beyond what their callers
rely on; Doctor, which reads only; the Execution log, whose
records are single writes under a lock of their own and decide nothing; the
topology, the allowlist of paths and symbolic links of the Dashboard; archive formats,
checksums and manifests of releases; shell profiles and the launcher of the npm package.

## What would come next

1. A switch of the Workflow in the Dashboard, with the topology it waits for.
