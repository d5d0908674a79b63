----------------------------- MODULE Projections -----------------------------
(***************************************************************************)
(* What is derived from the committed Events of a Requirement and written  *)
(* after them: the Card projection and its snapshots (internal/card), the  *)
(* Trace document and the Registry row at the remote service               *)
(* (internal/trace), by commands of several processes.                     *)
(*                                                                         *)
(* The Store appears as what Linear of module Store shows it to be: `log`, *)
(* to which a command appends its Event if nothing was appended since the  *)
(* load it was evaluated on.  The State after n Events is written n.  The  *)
(* Registry provider is lark; the CLI log document, a third target of a    *)
(* sync that is treated like the first, is left out.                       *)
(*                                                                         *)
(* An operator named X_Y stands before X and is X with the fault Y.        *)
(***************************************************************************)
EXTENDS Integers, Sequences, SequencesExt

CONSTANTS
    Procs, NoProc,
    MaxEvents, MaxSnapshots, MaxFaults   \* bounds

ASSUME ProjectionsAssumption ==
    /\ NoProc \notin Procs
    /\ {MaxEvents, MaxSnapshots, MaxFaults} \subseteq Nat

VARIABLES
    log,        \* the kinds of the committed Events; trace.synced by its outcome
    card,       \* the State card/projection.json was written from, 0 if missing
    snapshots,  \* card/<stamp>-<suffix>.json of one stamp, by suffix
    document,   \* what the Trace document shows: a State and a list of Events
    rows,       \* the Registry rows of the document's key
    lock,       \* who holds flow/state.lock between two steps
    pc, job,    \* where each process is, and what it has read and will write
    alone,      \* the process, if any, whose command met no other and no fault
    faults      \* failed calls and writes, and kills

vars == <<log, card, snapshots, document, rows, lock, pc, job, alone, faults>>
local == <<log, card, snapshots>>
remote == <<document, rows>>

Outcomes == {"succeeded", "partial", "skipped"}
CardFacts == {"init", "report", "bind"}
Kinds == CardFacts \cup Outcomes \cup {"started"}

\* projectionMatchesState compares what the Card shows, which no Event of a
\* sync changes: the last Event that changed it stands for it.
Shown(state) ==
    LET facts == {i \in 1..state : log[i] \in CardFacts} IN
    IF facts = {} THEN 0 ELSE CHOOSE i \in facts : \A j \in facts : j <= i

Bound(state) == \E i \in 1..state : log[i] = "bind"

NoContent == [state |-> 0, events |-> 0]
NoJob == [command |-> "none", base |-> 0, kind |-> "none", content |-> NoContent,
          document |-> "none", registry |-> "none", row |-> 0, name |-> 0, cost |-> 0]

-----------------------------------------------------------------------------
(* Steps of a process *)

At(p, label) == pc[p] = label
Goto(p, label) == pc' = [pc EXCEPT ![p] = label]
Continue(p, label) == Goto(p, label) /\ UNCHANGED job

Finish(p) ==
    /\ Goto(p, "idle")
    /\ job' = [job EXCEPT ![p] = NoJob]

\* A call or a write that fails counts against MaxFaults and disturbs the rest.
Fault == faults < MaxFaults /\ faults' = faults + 1 /\ alone' = NoProc
NoFault == UNCHANGED <<faults, alone>>

\* The load of a command, which will commit at most `cost` Events.
Begin(p, work, label, cost) ==
    /\ At(p, "idle")
    /\ Len(log) + cost + FoldFunction(+, 0, [q \in Procs |-> job[q].cost]) <= MaxEvents
    /\ job' = [job EXCEPT ![p] = [work EXCEPT !.base = Len(log), !.cost = cost]]
    /\ Goto(p, label)
    /\ alone' = IF \A q \in Procs : pc[q] = "idle" THEN p ELSE NoProc
    /\ UNCHANGED <<local, remote, lock, faults>>

\* flow init: Exists is asked first.
StartInit(p) ==
    /\ log = << >>
    /\ Begin(p, [NoJob EXCEPT !.command = "init", !.kind = "init"], "commit", 2)

\* A report that is accepted.
StartReport(p) ==
    /\ log # << >>
    /\ Begin(p, [NoJob EXCEPT !.command = "report", !.kind = "report"], "commit", 3)

\* trace bind: the document that is bound already only refreshes the Card.
StartBind(p) ==
    /\ log # << >>
    /\ IF Bound(Len(log))
       THEN Begin(p, [NoJob EXCEPT !.command = "bind"], "refresh", 0)
       ELSE Begin(p, [NoJob EXCEPT !.command = "bind", !.kind = "bind"], "commit", 1)

StartSync(p) ==
    /\ log # << >>
    /\ Begin(p, [NoJob EXCEPT !.command = "sync"], "sync", 2)

StartRender(p, command) ==
    /\ log # << >>
    /\ command = "render" => Len(snapshots) < MaxSnapshots
    /\ Begin(p, [NoJob EXCEPT !.command = command, !.content.state = card], "render", 0)

AfterCommit_SkipsTheCard(p) ==
    CASE job[p].kind = "init" -> "provision"
      [] job[p].kind = "report" -> "sync"
      [] job[p].kind = "bind" -> "refresh"
      [] job[p].kind = "started" -> "events"

\* What follows a commit: a report projects the State it has made, an init
\* provisions a Trace first and projects what it then loads.
AfterCommit(p) ==
    CASE job[p].kind = "init" -> "provision"
      [] job[p].kind = "report" -> "project"
      [] job[p].kind = "bind" -> "refresh"
      [] job[p].kind = "started" -> "events"

\* A commit that fails ends its command, silently if it is the one of an
\* automatic sync; that of a provisioning bind is only a warning.
Refuse(p) ==
    IF job[p].command = "init" /\ job[p].kind = "bind"
    THEN Continue(p, "reload") ELSE Finish(p)

Commit_TrustsTheLoad(p) ==
    /\ At(p, "commit") /\ lock = NoProc
    /\ log' = Append(log, job[p].kind)
    /\ IF job[p].kind \in Outcomes THEN Finish(p)
       ELSE /\ job' = [job EXCEPT ![p].base = Len(log'), ![p].cost = @ - 1]
            /\ Goto(p, AfterCommit(p))
    /\ NoFault
    /\ UNCHANGED <<card, snapshots, remote, lock>>

\* Store.Commit, under the lock: it appends the Event if the State it was
\* evaluated on is still the last one.
Commit(p) ==
    /\ At(p, "commit") /\ lock = NoProc
    /\ \/ job[p].base # Len(log) /\ Refuse(p) /\ NoFault /\ UNCHANGED log
       \/ Fault /\ Refuse(p) /\ UNCHANGED log
       \/ /\ job[p].base = Len(log)
          /\ log' = Append(log, job[p].kind)
          /\ IF job[p].kind \in Outcomes THEN Finish(p)
             ELSE /\ job' = [job EXCEPT ![p].base = Len(log'), ![p].cost = @ - 1]
                  /\ Goto(p, AfterCommit(p))
          /\ NoFault
    /\ UNCHANGED <<card, snapshots, remote, lock>>

-----------------------------------------------------------------------------
(* The Card projection *)

\* provisionTraceDocument: without a Botmux binding, with the Registry off, or
\* when the document cannot be created, nothing is bound; else Bind loads again.
Provision(p) ==
    /\ At(p, "provision")
    /\ \/ Continue(p, "reload")
       \/ /\ job' = [job EXCEPT ![p].kind = "bind", ![p].base = Len(log)]
          /\ Goto(p, IF Bound(Len(log)) THEN "reload" ELSE "commit")
    /\ NoFault
    /\ UNCHANGED <<local, remote, lock>>

\* The State that init projects is loaded after the Trace was provisioned.
Reload(p) ==
    /\ At(p, "reload")
    /\ job' = [job EXCEPT ![p].base = Len(log)]
    /\ Goto(p, "project")
    /\ NoFault
    /\ UNCHANGED <<local, remote, lock>>

\* WriteProjection of a State loaded before, without the lock.  A report of a
\* Requirement with a Trace then syncs it.
Project(p) ==
    /\ At(p, "project")
    /\ \/ card' = job[p].base /\ NoFault
       \/ Fault /\ UNCHANGED card
    /\ IF job[p].command = "report" /\ Bound(job[p].base)
       THEN Continue(p, "sync")
       ELSE Finish(p)
    /\ UNCHANGED <<log, snapshots, remote, lock>>

\* refreshCardProjection: the lock is taken and the last State loaded, ...
Refresh(p) ==
    /\ At(p, "refresh") /\ lock = NoProc
    /\ lock' = p
    /\ job' = [job EXCEPT ![p].base = Len(log)]
    /\ Goto(p, "refreshing")
    /\ NoFault
    /\ UNCHANGED <<local, remote>>

WriteRefreshed_KeepsTheLock(p) ==
    /\ At(p, "refreshing")
    /\ card' = job[p].base /\ NoFault
    /\ IF job[p].command = "init" THEN Continue(p, "reload") ELSE Finish(p)
    /\ UNCHANGED <<log, snapshots, remote, lock>>

\* ... and projected before the lock is released.  The refresh of a bind by
\* flow init only warns when it fails.
WriteRefreshed(p) ==
    /\ At(p, "refreshing")
    /\ lock' = NoProc
    /\ \/ card' = job[p].base /\ NoFault
       \/ Fault /\ UNCHANGED card
    /\ IF job[p].command = "init" THEN Continue(p, "reload") ELSE Finish(p)
    /\ UNCHANGED <<log, snapshots, remote>>

\* card render: the projection was read before the State; a missing one is an
\* error, a stale one is written anew, which a dry run leaves.
LoadState(p) ==
    /\ At(p, "render")
    /\ IF job[p].content.state = 0 THEN Finish(p)
       ELSE IF job[p].command = "dry-run" THEN Finish(p)
       ELSE /\ job' = [job EXCEPT ![p].base = Len(log)]
            /\ Goto(p, IF Shown(job[p].content.state) = Shown(Len(log))
                       THEN "path" ELSE "rebuild")
    /\ NoFault
    /\ UNCHANGED <<local, remote, lock>>

Rebuild(p) ==
    /\ At(p, "rebuild")
    /\ \/ card' = job[p].base /\ NoFault /\ Continue(p, "check")
       \/ Fault /\ UNCHANGED card /\ Finish(p)
    /\ UNCHANGED <<log, snapshots, remote, lock>>

CheckRebuilt(p) ==
    /\ At(p, "check")
    /\ IF Shown(card) = Shown(job[p].base) THEN Continue(p, "path")
       ELSE Finish(p)
    /\ NoFault
    /\ UNCHANGED <<local, remote, lock>>

\* nextCardPath: the first suffix that no file has.
NextCardPath(p) ==
    /\ At(p, "path")
    /\ job' = [job EXCEPT ![p].name = Len(snapshots) + 1]
    /\ Goto(p, "snapshot")
    /\ NoFault
    /\ UNCHANGED <<local, remote, lock>>

WriteSnapshot_Truncates(p) ==
    /\ At(p, "snapshot")
    /\ snapshots' = IF job[p].name > Len(snapshots) THEN Append(snapshots, job[p].base)
                    ELSE [snapshots EXCEPT ![job[p].name] = job[p].base]
    /\ Finish(p)
    /\ NoFault
    /\ UNCHANGED <<log, card, remote, lock>>

\* writeSnapshot, with O_EXCL; a file whose write fails is removed.
WriteSnapshot(p) ==
    /\ At(p, "snapshot")
    /\ \/ /\ job[p].name > Len(snapshots)
          /\ snapshots' = Append(snapshots, job[p].base)
          /\ Finish(p) /\ NoFault
       \/ /\ job[p].name <= Len(snapshots)
          /\ Finish(p) /\ NoFault /\ UNCHANGED snapshots
       \/ Fault /\ Finish(p) /\ UNCHANGED snapshots
    /\ UNCHANGED <<log, card, remote, lock>>

-----------------------------------------------------------------------------
(* Trace sync *)

\* Sync, up to its first commit: a Requirement without a Trace skips all targets.
Sync(p) ==
    /\ At(p, "sync")
    /\ job' = [job EXCEPT ![p].base = Len(log),
                          ![p].kind = IF Bound(Len(log)) THEN "started" ELSE "skipped"]
    /\ Goto(p, "commit")
    /\ NoFault
    /\ UNCHANGED <<local, remote, lock>>

\* The Events are read again, without the lock; what the targets are to show
\* is rendered from them and the State that was committed.
ReadEvents(p) ==
    /\ At(p, "events")
    /\ job' = [job EXCEPT ![p].content = [state |-> job[p].base, events |-> Len(log)],
                          ![p].document = "todo", ![p].registry = "list"]
    /\ Goto(p, "targets")
    /\ NoFault
    /\ UNCHANGED <<local, remote, lock>>

\* syncDocument: an overwrite fails, or succeeds and its answer is lost.
SyncDocument(p) ==
    /\ At(p, "targets") /\ job[p].document = "todo"
    /\ \/ document' = job[p].content /\ NoFault
          /\ job' = [job EXCEPT ![p].document = "succeeded"]
       \/ document' \in {document, job[p].content} /\ Fault
          /\ job' = [job EXCEPT ![p].document = "failed"]
    /\ UNCHANGED <<local, rows, lock, pc>>

\* syncRegistry, its steps in `registry`: the rows of the key are listed, ...
ListRows(p) ==
    /\ At(p, "targets") /\ job[p].registry = "list"
    /\ \/ /\ job' = [job EXCEPT ![p].row = Len(rows),
                                ![p].registry = IF Len(rows) > 1 THEN "failed" ELSE "upsert"]
          /\ NoFault
       \/ /\ job' = [job EXCEPT ![p].registry = "failed"]
          /\ Fault
    /\ UNCHANGED <<local, remote, lock, pc>>

\* ... the one that was there is updated, or a new one is made, ...
Upserted(p) ==
    IF job[p].row = 0 THEN Append(rows, job[p].content)
    ELSE [rows EXCEPT ![1] = job[p].content]

UpsertRow(p) ==
    /\ At(p, "targets") /\ job[p].registry = "upsert"
    /\ \/ /\ rows' = Upserted(p) /\ NoFault
          /\ job' = [job EXCEPT ![p].registry =
                         IF job[p].row = 0 THEN "resolve" ELSE "succeeded"]
       \/ /\ rows' \in {rows, Upserted(p)} /\ Fault
          /\ job' = [job EXCEPT ![p].registry = "failed"]
    /\ UNCHANGED <<local, document, lock, pc>>

\* ... and a new row is named by the answer, or looked up again and must then
\* be the only one.
ResolveRow(p) ==
    /\ At(p, "targets") /\ job[p].registry = "resolve"
    /\ \/ /\ job' = [job EXCEPT ![p].registry = "succeeded"]
          /\ NoFault
       \/ /\ Len(rows) # 1
          /\ job' = [job EXCEPT ![p].registry = "failed"]
          /\ NoFault
       \/ /\ job' = [job EXCEPT ![p].registry = "failed"]
          /\ Fault
    /\ UNCHANGED <<local, remote, lock, pc>>

\* Both targets have ended; what became of them is committed.
Conclude_IgnoresFailures(p) ==
    /\ At(p, "targets")
    /\ {job[p].document, job[p].registry} \subseteq {"succeeded", "failed"}
    /\ job' = [job EXCEPT ![p].kind = "succeeded"]
    /\ Goto(p, "commit")
    /\ NoFault
    /\ UNCHANGED <<local, remote, lock>>

Conclude(p) ==
    /\ At(p, "targets")
    /\ {job[p].document, job[p].registry} \subseteq {"succeeded", "failed"}
    /\ job' = [job EXCEPT ![p].kind =
                   IF "failed" \in {job[p].document, job[p].registry} THEN "partial"
                   ELSE "succeeded"]
    /\ Goto(p, "commit")
    /\ NoFault
    /\ UNCHANGED <<local, remote, lock>>

-----------------------------------------------------------------------------

Crash(p) ==
    /\ pc[p] # "idle"
    /\ Fault
    /\ lock' = IF lock = p THEN NoProc ELSE lock
    /\ Finish(p)
    /\ UNCHANGED <<local, remote>>

Init ==
    /\ log = << >> /\ card = 0 /\ snapshots = << >>
    /\ document = NoContent /\ rows = << >>
    /\ lock = NoProc
    /\ pc = [p \in Procs |-> "idle"]
    /\ job = [p \in Procs |-> NoJob]
    /\ alone = NoProc
    /\ faults = 0

Start(p) ==
    \/ StartInit(p) \/ StartReport(p) \/ StartBind(p) \/ StartSync(p)
    \/ \E command \in {"render", "dry-run"} : StartRender(p, command)

Advance(p) ==
    \/ Commit(p) \/ Provision(p) \/ Reload(p) \/ Project(p)
    \/ Refresh(p) \/ WriteRefreshed(p)
    \/ LoadState(p) \/ Rebuild(p) \/ CheckRebuilt(p) \/ NextCardPath(p) \/ WriteSnapshot(p)
    \/ Sync(p) \/ ReadEvents(p) \/ SyncDocument(p)
    \/ ListRows(p) \/ UpsertRow(p) \/ ResolveRow(p) \/ Conclude(p)

Next == \E p \in Procs : Start(p) \/ Advance(p) \/ Crash(p)

Spec == Init /\ [][Next]_vars

-----------------------------------------------------------------------------
(* Properties *)

Labels == {"idle", "commit", "provision", "reload", "project", "refresh", "refreshing",
           "render", "rebuild", "check", "path", "snapshot", "sync", "events", "targets"}
Contents == [state : Nat, events : Nat]
Jobs ==
    [command : {"none", "init", "report", "bind", "sync", "render", "dry-run"},
     base : Nat, kind : Kinds \cup {"none"}, content : Contents,
     document : {"none", "todo", "succeeded", "failed"},
     registry : {"none", "list", "upsert", "resolve", "succeeded", "failed"},
     row : Nat, name : Nat, cost : Int]

\* The type invariant; the lock is held between two steps by a refresh only.
TypeOK ==
    /\ log \in Seq(Kinds)
    /\ card \in 0..Len(log)
    /\ snapshots \in Seq(1..Len(log))
    /\ document \in Contents /\ rows \in Seq(Contents)
    /\ lock \in Procs \cup {NoProc} /\ alone \in Procs \cup {NoProc}
    /\ pc \in [Procs -> Labels]
    /\ \A p \in Procs : lock = p <=> pc[p] = "refreshing"
    /\ job \in [Procs -> Jobs]
    /\ \A p \in Procs : job[p].base <= Len(log)
    /\ faults \in 0..MaxFaults

\* A trace.synced Event follows the trace.sync_started of its own sync, and what
\* it reports on showed one moment, the one of that start: no other Event gets
\* between the two, although the lock is not held during the calls.
SyncedDescribesItsStart ==
    [][\A p \in Procs :
          /\ pc[p] = "commit" /\ job[p].kind \in {"succeeded", "partial"}
          /\ log' # log /\ pc'[p] # "commit"
          => /\ log[Len(log)] = "started"
             /\ job[p].content = [state |-> Len(log), events |-> Len(log)]]_vars

\* The command of p ends, having met no other command and no fault.
EndsAlone(p, commands) ==
    alone' = p /\ job[p].command \in commands /\ pc[p] # "idle" /\ pc'[p] = "idle"

\* ADR 0142: whatever races and faults there were before, the next command that
\* writes the Card projection, if nothing disturbs it, leaves it up to date.
CardIsRepaired ==
    [][\A p \in Procs : EndsAlone(p, {"init", "report", "bind"}) =>
          Shown(card)' = Shown(Len(log))']_vars

\* Whatever overwrites arrived out of order or were lost before, the next sync
\* that nothing disturbs leaves document and row as of its start, and says
\* "succeeded" if it did so.  It can only fail to if the row is not unique.
TraceIsRepaired ==
    [][\A p \in Procs :
          /\ EndsAlone(p, {"sync", "report"})
          /\ Bound(job[p].base)
          => LET start == [state |-> Len(log), events |-> Len(log)] IN
             /\ document' = start
             /\ IF Len(rows') = 1
                THEN rows' = <<start>> /\ log' = Append(log, "succeeded")
                ELSE log' = Append(log, "partial")]_vars

\* ADR 0013: a Card snapshot that was written is never changed.
SnapshotsKept == [][IsPrefix(snapshots, snapshots')]_vars
=============================================================================
