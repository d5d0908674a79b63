-------------------------------- MODULE Store --------------------------------
(***************************************************************************)
(* The files of one Requirement and the CLI processes that share them      *)
(* (internal/store/store.go, with the commands of internal/flow, internal/ *)
(* trace and cmd/config.go that call it).  A load takes no lock and reads  *)
(* file by file; a commit holds the Requirement lock and replaces file by  *)
(* file; a write may fail, and a process may stop between any two steps.   *)
(*                                                                         *)
(* A file is replaced by rename, so its content is always that of one      *)
(* write; it is modelled by the Event history it was rendered from, and    *)
(* << >> is a file that does not exist.  state.json shows the id of its    *)
(* last Event, output/state.json the Output Registry, events.jsonl all of  *)
(* it; trace/events.md is a projection nobody reads back, as is            *)
(* trace/config.json, which is left out.                                   *)
(*                                                                         *)
(* An operator named X_Y stands before X and is X with the fault Y.        *)
(***************************************************************************)
EXTENDS Integers, Sequences, SequencesExt

CONSTANTS
    Procs,        \* CLI processes, each running one command after another
    Initializers, \* those that may run `flow init`
    Snapshots,    \* installed configuration snapshots
    Accepts,      \* for each, the snapshots whose Events its Workflow accepts
    Commands,     \* of each process: the commands it runs, of those that load
    NoPin, NoProc,
    MaxEvents, MaxRebinds, MaxFaults, MaxCrashes   \* bounds

ASSUME StoreAssumption ==
    /\ Initializers \subseteq Procs /\ NoProc \notin Procs
    /\ NoPin \notin Snapshots
    /\ Commands \in [Procs -> SUBSET {"status", "report", "rebuild"}]
    /\ Accepts \in [Snapshots -> SUBSET Snapshots]
    /\ \A s \in Snapshots : s \in Accepts[s]
    /\ {MaxEvents, MaxRebinds, MaxFaults, MaxCrashes} \subseteq Nat

VARIABLES
    files,      \* the history each file was rendered from
    pin,        \* configuration-snapshot
    audit,      \* audit/configuration-rebindings.jsonl
    lock,       \* who holds flow/state.lock
    pc, job,    \* where each process is, and what it has read and will write
    answer,     \* what its last load found
    issued, rebinds, faults, crashes   \* counted against the bounds

vars == <<files, pin, audit, lock, pc, job, answer, issued, rebinds, faults, crashes>>

Events == [id : 1..MaxEvents, cause : 0..MaxEvents, registers : BOOLEAN, snapshot : Snapshots]
Histories == Seq(Events)

\* The committed log is what state.json shows.
Started == [p \in Procs |-> IF pc[p] = "idle" THEN -1 ELSE Len(job[p].state)]

Log == INSTANCE CommitLog WITH log <- files["state"], started <- Started

LastID(history) == Log!LastID(history)
Registry(history) == Log!Registry(history)

WriteOrder == <<"outputs", "events", "trace", "state">>
Paths == {WriteOrder[i] : i \in DOMAIN WriteOrder}

NoEvent == [id |-> 0, cause |-> 0, registers |-> FALSE, snapshot |-> NoPin]
NoJob == [command |-> "none", snapshot |-> NoPin, state |-> << >>, outputs |-> << >>,
          event |-> NoEvent, before |-> [path \in Paths |-> << >>], todo |-> << >>,
          audited |-> << >>, pinned |-> NoPin]

-----------------------------------------------------------------------------
(* What a history must satisfy *)

\* ValidateHistory: the Events are chained by cause, the Workflow of the
\* snapshot accepts each of them, and they end in this State and Registry.
Accepted(history, snapshot) ==
    \A i \in DOMAIN history : history[i].snapshot \in Accepts[snapshot]

ValidateHistory_IgnoresRegistry(history, last, registry, snapshot) ==
    /\ history # << >>
    /\ \A i \in DOMAIN history : history[i].cause = LastID(SubSeq(history, 1, i - 1))
    /\ Accepted(history, snapshot)
    /\ LastID(history) = last

ValidateHistory(history, last, registry, snapshot) ==
    /\ history # << >>
    /\ \A i \in DOMAIN history : history[i].cause = LastID(SubSeq(history, 1, i - 1))
    /\ Accepted(history, snapshot)
    /\ LastID(history) = last
    /\ Registry(history) = registry

\* validateCommit, of the State that adds an Event to what was loaded.
ValidateCommit(outputs, event, snapshot) ==
    /\ IF files["state"] # << >>
       THEN files["outputs"] # << >> /\ LastID(files["state"]) = LastID(files["events"])
       ELSE files["events"] = << >>
    /\ ValidateHistory(Append(files["events"], event), event.id,
                       Registry(Append(outputs, event)), snapshot)

-----------------------------------------------------------------------------
(* Steps of a process *)

At(p, label) == pc[p] = label
Goto(p, label) == pc' = [pc EXCEPT ![p] = label]

\* A command ends, well or with an error, and forgets all it has read.
Finish(p) == Goto(p, "idle") /\ job' = [job EXCEPT ![p] = NoJob]
Continue(p, label) == Goto(p, label) /\ UNCHANGED job

\* A write that fails counts against MaxFaults.
Fault == faults < MaxFaults /\ faults' = faults + 1

NewEvent(work, registers) ==
    [id |-> issued + 1, cause |-> LastID(work.state), registers |-> registers,
     snapshot |-> work.snapshot]

\* A command starts: its answer is still to come.
Begin(p, work, label) ==
    /\ Goto(p, label)
    /\ job' = [job EXCEPT ![p] = [work EXCEPT !.state = files["state"]]]
    /\ answer' = [answer EXCEPT ![p] = Log!NoView]

\* flow init: Exists is asked before the configuration is prepared, and the
\* pin is written before the first commit, both without the Requirement lock.
\* A command refused at its start (ALREADY_INITIALIZED, NOT_INITIALIZED,
\* WORKFLOW_MISMATCH) changes nothing.
StartInit(p, snapshot) ==
    LET work == [NoJob EXCEPT !.command = "init", !.snapshot = snapshot] IN
    /\ At(p, "idle") /\ p \in Initializers
    /\ files["state"] = << >>
    /\ issued < MaxEvents
    /\ issued' = issued + 1
    /\ Begin(p, [work EXCEPT !.event = NewEvent(work, FALSE)], "pin")
    /\ UNCHANGED <<files, pin, audit, lock, rebinds, faults, crashes>>

PinConfiguration(p) ==
    /\ At(p, "pin")
    /\ \/ pin' = job[p].snapshot /\ Continue(p, "commit") /\ UNCHANGED faults
       \/ Fault /\ Finish(p) /\ UNCHANGED pin
    /\ UNCHANGED <<files, audit, lock, answer, issued, rebinds, crashes>>

\* LoadBound, file by file.  A status ends with it; a report commits what it
\* evaluates; a rebuild renders the Events it reads afterwards.
StartLoad(p, command) ==
    /\ At(p, "idle")
    /\ files["state"] # << >>
    /\ Begin(p, [NoJob EXCEPT !.command = command], "outputs")
    /\ UNCHANGED <<files, pin, audit, lock, issued, rebinds, faults, crashes>>

ReadOutputs(p) ==
    /\ At(p, "outputs")
    /\ IF files["outputs"] = << >> THEN Finish(p)
       ELSE /\ job' = [job EXCEPT ![p].outputs = files["outputs"]]
            /\ Goto(p, "workflow")
    /\ UNCHANGED <<files, pin, audit, lock, answer, issued, rebinds, faults, crashes>>

LoadWorkflow(p) ==
    /\ At(p, "workflow")
    /\ job' = [job EXCEPT ![p].snapshot = pin]
    /\ Goto(p, "events")
    /\ UNCHANGED <<files, pin, audit, lock, answer, issued, rebinds, faults, crashes>>

LoadedView(p) == [last |-> LastID(job[p].state), registry |-> Registry(job[p].outputs)]

ReadEvents(p) ==
    /\ At(p, "events")
    /\ IF ValidateHistory(files["events"], LastID(job[p].state), Registry(job[p].outputs),
                          job[p].snapshot)
       THEN /\ answer' = [answer EXCEPT ![p] = LoadedView(p)]
            /\ IF job[p].command = "status" THEN Finish(p)
               ELSE Continue(p, job[p].command)
       ELSE Finish(p) /\ UNCHANGED answer
    /\ UNCHANGED <<files, pin, audit, lock, issued, rebinds, faults, crashes>>

\* A report that is accepted, and either changes the Output Registry or not.
Evaluate(p) ==
    /\ At(p, "report")
    /\ issued < MaxEvents
    /\ \E registers \in BOOLEAN :
          job' = [job EXCEPT ![p].event = NewEvent(job[p], registers)]
    /\ issued' = issued + 1
    /\ Goto(p, "commit")
    /\ UNCHANGED <<files, pin, audit, lock, answer, rebinds, faults, crashes>>

\* A report that is refused, or that would not be within the bound.
RefuseReport(p) ==
    /\ At(p, "report")
    /\ Finish(p)
    /\ UNCHANGED <<files, pin, audit, lock, answer, issued, rebinds, faults, crashes>>

RebuildRead(p) ==
    /\ At(p, "rebuild")
    /\ job' = [job EXCEPT ![p].todo = files["events"]]
    /\ Goto(p, "render")
    /\ UNCHANGED <<files, pin, audit, lock, answer, issued, rebinds, faults, crashes>>

\* RebuildProjection writes without the lock.
RebuildWrite(p) ==
    /\ At(p, "render")
    /\ \/ files' = [files EXCEPT !["trace"] = job[p].todo] /\ Finish(p) /\ UNCHANGED faults
       \/ Fault /\ Finish(p) /\ UNCHANGED files
    /\ UNCHANGED <<pin, audit, lock, answer, issued, rebinds, crashes>>

BeginCommit_TrustsTheLoad(p) ==
    /\ At(p, "commit") /\ lock = NoProc
    /\ IF ValidateCommit(job[p].outputs, job[p].event, job[p].snapshot)
       THEN /\ lock' = p
            /\ job' = [job EXCEPT ![p].before = files, ![p].todo = WriteOrder]
            /\ Goto(p, "write")
       ELSE Finish(p) /\ UNCHANGED lock
    /\ UNCHANGED <<files, pin, audit, answer, issued, rebinds, faults, crashes>>

\* Commit, up to its first write: the lock is taken and the new Event checked
\* against what the files hold now.  A refusal gives the lock back at once.
BeginCommit(p) ==
    /\ At(p, "commit") /\ lock = NoProc
    /\ IF ValidateCommit(job[p].outputs, job[p].event, pin)
       THEN /\ lock' = p
            /\ job' = [job EXCEPT ![p].before = files, ![p].todo = WriteOrder]
            /\ Goto(p, "write")
       ELSE Finish(p) /\ UNCHANGED lock
    /\ UNCHANGED <<files, pin, audit, answer, issued, rebinds, faults, crashes>>

\* The next State and its Registry come from the load, the Events from the file.
Content(work, path) ==
    CASE path = "state"   -> Append(work.state, work.event)
      [] path = "outputs" -> Append(work.outputs, work.event)
      [] OTHER            -> Append(work.before["events"], work.event)

\* The i-th thing to do is done; when nothing is left the lock is released.
Proceed(p, i) ==
    IF Len(job[p].todo) = 1
    THEN Finish(p) /\ lock' = NoProc
    ELSE job' = [job EXCEPT ![p].todo = RemoveAt(@, i)] /\ UNCHANGED <<pc, lock>>

\* The next file of the write order is replaced.
Write(p) ==
    LET path == Head(job[p].todo) IN
    /\ At(p, "write")
    /\ files' = [files EXCEPT ![path] = Content(job[p], path)]
    /\ Proceed(p, 1)
    /\ UNCHANGED <<pin, audit, answer, issued, rebinds, faults, crashes>>

WriteFails_RestoresTheRest(p) ==
    /\ At(p, "write") /\ Fault
    /\ Continue(p, "restore")
    /\ UNCHANGED <<files, pin, audit, lock, answer, issued, rebinds, crashes>>

\* A failed write restores every file, in no particular order (a Go map);
\* the error of a restore is ignored.
WriteFails(p) ==
    /\ At(p, "write") /\ Fault
    /\ job' = [job EXCEPT ![p].todo = WriteOrder]
    /\ Goto(p, "restore")
    /\ UNCHANGED <<files, pin, audit, lock, answer, issued, rebinds, crashes>>

Restore(p) ==
    /\ At(p, "restore")
    /\ \E i \in DOMAIN job[p].todo :
          LET path == job[p].todo[i] IN
          /\ \/ files' = [files EXCEPT ![path] = job[p].before[path]] /\ UNCHANGED faults
             \/ Fault /\ UNCHANGED files
          /\ Proceed(p, i)
    /\ UNCHANGED <<pin, audit, answer, issued, rebinds, crashes>>

-----------------------------------------------------------------------------
(* RebindConfiguration: all of it under the lock *)

Rebindable(snapshot) ==
    /\ files["state"] # << >> /\ files["outputs"] # << >> /\ pin # NoPin
    /\ ValidateHistory(files["events"], LastID(files["state"]),
                       Registry(files["outputs"]), snapshot)

BeginRebind(p, snapshot) ==
    /\ At(p, "idle") /\ lock = NoProc
    /\ Rebindable(snapshot)
    /\ rebinds < MaxRebinds
    /\ rebinds' = rebinds + 1
    /\ lock' = p
    /\ Begin(p, [NoJob EXCEPT !.command = "rebind", !.snapshot = snapshot,
                              !.audited = audit, !.pinned = pin], "prepare")
    /\ UNCHANGED <<files, pin, audit, issued, faults, crashes>>

AuditRecord(p, phase) ==
    [phase |-> phase, previous |-> job[p].pinned, new |-> job[p].snapshot]

Prepare(p) ==
    /\ At(p, "prepare")
    /\ \/ /\ audit' = Append(audit, AuditRecord(p, "prepared"))
          /\ Continue(p, "move")
          /\ UNCHANGED <<lock, faults>>
       \/ Fault /\ Finish(p) /\ lock' = NoProc /\ UNCHANGED audit
    /\ UNCHANGED <<files, pin, answer, issued, rebinds, crashes>>

\* A failed write of the pin restores both files, and so does one of the
\* committed record, the pin first.
RebindFails(p, order) ==
    /\ Fault
    /\ Goto(p, "undo")
    /\ job' = [job EXCEPT ![p].todo = order]
    /\ UNCHANGED <<pin, audit, lock>>

MovePin(p) ==
    /\ At(p, "move")
    /\ \/ /\ pin' = job[p].snapshot
          /\ Continue(p, "committed")
          /\ UNCHANGED <<audit, lock, faults>>
       \/ RebindFails(p, <<"audit", "pin">>)
    /\ UNCHANGED <<files, answer, issued, rebinds, crashes>>

CommitAudit_RestoresTheAuditFirst(p) ==
    /\ At(p, "committed")
    /\ \/ /\ audit' = Append(audit, AuditRecord(p, "committed"))
          /\ Finish(p) /\ lock' = NoProc
          /\ UNCHANGED <<pin, faults>>
       \/ RebindFails(p, <<"audit", "pin">>)
    /\ UNCHANGED <<files, answer, issued, rebinds, crashes>>

CommitAudit(p) ==
    /\ At(p, "committed")
    /\ \/ /\ audit' = Append(audit, AuditRecord(p, "committed"))
          /\ Finish(p) /\ lock' = NoProc
          /\ UNCHANGED <<pin, faults>>
       \/ RebindFails(p, <<"pin", "audit">>)
    /\ UNCHANGED <<files, answer, issued, rebinds, crashes>>

Undo(p) ==
    LET what == Head(job[p].todo) IN
    /\ At(p, "undo")
    /\ \/ /\ pin' = IF what = "pin" THEN job[p].pinned ELSE pin
          /\ audit' = IF what = "audit" THEN job[p].audited ELSE audit
          /\ UNCHANGED faults
       \/ Fault /\ UNCHANGED <<pin, audit>>
    /\ Proceed(p, 1)
    /\ UNCHANGED <<files, answer, issued, rebinds, crashes>>

-----------------------------------------------------------------------------

Crash_KeepsTheLock(p) ==
    /\ pc[p] # "idle"
    /\ crashes < MaxCrashes
    /\ crashes' = crashes + 1
    /\ Finish(p)
    /\ UNCHANGED <<files, pin, audit, lock, answer, issued, rebinds, faults>>

\* A process that stops gives up the lock; what it was doing is left as it is.
Crash(p) ==
    /\ pc[p] # "idle"
    /\ crashes < MaxCrashes
    /\ crashes' = crashes + 1
    /\ lock' = IF lock = p THEN NoProc ELSE lock
    /\ Finish(p)
    /\ UNCHANGED <<files, pin, audit, answer, issued, rebinds, faults>>

Init ==
    /\ files = [path \in Paths |-> << >>]
    /\ pin = NoPin /\ audit = << >> /\ lock = NoProc
    /\ pc = [p \in Procs |-> "idle"]
    /\ job = [p \in Procs |-> NoJob]
    /\ answer = [p \in Procs |-> Log!NoView]
    /\ issued = 0 /\ rebinds = 0 /\ faults = 0 /\ crashes = 0

Start(p) ==
    \/ \E snapshot \in Snapshots : StartInit(p, snapshot) \/ BeginRebind(p, snapshot)
    \/ \E command \in Commands[p] : StartLoad(p, command)

\* What a process that runs a command does next.
Advance(p) ==
    \/ PinConfiguration(p)
    \/ ReadOutputs(p) \/ LoadWorkflow(p) \/ ReadEvents(p)
    \/ Evaluate(p) \/ RefuseReport(p)
    \/ RebuildRead(p) \/ RebuildWrite(p)
    \/ BeginCommit(p) \/ Write(p) \/ WriteFails(p) \/ Restore(p)
    \/ Prepare(p) \/ MovePin(p) \/ CommitAudit(p) \/ Undo(p)

Next == \E p \in Procs : Start(p) \/ Advance(p) \/ Crash(p)

Spec == Init /\ [][Next]_vars

-----------------------------------------------------------------------------
(* Properties *)

\* The type invariant.
TypeOK ==
    /\ files \in [Paths -> Histories]
    /\ pin \in Snapshots \cup {NoPin}
    /\ audit \in Seq([phase : {"prepared", "committed"}, previous : Snapshots, new : Snapshots])
    /\ lock \in Procs \cup {NoProc}
    /\ \A p \in Procs : lock = p <=>
          pc[p] \in {"write", "restore", "prepare", "move", "committed", "undo"}
    /\ issued \in 0..MaxEvents /\ rebinds \in 0..MaxRebinds
    /\ faults \in 0..MaxFaults /\ crashes \in 0..MaxCrashes

\* Commits are atomic and loads see one moment: the store implements a log that
\* grows by one Event at a time, whatever two commands interleave, whichever
\* write fails and wherever a process is killed.
Linear == Log!Spec

\* The files of one commit stay together.  events.jsonl never lags behind
\* state.json and is ahead of it by one Event at most, even after a crash or a
\* restore that failed: no Event that a State shows can be missing from the
\* history.  And one error puts every file back (ADR 0016): while no command
\* holds the lock, none was killed and no second write failed, the three files a
\* load compares agree.
FilesStayTogether ==
    /\ \E n \in {0, 1} :
          /\ Len(files["events"]) = Len(files["state"]) + n
          /\ files["state"] = SubSeq(files["events"], 1, Len(files["state"]))
    /\ lock = NoProc /\ crashes = 0 /\ faults <= 1 =>
          /\ files["events"] = files["state"]
          /\ LastID(files["outputs"]) = LastID(files["state"])
          /\ Registry(files["outputs"]) = Registry(files["state"])

\* Only an audited rebind moves the pin, interrupted or not (ADR 0145: never an
\* unaudited pin, never a false committed record), and wherever it points, that
\* Workflow accepts the whole committed history: a rebind and a report that was
\* evaluated before it cannot both get through if they disagree.
PinIsAccountedFor ==
    files["state"] # << >> =>
        /\ pin \in Snapshots /\ Accepted(files["state"], pin)
        /\ IF audit = << >> THEN pin = files["state"][1].snapshot
           ELSE LET record == audit[Len(audit)] IN
                \/ pin = record.new
                \/ record.phase = "prepared" /\ pin = record.previous

\* technical-design.md: a Requirement keeps the snapshot it was initialized
\* with; only a rebind moves the pin.
PinnedByInitializer ==
    files["state"] # << >> /\ audit = << >> => pin = files["state"][1].snapshot
=============================================================================
