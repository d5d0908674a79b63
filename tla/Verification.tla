---------------------------- MODULE Verification ----------------------------
(***************************************************************************)
(* `fanloop verify`: a smoke drives the candidate through a fixed journey  *)
(* of public commands in a work root of its own, judges what each of them  *)
(* answered and did to the business files, removes the work root by        *)
(* another public command, and leaves a manifest whose outcome an agent    *)
(* may later report as an Output.  Snapshots and cleanups of other         *)
(* processes run beside it.                                                *)
(*   internal/verify                                                       *)
(*                                                                         *)
(* What a command prints is one of three answers: right, wrong, or none    *)
(* because it could not be run.  The fingerprint of the business files is  *)
(* a number that grows when they change.                                   *)
(***************************************************************************)
EXTENDS Naturals, Sequences, FiniteSets

CONSTANTS
    Procs, NoProc,      \* one command each; a smoke's run id is its process
    Dirs,               \* evidence directories that may be asked for
    MaxDefects,         \* bound: commands of the candidate that misbehave
    MaxFaults,          \* bound: writes that fail, and kills
    MaxCleanups         \* bound: `verify cleanup` by others

ASSUME VerificationAssumption ==
    /\ NoProc \notin Procs
    /\ MaxDefects \in Nat /\ MaxFaults \in Nat /\ MaxCleanups \in Nat

VARIABLES
    work,               \* verification/work/<run>: there, with the copied source, its files
    evidence,           \* each evidence directory: whose it is, manifest.json, report.md
    frozen,             \* snapshots whose copy of the configuration is there
    pc, job,
    right,              \* what a smoke's commands really did as they should
    defects, faults, cleanups

files == <<work, evidence, frozen>>
bounds == <<defects, faults, cleanups>>
vars == <<files, pc, job, right, bounds>>

Journey ==
    << "version", "verify_doctor", "not_initialized", "init_dry_run", "init",
       "status_after_init", "result_dry_run", "result", "status_after_result",
       "requirement_doctor", "snapshot" >>

Stages == {Journey[i] : i \in DOMAIN Journey}
DryRuns == {"init_dry_run", "result_dry_run"}
Writes == {"init", "result"}

\* A command that fails here shows nothing about the candidate: blocked.
Preconditions == {"version", "verify_doctor"}

\* What needs no source and no Requirement in the work root.
Unaided == {"version", "verify_doctor", "not_initialized"}

CleanupChecks == {"cleanup_dry_run", "cleanup"}

NoWork == [there |-> FALSE, source |-> FALSE, state |-> 0]

\* isolatedEnvironment: the source copied into a work root whose Requirement is empty.
Isolated == [there |-> TRUE, source |-> TRUE, state |-> 0]

Blank == [commands |-> << >>, checks |-> {}, candidate |-> FALSE, dry |-> FALSE,
          removed |-> FALSE, finished |-> FALSE, outcome |-> "blocked"]

NoManifest == [Blank EXCEPT !.outcome = "none"]

Empty == [run |-> NoProc, manifest |-> NoManifest, report |-> "none"]

\* dir: the evidence directory; stage, answer: the command under way; base: the
\* fingerprint it is compared with; manifest: in memory; checks, outcome,
\* complete: the response.
NoJob == [dir |-> NoProc, stage |-> 1, answer |-> "none", base |-> 0, manifest |-> Blank,
          checks |-> {}, outcome |-> "blocked", complete |-> FALSE, result |-> "none"]

-----------------------------------------------------------------------------

At(p, label) == pc[p] = label
Stage(p) == Journey[job[p].stage]

Goto(p, label, next) ==
    /\ pc' = [pc EXCEPT ![p] = label]
    /\ job' = [job EXCEPT ![p] = next]

Return(p, next, result) == Goto(p, "ended", [next EXCEPT !.result = result])

Fault == faults < MaxFaults /\ faults' = faults + 1 /\ UNCHANGED <<defects, cleanups>>
Defect == defects < MaxDefects /\ defects' = defects + 1 /\ UNCHANGED <<faults, cleanups>>

Check(id, status) == [id |-> id, status |-> status]
Passed(checks, id) == checks \cup {Check(id, "passed")}
Failed(checks, id) == checks \cup {Check(id, "failed")}

\* businessFingerprint: a Requirement that is not there has no business files.
Fingerprint(p) == IF work[p].there THEN work[p].state ELSE 0

WriteManifest(p, manifest) ==
    evidence' = [evidence EXCEPT ![job[p].dir].manifest = manifest]

-----------------------------------------------------------------------------
(* verify smoke *)

CreateEvidence_Reuses(p, d) ==
    /\ At(p, "idle")
    /\ evidence' = [evidence EXCEPT ![d] = [Empty EXCEPT !.run = p]]
    /\ Goto(p, "open", [NoJob EXCEPT !.dir = d])
    /\ UNCHANGED <<work, frozen, right, bounds>>

\* newEvidenceRun: the directory must not be there yet.
CreateEvidence(p, d) ==
    /\ At(p, "idle")
    /\ IF evidence[d].run # NoProc
       THEN Return(p, job[p], "error") /\ UNCHANGED evidence
       ELSE /\ evidence' = [evidence EXCEPT ![d] = [Empty EXCEPT !.run = p]]
            /\ Goto(p, "open", [NoJob EXCEPT !.dir = d])
    /\ UNCHANGED <<work, frozen, right, bounds>>

OpenManifest(p) ==
    /\ At(p, "open")
    /\ \/ WriteManifest(p, Blank) /\ Goto(p, "prepare", job[p]) /\ UNCHANGED bounds
       \/ Fault /\ Return(p, job[p], "error") /\ UNCHANGED evidence
    /\ UNCHANGED <<work, frozen, right>>

\* The Requirement's directory, and the configuration copied under its lock;
\* an error is returned at once, whatever is there stays.
PrepareWork(p) ==
    /\ At(p, "prepare")
    /\ \/ /\ work' = [work EXCEPT ![p] = Isolated]
          /\ Goto(p, "run", job[p])
          /\ UNCHANGED bounds
       \/ /\ Fault
          /\ \/ UNCHANGED work
             \/ work' = [work EXCEPT ![p] = [NoWork EXCEPT !.there = TRUE]]
          /\ Return(p, job[p], "error")
    /\ UNCHANGED <<evidence, frozen, right>>

Does(stage, answer, changes) ==
    answer = "right" /\ (stage \in DryRuns => ~changes) /\ (stage \in Writes => changes)

\* A child process.  Without its source a command fails, and may leave its data
\* home behind in a work root that was removed.
RunCommand(p) ==
    LET s == Stage(p)
        w == work[p]
        base == IF s \in DryRuns THEN Fingerprint(p) ELSE job[p].base
    IN
    /\ At(p, "run")
    /\ \E answer \in {"right", "wrong", "none"}, changes, again \in BOOLEAN :
          /\ changes => w.source
          /\ answer = "right" => w.source \/ s \in Unaided
          /\ again => ~w.there
          /\ work' = [work EXCEPT ![p] = [w EXCEPT !.there = @ \/ again,
                                                   !.state = IF changes THEN @ + 1 ELSE @]]
          /\ \/ /\ \/ Does(s, answer, changes) /\ (changes => s \in Writes)
                   \/ ~w.source /\ answer = "wrong"
                /\ UNCHANGED bounds
             \/ /\ ~(Does(s, answer, changes) /\ (changes => s \in Writes))
                /\ w.source
                /\ Defect
          /\ right' = [right EXCEPT ![p] = IF Does(s, answer, changes) THEN @ \cup {s} ELSE @]
          /\ Goto(p, "record", [job[p] EXCEPT !.answer = answer, !.base = base])
    /\ UNCHANGED <<evidence, frozen>>

\* recordCommand appends to the manifest in memory and writes it; when a file
\* cannot be written the command may be in it or not.
Recorded(p, id) == [job[p].manifest EXCEPT !.commands = Append(@, id)]

Record(p, id, label, next) ==
    /\ job[p].answer # "none"
    /\ WriteManifest(p, Recorded(p, id))
    /\ Goto(p, label, [next EXCEPT !.manifest.commands = Append(@, id)])
    /\ UNCHANGED bounds

NotRecorded(p, id, label, next) ==
    \/ /\ job[p].answer # "none" /\ Fault
       /\ \E commands \in {job[p].manifest.commands, Recorded(p, id).commands} :
             Goto(p, label, [next EXCEPT !.manifest.commands = commands])
       /\ UNCHANGED evidence
    \/ /\ job[p].answer = "none"
       /\ Goto(p, label, next)
       /\ UNCHANGED <<evidence, bounds>>

Refused_KeepsTheWork(p, checks, outcome) ==
    Goto(p, "finish", [job[p] EXCEPT !.checks = Failed(checks, Stage(p)), !.outcome = outcome])

\* fail: the check that ends the journey, then the cleanup.
Refused(p, checks, outcome) ==
    Goto(p, "seal", [job[p] EXCEPT !.checks = Failed(checks, Stage(p)), !.outcome = outcome])

RecordCommand_Retries(p) ==
    /\ At(p, "record")
    /\ \/ Record(p, Stage(p), "judge", job[p])
       \/ NotRecorded(p, Stage(p), "run", job[p])
    /\ UNCHANGED <<work, frozen, right>>

\* A command whose record fails is not run again: the journey is blocked.
RecordCommand(p) ==
    /\ At(p, "record")
    /\ \/ Record(p, Stage(p), "judge", job[p])
       \/ NotRecorded(p, Stage(p), "seal",
                      [job[p] EXCEPT !.checks = Failed(@, Stage(p)), !.outcome = "blocked"])
    /\ UNCHANGED <<work, frozen, right>>

Verdict_TrustsDryRuns(p) ==
    LET s == Stage(p) IN
    IF job[p].answer = "wrong" THEN IF s \in Preconditions THEN "blocked" ELSE "failed"
    ELSE IF s = "version" /\ ~work[p].source THEN "blocked"
    ELSE IF s \in Writes /\ Fingerprint(p) = job[p].base THEN "failed"
    ELSE "passed"

\* What Smoke makes of a command that was run and recorded: its answer, the
\* packages of the copied source, and the business files before and after.
Verdict(p) ==
    LET s == Stage(p) IN
    IF job[p].answer = "wrong" THEN IF s \in Preconditions THEN "blocked" ELSE "failed"
    ELSE IF s = "version" /\ ~work[p].source THEN "blocked"
    ELSE IF s \in DryRuns /\ Fingerprint(p) # job[p].base THEN "failed"
    ELSE IF s \in Writes /\ Fingerprint(p) = job[p].base THEN "failed"
    ELSE "passed"

\* The check of a write is passed when it was answered, before its effect is
\* looked at; the identity is in the manifest from the first check on.
Judge(p) ==
    LET s == Stage(p)
        answered == IF s \in Writes /\ job[p].answer = "right"
                    THEN Passed(job[p].checks, s) ELSE job[p].checks
        on == [job[p] EXCEPT !.checks = Passed(@, s), !.base = Fingerprint(p),
                             !.manifest.candidate = TRUE]
    IN
    /\ At(p, "judge")
    /\ \/ /\ IF Verdict(p) # "passed" THEN Refused(p, answered, Verdict(p))
             ELSE IF s = "snapshot" THEN Goto(p, "seal", [on EXCEPT !.outcome = "passed"])
             ELSE Goto(p, "run", [on EXCEPT !.stage = @ + 1])
          /\ UNCHANGED bounds
       \/ \* A file cannot be read.
          /\ s \in {"version", "not_initialized", "status_after_init"} \cup DryRuns \cup Writes
          /\ Fault
          /\ Refused(p, answered, "blocked")
       \/ \* fingerprint.json or requirement-cli.jsonl cannot be written.
          /\ s \in {"not_initialized", "snapshot"}
          /\ Fault
          /\ Return(p, job[p], "error")
    /\ UNCHANGED <<files, right>>

-----------------------------------------------------------------------------
(* finishSmokeCleanup *)

SealEvidence(p) ==
    /\ At(p, "seal")
    /\ \/ WriteManifest(p, job[p].manifest) /\ Goto(p, "dry", job[p]) /\ UNCHANGED bounds
       \/ Fault /\ Goto(p, "finish", job[p]) /\ UNCHANGED evidence
    /\ UNCHANGED <<work, frozen, right>>

\* `verify cleanup --dry-run` names the work root if it is there.
DryCleanup(p) ==
    /\ At(p, "dry")
    /\ \E answer \in {"right", "wrong", "none"} :
          /\ IF answer = (IF work[p].there THEN "right" ELSE "wrong")
             THEN UNCHANGED bounds ELSE answer # "right" /\ Defect
          /\ Goto(p, "named", [job[p] EXCEPT !.answer = answer])
    /\ UNCHANGED <<files, right>>

CheckDryCleanup(p) ==
    LET named == job[p].answer = "right" /\ work[p].there
        refused == [job[p] EXCEPT !.checks = Failed(@, "cleanup_dry_run")]
    IN
    /\ At(p, "named")
    /\ \/ IF named
          THEN Record(p, "cleanup_dry_run", "real",
                      [job[p] EXCEPT !.checks = Passed(@, "cleanup_dry_run")])
          ELSE Record(p, "cleanup_dry_run", "finish", refused)
       \/ NotRecorded(p, "cleanup_dry_run", "finish", refused)
    /\ UNCHANGED <<work, frozen, right>>

\* `verify cleanup` removes it and says whether it did.
RealCleanup(p) ==
    /\ At(p, "real")
    /\ \/ /\ work' = [work EXCEPT ![p] = NoWork]
          /\ Goto(p, "removed", [job[p] EXCEPT !.answer = IF work[p].there THEN "right" ELSE "wrong"])
          /\ UNCHANGED bounds
       \/ /\ Defect
          /\ \E answer \in {"right", "wrong", "none"} :
                Goto(p, "removed", [job[p] EXCEPT !.answer = answer])
          /\ UNCHANGED work
    /\ UNCHANGED <<evidence, frozen, right>>

CheckCleanup(p) ==
    LET removed == job[p].answer = "right" /\ ~work[p].there
        cleaned == [job[p] EXCEPT !.manifest.dry = TRUE, !.manifest.removed = removed]
        refused == [cleaned EXCEPT !.checks = Failed(@, "cleanup")]
    IN
    /\ At(p, "removed")
    /\ \/ Record(p, "cleanup", "finish",
                 IF removed
                 THEN [cleaned EXCEPT !.checks = Passed(@, "cleanup"), !.complete = TRUE]
                 ELSE refused)
       \/ NotRecorded(p, "cleanup", "finish", refused)
    /\ UNCHANGED <<work, frozen, right>>

\* A journey that passed is blocked by its cleanup.
Outcome(p) ==
    IF job[p].outcome = "passed" /\ ~(job[p].complete /\ job[p].manifest.dry)
    THEN "blocked" ELSE job[p].outcome

\* finish: the outcome is in the manifest only now.  The file may be replaced
\* even if writePrivate then fails to set its mode.
FinishManifest(p) ==
    LET manifest == [job[p].manifest EXCEPT !.checks = job[p].checks, !.finished = TRUE,
                                            !.outcome = Outcome(p)]
    IN
    /\ At(p, "finish")
    /\ \/ /\ WriteManifest(p, manifest)
          /\ Goto(p, "report", [job[p] EXCEPT !.manifest = manifest, !.outcome = Outcome(p)])
          /\ UNCHANGED bounds
       \/ /\ Fault
          /\ WriteManifest(p, manifest) \/ UNCHANGED evidence
          /\ Return(p, job[p], "error")
    /\ UNCHANGED <<work, frozen, right>>

WriteReport(p) ==
    /\ At(p, "report")
    /\ \/ /\ evidence' = [evidence EXCEPT ![job[p].dir].report = job[p].outcome]
          /\ Return(p, job[p], job[p].outcome)
          /\ UNCHANGED bounds
       \/ Fault /\ Return(p, job[p], "error") /\ UNCHANGED evidence
    /\ UNCHANGED <<work, frozen, right>>

-----------------------------------------------------------------------------
(* verify snapshot, verify cleanup, and what happens to processes *)

\* The configuration is copied under its lock into a directory of its own.
FreezeConfiguration(p, d) ==
    /\ At(p, "idle")
    /\ \/ /\ frozen' = frozen \cup {p}
          /\ Goto(p, "capture", [NoJob EXCEPT !.dir = d])
          /\ UNCHANGED bounds
       \/ Fault /\ Return(p, job[p], "error") /\ UNCHANGED frozen
    /\ UNCHANGED <<work, evidence, right>>

\* The snapshot's directory must not be there yet; it stays when an
\* observation or a copy fails.
CaptureSnapshot(p) ==
    LET d == job[p].dir IN
    /\ At(p, "capture")
    /\ IF evidence[d].run # NoProc
       THEN Return(p, job[p], "error") /\ UNCHANGED <<evidence, bounds>>
       ELSE \/ /\ evidence' = [evidence EXCEPT ![d] = [Empty EXCEPT !.run = p,
                                                                    !.report = "inventory"]]
               /\ Return(p, job[p], "captured")
               /\ UNCHANGED bounds
            \/ /\ Fault
               /\ evidence' = [evidence EXCEPT ![d] = [Empty EXCEPT !.run = p]]
               /\ Return(p, job[p], "error")
    /\ frozen' = frozen \ {p}
    /\ UNCHANGED <<work, right>>

\* Anybody may clean up the run whose id the evidence shows.
Cleanup(p) ==
    /\ cleanups < MaxCleanups
    /\ work[p].there
    /\ work' = [work EXCEPT ![p] = NoWork]
    /\ cleanups' = cleanups + 1
    /\ UNCHANGED <<evidence, frozen, pc, job, right, defects, faults>>

Kill(p) ==
    /\ pc[p] \notin {"idle", "ended"}
    /\ Fault
    /\ Return(p, job[p], "killed")
    /\ UNCHANGED <<files, right>>

Init ==
    /\ work = [p \in Procs |-> NoWork]
    /\ evidence = [d \in Dirs |-> Empty]
    /\ frozen = {}
    /\ pc = [p \in Procs |-> "idle"]
    /\ job = [p \in Procs |-> NoJob]
    /\ right = [p \in Procs |-> {}]
    /\ defects = 0 /\ faults = 0 /\ cleanups = 0

Smoke(p) ==
    \/ \E d \in Dirs : CreateEvidence(p, d)
    \/ OpenManifest(p) \/ PrepareWork(p) \/ RunCommand(p) \/ RecordCommand(p) \/ Judge(p)
    \/ SealEvidence(p) \/ DryCleanup(p) \/ CheckDryCleanup(p) \/ RealCleanup(p)
    \/ CheckCleanup(p) \/ FinishManifest(p) \/ WriteReport(p)

Snapshot(p) == CaptureSnapshot(p) \/ \E d \in Dirs : FreezeConfiguration(p, d)

Next == \E p \in Procs : Smoke(p) \/ Snapshot(p) \/ Cleanup(p) \/ Kill(p)

Spec == Init /\ [][Next]_vars

-----------------------------------------------------------------------------
(* Properties *)

Outcomes == {"passed", "failed", "blocked"}

Checks == [id : Stages \cup CleanupChecks, status : {"passed", "failed"}]

\* What is in a manifest, on disk or in memory: no command is recorded twice.
Manifest(m) ==
    /\ DOMAIN m = DOMAIN Blank
    /\ m.commands \in Seq(Stages \cup CleanupChecks)
    /\ \A i, k \in DOMAIN m.commands : m.commands[i] = m.commands[k] => i = k
    /\ m.checks \in SUBSET Checks
    /\ {m.candidate, m.dry, m.removed, m.finished} \subseteq BOOLEAN
    /\ m.outcome \in Outcomes \cup {"none"}

\* The type invariant, with the bookkeeping that the run relies on: the journey
\* stays within its stages, and a work root that is gone has no source.
TypeOK ==
    /\ work \in [Procs -> [there : BOOLEAN, source : BOOLEAN, state : 0..Len(Journey)]]
    /\ \A p \in Procs : work[p].source => work[p].there
    /\ DOMAIN evidence = Dirs
    /\ \A d \in Dirs :
          /\ evidence[d].run \in Procs \cup {NoProc}
          /\ Manifest(evidence[d].manifest)
          /\ evidence[d].report \in Outcomes \cup {"none", "inventory"}
    /\ frozen \subseteq Procs
    /\ right \in [Procs -> SUBSET Stages]
    /\ \A p \in Procs :
          /\ job[p].stage \in DOMAIN Journey
          /\ Manifest(job[p].manifest)
          /\ job[p].checks \subseteq Checks
          /\ job[p].outcome \in Outcomes
          /\ job[p].result \in Outcomes \cup {"none", "captured", "error", "killed"}

\* A manifest says passed only of a candidate whose every command did what it
\* should, dry-runs without an effect and writes with one, that is on record
\* with every command and check, and whose work root is gone: whatever fails,
\* is killed, or cleans up in between (ADR 0101, ADR 0112: a passed manifest
\* is what lets a Requirement be delivered).
PassedIsEarned ==
    \A d \in Dirs :
        LET m == evidence[d].manifest
            p == evidence[d].run
        IN  m.outcome = "passed" =>
                /\ right[p] = Stages
                /\ m.checks = {Check(id, "passed") : id \in Stages \cup CleanupChecks}
                /\ m.commands = Journey \o <<"cleanup_dry_run", "cleanup">>
                /\ m.candidate /\ m.finished
                /\ ~work[p].there

\* The evidence of a run is kept: once a manifest is finished, no other run,
\* snapshot or cleanup changes it, so what an agent has read in it stays true.
OutcomeIsFinal ==
    [][\A d \in Dirs :
          evidence[d].manifest.finished => evidence'[d].manifest = evidence[d].manifest]_vars

\* A smoke that answers has an outcome on disk, in the manifest and the report,
\* that is its answer, and has removed its work root: unless a write failed,
\* or the check that says so is failed, and then the manifest does not say
\* that it was removed.  A snapshot that was not killed leaves no copy of the
\* configuration behind.
NothingLeftBehind ==
    \A p \in Procs :
        LET e == evidence[job[p].dir] IN
        /\ At(p, "ended") /\ job[p].result \in Outcomes =>
              /\ e.run = p /\ e.manifest.outcome = job[p].result /\ e.report = job[p].result
              /\ work[p].there =>
                    /\ ~e.manifest.removed
                    /\ faults = 0 => \E id \in CleanupChecks : Check(id, "failed") \in e.manifest.checks
        /\ At(p, "ended") /\ job[p].result # "killed" => p \notin frozen
=============================================================================
