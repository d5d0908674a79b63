------------------------- MODULE VerificationProofs -------------------------
(***************************************************************************)
(* For any number of processes, directories, misbehaving commands, failing *)
(* writes, kills and cleanups: the types, that a manifest that says passed *)
(* was earned and is never changed, and what an ended smoke leaves.        *)
(***************************************************************************)
EXTENDS Verification, SequenceTheorems, TLAPS

-----------------------------------------------------------------------------
(* The inductive invariant *)

Results == Outcomes \cup {"none", "captured", "error", "killed"}

Commands == Stages \cup CleanupChecks

Works == [there : BOOLEAN, source : BOOLEAN, state : Nat]

Manifests ==
    [commands : Seq(Commands), checks : SUBSET Checks, candidate : BOOLEAN, dry : BOOLEAN,
     removed : BOOLEAN, finished : BOOLEAN, outcome : Outcomes \cup {"none"}]

Entries == [run : Procs \cup {NoProc}, manifest : Manifests,
            report : Outcomes \cup {"none", "inventory"}]

Jobs ==
    [dir : Dirs \cup {NoProc}, stage : DOMAIN Journey, answer : {"none", "right", "wrong"},
     base : Nat, manifest : Manifests, checks : SUBSET Checks, outcome : Outcomes,
     complete : BOOLEAN, result : Results]

Running == {"run", "record", "judge"}

Ending == {"seal", "dry", "named", "real", "removed", "finish"}

Working == {"open", "prepare", "report"} \cup Running \cup Ending

Distinct(s) == \A i, k \in DOMAIN s : s[i] = s[k] => i = k

Contents(s) == {s[i] : i \in DOMAIN s}

\* The first n commands of the journey are these, or did what they should.
First(s, n) == Len(s) = n /\ \A i \in 1..n : s[i] = Journey[i]
Done(r, n) == \A i \in 1..n : Journey[i] \in r

PassedUpTo(n) == {Check(Journey[i], "passed") : i \in 1..n}

CleanupPassed == {Check(id, "passed") : id \in CleanupChecks}

AllPassed == {Check(id, "passed") : id \in Stages \cup CleanupChecks}

NotCleaned(checks) == \E id \in CleanupChecks : Check(id, "failed") \in checks

Fresh(h, w) ==
    /\ h.stage = 1 /\ h.base = 0 /\ h.manifest = Blank /\ h.checks = {}
    /\ h.outcome = "blocked" /\ ~h.complete
    /\ w = NoWork

\* A smoke among its commands.  What it has not seen of a command that did
\* not do what it should it will see, as long as its source is there; and
\* without it no later command is answered.
OnTheWay(label, h, w, r) ==
    LET s == Journey[h.stage] IN
    /\ First(h.manifest.commands, IF label = "judge" THEN h.stage ELSE h.stage - 1)
    /\ h.checks = PassedUpTo(h.stage - 1)
    /\ ~h.manifest.removed /\ ~h.manifest.finished /\ ~h.complete
    /\ h.manifest.outcome = "blocked" /\ h.outcome = "blocked"
    /\ w.state <= (IF label = "run" THEN h.stage - 1 ELSE h.stage)
    /\ w.source => Done(r, h.stage - 1)
    /\ label = "run" /\ w.source => h.base = w.state
    /\ label # "run" /\ h.answer = "right" =>
          /\ s \notin Unaided => Done(r, h.stage - 1)
          /\ s \notin r => s \in DryRuns \cup Writes
          /\ s \in DryRuns /\ w.source /\ s \notin r => h.base # w.state
          /\ s \in Writes /\ w.source /\ s \notin r => h.base = w.state
    /\ label = "judge" => h.answer # "none"

\* What is on record of a journey that passed.
OnRecord(label, h) ==
    CASE label \in {"seal", "dry", "named"} ->
             /\ h.manifest.commands = Journey
             /\ h.checks = PassedUpTo(Len(Journey))
      [] label \in {"real", "removed"} ->
             /\ h.manifest.commands = Append(Journey, "cleanup_dry_run")
             /\ h.checks = Passed(PassedUpTo(Len(Journey)), "cleanup_dry_run")
      [] OTHER ->
             h.complete => /\ h.manifest.commands = Journey \o <<"cleanup_dry_run", "cleanup">>
                           /\ h.checks = AllPassed

\* A smoke after its journey: what passed is on record, and the work root that
\* it says was removed is gone.
Concluded(label, h, w, r, n) ==
    /\ Distinct(h.manifest.commands)
    /\ label # "finish" => "cleanup" \notin Contents(h.manifest.commands)
    /\ label \in {"seal", "dry", "named"} =>
          "cleanup_dry_run" \notin Contents(h.manifest.commands)
    /\ h.outcome = "passed" => r = Stages /\ h.manifest.candidate /\ OnRecord(label, h)
    /\ ~h.manifest.finished /\ h.manifest.outcome = "blocked"
    /\ label # "finish" => ~h.complete /\ ~h.manifest.removed
    /\ h.complete => h.manifest.removed
    /\ h.manifest.removed => ~w.there
    /\ label = "finish" /\ w.there /\ n = 0 => NotCleaned(h.checks)

\* A smoke that has finished its manifest, until it ends.
Finished(p, h, w, ev, n) ==
    LET m == ev[h.dir].manifest IN
    /\ h.dir \in Dirs
    /\ ev[h.dir].run = p /\ m.finished /\ m.outcome = h.outcome
    /\ w.there => ~m.removed /\ (n = 0 => NotCleaned(m.checks))

Claim(p, label, h, w, r, ev, fr, n) ==
    /\ label = "idle" => h = NoJob /\ w = NoWork /\ r = {}
    /\ label \in Working => h.dir \in Dirs /\ ev[h.dir].run = p
    /\ label = "capture" => h.dir \in Dirs /\ w = NoWork
    /\ label \in {"open", "prepare"} => Fresh(h, w)
    /\ label \in Running => OnTheWay(label, h, w, r)
    /\ label \in Ending => Concluded(label, h, w, r, n)
    /\ label = "report" => Finished(p, h, w, ev, n)
    /\ label = "ended" /\ h.result \in Outcomes =>
          /\ h.result = h.outcome
          /\ Finished(p, h, w, ev, n)
          /\ ev[h.dir].report = h.outcome
    /\ p \in fr => label = "capture" \/ (label = "ended" /\ h.result = "killed")

Types ==
    /\ work \in [Procs -> Works]
    /\ \A p \in Procs : work[p].state <= Len(Journey) /\ (work[p].source => work[p].there)
    /\ evidence \in [Dirs -> Entries]
    /\ \A d \in Dirs : Distinct(evidence[d].manifest.commands)
    /\ frozen \subseteq Procs
    /\ pc \in [Procs -> {"idle", "capture", "ended"} \cup Working]
    /\ job \in [Procs -> Jobs]
    /\ \A p \in Procs : Distinct(job[p].manifest.commands)
    /\ right \in [Procs -> SUBSET Stages]
    /\ faults \in Nat

\* A directory belongs to the command that created it, and is written by no
\* other; its manifest is finished by nothing but a smoke that is at its end.
Owned(d, e) ==
    /\ e.run \in Procs => job[e.run].dir = d /\ pc[e.run] \notin {"idle", "capture"}
    /\ e.manifest.finished => e.run \in Procs /\ pc[e.run] \in {"report", "ended"}
    /\ e.manifest.outcome = "passed" => e.manifest.finished

IInv ==
    /\ Types
    /\ \A d \in Dirs : Owned(d, evidence[d])
    /\ PassedIsEarned
    /\ \A p \in Procs :
          Claim(p, pc[p], job[p], work[p], right[p], evidence, frozen, faults)

-----------------------------------------------------------------------------
(* The journey and its records *)

\* The commands of the journey are eleven, all different, and no cleanup.
LEMMA JourneyFacts ==
    /\ Len(Journey) = 11 /\ DOMAIN Journey = 1..11 /\ Journey \in Seq(Commands)
    /\ \A i \in 1..11 : Journey[i] \in Stages
    /\ \A s \in Stages : \E i \in 1..11 : Journey[i] = s
    /\ Stages \cap CleanupChecks = {}
    /\ CleanupChecks = {"cleanup_dry_run", "cleanup"}
    /\ Journey[11] = "snapshot" /\ \A i \in 1..11 : Journey[i] = "snapshot" => i = 11
    /\ "snapshot" \notin Unaided \cup DryRuns \cup Writes
<1>1. DOMAIN Journey = 1..11 /\ Len(Journey) = 11
  BY DEF Journey
<1>2. Stages = {"version", "verify_doctor", "not_initialized", "init_dry_run", "init",
                "status_after_init", "result_dry_run", "result", "status_after_result",
                "requirement_doctor", "snapshot"}
  BY <1>1 DEF Stages, Journey
<1>3. Journey \in Seq(Commands)
  BY <1>2 DEF Journey, Commands
<1>4. \A i \in 1..11 : Journey[i] \in Stages
  BY <1>1 DEF Stages
<1>5. \A s \in Stages : \E i \in 1..11 : Journey[i] = s
  BY <1>1 DEF Stages
<1>6. Stages \cap CleanupChecks = {}
  BY <1>2 DEF CleanupChecks
<1>7. Journey[11] = "snapshot" /\ \A i \in 1..11 : Journey[i] = "snapshot" => i = 11
  BY DEF Journey
<1>8. "snapshot" \notin Unaided \cup DryRuns \cup Writes
  BY DEF Unaided, DryRuns, Writes
<1>9. QED
  BY <1>1, <1>3, <1>4, <1>5, <1>6, <1>7, <1>8 DEF CleanupChecks

\* No command is on the journey twice.
LEMMA JourneyDistinct == Distinct(Journey)
BY DEF Distinct, Journey

\* The values that the module names have their types.
LEMMA Constants ==
    /\ Blank \in Manifests /\ NoManifest \in Manifests /\ Distinct(Blank.commands)
    /\ Distinct(NoManifest.commands)
    /\ NoJob \in Jobs /\ Empty \in Entries
    /\ NoWork \in Works /\ Isolated \in Works
<1>1. << >> \in Seq(Commands) /\ Distinct(<< >>)
  BY DEF Distinct
<1>2. Blank \in Manifests /\ NoManifest \in Manifests /\ Distinct(Blank.commands)
      /\ Distinct(NoManifest.commands)
  BY <1>1 DEF Blank, NoManifest, Manifests, Outcomes
<1>3. NoJob \in Jobs
  BY <1>2, JourneyFacts DEF NoJob, Jobs, Outcomes, Results
<1>4. QED
  BY <1>2, <1>3 DEF Empty, Entries, NoWork, Isolated, Works

\* A check that is named after a command of the smoke is one.
LEMMA CheckTypes ==
    ASSUME NEW id \in Commands, NEW checks \in SUBSET Checks
    PROVE  Passed(checks, id) \in SUBSET Checks /\ Failed(checks, id) \in SUBSET Checks
BY DEF Commands, Checks, Passed, Failed, Check

\* A command that was not on record is recorded once.
LEMMA AppendDistinct ==
    ASSUME NEW s \in Seq(Commands), Distinct(s), NEW x \in Commands, x \notin Contents(s)
    PROVE  /\ Append(s, x) \in Seq(Commands) /\ Distinct(Append(s, x))
           /\ Contents(Append(s, x)) = Contents(s) \cup {x}
<1> DEFINE t == Append(s, x)
<1>1. /\ t \in Seq(Commands) /\ Len(t) = Len(s) + 1 /\ t[Len(s) + 1] = x
      /\ \A i \in 1..Len(s) : t[i] = s[i]
      /\ Len(s) \in Nat /\ DOMAIN s = 1..Len(s) /\ DOMAIN t = 1..(Len(s) + 1)
  OBVIOUS
<1> HIDE DEF t
<1>2. \A i \in 1..Len(s) : s[i] # x
  BY <1>1 DEF Contents
<1>3. Distinct(t)
  BY <1>1, <1>2 DEF Distinct
<1>4. Contents(t) = Contents(s) \cup {x}
  <2>1. \A i \in DOMAIN t : i \in DOMAIN s \/ i = Len(s) + 1
    BY <1>1
  <2>2. \A i \in DOMAIN s : i \in DOMAIN t
    BY <1>1
  <2>3. Len(s) + 1 \in DOMAIN t
    BY <1>1
  <2>4. QED
    BY <1>1, <2>1, <2>2, <2>3 DEF Contents
<1>5. QED
  BY <1>1, <1>3, <1>4 DEF t

\* The beginning of the journey has nothing twice and no cleanup; with the
\* next command it is the next beginning, with all of them the whole.
LEMMA FirstFacts ==
    ASSUME NEW s \in Seq(Commands), NEW n \in 0..11, First(s, n)
    PROVE  /\ Distinct(s) /\ Contents(s) \cap CleanupChecks = {}
           /\ n = 11 => s = Journey
           /\ n < 11 => First(Append(s, Journey[n + 1]), n + 1)
<1>1. DOMAIN s = 1..n /\ \A i \in 1..n : i \in 1..11 /\ s[i] = Journey[i]
  BY DEF First
<1>2. Distinct(s)
  BY <1>1, JourneyDistinct, JourneyFacts DEF Distinct
<1>3. Contents(s) \cap CleanupChecks = {}
  BY <1>1, JourneyFacts DEF Contents
<1>4. n = 11 => s = Journey
  BY <1>1, JourneyFacts
<1>5. n < 11 => First(Append(s, Journey[n + 1]), n + 1)
  BY <1>1, JourneyFacts DEF First
<1>6. QED
  BY <1>2, <1>3, <1>4, <1>5

\* The checks passed so far, with one more, at the start and at the end.
LEMMA PassedFacts ==
    /\ PassedUpTo(0) = {}
    /\ \A n \in 0..10 : PassedUpTo(n + 1) = Passed(PassedUpTo(n), Journey[n + 1])
    /\ Passed(Passed(PassedUpTo(11), "cleanup_dry_run"), "cleanup") = AllPassed
    /\ \A n \in 0..11 : PassedUpTo(n) \in SUBSET Checks
<1>1. PassedUpTo(0) = {}
  BY DEF PassedUpTo
<1>2. ASSUME NEW n \in 0..10
      PROVE PassedUpTo(n + 1) = Passed(PassedUpTo(n), Journey[n + 1])
  <2>1. 1..(n + 1) = (1..n) \cup {n + 1}
    OBVIOUS
  <2>2. QED
    BY <2>1 DEF PassedUpTo, Passed
<1>3. Passed(Passed(PassedUpTo(11), "cleanup_dry_run"), "cleanup") = AllPassed
  <2>1. \A id \in Stages : Check(id, "passed") \in PassedUpTo(11)
    BY JourneyFacts DEF PassedUpTo
  <2>2. \A c \in PassedUpTo(11) : \E id \in Stages : c = Check(id, "passed")
    BY JourneyFacts DEF PassedUpTo
  <2>3. QED
    BY <2>1, <2>2, JourneyFacts DEF AllPassed, Passed
<1>4. \A n \in 0..11 : PassedUpTo(n) \in SUBSET Checks
  BY JourneyFacts DEF PassedUpTo, Checks, Check
<1>5. QED
  BY <1>1, <1>2, <1>3, <1>4

\* Two elements are appended one after the other, or together.
LEMMA AppendTwice ==
    ASSUME NEW S, NEW s \in Seq(S), NEW x \in S, NEW y \in S
    PROVE  Append(Append(s, x), y) = s \o <<x, y>>
<1> DEFINE u == <<x, y>>
           t == Append(Append(s, x), y)
<1>1. u \in Seq(S) /\ Len(u) = 2 /\ u[1] = x /\ u[2] = y
  OBVIOUS
<1>2. /\ t \in Seq(S) /\ Len(t) = Len(s) + 2 /\ t[Len(s) + 1] = x /\ t[Len(s) + 2] = y
      /\ \A i \in 1..Len(s) : t[i] = s[i]
  OBVIOUS
<1> HIDE DEF u, t
<1>3. /\ s \o u \in Seq(S) /\ Len(s \o u) = Len(s) + 2
      /\ \A i \in 1..Len(s) : (s \o u)[i] = s[i]
      /\ (s \o u)[Len(s) + 1] = u[1] /\ (s \o u)[Len(s) + 2] = u[2]
  <2>1. /\ s \o u \in Seq(S) /\ Len(s \o u) = Len(s) + Len(u)
        /\ \A i \in 1..Len(s) + Len(u) :
              (s \o u)[i] = IF i <= Len(s) THEN s[i] ELSE u[i - Len(s)]
    BY <1>1, ConcatProperties, Zenon
  <2>2. Len(s) \in Nat
    OBVIOUS
  <2>3. QED
    BY <1>1, <2>1, <2>2
<1>4. \A i \in 1..(Len(s) + 2) : t[i] = (s \o u)[i]
  <2>1. Len(s) \in Nat
    OBVIOUS
  <2>2. \A i \in 1..(Len(s) + 2) : i \in 1..Len(s) \/ i = Len(s) + 1 \/ i = Len(s) + 2
    BY <2>1
  <2>3. QED
    BY <1>1, <1>2, <1>3, <2>2
<1>5. t = s \o u
  BY <1>2, <1>3, <1>4
<1>6. QED
  BY <1>5 DEF t, u

\* How far a journey has come, by the stages that were right.
LEMMA DoneFacts ==
    /\ \A r : Done(r, 0)
    /\ \A r \in SUBSET Stages : Done(r, 11) => r = Stages
    /\ \A r : \A n \in 0..10 : Done(r, n) /\ Journey[n + 1] \in r => Done(r, n + 1)
    /\ \A r, t, n : Done(r, n) /\ r \subseteq t => Done(t, n)
<1>1. ASSUME NEW r \in SUBSET Stages, Done(r, 11)
      PROVE r = Stages
  <2>1. \A s \in Stages : s \in r
    BY <1>1, JourneyFacts DEF Done
  <2>2. QED
    BY <2>1
<1>2. ASSUME NEW r, NEW n \in 0..10, Done(r, n), Journey[n + 1] \in r
      PROVE Done(r, n + 1)
  <2>1. \A i \in 1..(n + 1) : i \in 1..n \/ i = n + 1
    OBVIOUS
  <2>2. QED
    BY <1>2, <2>1 DEF Done
<1>3. QED
  BY <1>1, <1>2 DEF Done

-----------------------------------------------------------------------------
(* What a step has to show *)

Labels == {"idle", "capture", "ended"} \cup Working

\* The claims of a process need nothing of the directories of others, and no
\* more of a run in which a write has failed.
LEMMA Stable ==
    ASSUME NEW q \in Procs,
           Claim(q, pc[q], job[q], work[q], right[q], evidence, frozen, faults),
           \A d \in Dirs : evidence[d].run = q => evidence'[d] = evidence[d],
           q \in frozen' => q \in frozen, faults' = 0 => faults = 0
    PROVE  Claim(q, pc[q], job[q], work[q], right[q], evidence', frozen', faults')
<1> DEFINE label == pc[q]  h == job[q]  w == work[q]  r == right[q]
<1>1. label \in Working => h.dir \in Dirs /\ evidence'[h.dir].run = q
  BY DEF Claim
<1>2. Concluded(label, h, w, r, faults) => Concluded(label, h, w, r, faults')
  BY DEF Concluded
<1>3. Finished(q, h, w, evidence, faults) =>
         Finished(q, h, w, evidence', faults') /\ evidence'[h.dir] = evidence[h.dir]
  BY DEF Finished
<1>4. label = "idle" => h = NoJob /\ w = NoWork /\ r = {}
  BY DEF Claim
<1>5. /\ label = "capture" => h.dir \in Dirs /\ w = NoWork
      /\ label \in {"open", "prepare"} => Fresh(h, w)
      /\ label \in Running => OnTheWay(label, h, w, r)
  BY DEF Claim
<1>6. label \in Ending => Concluded(label, h, w, r, faults')
  BY <1>2 DEF Claim
<1>7. label = "report" => Finished(q, h, w, evidence', faults')
  BY <1>3 DEF Claim
<1>8. label = "ended" /\ h.result \in Outcomes =>
         /\ h.result = h.outcome
         /\ Finished(q, h, w, evidence', faults')
         /\ evidence'[h.dir].report = h.outcome
  BY <1>3 DEF Claim
<1>9. q \in frozen' => label = "capture" \/ (label = "ended" /\ h.result = "killed")
  BY DEF Claim
<1>10. QED
  BY <1>1, <1>4, <1>5, <1>6, <1>7, <1>8, <1>9 DEF Claim

\* What PassedIsEarned asks of one directory.
Earned(e, w, r) ==
    e.manifest.outcome = "passed" =>
        /\ r = Stages
        /\ e.manifest.checks = AllPassed
        /\ e.manifest.commands = Journey \o <<"cleanup_dry_run", "cleanup">>
        /\ e.manifest.candidate /\ e.manifest.finished
        /\ ~w.there

\* PassedIsEarned, one directory at a time.
LEMMA EarnedMeans ==
    PassedIsEarned <=> \A d \in Dirs : Earned(evidence[d], work[evidence[d].run],
                                              right[evidence[d].run])
BY DEF PassedIsEarned, Earned, AllPassed

\* An entry that a command may leave in its directory.
Entry(p, label, w, r, e) ==
    /\ e \in Entries /\ Distinct(e.manifest.commands) /\ e.run = p
    /\ e.manifest.finished => label \in {"report", "ended"}
    /\ e.manifest.outcome = "passed" => e.manifest.finished
    /\ Earned(e, w, r)

\* The parts of the state that belong to one process, before its step and after.
Own(p, label, h, w, r) ==
    /\ Goto(p, label, h)
    /\ work' = [work EXCEPT ![p] = w]
    /\ right' = [right EXCEPT ![p] = r]

\* A step of a command that has not ended, to a label with its claims: one
\* that it makes before its manifest is finished, or that ends it.
LEMMA Steps ==
    ASSUME IInv, NEW p \in Procs, pc[p] # "ended",
           NEW label \in Labels \ {"idle"}, NEW h \in Jobs, Distinct(h.manifest.commands),
           NEW w \in Works, w.state <= Len(Journey), w.source => w.there,
           NEW r \in SUBSET Stages,
           Own(p, label, h, w, r),
           pc[p] \notin {"idle", "capture"} => h.dir = job[p].dir /\ label # "capture",
           pc[p] = "report" => label = "ended" /\ w = work[p] /\ r = right[p],
           DOMAIN evidence' = Dirs, evidence' = [d \in Dirs |-> evidence'[d]],
           \A d \in Dirs : \/ evidence'[d] = evidence[d]
                           \/ /\ d = h.dir /\ label # "capture"
                              /\ evidence[d].run \in {p, NoProc}
                              /\ Entry(p, label, w, r, evidence'[d]),
           frozen' \subseteq Procs, frozen' \ {p} = frozen \ {p},
           faults' \in Nat, faults' = 0 => faults = 0,
           Claim(p, label, h, w, r, evidence', frozen', faults')
    PROVE  IInv'
<1>1. /\ pc'[p] = label /\ job'[p] = h /\ work'[p] = w /\ right'[p] = r
      /\ \A q \in Procs \ {p} : /\ pc'[q] = pc[q] /\ job'[q] = job[q]
                                /\ work'[q] = work[q] /\ right'[q] = right[q]
  BY DEF IInv, Types, Own, Goto
<1>2. Types'
  <2>1. /\ pc' \in [Procs -> Labels] /\ job' \in [Procs -> Jobs]
        /\ work' \in [Procs -> Works] /\ right' \in [Procs -> SUBSET Stages]
    BY DEF IInv, Types, Own, Goto, Labels
  <2>2. \A d \in Dirs : evidence'[d] \in Entries /\ Distinct(evidence'[d].manifest.commands)
    BY DEF IInv, Types, Entry
  <2>3. evidence' \in [Dirs -> Entries]
    BY <2>2
  <2>4. \A q \in Procs : /\ work'[q].state <= Len(Journey)
                         /\ work'[q].source => work'[q].there
                         /\ Distinct(job'[q].manifest.commands)
    BY <1>1 DEF IInv, Types
  <2>5. QED
    BY <2>1, <2>2, <2>3, <2>4 DEF Types, Labels
<1>3. ASSUME NEW d \in Dirs
      PROVE  /\ Owned(d, evidence[d])'
             /\ Earned(evidence[d], work[evidence[d].run], right[evidence[d].run])'
  <2>1. Owned(d, evidence[d])
    BY DEF IInv
  <2>2. Earned(evidence[d], work[evidence[d].run], right[evidence[d].run])
    BY EarnedMeans DEF IInv
  <2>3. NoProc \notin Procs /\ evidence[d].run \in Procs \cup {NoProc}
    BY VerificationAssumption DEF IInv, Types, Entries
  <2>4. CASE evidence'[d] # evidence[d]
    <3>1. /\ d = h.dir /\ label # "capture" /\ label # "idle"
          /\ Entry(p, label, w, r, evidence'[d])
      BY <2>4
    <3>2. evidence'[d].run = p
      BY <3>1 DEF Entry
    <3>3. /\ evidence'[d].manifest.finished => label \in {"report", "ended"}
          /\ evidence'[d].manifest.outcome = "passed" => evidence'[d].manifest.finished
          /\ Earned(evidence'[d], w, r)
      BY <3>1 DEF Entry
    <3>4. QED
      BY <1>1, <3>1, <3>2, <3>3 DEF Owned, Earned
  <2>5. CASE evidence'[d] = evidence[d] /\ evidence[d].run = p
    <3>1. job[p].dir = d /\ pc[p] \notin {"idle", "capture"}
      BY <2>1, <2>5 DEF Owned
    <3>2. h.dir = d /\ label \notin {"idle", "capture"}
      BY <3>1
    <3>3. evidence[d].manifest.finished => label = "ended" /\ w = work[p] /\ r = right[p]
      BY <2>1, <2>5 DEF Owned
    <3>4. evidence[d].manifest.outcome = "passed" => evidence[d].manifest.finished
      BY <2>1 DEF Owned
    <3>5. Earned(evidence'[d], w, r)
      BY <2>2, <2>5, <3>3, <3>4 DEF Earned
    <3>6. QED
      BY <1>1, <2>5, <3>2, <3>3, <3>4, <3>5 DEF Owned, Earned
  <2>6. CASE evidence'[d] = evidence[d] /\ evidence[d].run # p
    <3>1. CASE evidence[d].run \in Procs
      BY <1>1, <2>1, <2>2, <2>6, <3>1 DEF Owned, Earned
    <3>2. CASE evidence[d].run = NoProc
      <4>1. ~evidence[d].manifest.finished /\ evidence[d].manifest.outcome # "passed"
        BY <2>1, <2>3, <3>2 DEF Owned
      <4>2. QED
        BY <2>1, <2>3, <2>6, <3>2, <4>1 DEF Owned, Earned
    <3>3. QED
      BY <2>3, <3>1, <3>2
  <2>7. QED
    BY <2>4, <2>5, <2>6
<1>4. ASSUME NEW q \in Procs
      PROVE  Claim(q, pc'[q], job'[q], work'[q], right'[q], evidence', frozen', faults')
  <2>1. CASE q = p
    BY <1>1, <2>1
  <2>2. CASE q # p
    <3>1. Claim(q, pc[q], job[q], work[q], right[q], evidence, frozen, faults)
      BY DEF IInv
    <3>2. \A d \in Dirs : evidence[d].run = q => evidence'[d] = evidence[d]
      BY <2>2, VerificationAssumption
    <3>3. (q \in frozen' => q \in frozen) /\ (faults' = 0 => faults = 0)
      BY <2>2
    <3>4. Claim(q, pc[q], job[q], work[q], right[q], evidence', frozen', faults')
      BY <3>1, <3>2, <3>3, Stable
    <3>5. QED
      BY <1>1, <2>2, <3>4
  <2>3. QED
    BY <2>1, <2>2
<1>5. PassedIsEarned'
  BY <1>3 DEF PassedIsEarned, Earned, AllPassed
<1>6. QED
  BY <1>2, <1>3, <1>4, <1>5 DEF IInv

\* What is known of a process at any time.
LEMMA Here ==
    ASSUME IInv, NEW p \in Procs
    PROVE  /\ pc[p] \in Labels /\ job[p] \in Jobs /\ Distinct(job[p].manifest.commands)
           /\ work[p] \in Works /\ work[p].state <= Len(Journey)
           /\ work[p].source => work[p].there
           /\ right[p] \in SUBSET Stages
           /\ Claim(p, pc[p], job[p], work[p], right[p], evidence, frozen, faults)
           /\ evidence \in [Dirs -> Entries]
           /\ \A d \in Dirs : Distinct(evidence[d].manifest.commands)
           /\ frozen \subseteq Procs /\ faults \in Nat
BY DEF IInv, Types, Labels

Bounded == UNCHANGED bounds \/ Fault \/ Defect

\* Faults are counted and never taken back.
LEMMA BoundedFaults ==
    ASSUME IInv, Bounded
    PROVE  faults' \in Nat /\ (faults' = 0 => faults = 0) /\ (Fault => faults' # 0)
BY DEF IInv, Types, Bounded, bounds, Fault, Defect

\* The claims of a smoke that has not finished its manifest.
Progress(label, h, w, r, n) ==
    /\ label \in {"open", "prepare"} => Fresh(h, w)
    /\ label \in Running => OnTheWay(label, h, w, r)
    /\ label \in Ending => Concluded(label, h, w, r, n)

Unfinished(m) ==
    m \in Manifests /\ Distinct(m.commands) /\ ~m.finished /\ m.outcome # "passed"

\* A smoke goes on, and may write a manifest that is not the finished one.
LEMMA GoesOn ==
    ASSUME IInv, NEW p \in Procs, pc[p] \in Working \ {"report"},
           NEW label \in Working \ {"report"}, NEW h \in Jobs, Distinct(h.manifest.commands),
           NEW w \in Works, w.state <= Len(Journey), w.source => w.there,
           NEW r \in SUBSET Stages,
           Own(p, label, h, w, r), h.dir = job[p].dir,
           \/ evidence' = evidence
           \/ \E m \in Manifests : Unfinished(m) /\ WriteManifest(p, m),
           frozen' = frozen, Bounded,
           Progress(label, h, w, r, faults')
    PROVE  IInv'
<1>1. /\ evidence \in [Dirs -> Entries] /\ h.dir \in Dirs /\ evidence[h.dir].run = p
      /\ p \notin frozen /\ frozen \subseteq Procs
      /\ \A d \in Dirs : Distinct(evidence[d].manifest.commands)
  <2>1. Claim(p, pc[p], job[p], work[p], right[p], evidence, frozen, faults)
    BY Here
  <2>2. h.dir \in Dirs /\ evidence[h.dir].run = p /\ p \notin frozen
    BY <2>1 DEF Claim, Working, Running, Ending
  <2>3. QED
    BY <2>2, Here
<1>2. /\ label \in Labels \ {"idle", "capture", "report", "ended"}
      /\ pc[p] \notin {"idle", "capture", "report", "ended"}
  BY DEF Labels, Working, Running, Ending
<1>3. /\ evidence' \in [Dirs -> Entries]
      /\ \A d \in Dirs : \/ evidence'[d] = evidence[d]
                         \/ d = h.dir /\ Entry(p, label, w, r, evidence'[d])
  <2>1. CASE evidence' = evidence
    BY <1>1, <2>1
  <2>2. ASSUME NEW m \in Manifests, Unfinished(m), WriteManifest(p, m)
        PROVE  <1>3!1 /\ <1>3!2
    <3>1. /\ evidence' \in [Dirs -> Entries]
          /\ evidence'[h.dir].run = p /\ evidence'[h.dir].manifest = m
          /\ \A d \in Dirs \ {h.dir} : evidence'[d] = evidence[d]
      BY <1>1, <2>2 DEF WriteManifest, Entries
    <3>2. evidence'[h.dir] \in Entries
      BY <1>1, <3>1
    <3>3. Entry(p, label, w, r, evidence'[h.dir])
      BY <2>2, <3>1, <3>2 DEF Entry, Earned, Unfinished
    <3>4. QED
      BY <3>1, <3>3
  <2>3. QED
    BY <2>1, <2>2
<1>4. evidence'[h.dir].run = p
  BY <1>1, <1>3 DEF Entry
<1>5. Claim(p, label, h, w, r, evidence', frozen', faults')
  BY <1>1, <1>2, <1>4 DEF Claim, Progress
<1>6. faults' \in Nat /\ (faults' = 0 => faults = 0)
  BY BoundedFaults
<1>7. DOMAIN evidence' = Dirs /\ evidence' = [d \in Dirs |-> evidence'[d]]
  BY <1>3
<1>8. \A d \in Dirs : \/ evidence'[d] = evidence[d]
                      \/ /\ d = h.dir /\ label # "capture"
                         /\ evidence[d].run \in {p, NoProc}
                         /\ Entry(p, label, w, r, evidence'[d])
  BY <1>1, <1>2, <1>3
<1>9. QED
  BY <1>1, <1>2, <1>5, <1>6, <1>7, <1>8, Steps

\* A command ends without an answer.
LEMMA Ends ==
    ASSUME IInv, NEW p \in Procs, pc[p] \notin {"idle", "ended"},
           NEW res \in {"error", "killed"}, Return(p, job[p], res),
           NEW w \in Works, w.state <= Len(Journey), w.source => w.there,
           work' = [work EXCEPT ![p] = w],
           pc[p] = "report" => w = work[p],
           UNCHANGED <<evidence, frozen, right>>, Bounded,
           res = "error" => pc[p] # "capture"
    PROVE  IInv'
<1> DEFINE h == [job[p] EXCEPT !.result = res]
<1>1. /\ h \in Jobs /\ Distinct(h.manifest.commands) /\ h.dir = job[p].dir /\ h.result = res
      /\ res \notin Outcomes
  BY Here DEF Jobs, Results, Outcomes
<1>2. p \in frozen => res = "killed"
  <2>1. Claim(p, pc[p], job[p], work[p], right[p], evidence, frozen, faults)
    BY Here
  <2>2. QED
    BY <2>1 DEF Claim
<1>3. Goto(p, "ended", h)
  BY DEF Return
<1> HIDE DEF h
<1>4. Claim(p, "ended", h, w, right[p], evidence', frozen', faults')
  BY <1>1, <1>2 DEF Claim, Working, Running, Ending
<1>5. Own(p, "ended", h, w, right[p])
  BY <1>3, Here DEF Own, IInv, Types
<1>6. faults' \in Nat /\ (faults' = 0 => faults = 0)
  BY BoundedFaults
<1>7. /\ DOMAIN evidence' = Dirs /\ evidence' = [d \in Dirs |-> evidence'[d]]
      /\ "ended" \in Labels \ {"idle"} /\ right[p] \in SUBSET Stages
      /\ frozen' \subseteq Procs
  BY Here DEF Labels
<1>8. QED
  BY <1>1, <1>4, <1>5, <1>6, <1>7, Steps

-----------------------------------------------------------------------------
(* The steps of a smoke *)

\* CreateEvidence: a new directory belongs to the process that made it.
LEMMA CreateEvidenceKeeps ==
    ASSUME IInv, NEW p \in Procs, NEW d \in Dirs, CreateEvidence(p, d)
    PROVE  IInv'
<1>1. /\ pc[p] = "idle" /\ job[p] = NoJob /\ work[p] = NoWork /\ right[p] = {}
      /\ p \notin frozen
  BY Here DEF Claim, CreateEvidence, At
<1>2. Own(p, pc'[p], job'[p], work[p], right[p]) /\ faults' = faults /\ frozen' = frozen
  BY DEF CreateEvidence, Own, Goto, Return, IInv, Types, bounds
<1>3. /\ work[p] \in Works /\ work[p].state <= Len(Journey) /\ right[p] \in SUBSET Stages
      /\ work[p].source => work[p].there
  BY Here
<1>4. CASE evidence[d].run # NoProc
  <2> DEFINE h == [NoJob EXCEPT !.result = "error"]
  <2>1. Return(p, job[p], "error") /\ evidence' = evidence
    BY <1>4 DEF CreateEvidence
  <2>2. pc'[p] = "ended" /\ job'[p] = h
    BY <1>1, <2>1 DEF Return, Goto, IInv, Types
  <2>3. h \in Jobs /\ Distinct(h.manifest.commands) /\ h.result \notin Outcomes
    BY Constants DEF NoJob, Jobs, Results, Outcomes
  <2> HIDE DEF h
  <2>4. Claim(p, "ended", h, work[p], right[p], evidence', frozen', faults')
    BY <1>1, <1>2, <2>3 DEF Claim, Working, Running, Ending
  <2>5. /\ DOMAIN evidence' = Dirs /\ evidence' = [x \in Dirs |-> evidence'[x]]
        /\ "ended" \in Labels \ {"idle"} /\ frozen' \subseteq Procs
        /\ faults' \in Nat
    BY <1>2, <2>1, Here DEF Labels
  <2>6. QED
    BY <1>1, <1>2, <1>3, <2>1, <2>2, <2>3, <2>4, <2>5, Steps
<1>5. CASE evidence[d].run = NoProc
  <2> DEFINE h == [NoJob EXCEPT !.dir = d]
             e == [Empty EXCEPT !.run = p]
  <2>1. evidence' = [evidence EXCEPT ![d] = e] /\ Goto(p, "open", h)
    BY <1>5 DEF CreateEvidence
  <2>2. pc'[p] = "open" /\ job'[p] = h
    BY <2>1 DEF Goto, IInv, Types
  <2>3. h \in Jobs /\ Distinct(h.manifest.commands) /\ h.dir = d
    BY Constants DEF NoJob, Jobs
  <2>4. Fresh(h, work[p])
    BY <1>1 DEF Fresh, NoJob
  <2>5. /\ e \in Entries /\ Distinct(e.manifest.commands) /\ e.run = p
        /\ ~e.manifest.finished /\ e.manifest.outcome # "passed"
    BY Constants DEF Empty, Entries, NoManifest, Blank
  <2>6. /\ evidence' \in [Dirs -> Entries] /\ evidence'[d] = e
        /\ \A x \in Dirs \ {d} : evidence'[x] = evidence[x]
    BY <2>1, <2>5, Here
  <2> HIDE DEF h, e
  <2>7. Claim(p, "open", h, work[p], right[p], evidence', frozen', faults')
    BY <1>1, <1>2, <2>3, <2>4, <2>5, <2>6 DEF Claim, Working, Running, Ending
  <2>8. Entry(p, "open", work[p], right[p], e)
    BY <2>5 DEF Entry, Earned
  <2>9. /\ DOMAIN evidence' = Dirs /\ evidence' = [x \in Dirs |-> evidence'[x]]
        /\ "open" \in Labels \ {"idle", "capture"} /\ frozen' \subseteq Procs
        /\ faults' \in Nat
    BY <1>2, <2>6, Here DEF Labels, Working
  <2>10. \A x \in Dirs : \/ evidence'[x] = evidence[x]
                         \/ /\ x = h.dir /\ "open" # "capture"
                            /\ evidence[x].run \in {p, NoProc}
                            /\ Entry(p, "open", work[p], right[p], evidence'[x])
    BY <1>5, <2>3, <2>6, <2>8
  <2>11. Own(p, "open", h, work[p], right[p])
    BY <1>2, <2>2
  <2>12. QED
    BY <1>1, <1>2, <1>3, <2>3, <2>7, <2>9, <2>10, <2>11, Steps
<1>6. QED
  BY <1>4, <1>5

\* What Return says of the state that it keeps.
LEMMA SameWork ==
    ASSUME IInv, NEW p \in Procs, UNCHANGED work
    PROVE  /\ work' = [work EXCEPT ![p] = work[p]]
           /\ work[p] \in Works /\ work[p].state <= Len(Journey)
           /\ work[p].source => work[p].there
BY Here DEF IInv, Types

\* A move that changes neither work root nor stages keeps what a process owns.
LEMMA SameOwn ==
    ASSUME IInv, NEW p \in Procs, NEW label, NEW h, Goto(p, label, h), UNCHANGED <<work, right>>
    PROVE  Own(p, label, h, work[p], right[p])
BY DEF IInv, Types, Own

\* OpenManifest: an open manifest has no outcome and no command.
LEMMA OpenManifestKeeps ==
    ASSUME IInv, NEW p \in Procs, OpenManifest(p)
    PROVE  IInv'
<1>1. pc[p] = "open" /\ pc[p] \in Working \ {"report"}
  BY DEF OpenManifest, At, Working
<1>2. Fresh(job[p], work[p])
  BY <1>1, Here DEF Claim
<1>3. CASE WriteManifest(p, Blank) /\ Goto(p, "prepare", job[p]) /\ UNCHANGED bounds
  <2>1. Own(p, "prepare", job[p], work[p], right[p])
    BY <1>3, SameOwn DEF OpenManifest
  <2>2. Unfinished(Blank) /\ Blank \in Manifests
    BY Constants DEF Unfinished, Blank
  <2>3. Progress("prepare", job[p], work[p], right[p], faults')
    BY <1>2 DEF Progress, Running, Ending
  <2>4. "prepare" \in Working \ {"report"} /\ frozen' = frozen /\ Bounded
    BY <1>3 DEF Working, OpenManifest, Bounded
  <2>5. QED
    BY <1>1, <1>3, <2>1, <2>2, <2>3, <2>4, Here, GoesOn
<1>4. CASE Fault /\ Return(p, job[p], "error") /\ UNCHANGED evidence
  BY <1>1, <1>4, SameWork, Ends DEF OpenManifest, Bounded
<1>5. QED
  BY <1>3, <1>4 DEF OpenManifest

\* PrepareWork: the work root has its source, and no stage was done yet.
LEMMA PrepareWorkKeeps ==
    ASSUME IInv, NEW p \in Procs, PrepareWork(p)
    PROVE  IInv'
<1>1. pc[p] = "prepare" /\ pc[p] \in Working \ {"report"}
  BY DEF PrepareWork, At, Working
<1>2. Fresh(job[p], work[p])
  BY <1>1, Here DEF Claim
<1>3. CASE /\ work' = [work EXCEPT ![p] = Isolated]
           /\ Goto(p, "run", job[p])
           /\ UNCHANGED bounds
  <2>1. Own(p, "run", job[p], Isolated, right[p])
    BY <1>3 DEF PrepareWork, Own, IInv, Types
  <2>2. OnTheWay("run", job[p], Isolated, right[p])
    BY <1>2, PassedFacts, DoneFacts DEF Fresh, OnTheWay, First, Blank, Isolated
  <2>3. Progress("run", job[p], Isolated, right[p], faults')
    BY <2>2 DEF Progress, Running, Ending
  <2>4. /\ "run" \in Working \ {"report"} /\ frozen' = frozen /\ Bounded
        /\ evidence' = evidence
    BY <1>3 DEF Working, Running, PrepareWork, Bounded
  <2>5. Isolated \in Works /\ Isolated.state <= Len(Journey) /\ (Isolated.source => Isolated.there)
    BY Constants, JourneyFacts DEF Isolated
  <2>6. QED
    BY <1>1, <1>3, <2>1, <2>3, <2>4, <2>5, Here, GoesOn
<1>4. ASSUME NEW w \in {work[p], [NoWork EXCEPT !.there = TRUE]},
             Fault, work' = [work EXCEPT ![p] = w], Return(p, job[p], "error")
      PROVE  IInv'
  <2>1. w \in Works /\ w.state <= Len(Journey) /\ (w.source => w.there)
    <3>1. CASE w = work[p]
      BY <3>1, Here
    <3>2. CASE w = [NoWork EXCEPT !.there = TRUE]
      <4>1. w = [there |-> TRUE, source |-> FALSE, state |-> 0]
        BY <3>2 DEF NoWork
      <4>2. QED
        BY <4>1, JourneyFacts DEF Works
    <3>3. QED
      BY <3>1, <3>2
  <2>2. UNCHANGED <<evidence, frozen, right>> /\ Bounded
    BY <1>4 DEF PrepareWork, Bounded
  <2>3. QED
    BY <1>1, <1>4, <2>1, <2>2, Ends
<1>5. CASE /\ Fault
           /\ \/ UNCHANGED work
              \/ work' = [work EXCEPT ![p] = [NoWork EXCEPT !.there = TRUE]]
           /\ Return(p, job[p], "error")
  BY <1>4, <1>5, SameWork
<1>6. QED
  BY <1>3, <1>5 DEF PrepareWork

\* RunCommand: the next command of the journey is on record, and whether it was right is known or will be.
LEMMA RunCommandKeeps ==
    ASSUME IInv, NEW p \in Procs, RunCommand(p)
    PROVE  IInv'
<1> DEFINE s == Journey[job[p].stage]
           base == IF s \in DryRuns THEN Fingerprint(p) ELSE job[p].base
<1>1. pc[p] = "run" /\ pc[p] \in Working \ {"report"}
  BY DEF RunCommand, At, Working, Running
<1>2. PICK g \in Jobs, w \in Works, r \in SUBSET Stages, b \in Nat :
         /\ g = job[p] /\ w = work[p] /\ r = right[p]
         /\ Distinct(g.manifest.commands)
         /\ b = IF Journey[g.stage] \in DryRuns THEN IF w.there THEN w.state ELSE 0 ELSE g.base
         /\ OnTheWay("run", g, w, r) /\ (w.source => w.there)
  <2>1. (IF s \in DryRuns THEN IF work[p].there THEN work[p].state ELSE 0 ELSE job[p].base)
           \in Nat
    BY Here DEF Jobs, Works
  <2>2. OnTheWay("run", job[p], work[p], right[p])
    BY <1>1, Here DEF Claim, Running
  <2>3. QED
    BY <2>1, <2>2, Here
<1>3. PICK answer \in {"right", "wrong", "none"}, changes, again \in BOOLEAN :
         /\ changes => w.source
         /\ answer = "right" => w.source \/ Journey[g.stage] \in Unaided
         /\ again => ~w.there
         /\ work' = [work EXCEPT ![p] = [w EXCEPT !.there = @ \/ again,
                                                  !.state = IF changes THEN @ + 1 ELSE @]]
         /\ right' = [right EXCEPT ![p] = IF Does(Journey[g.stage], answer, changes)
                                          THEN r \cup {Journey[g.stage]} ELSE r]
         /\ Goto(p, "record", [g EXCEPT !.answer = answer, !.base = b])
         /\ Bounded /\ UNCHANGED <<evidence, frozen>>
  <2>1. base = b /\ Journey[g.stage] = s
    BY <1>2 DEF Fingerprint
  <2>2. UNCHANGED <<evidence, frozen>>
    BY DEF RunCommand
  <2> HIDE DEF base
  <2>3. PICK answer \in {"right", "wrong", "none"}, changes, again \in BOOLEAN :
           /\ changes => work[p].source
           /\ answer = "right" => work[p].source \/ s \in Unaided
           /\ again => ~work[p].there
           /\ work' = [work EXCEPT ![p] =
                         [work[p] EXCEPT !.there = @ \/ again,
                                         !.state = IF changes THEN @ + 1 ELSE @]]
           /\ \/ /\ \/ Does(s, answer, changes) /\ (changes => s \in Writes)
                    \/ ~work[p].source /\ answer = "wrong"
                 /\ UNCHANGED bounds
              \/ /\ ~(Does(s, answer, changes) /\ (changes => s \in Writes))
                 /\ work[p].source
                 /\ Defect
           /\ right' = [right EXCEPT ![p] = IF Does(s, answer, changes)
                                            THEN right[p] \cup {s} ELSE right[p]]
           /\ Goto(p, "record", [job[p] EXCEPT !.answer = answer, !.base = base])
    BY DEF RunCommand, Stage, base
  <2>4. Bounded
    BY <2>3 DEF Bounded
  <2>5. /\ changes => w.source
        /\ answer = "right" => w.source \/ Journey[g.stage] \in Unaided
        /\ again => ~w.there
        /\ work' = [work EXCEPT ![p] = [w EXCEPT !.there = @ \/ again,
                                                 !.state = IF changes THEN @ + 1 ELSE @]]
        /\ right' = [right EXCEPT ![p] = IF Does(Journey[g.stage], answer, changes)
                                         THEN r \cup {Journey[g.stage]} ELSE r]
        /\ Goto(p, "record", [g EXCEPT !.answer = answer, !.base = b])
    BY <1>2, <2>1, <2>3
  <2>6. QED
    BY <2>2, <2>4, <2>5, Zenon
<1> DEFINE k == g.stage
           t == Journey[k]
           h == [g EXCEPT !.answer = answer, !.base = b]
           v == [w EXCEPT !.there = @ \/ again, !.state = IF changes THEN @ + 1 ELSE @]
           q == IF Does(t, answer, changes) THEN r \cup {t} ELSE r
<1>4. /\ h \in Jobs /\ h.stage = k /\ h.answer = answer /\ h.base = b /\ h.dir = g.dir
      /\ h.manifest = g.manifest /\ h.checks = g.checks /\ h.complete = g.complete
      /\ h.outcome = g.outcome
  BY DEF Jobs
<1>5. /\ v \in Works /\ v.source = w.source /\ (v.there <=> w.there \/ again)
      /\ v.state = IF changes THEN w.state + 1 ELSE w.state
  <2>1. (w.there \/ again) \in BOOLEAN
    OBVIOUS
  <2>2. (IF changes THEN w.state + 1 ELSE w.state) \in Nat
    BY DEF Works
  <2>3. /\ v.source = w.source /\ v.there = (w.there \/ again)
        /\ v.state = IF changes THEN w.state + 1 ELSE w.state
        /\ v = [there |-> v.there, source |-> v.source, state |-> v.state]
    <3>1. w = [there |-> w.there, source |-> w.source, state |-> w.state]
      BY DEF Works
    <3> DEFINE there == w.there \/ again
               state == IF changes THEN w.state + 1 ELSE w.state
    <3>2. v = [w EXCEPT !.there = there, !.state = state]
      OBVIOUS
    <3> HIDE DEF v, there, state
    <3>3. /\ v.source = w.source /\ v.there = there /\ v.state = state
          /\ v = [there |-> v.there, source |-> v.source, state |-> v.state]
      BY <3>1, <3>2
    <3>4. QED
      BY <3>3 DEF there, state
  <2> HIDE DEF v
  <2>4. v.there \in BOOLEAN
    BY <2>1, <2>3, Zenon
  <2>5. v.source \in BOOLEAN /\ v.state \in Nat
    BY <2>2, <2>3 DEF Works
  <2>6. v \in Works
    BY <2>3, <2>4, <2>5 DEF Works
  <2>7. v.there <=> w.there \/ again
    BY <2>3, Zenon
  <2>8. QED
    BY <2>3, <2>6, <2>7
<1>6. k \in 1..11 /\ t \in Stages /\ Len(Journey) = 11 /\ w.state \in Nat
  BY JourneyFacts DEF Jobs, Works
<1>7. q \in SUBSET Stages /\ r \subseteq q /\ (Does(t, answer, changes) => t \in q)
  BY <1>6
<1>8. Own(p, "record", h, v, q)
  BY <1>3 DEF Own
<1> HIDE DEF h, v, q
<1>9. /\ w.state <= k - 1 /\ v.state <= k /\ v.state <= 11 /\ (v.source => v.there)
      /\ First(h.manifest.commands, k - 1)
  BY <1>2, <1>4, <1>5, <1>6 DEF OnTheWay
<1>10. w.source => Done(q, k - 1)
  BY <1>2, <1>7, DoneFacts DEF OnTheWay
<1>11. answer = "right" /\ t \notin Unaided => Done(q, k - 1)
  BY <1>3, <1>10
<1>12. answer = "right" /\ t \notin q => \/ t \in DryRuns /\ changes
                                         \/ t \in Writes /\ ~changes
  BY <1>7 DEF Does
<1>13. DryRuns \cap Writes = {}
  BY DEF DryRuns, Writes
<1>14. t \in DryRuns /\ w.source /\ changes => h.base # v.state
  BY <1>2, <1>4, <1>5, <1>6
<1>15. t \in Writes /\ w.source /\ ~changes => h.base = v.state
  BY <1>2, <1>4, <1>5, <1>6, <1>13 DEF OnTheWay
<1>16. OnTheWay("record", h, v, q)
  <2>1. /\ answer = "right" /\ t \notin q => t \in DryRuns \cup Writes
        /\ answer = "right" /\ t \in DryRuns /\ v.source /\ t \notin q => h.base # v.state
        /\ answer = "right" /\ t \in Writes /\ v.source /\ t \notin q => h.base = v.state
    BY <1>5, <1>12, <1>13, <1>14, <1>15
  <2>2. /\ h.checks = PassedUpTo(k - 1)
        /\ ~h.manifest.removed /\ ~h.manifest.finished /\ ~h.complete
        /\ h.manifest.outcome = "blocked" /\ h.outcome = "blocked"
    BY <1>2, <1>4 DEF OnTheWay
  <2>3. QED
    BY <1>4, <1>5, <1>9, <1>10, <1>11, <2>1, <2>2 DEF OnTheWay
<1>17. Progress("record", h, v, q, faults')
  BY <1>16 DEF Progress, Running, Ending
<1>18. "record" \in Working \ {"report"} /\ Distinct(h.manifest.commands)
  BY <1>2, <1>4 DEF Working, Running
<1>19. QED
  BY <1>1, <1>2, <1>3, <1>4, <1>5, <1>6, <1>7, <1>8, <1>9, <1>17, <1>18, GoesOn

\* A command of the smoke is on record, or the smoke goes on without it.
LEMMA RecordCommandKeeps ==
    ASSUME IInv, NEW p \in Procs, RecordCommand(p)
    PROVE  IInv'
<1>1. pc[p] = "record" /\ pc[p] \in Working \ {"report"}
  BY DEF RecordCommand, At, Working, Running
<1>2. PICK g \in Jobs, w \in Works, r \in SUBSET Stages :
         /\ g = job[p] /\ w = work[p] /\ r = right[p]
         /\ Distinct(g.manifest.commands)
         /\ OnTheWay("record", g, w, r) /\ w.state <= Len(Journey) /\ (w.source => w.there)
  BY <1>1, Here DEF Claim, Running
<1> DEFINE k == g.stage
           s == Journey[k]
           m == g.manifest
           c == Append(m.commands, s)
           b == [m EXCEPT !.commands = c]
<1>3. k \in 1..11 /\ s \in Stages /\ s \in Commands /\ k - 1 \in 0..11 /\ k = (k - 1) + 1
  BY JourneyFacts DEF Jobs, Commands
<1>4. m \in Manifests /\ m.commands \in Seq(Commands) /\ First(m.commands, k - 1)
  BY <1>2 DEF OnTheWay, Jobs, Manifests
<1>5. c \in Seq(Commands) /\ First(c, k) /\ k \in 0..11
  BY <1>3, <1>4, FirstFacts
<1>6. /\ Distinct(m.commands) /\ Contents(m.commands) \cap CleanupChecks = {}
      /\ Distinct(c) /\ Contents(c) \cap CleanupChecks = {}
  BY <1>3, <1>4, <1>5, FirstFacts
<1>7. /\ b \in Manifests /\ b.commands = c /\ b.finished = m.finished /\ b.outcome = m.outcome
      /\ b.removed = m.removed /\ b.candidate = m.candidate
  BY <1>4, <1>5 DEF Manifests
<1>8. UNCHANGED <<work, frozen, right>>
  BY DEF RecordCommand
<1>9. ~m.finished /\ m.outcome = "blocked"
  BY <1>2 DEF OnTheWay
<1>10. Recorded(p, Stage(p)) = b /\ Recorded(p, Stage(p)).commands = c
  BY <1>2, <1>7 DEF Recorded, Stage
<1>11. CASE Record(p, Stage(p), "judge", job[p])
  <2> DEFINE h == [g EXCEPT !.manifest.commands = c]
  <2>1. Goto(p, "judge", h) /\ WriteManifest(p, b) /\ Bounded /\ g.answer # "none"
    BY <1>2, <1>10, <1>11 DEF Record, Bounded, Stage
  <2>2. /\ h \in Jobs /\ h.manifest = b /\ h.dir = g.dir /\ h.stage = g.stage
        /\ h.answer = g.answer /\ h.base = g.base /\ h.checks = g.checks
        /\ h.complete = g.complete /\ h.outcome = g.outcome
    BY <1>7 DEF Jobs
  <2> HIDE DEF h, b
  <2>3. OnTheWay("judge", h, w, r)
    BY <1>2, <1>3, <1>5, <1>7, <2>1, <2>2 DEF OnTheWay, Works
  <2>4. Progress("judge", h, w, r, faults') /\ "judge" \in Working \ {"report"}
    BY <2>3 DEF Progress, Running, Ending, Working
  <2>5. Unfinished(b)
    BY <1>6, <1>7, <1>9 DEF Unfinished
  <2>6. Own(p, "judge", h, w, r)
    BY <1>2, <1>8, <2>1, SameOwn
  <2>7. Distinct(h.manifest.commands) /\ frozen' = frozen
    BY <1>6, <1>7, <1>8, <2>2
  <2>8. QED
    BY <1>1, <1>2, <1>7, <2>1, <2>2, <2>4, <2>5, <2>6, <2>7, GoesOn
<1>12. CASE NotRecorded(p, Stage(p), "seal",
                        [job[p] EXCEPT !.checks = Failed(@, Stage(p)), !.outcome = "blocked"])
  <2> DEFINE f == Failed(g.checks, s)
             i == [g EXCEPT !.checks = f, !.outcome = "blocked"]
  <2>1. f \in SUBSET Checks
    BY <1>3, CheckTypes DEF Jobs
  <2>2. /\ i \in Jobs /\ i.manifest = m /\ i.dir = g.dir /\ i.outcome = "blocked"
        /\ i.complete = g.complete
    BY <2>1 DEF Jobs, Outcomes
  <2>3. PICK d \in {m.commands, c} : Goto(p, "seal", [i EXCEPT !.manifest.commands = d])
    <3>1. CASE job[p].answer = "none"
      <4>1. Goto(p, "seal", i)
        BY <1>2, <1>12, <3>1 DEF NotRecorded, Stage
      <4>2. i = [i EXCEPT !.manifest.commands = m.commands]
        BY <2>2 DEF Jobs, Manifests
      <4>3. QED
        BY <4>1, <4>2
    <3>2. CASE job[p].answer # "none"
      BY <1>2, <1>10, <1>12, <3>2 DEF NotRecorded, Stage
    <3>3. QED
      BY <3>1, <3>2
  <2> DEFINE h == [i EXCEPT !.manifest.commands = d]
             a == [m EXCEPT !.commands = d]
  <2>4. a \in Manifests /\ a.commands = d /\ a.finished = m.finished
        /\ a.outcome = m.outcome /\ a.removed = m.removed
    BY <1>4, <1>5 DEF Manifests
  <2>5. /\ h \in Jobs /\ h.manifest = a /\ h.dir = g.dir /\ h.outcome = "blocked"
        /\ h.complete = g.complete
    BY <2>2, <2>4 DEF Jobs
  <2> HIDE DEF h, i, a
  <2>6. /\ Distinct(d) /\ "cleanup" \notin Contents(d) /\ "cleanup_dry_run" \notin Contents(d)
    BY <1>6, JourneyFacts
  <2>7. Concluded("seal", h, w, r, faults')
    BY <1>2, <1>9, <2>4, <2>5, <2>6 DEF Concluded, OnTheWay
  <2>8. Progress("seal", h, w, r, faults') /\ "seal" \in Working \ {"report"}
    BY <2>7 DEF Progress, Running, Ending, Working
  <2>9. evidence' = evidence /\ frozen' = frozen /\ Bounded
    BY <1>8, <1>12 DEF NotRecorded, Bounded
  <2>10. Own(p, "seal", h, w, r)
    BY <1>2, <1>8, <2>3, SameOwn DEF h
  <2>11. Distinct(h.manifest.commands)
    BY <2>4, <2>5, <2>6
  <2>12. QED
    BY <1>1, <1>2, <2>5, <2>8, <2>9, <2>10, <2>11, GoesOn
<1>13. QED
  BY <1>11, <1>12 DEF RecordCommand

\* A command whose effect is what was asked for did what it should, as long as
\* the source of the smoke is there; if it needs one, the commands before it did.
LEMMA VerdictMeans ==
    ASSUME NEW p \in Procs, NEW h \in Jobs, NEW w \in Works, NEW r \in SUBSET Stages,
           h = job[p], w = work[p], w.source => w.there,
           OnTheWay("judge", h, w, r), Verdict(p) = "passed"
    PROVE  /\ w.source => Done(r, h.stage)
           /\ Journey[h.stage] = "snapshot" => Done(r, h.stage)
<1> DEFINE k == h.stage
           s == Journey[k]
<1>1. k \in 1..11 /\ s \in Stages /\ h.answer \in {"right", "wrong"}
  BY JourneyFacts DEF Jobs, OnTheWay
<1>2. k - 1 \in 0..10 /\ k = (k - 1) + 1
  BY <1>1
<1>3. h.answer = "right"
  BY <1>1 DEF Verdict, Stage
<1>4. s \in DryRuns => (IF w.there THEN w.state ELSE 0) = h.base
  BY <1>3 DEF Verdict, Stage, Fingerprint
<1>5. DryRuns \cap Writes = {} /\ "version" \notin DryRuns \cup Writes
  BY DEF DryRuns, Writes
<1>6. s \in Writes => (IF w.there THEN w.state ELSE 0) # h.base
  BY <1>3, <1>5 DEF Verdict, Stage, Fingerprint
<1>7. w.source => s \in r
  BY <1>3, <1>4, <1>6 DEF OnTheWay
<1>8. w.source => Done(r, k - 1)
  BY DEF OnTheWay
<1>9. w.source => Done(r, k)
  BY <1>2, <1>7, <1>8, DoneFacts
<1>10. ASSUME s = "snapshot" PROVE Done(r, k)
  <2>1. Done(r, k - 1) /\ s \in r
    BY <1>3, <1>10, JourneyFacts DEF OnTheWay
  <2>2. QED
    BY <1>2, <2>1, DoneFacts
<1>11. QED
  BY <1>9, <1>10

\* What a verdict or a file that cannot be read makes of the smoke.
LEMMA Refuses ==
    ASSUME IInv, NEW p \in Procs, pc[p] = "judge", UNCHANGED <<files, right>>, Bounded,
           NEW checks \in SUBSET Checks, NEW outcome \in {"failed", "blocked"},
           Refused(p, checks, outcome)
    PROVE  IInv'
<1>1. PICK g \in Jobs, w \in Works, r \in SUBSET Stages :
         /\ g = job[p] /\ w = work[p] /\ r = right[p]
         /\ Distinct(g.manifest.commands)
         /\ OnTheWay("judge", g, w, r) /\ w.state <= Len(Journey) /\ (w.source => w.there)
  BY Here DEF Claim, Running
<1> DEFINE s == Journey[g.stage]
           f == Failed(checks, s)
           h == [g EXCEPT !.checks = f, !.outcome = outcome]
<1>2. g.stage \in 1..11 /\ s \in Commands
  BY JourneyFacts DEF Jobs, Commands
<1>3. f \in SUBSET Checks
  BY <1>2, CheckTypes
<1>4. /\ h \in Jobs /\ h.manifest = g.manifest /\ h.dir = g.dir /\ h.outcome = outcome
      /\ h.complete = g.complete
  BY <1>3 DEF Jobs, Outcomes
<1>5. Goto(p, "seal", h)
  BY <1>1 DEF Refused, Stage
<1> HIDE DEF h
<1>6. Contents(g.manifest.commands) \cap CleanupChecks = {}
  BY <1>1, <1>2, FirstFacts DEF OnTheWay, Jobs, Manifests
<1>7. Concluded("seal", h, w, r, faults')
  BY <1>1, <1>4, <1>6, JourneyFacts DEF Concluded, OnTheWay
<1>8. Progress("seal", h, w, r, faults') /\ {"judge", "seal"} \subseteq Working \ {"report"}
  BY <1>7 DEF Progress, Running, Ending, Working
<1>9. Own(p, "seal", h, w, r) /\ frozen' = frozen /\ evidence' = evidence
  BY <1>1, <1>5, SameOwn DEF files
<1>10. QED
  BY <1>1, <1>4, <1>8, <1>9, GoesOn

\* Judge: the journey goes on only past an answer as expected.
LEMMA JudgeKeeps ==
    ASSUME IInv, NEW p \in Procs, Judge(p)
    PROVE  IInv'
<1>1. pc[p] = "judge" /\ UNCHANGED <<files, right>>
  BY DEF Judge, At
<1>2. PICK g \in Jobs, w \in Works, r \in SUBSET Stages :
         /\ g = job[p] /\ w = work[p] /\ r = right[p]
         /\ Distinct(g.manifest.commands)
         /\ OnTheWay("judge", g, w, r) /\ w.state <= Len(Journey) /\ (w.source => w.there)
  BY <1>1, Here DEF Claim, Running
<1> DEFINE k == g.stage
           s == Journey[k]
           m == [g.manifest EXCEPT !.candidate = TRUE]
           base == IF w.there THEN w.state ELSE 0
           on == [g EXCEPT !.checks = Passed(@, s), !.base = base, !.manifest.candidate = TRUE]
           answered == IF s \in Writes /\ g.answer = "right" THEN Passed(g.checks, s) ELSE g.checks
<1>3. k \in 1..11 /\ s \in Stages /\ s \in Commands /\ k - 1 \in 0..10 /\ k = (k - 1) + 1
  BY JourneyFacts DEF Jobs, Commands
<1>4. answered \in SUBSET Checks /\ Passed(g.checks, s) = PassedUpTo(k)
      /\ PassedUpTo(k) \in SUBSET Checks
  <2>1. g.checks \in SUBSET Checks /\ g.checks = PassedUpTo(k - 1)
    BY <1>2 DEF OnTheWay, Jobs
  <2>2. Passed(g.checks, s) \in SUBSET Checks
    BY <1>3, <2>1, CheckTypes
  <2>3. PassedUpTo((k - 1) + 1) = Passed(PassedUpTo(k - 1), Journey[(k - 1) + 1])
    BY <1>3, PassedFacts
  <2>4. Passed(g.checks, s) = PassedUpTo(k)
    BY <1>3, <2>1, <2>3
  <2>5. QED
    BY <2>1, <2>2, <2>4
<1>5. /\ g.manifest \in Manifests /\ m \in Manifests /\ m.commands = g.manifest.commands
      /\ m.candidate /\ m.finished = g.manifest.finished /\ m.outcome = g.manifest.outcome
      /\ m.removed = g.manifest.removed
  BY DEF Jobs, Manifests
<1>6. base \in Nat
  BY DEF Works
<1>7. /\ on \in Jobs /\ on.checks = PassedUpTo(k) /\ on.base = base /\ on.manifest = m
      /\ on.stage = k /\ on.dir = g.dir /\ on.outcome = g.outcome /\ on.complete = g.complete
  BY <1>4, <1>5, <1>6 DEF Jobs
<1>8. Fingerprint(p) = base /\ Stage(p) = s
  BY <1>2 DEF Fingerprint, Stage
<1>9. Verdict(p) \in {"passed", "failed", "blocked"}
  BY DEF Verdict
<1>10. CASE Verdict(p) # "passed" /\ Refused(p, answered, Verdict(p)) /\ UNCHANGED bounds
  BY <1>1, <1>4, <1>9, <1>10, Refuses DEF Bounded
<1>11. CASE Fault /\ Refused(p, answered, "blocked")
  BY <1>1, <1>4, <1>11, Refuses DEF Bounded
<1>12. CASE Fault /\ Return(p, job[p], "error")
  BY <1>1, <1>12, SameWork, Ends DEF Bounded, files
<1>13. CASE /\ Verdict(p) = "passed" /\ s = "snapshot" /\ UNCHANGED bounds
            /\ Goto(p, "seal", [on EXCEPT !.outcome = "passed"])
  <2> DEFINE h == [on EXCEPT !.outcome = "passed"]
  <2>1. /\ h \in Jobs /\ h.checks = on.checks /\ h.manifest = m /\ h.dir = g.dir
        /\ h.outcome = "passed" /\ h.complete = g.complete
    <3> HIDE DEF on
    <3>1. QED
      BY <1>7 DEF Jobs, Outcomes
  <2>2. k = 11
    BY <1>3, <1>13, JourneyFacts
  <2>3. Done(r, 11)
    BY <1>2, <1>13, <2>2, VerdictMeans
  <2>4. r = Stages
    BY <2>3, DoneFacts
  <2>5. First(m.commands, 11) /\ m.commands \in Seq(Commands)
    BY <1>2, <1>5, <2>2 DEF OnTheWay, Manifests
  <2>6. m.commands = Journey /\ Contents(m.commands) \cap CleanupChecks = {}
    BY <2>5, FirstFacts
  <2> HIDE DEF h, on, m
  <2>7. OnRecord("seal", h)
    BY <1>7, <2>1, <2>2, <2>6, JourneyFacts DEF OnRecord
  <2>8. Concluded("seal", h, w, r, faults')
    BY <1>2, <1>5, <2>1, <2>4, <2>6, <2>7, JourneyFacts DEF Concluded, OnTheWay
  <2>9. Progress("seal", h, w, r, faults') /\ {"judge", "seal"} \subseteq Working \ {"report"}
    BY <2>8 DEF Progress, Running, Ending, Working
  <2>10. Own(p, "seal", h, w, r) /\ frozen' = frozen /\ evidence' = evidence /\ Bounded
    BY <1>1, <1>2, <1>13, SameOwn DEF files, Bounded, h
  <2>11. QED
    BY <1>1, <1>2, <1>5, <2>1, <2>9, <2>10, GoesOn
<1>14. CASE /\ Verdict(p) = "passed" /\ s # "snapshot" /\ UNCHANGED bounds
            /\ Goto(p, "run", [on EXCEPT !.stage = @ + 1])
  <2> DEFINE h == [on EXCEPT !.stage = k + 1]
  <2>1. k \in 1..10 /\ k + 1 \in DOMAIN Journey /\ (k + 1) - 1 = k
    BY <1>3, <1>14, JourneyFacts
  <2>2. /\ h \in Jobs /\ h.checks = on.checks /\ h.manifest = m /\ h.dir = g.dir
        /\ h.stage = k + 1 /\ h.base = base /\ h.outcome = g.outcome
        /\ h.complete = g.complete
    BY <1>7, <2>1 DEF Jobs
  <2>3. w.source => Done(r, k)
    BY <1>2, <1>14, VerdictMeans
  <2>4. Goto(p, "run", h)
    BY <1>7, <1>14
  <2> HIDE DEF h, on, m
  <2>5. First(h.manifest.commands, k) /\ w.state <= k
    BY <1>2, <1>5, <2>2 DEF OnTheWay
  <2>6. OnTheWay("run", h, w, r)
    BY <1>2, <1>5, <1>7, <2>1, <2>2, <2>3, <2>5 DEF OnTheWay
  <2>7. Progress("run", h, w, r, faults') /\ {"judge", "run"} \subseteq Working \ {"report"}
    BY <2>6 DEF Progress, Running, Ending, Working
  <2>8. Own(p, "run", h, w, r) /\ frozen' = frozen /\ evidence' = evidence /\ Bounded
    BY <1>1, <1>2, <1>14, <2>4, SameOwn DEF files, Bounded
  <2>9. QED
    BY <1>1, <1>2, <1>5, <2>2, <2>7, <2>8, GoesOn
<1>15. QED
  <2>1. job[p].checks = g.checks /\ job[p].answer = g.answer
        /\ on = [job[p] EXCEPT !.checks = Passed(@, Stage(p)), !.base = Fingerprint(p),
                               !.manifest.candidate = TRUE]
    BY <1>2, <1>8
  <2> HIDE DEF on
  <2>2. \/ /\ IF Verdict(p) # "passed" THEN Refused(p, answered, Verdict(p))
              ELSE IF s = "snapshot" THEN Goto(p, "seal", [on EXCEPT !.outcome = "passed"])
              ELSE Goto(p, "run", [on EXCEPT !.stage = @ + 1])
           /\ UNCHANGED bounds
        \/ Fault /\ Refused(p, answered, "blocked")
        \/ Fault /\ Return(p, job[p], "error")
    BY <1>2, <1>8, <2>1 DEF Judge
  <2>3. \/ Verdict(p) # "passed" /\ Refused(p, answered, Verdict(p)) /\ UNCHANGED bounds
        \/ /\ Verdict(p) = "passed" /\ s = "snapshot" /\ UNCHANGED bounds
           /\ Goto(p, "seal", [on EXCEPT !.outcome = "passed"])
        \/ /\ Verdict(p) = "passed" /\ s # "snapshot" /\ UNCHANGED bounds
           /\ Goto(p, "run", [on EXCEPT !.stage = @ + 1])
        \/ Fault /\ Refused(p, answered, "blocked")
        \/ Fault /\ Return(p, job[p], "error")
    <3>1. CASE Verdict(p) # "passed"
      BY <2>2, <3>1
    <3>2. CASE Verdict(p) = "passed" /\ s = "snapshot"
      BY <2>2, <3>2
    <3>3. CASE Verdict(p) = "passed" /\ s # "snapshot"
      BY <2>2, <3>3
    <3>4. QED
      BY <3>1, <3>2, <3>3
  <2>4. QED
    BY <1>10, <1>11, <1>12, <1>13, <1>14, <2>3

-----------------------------------------------------------------------------
(* The end of a smoke *)

\* What is known of a smoke after its journey.
LEMMA Concluding ==
    ASSUME IInv, NEW p \in Procs, pc[p] \in Ending
    PROVE  /\ Concluded(pc[p], job[p], work[p], right[p], faults)
           /\ pc[p] \in Working \ {"report"}
BY Here DEF Claim, Working, Ending

\* SealEvidence: the manifest is written as it is in memory, without an outcome.
LEMMA SealEvidenceKeeps ==
    ASSUME IInv, NEW p \in Procs, SealEvidence(p)
    PROVE  IInv'
<1>1. pc[p] = "seal" /\ pc[p] \in Ending /\ UNCHANGED <<work, frozen, right>>
  BY DEF SealEvidence, At, Ending
<1>2. Concluded("seal", job[p], work[p], right[p], faults) /\ pc[p] \in Working \ {"report"}
  BY <1>1, Concluding
<1>3. CASE WriteManifest(p, job[p].manifest) /\ Goto(p, "dry", job[p]) /\ UNCHANGED bounds
  <2>1. Concluded("dry", job[p], work[p], right[p], faults')
    BY <1>2, <1>3 DEF Concluded, OnRecord, bounds
  <2>2. Progress("dry", job[p], work[p], right[p], faults') /\ "dry" \in Working \ {"report"}
    BY <2>1 DEF Progress, Running, Ending, Working
  <2>3. job[p].manifest \in Manifests /\ Unfinished(job[p].manifest)
    BY <1>2, Here DEF Jobs, Unfinished, Concluded
  <2>4. Own(p, "dry", job[p], work[p], right[p]) /\ Bounded
    BY <1>1, <1>3, SameOwn DEF Bounded
  <2>5. QED
    BY <1>1, <1>2, <1>3, <2>2, <2>3, <2>4, Here, GoesOn
<1>4. CASE Fault /\ Goto(p, "finish", job[p]) /\ UNCHANGED evidence
  <2>1. faults' # 0
    BY <1>4, BoundedFaults DEF Bounded
  <2>2. Concluded("finish", job[p], work[p], right[p], faults')
    BY <1>2, <2>1 DEF Concluded, OnRecord
  <2>3. /\ Progress("finish", job[p], work[p], right[p], faults')
        /\ "finish" \in Working \ {"report"}
    BY <2>2 DEF Progress, Running, Ending, Working
  <2>4. Own(p, "finish", job[p], work[p], right[p]) /\ Bounded
    BY <1>1, <1>4, SameOwn DEF Bounded
  <2>5. QED
    BY <1>1, <1>2, <1>4, <2>3, <2>4, Here, GoesOn
<1>5. QED
  BY <1>3, <1>4 DEF SealEvidence

\* DryCleanup: the dry run takes nothing away.
LEMMA DryCleanupKeeps ==
    ASSUME IInv, NEW p \in Procs, DryCleanup(p)
    PROVE  IInv'
<1>1. pc[p] = "dry" /\ pc[p] \in Ending /\ UNCHANGED <<files, right>>
  BY DEF DryCleanup, At, Ending
<1>2. Concluded("dry", job[p], work[p], right[p], faults) /\ pc[p] \in Working \ {"report"}
  BY <1>1, Concluding
<1>3. PICK answer \in {"right", "wrong", "none"} :
         Goto(p, "named", [job[p] EXCEPT !.answer = answer]) /\ (UNCHANGED bounds \/ Defect)
  BY DEF DryCleanup
<1> DEFINE h == [job[p] EXCEPT !.answer = answer]
<1>4. /\ h \in Jobs /\ h.manifest = job[p].manifest /\ h.dir = job[p].dir
      /\ h.checks = job[p].checks /\ h.outcome = job[p].outcome /\ h.complete = job[p].complete
  BY Here DEF Jobs
<1>5. faults' = faults
  BY <1>3 DEF bounds, Defect
<1>6. Goto(p, "named", h)
  BY <1>3
<1> HIDE DEF h
<1>7. Concluded("named", h, work[p], right[p], faults')
  BY <1>2, <1>4, <1>5 DEF Concluded, OnRecord
<1>8. Progress("named", h, work[p], right[p], faults') /\ "named" \in Working \ {"report"}
  BY <1>7 DEF Progress, Running, Ending, Working
<1>9. Own(p, "named", h, work[p], right[p]) /\ Bounded /\ evidence' = evidence /\ frozen' = frozen
  BY <1>1, <1>3, <1>6, SameOwn DEF Bounded, files
<1>10. QED
  BY <1>1, <1>2, <1>4, <1>8, <1>9, Here, GoesOn

\* A command of the cleanup is in the list of commands once, or not at all.
LEMMA RecordsOnce ==
    ASSUME NEW s \in Seq(Commands), Distinct(s), NEW id \in CleanupChecks, id \notin Contents(s),
           NEW d \in {s, Append(s, id)}
    PROVE  /\ d \in Seq(Commands) /\ Distinct(d)
           /\ Contents(d) \subseteq Contents(s) \cup {id}
<1>1. id \in Commands
  BY DEF Commands
<1>2. QED
  BY <1>1, AppendDistinct

\* CheckDryCleanup: the journey goes on only if the work root is still there.
LEMMA CheckDryCleanupKeeps ==
    ASSUME IInv, NEW p \in Procs, CheckDryCleanup(p)
    PROVE  IInv'
<1> DEFINE id == "cleanup_dry_run"
<1>1. pc[p] = "named" /\ pc[p] \in Ending /\ UNCHANGED <<work, frozen, right>>
  BY DEF CheckDryCleanup, At, Ending
<1>2. PICK g \in Jobs, w \in Works, r \in SUBSET Stages :
         /\ g = job[p] /\ w = work[p] /\ r = right[p] /\ Distinct(g.manifest.commands)
         /\ w.state <= Len(Journey) /\ (w.source => w.there)
         /\ Concluded("named", g, w, r, faults)
  BY <1>1, Concluding, Here
<1> DEFINE m == g.manifest
           c == Append(m.commands, id)
           good == Passed(g.checks, id)
           bad == Failed(g.checks, id)
<1>3. /\ m \in Manifests /\ Distinct(m.commands) /\ id \in CleanupChecks
      /\ id \notin Contents(m.commands) /\ "cleanup" \notin Contents(m.commands)
      /\ ~m.finished /\ m.outcome = "blocked" /\ ~m.removed /\ ~g.complete
  BY <1>2 DEF Concluded, CleanupChecks, Jobs
<1>4. good \in SUBSET Checks /\ bad \in SUBSET Checks
  <2>1. g.checks \in SUBSET Checks
    BY DEF Jobs
  <2>2. QED
    BY <2>1, CheckTypes DEF Commands, CleanupChecks
<1>5. ASSUME NEW label \in {"real", "finish"}, NEW checks \in {good, bad},
             NEW d \in {m.commands, c}, NEW a, a = [m EXCEPT !.commands = d], NEW h,
             h = [[g EXCEPT !.checks = checks] EXCEPT !.manifest.commands = d],
             label = "real" => checks = good /\ d = c,
             label = "finish" => checks = bad,
             Goto(p, label, h), Bounded,
             evidence' = evidence \/ WriteManifest(p, a)
      PROVE  IInv'
  <2>1. /\ a \in Manifests /\ a.commands = d /\ Distinct(d) /\ Unfinished(a)
        /\ "cleanup" \notin Contents(d)
        /\ a.candidate = m.candidate /\ a.finished = m.finished
        /\ a.outcome = m.outcome /\ a.removed = m.removed
    <3>1. m.commands \in Seq(Commands)
      BY <1>3 DEF Manifests
    <3>2. /\ d \in Seq(Commands) /\ Distinct(d)
          /\ Contents(d) \subseteq Contents(m.commands) \cup {id}
      <4>1. d \in {m.commands, Append(m.commands, id)}
        OBVIOUS
      <4>2. Distinct(m.commands) /\ id \in CleanupChecks /\ id \notin Contents(m.commands)
        BY <1>3
      <4> HIDE DEF m, c, id
      <4>3. QED
        BY <3>1, <4>1, <4>2, RecordsOnce
    <3>3. /\ a \in Manifests /\ a.commands = d
          /\ a.candidate = m.candidate /\ a.finished = m.finished
          /\ a.outcome = m.outcome /\ a.removed = m.removed
      <4>1. m \in Manifests /\ d \in Seq(Commands) /\ a = [m EXCEPT !.commands = d]
        BY <1>3, <1>5, <3>2
      <4> HIDE DEF m, c
      <4>2. QED
        BY <4>1 DEF Manifests
    <3>4. QED
      <4>1. "cleanup" \notin Contents(d)
        BY <1>3, <3>2
      <4> HIDE DEF m, c, id
      <4>2. QED
        BY <1>3, <3>2, <3>3, <4>1 DEF Unfinished
  <2>2. /\ h \in Jobs /\ h.manifest = a /\ h.dir = g.dir /\ h.checks = checks
        /\ h.outcome = g.outcome /\ h.complete = g.complete
    BY <1>4, <1>5, <2>1 DEF Jobs
  <2>3. NotCleaned(bad)
    BY DEF NotCleaned, Failed, CleanupChecks
  <2>4. h.outcome = "passed" => r = Stages /\ a.candidate /\ OnRecord(label, h)
    <3> SUFFICES ASSUME h.outcome = "passed"
                 PROVE  r = Stages /\ a.candidate /\ OnRecord(label, h)
      OBVIOUS
    <3>1. r = Stages /\ m.candidate /\ OnRecord("named", g)
      BY <1>2, <2>2 DEF Concluded
    <3>2. m.commands = Journey /\ g.checks = PassedUpTo(Len(Journey))
      BY <3>1 DEF OnRecord
    <3>3. label = "real" => /\ d = Append(Journey, id)
                            /\ checks = Passed(PassedUpTo(Len(Journey)), id)
      BY <1>5, <3>2
    <3>4. ~h.complete /\ h.manifest.commands = d /\ h.checks = checks
      BY <1>3, <2>1, <2>2
    <3> HIDE DEF m, c, good, bad
    <3>5. OnRecord(label, h)
      BY <3>3, <3>4 DEF OnRecord
    <3>6. QED
      BY <2>1, <3>1, <3>5
  <2>5. Concluded(label, h, w, r, faults')
    <3>1. Distinct(d) /\ "cleanup" \notin Contents(d) /\ ~a.finished /\ ~a.removed
          /\ a.outcome = "blocked" /\ ~h.complete
      BY <1>3, <2>1, <2>2
    <3>2. label = "finish" => NotCleaned(h.checks)
      BY <1>5, <2>2, <2>3
    <3> HIDE DEF m, c, good, bad
    <3>3. QED
      BY <2>1, <2>2, <2>4, <3>1, <3>2 DEF Concluded
  <2>6. Progress(label, h, w, r, faults') /\ label \in Working \ {"report"}
    BY <2>5 DEF Progress, Running, Ending, Working
  <2>7. Own(p, label, h, w, r)
    BY <1>1, <1>2, <1>5, SameOwn
  <2>8. /\ pc[p] \in Working \ {"report"} /\ frozen' = frozen /\ h.dir = job[p].dir
        /\ Distinct(h.manifest.commands)
    BY <1>1, <1>2, <2>1, <2>2, Concluding
  <2>9. \/ evidence' = evidence
        \/ \E x \in Manifests : Unfinished(x) /\ WriteManifest(p, x)
    BY <1>5, <2>1
  <2>10. h \in Jobs /\ w.state <= Len(Journey) /\ (w.source => w.there) /\ Bounded
    BY <1>2, <1>5, <2>2
  <2> HIDE DEF m, c, good, bad
  <2>11. QED
    BY <2>6, <2>7, <2>8, <2>9, <2>10, GoesOn
<1>6. QED
  <2> DEFINE refused == [job[p] EXCEPT !.checks = Failed(@, id)]
             a(d) == [m EXCEPT !.commands = d]
  <2>1. /\ [job[p] EXCEPT !.checks = Passed(@, id)] = [g EXCEPT !.checks = good]
        /\ refused = [g EXCEPT !.checks = bad]
        /\ Recorded(p, id) = a(c) /\ Recorded(p, id).commands = c
        /\ job[p].manifest.commands = m.commands
    BY <1>2, <1>3 DEF Recorded, Manifests
  <2>2. CASE Record(p, id, "real", [job[p] EXCEPT !.checks = Passed(@, id)])
    <3> DEFINE h == [[g EXCEPT !.checks = good] EXCEPT !.manifest.commands = c]
    <3>1. Goto(p, "real", h) /\ WriteManifest(p, a(c)) /\ Bounded
      BY <1>2, <2>1, <2>2 DEF Record, Bounded, Jobs
    <3>2. QED
      BY <1>5, <3>1
  <2>3. CASE Record(p, id, "finish", refused)
    <3> DEFINE h == [[g EXCEPT !.checks = bad] EXCEPT !.manifest.commands = c]
    <3>1. Goto(p, "finish", h) /\ WriteManifest(p, a(c)) /\ Bounded
      BY <1>2, <2>1, <2>3 DEF Record, Bounded, Jobs
    <3>2. QED
      BY <1>5, <3>1
  <2>4. CASE NotRecorded(p, id, "finish", refused)
    <3>1. CASE job[p].answer = "none"
      <4> DEFINE h == [[g EXCEPT !.checks = bad] EXCEPT !.manifest.commands = m.commands]
      <4>1. refused = h
        <5> DEFINE x == [g EXCEPT !.checks = bad]
        <5>1. x \in Jobs /\ x.manifest = m
          BY <1>4 DEF Jobs
        <5>2. x = [x EXCEPT !.manifest.commands = m.commands]
          BY <5>1 DEF Jobs, Manifests
        <5>3. QED
          BY <2>1, <5>2
      <4>2. Goto(p, "finish", h) /\ evidence' = evidence /\ Bounded
        BY <2>4, <3>1, <4>1 DEF NotRecorded, Bounded
      <4>3. QED
        BY <1>5, <4>2
    <3>2. CASE job[p].answer # "none"
      <4>1. PICK d \in {m.commands, c} :
               Goto(p, "finish", [[g EXCEPT !.checks = bad] EXCEPT !.manifest.commands = d])
        BY <2>1, <2>4, <3>2 DEF NotRecorded
      <4>2. evidence' = evidence /\ Bounded
        BY <2>4, <3>2 DEF NotRecorded, Bounded
      <4>3. QED
        BY <1>5, <4>1, <4>2
    <3>3. QED
      BY <3>1, <3>2
  <2>5. QED
    BY <2>2, <2>3, <2>4 DEF CheckDryCleanup

\* RealCleanup: the work root is gone, whoever removed it.
LEMMA RealCleanupKeeps ==
    ASSUME IInv, NEW p \in Procs, RealCleanup(p)
    PROVE  IInv'
<1>1. pc[p] = "real" /\ pc[p] \in Ending /\ UNCHANGED <<evidence, frozen, right>>
  BY DEF RealCleanup, At, Ending
<1>2. Concluded("real", job[p], work[p], right[p], faults) /\ pc[p] \in Working \ {"report"}
  BY <1>1, Concluding
<1>3. PICK answer \in {"right", "wrong", "none"}, w \in {NoWork, work[p]} :
         /\ Goto(p, "removed", [job[p] EXCEPT !.answer = answer])
         /\ work' = [work EXCEPT ![p] = w]
         /\ UNCHANGED bounds \/ Defect
  BY SameWork DEF RealCleanup
<1> DEFINE h == [job[p] EXCEPT !.answer = answer]
<1>4. /\ h \in Jobs /\ h.manifest = job[p].manifest /\ h.dir = job[p].dir
      /\ h.checks = job[p].checks /\ h.outcome = job[p].outcome /\ h.complete = job[p].complete
  BY Here DEF Jobs
<1>5. faults' = faults
  BY <1>3 DEF bounds, Defect
<1>6. Goto(p, "removed", h)
  BY <1>3
<1> HIDE DEF h
<1>7. Concluded("removed", h, w, right[p], faults')
  BY <1>2, <1>4, <1>5 DEF Concluded, OnRecord
<1>8. Progress("removed", h, w, right[p], faults') /\ "removed" \in Working \ {"report"}
  BY <1>7 DEF Progress, Running, Ending, Working
<1>9. w \in Works /\ w.state <= Len(Journey) /\ (w.source => w.there)
  <2>1. CASE w = NoWork
    <3>1. w.state = 0 /\ ~w.source /\ w \in Works
      BY <2>1, Constants DEF NoWork
    <3>2. QED
      BY <3>1, JourneyFacts
  <2>2. CASE w = work[p]
    BY <2>2, Here
  <2>3. QED
    BY <2>1, <2>2
<1>10. /\ Own(p, "removed", h, w, right[p]) /\ Bounded /\ evidence' = evidence
       /\ frozen' = frozen
  BY <1>1, <1>3, <1>6 DEF Bounded, Own, IInv, Types
<1>11. QED
  BY <1>1, <1>2, <1>4, <1>8, <1>9, <1>10, Here, GoesOn

\* CheckCleanup: a journey passes only if its work root is gone.
LEMMA CheckCleanupKeeps ==
    ASSUME IInv, NEW p \in Procs, CheckCleanup(p)
    PROVE  IInv'
<1> DEFINE id == "cleanup"
<1>1. pc[p] = "removed" /\ pc[p] \in Ending /\ UNCHANGED <<work, frozen, right>>
  BY DEF CheckCleanup, At, Ending
<1>2. PICK g \in Jobs, w \in Works, r \in SUBSET Stages, removed \in BOOLEAN :
         /\ g = job[p] /\ w = work[p] /\ r = right[p] /\ Distinct(g.manifest.commands)
         /\ w.state <= Len(Journey) /\ (w.source => w.there)
         /\ Concluded("removed", g, w, r, faults)
         /\ removed = (job[p].answer = "right" /\ ~work[p].there)
  <2>1. (job[p].answer = "right" /\ ~work[p].there) \in BOOLEAN
    OBVIOUS
  <2>2. Concluded("removed", job[p], work[p], right[p], faults)
    BY <1>1, Concluding
  <2>3. QED
    BY <2>1, <2>2, Here
<1>3. removed => ~w.there
  BY <1>2
<1> DEFINE m == [g.manifest EXCEPT !.dry = TRUE, !.removed = removed]
           c == Append(m.commands, id)
           good == Passed(g.checks, id)
           bad == Failed(g.checks, id)
           cleaned == [g EXCEPT !.manifest.dry = TRUE, !.manifest.removed = removed]
           done == [cleaned EXCEPT !.checks = good, !.complete = TRUE]
           refused == [cleaned EXCEPT !.checks = bad]
<1>4. /\ g.manifest \in Manifests /\ m \in Manifests /\ m.commands = g.manifest.commands
      /\ m.candidate = g.manifest.candidate /\ m.finished = g.manifest.finished
      /\ m.outcome = g.manifest.outcome /\ m.removed = removed
      /\ cleaned \in Jobs /\ cleaned.manifest = m /\ cleaned.dir = g.dir
      /\ cleaned.checks = g.checks /\ cleaned.outcome = g.outcome
      /\ cleaned.complete = g.complete
  BY DEF Jobs, Manifests
<1>5. /\ Distinct(m.commands) /\ id \notin Contents(m.commands) /\ m.commands \in Seq(Commands)
      /\ ~m.finished /\ m.outcome = "blocked" /\ ~g.complete
  BY <1>2, <1>4 DEF Concluded, Manifests
<1>6. good \in SUBSET Checks /\ bad \in SUBSET Checks /\ id \in CleanupChecks
  BY CheckTypes DEF Commands, CleanupChecks, Jobs
<1>7. /\ done \in Jobs /\ done.manifest = m /\ done.dir = g.dir /\ done.outcome = g.outcome
      /\ done.complete /\ done.checks = good
      /\ refused \in Jobs /\ refused.manifest = m /\ refused.dir = g.dir
      /\ refused.outcome = g.outcome /\ refused.complete = g.complete /\ refused.checks = bad
  <2> HIDE DEF cleaned
  <2>1. QED
    BY <1>4, <1>6 DEF Jobs
<1>8. ASSUME NEW x \in {done, refused}, NEW d \in {m.commands, c},
             x = done => d = c /\ removed,
             NEW h, h = [x EXCEPT !.manifest.commands = d],
             NEW a, a = [g.manifest EXCEPT !.commands = Append(@, id)],
             Goto(p, "finish", h), Bounded,
             evidence' = evidence \/ WriteManifest(p, a)
      PROVE  IInv'
  <2>1. d \in Seq(Commands) /\ Distinct(d)
    <3>1. d \in {m.commands, Append(m.commands, id)}
      OBVIOUS
    <3>2. /\ m.commands \in Seq(Commands) /\ Distinct(m.commands)
          /\ id \in CleanupChecks /\ id \notin Contents(m.commands)
      BY <1>5, <1>6
    <3> HIDE DEF m, c, id, done, refused
    <3>3. QED
      BY <3>1, <3>2, RecordsOnce
  <2>2. Append(g.manifest.commands, id) \in Seq(Commands)
        /\ Distinct(Append(g.manifest.commands, id))
    <3> HIDE DEF m, id
    <3>1. QED
      BY <1>4, <1>5, <1>6, RecordsOnce
  <2>3. Unfinished(a) /\ a \in Manifests
    BY <1>4, <1>5, <1>8, <2>2 DEF Manifests, Unfinished
  <2> DEFINE b == [m EXCEPT !.commands = d]
  <2>4. /\ b \in Manifests /\ b.commands = d /\ b.candidate = g.manifest.candidate
        /\ ~b.finished /\ b.outcome = "blocked" /\ b.removed = removed
    <3> HIDE DEF m
    <3>1. QED
      BY <1>4, <1>5, <2>1 DEF Manifests
  <2>5. x \in Jobs /\ x.manifest = m
    BY <1>7, <1>8
  <2>6. /\ h \in Jobs /\ h.manifest = b /\ h.dir = x.dir /\ h.checks = x.checks
        /\ h.outcome = x.outcome /\ h.complete = x.complete
    <3> HIDE DEF b, m, done, refused
    <3>1. b = [x.manifest EXCEPT !.commands = d]
      BY <2>5 DEF b
    <3>2. QED
      BY <1>8, <2>4, <2>5, <3>1 DEF Jobs
  <2>7. h.dir = g.dir /\ h.outcome = g.outcome
    BY <1>7, <2>6
  <2>8. NotCleaned(bad)
    BY DEF NotCleaned, Failed, CleanupChecks
  <2>9. h.complete => d = c /\ removed /\ h.checks = good
    <3>1. CASE x = done
      BY <1>7, <1>8, <2>6, <3>1
    <3>2. CASE x = refused
      BY <1>5, <1>7, <2>6, <3>2
    <3>3. QED
      BY <3>1, <3>2
  <2>10. ~removed => h.checks = bad
    BY <1>7, <1>8, <2>6
  <2>11. h.outcome = "passed" => r = Stages /\ b.candidate /\ OnRecord("finish", h)
    <3>1. SUFFICES ASSUME h.outcome = "passed", h.complete
                   PROVE  /\ h.manifest.commands = Journey \o <<"cleanup_dry_run", "cleanup">>
                          /\ h.checks = AllPassed
      BY <1>2, <2>4, <2>6, <2>7 DEF Concluded, OnRecord
    <3>2. /\ g.manifest.commands = Append(Journey, "cleanup_dry_run")
          /\ g.checks = Passed(PassedUpTo(Len(Journey)), "cleanup_dry_run")
      BY <1>2, <2>7, <3>1 DEF Concluded, OnRecord
    <3>3. h.manifest.commands = Append(Append(Journey, "cleanup_dry_run"), "cleanup")
      <4>1. m.commands = g.manifest.commands BY <1>4 DEF Manifests
      <4>2. d = Append(g.manifest.commands, "cleanup")
        <5> HIDE DEF m, done, refused
        <5>1. QED BY <2>9, <3>1, <4>1
      <4>3. h.manifest.commands = d
        <5> HIDE DEF b
        <5>1. QED BY <2>4, <2>6
      <4>4. QED BY <3>2, <4>2, <4>3
    <3>4. /\ Journey \in Seq(Commands) /\ "cleanup_dry_run" \in Commands
          /\ "cleanup" \in Commands
      BY JourneyFacts DEF Commands
    <3>5. h.manifest.commands = Journey \o <<"cleanup_dry_run", "cleanup">>
      BY <3>3, <3>4, AppendTwice
    <3>6. h.checks = AllPassed
      BY <2>9, <3>1, <3>2, JourneyFacts, PassedFacts
    <3>7. QED
      BY <3>5, <3>6
  <2>12. Concluded("finish", h, w, r, faults')
    <3>1. h.manifest.removed => ~w.there
      BY <1>3, <2>4, <2>6
    <3>2. ~w.there \/ NotCleaned(h.checks) \/ removed
      BY <2>8, <2>10
    <3>3. w.there => NotCleaned(h.checks)
      BY <1>3, <3>2
    <3> HIDE DEF b, c, good, bad
    <3>4. QED
      BY <2>1, <2>4, <2>6, <2>9, <2>11, <3>1, <3>3 DEF Concluded
  <2>13. Progress("finish", h, w, r, faults') /\ "finish" \in Working \ {"report"}
    BY <2>12 DEF Progress, Running, Ending, Working
  <2>14. Own(p, "finish", h, w, r)
    BY <1>1, <1>2, <1>8, SameOwn
  <2>15. /\ pc[p] \in Working \ {"report"} /\ frozen' = frozen /\ h.dir = job[p].dir
         /\ Distinct(h.manifest.commands)
    BY <1>1, <1>2, <2>1, <2>4, <2>6, <2>7, Concluding
  <2>16. evidence' = evidence \/ \E y \in Manifests : Unfinished(y) /\ WriteManifest(p, y)
    BY <1>8, <2>3
  <2>17. QED
    BY <1>2, <1>8, <2>6, <2>13, <2>14, <2>15, <2>16, GoesOn
<1>9. QED
  <2> DEFINE a == [g.manifest EXCEPT !.commands = Append(@, id)]
             next == IF removed THEN done ELSE refused
  <2>1. /\ Recorded(p, id) = a /\ Recorded(p, id).commands = c
        /\ job[p].manifest.commands = m.commands
    BY <1>2, <1>4 DEF Recorded, Manifests
  <2>2. \/ Record(p, id, "finish", next)
        \/ NotRecorded(p, id, "finish", refused)
    <3>1. job[p] = g
      BY <1>2
    <3>2. (job[p].answer = "right" /\ ~work[p].there) = removed
      BY <1>2
    <3>3. QED
      BY <3>1, <3>2 DEF CheckCleanup
  <2> HIDE DEF done, refused
  <2>3. CASE Record(p, id, "finish", next)
    <3> DEFINE h == [next EXCEPT !.manifest.commands = c]
    <3>1. next.manifest.commands = m.commands
      BY <1>7
    <3>2. Goto(p, "finish", h) /\ WriteManifest(p, a) /\ Bounded
      <4> HIDE DEF next, m
      <4>1. QED
        BY <2>1, <2>3, <3>1 DEF Record, Bounded
    <3>3. CASE removed
      BY <1>8, <3>2, <3>3
    <3>4. CASE ~removed
      <4>1. done # refused
        BY <1>5, <1>7
      <4>2. QED
        BY <1>8, <3>2, <3>4, <4>1
    <3>5. QED
      BY <3>3, <3>4
  <2>4. CASE NotRecorded(p, id, "finish", refused)
    <3>1. done # refused
      BY <1>5, <1>7
    <3>2. CASE job[p].answer = "none"
      <4>1. refused = [refused EXCEPT !.manifest.commands = m.commands]
        <5> HIDE DEF m
        <5>1. QED
          BY <1>4, <1>7 DEF Jobs, Manifests
      <4>2. Goto(p, "finish", refused) /\ evidence' = evidence /\ Bounded
        BY <2>4, <3>2 DEF NotRecorded, Bounded
      <4>3. QED
        BY <1>8, <3>1, <4>1, <4>2
    <3>3. CASE job[p].answer # "none"
      <4>1. PICK d \in {m.commands, c} :
               Goto(p, "finish", [refused EXCEPT !.manifest.commands = d])
        BY <2>1, <2>4, <3>3 DEF NotRecorded
      <4>2. evidence' = evidence /\ Bounded
        BY <2>4, <3>3 DEF NotRecorded, Bounded
      <4>3. QED
        BY <1>8, <3>1, <4>1, <4>2
    <3>4. QED
      BY <3>2, <3>3
  <2>5. QED
    BY <2>2, <2>3, <2>4

\* A smoke says passed only of what was on record and was cleaned up.
LEMMA OutcomeMeans ==
    ASSUME NEW p \in Procs, Outcome(p) = "passed",
           Concluded("finish", job[p], work[p], right[p], faults)
    PROVE  /\ right[p] = Stages /\ job[p].manifest.candidate /\ ~work[p].there
           /\ job[p].manifest.commands = Journey \o <<"cleanup_dry_run", "cleanup">>
           /\ job[p].checks = AllPassed
<1>1. job[p].outcome = "passed" /\ job[p].complete
  BY DEF Outcome
<1>2. QED
  BY <1>1 DEF Concluded, OnRecord

\* FinishManifest: the manifest says passed only of a journey that was.
LEMMA FinishManifestKeeps ==
    ASSUME IInv, NEW p \in Procs, FinishManifest(p)
    PROVE  IInv'
<1>1. pc[p] = "finish" /\ pc[p] \in Ending /\ UNCHANGED <<work, frozen, right>>
  BY DEF FinishManifest, At, Ending
<1>2. PICK g \in Jobs, w \in Works, r \in SUBSET Stages, o \in Outcomes :
         /\ g = job[p] /\ w = work[p] /\ r = right[p] /\ Distinct(g.manifest.commands)
         /\ w.state <= Len(Journey) /\ (w.source => w.there)
         /\ Concluded("finish", g, w, r, faults)
         /\ o = Outcome(p)
  <2>1. Outcome(p) \in Outcomes
    BY Here DEF Outcome, Jobs, Outcomes
  <2>2. QED
    BY <1>1, <2>1, Concluding, Here
<1> DEFINE m == [g.manifest EXCEPT !.checks = g.checks, !.finished = TRUE, !.outcome = o]
<1>3. /\ m \in Manifests /\ m.commands = g.manifest.commands /\ m.checks = g.checks
      /\ m.finished /\ m.outcome = o /\ m.candidate = g.manifest.candidate
      /\ m.removed = g.manifest.removed
  BY DEF Jobs, Manifests
<1>4. \/ /\ WriteManifest(p, m) /\ UNCHANGED bounds
         /\ Goto(p, "report", [g EXCEPT !.manifest = m, !.outcome = o])
      \/ /\ Fault /\ Return(p, g, "error")
         /\ WriteManifest(p, m) \/ UNCHANGED evidence
  BY <1>2 DEF FinishManifest
<1> HIDE DEF m
<1>5. /\ g.dir \in Dirs /\ evidence[g.dir].run = p /\ p \notin frozen
      /\ evidence \in [Dirs -> Entries] /\ frozen \subseteq Procs
  <2>1. Claim(p, pc[p], job[p], work[p], right[p], evidence, frozen, faults)
    BY Here
  <2>2. g.dir \in Dirs /\ evidence[g.dir].run = p /\ p \notin frozen
    BY <1>1, <1>2, <2>1 DEF Claim, Working, Ending
  <2>3. QED
    BY <2>2, Here
<1>6. ASSUME WriteManifest(p, m), NEW label \in {"report", "ended"}
      PROVE  /\ evidence' \in [Dirs -> Entries] /\ evidence'[g.dir].run = p
             /\ evidence'[g.dir].manifest = m
             /\ Entry(p, label, w, r, evidence'[g.dir])
             /\ \A d \in Dirs \ {g.dir} : evidence'[d] = evidence[d]
  <2>1. /\ evidence' \in [Dirs -> Entries] /\ evidence'[g.dir].run = p
        /\ evidence'[g.dir].manifest = m
        /\ \A d \in Dirs \ {g.dir} : evidence'[d] = evidence[d]
    BY <1>2, <1>3, <1>5, <1>6 DEF WriteManifest, Entries
  <2>2. Earned(evidence'[g.dir], w, r)
    <3>1. ASSUME o = "passed"
          PROVE  /\ r = Stages /\ g.manifest.candidate /\ ~w.there
                 /\ g.manifest.commands = Journey \o <<"cleanup_dry_run", "cleanup">>
                 /\ g.checks = AllPassed
      <4>1. Outcome(p) = "passed" /\ Concluded("finish", job[p], work[p], right[p], faults)
        BY <1>2, <3>1
      <4>2. QED
        BY <1>2, <4>1, OutcomeMeans
    <3>2. QED
      BY <1>3, <2>1, <3>1 DEF Earned
  <2>3. evidence'[g.dir] \in Entries
    BY <1>5, <2>1
  <2>4. QED
    BY <1>2, <1>3, <2>1, <2>2, <2>3 DEF Entry
<1>7. CASE /\ WriteManifest(p, m) /\ UNCHANGED bounds
           /\ Goto(p, "report", [g EXCEPT !.manifest = m, !.outcome = o])
  <2> DEFINE h == [g EXCEPT !.manifest = m, !.outcome = o]
  <2>1. h \in Jobs /\ h.manifest = m /\ h.outcome = o /\ h.dir = g.dir
    BY <1>3 DEF Jobs
  <2> HIDE DEF h
  <2>2. faults' = faults /\ faults \in Nat
    BY <1>7, Here DEF bounds
  <2>3. Finished(p, h, w, evidence', faults')
    <3>1. w.there => ~m.removed /\ (faults' = 0 => NotCleaned(m.checks))
      BY <1>2, <1>3, <2>2 DEF Concluded
    <3>2. QED
      BY <1>3, <1>5, <1>6, <1>7, <2>1, <3>1 DEF Finished
  <2>4. Claim(p, "report", h, w, r, evidence', frozen', faults')
    BY <1>1, <1>5, <1>6, <1>7, <2>1, <2>3 DEF Claim, Working, Running, Ending
  <2>5. /\ DOMAIN evidence' = Dirs /\ evidence' = [d \in Dirs |-> evidence'[d]]
        /\ \A d \in Dirs : \/ evidence'[d] = evidence[d]
                           \/ /\ d = h.dir /\ "report" # "capture"
                              /\ evidence[d].run \in {p, NoProc}
                              /\ Entry(p, "report", w, r, evidence'[d])
    BY <1>5, <1>6, <1>7, <2>1
  <2>6. Own(p, "report", h, w, r)
    BY <1>1, <1>2, <1>7, SameOwn DEF h
  <2>7. /\ pc[p] # "ended" /\ "report" \in Labels \ {"idle"} /\ frozen' \subseteq Procs
        /\ frozen' \ {p} = frozen \ {p} /\ Distinct(h.manifest.commands)
        /\ pc[p] \notin {"report"} /\ h.dir = job[p].dir /\ faults' \in Nat
        /\ (faults' = 0 => faults = 0)
    BY <1>1, <1>2, <1>3, <1>5, <2>1, <2>2 DEF Labels, Working
  <2>8. QED
    BY <1>2, <2>1, <2>4, <2>5, <2>6, <2>7, Steps
<1>8. CASE Fault /\ Return(p, g, "error") /\ WriteManifest(p, m)
  <2> DEFINE h == [g EXCEPT !.result = "error"]
  <2>1. h \in Jobs /\ h.manifest = g.manifest /\ h.dir = g.dir /\ h.result \notin Outcomes
    BY DEF Jobs, Results, Outcomes
  <2>2. Goto(p, "ended", h)
    BY <1>8 DEF Return
  <2> HIDE DEF h
  <2>3. faults' \in Nat /\ (faults' = 0 => faults = 0)
    BY <1>8, BoundedFaults DEF Bounded
  <2>4. Claim(p, "ended", h, w, r, evidence', frozen', faults')
    BY <1>1, <1>5, <2>1 DEF Claim, Working, Running, Ending
  <2>5. /\ DOMAIN evidence' = Dirs /\ evidence' = [d \in Dirs |-> evidence'[d]]
        /\ \A d \in Dirs : \/ evidence'[d] = evidence[d]
                           \/ /\ d = h.dir /\ "ended" # "capture"
                              /\ evidence[d].run \in {p, NoProc}
                              /\ Entry(p, "ended", w, r, evidence'[d])
    BY <1>5, <1>6, <1>8, <2>1
  <2>6. Own(p, "ended", h, w, r)
    BY <1>1, <1>2, <2>2, SameOwn
  <2>7. /\ pc[p] # "ended" /\ "ended" \in Labels \ {"idle"} /\ frozen' \subseteq Procs
        /\ frozen' \ {p} = frozen \ {p} /\ Distinct(h.manifest.commands)
        /\ pc[p] # "report" /\ h.dir = job[p].dir
    BY <1>1, <1>2, <1>5, <2>1 DEF Labels
  <2>8. QED
    BY <1>2, <2>1, <2>3, <2>4, <2>5, <2>6, <2>7, Steps
<1>9. CASE Fault /\ Return(p, g, "error") /\ UNCHANGED evidence
  BY <1>1, <1>2, <1>9, SameWork, Ends DEF Bounded
<1>10. QED
  BY <1>4, <1>7, <1>8, <1>9

\* WriteReport: the report repeats the outcome of the manifest.
LEMMA WriteReportKeeps ==
    ASSUME IInv, NEW p \in Procs, WriteReport(p)
    PROVE  IInv'
<1>1. pc[p] = "report" /\ UNCHANGED <<work, frozen, right>>
  BY DEF WriteReport, At
<1>2. PICK g \in Jobs, w \in Works, r \in SUBSET Stages :
         /\ g = job[p] /\ w = work[p] /\ r = right[p] /\ Distinct(g.manifest.commands)
         /\ w.state <= Len(Journey) /\ (w.source => w.there)
  BY Here
<1>3. /\ g.dir \in Dirs /\ evidence[g.dir].run = p /\ p \notin frozen
      /\ Finished(p, g, w, evidence, faults)
      /\ evidence \in [Dirs -> Entries] /\ frozen \subseteq Procs /\ faults \in Nat
  <2>1. Claim(p, pc[p], job[p], work[p], right[p], evidence, frozen, faults)
    BY Here
  <2>2. /\ g.dir \in Dirs /\ evidence[g.dir].run = p /\ p \notin frozen
        /\ Finished(p, g, w, evidence, faults)
    BY <1>1, <1>2, <2>1 DEF Claim, Working
  <2>3. QED
    BY <2>2, Here
<1>4. CASE /\ evidence' = [evidence EXCEPT ![job[p].dir].report = job[p].outcome]
           /\ Return(p, job[p], job[p].outcome)
           /\ UNCHANGED bounds
  <2> DEFINE h == [g EXCEPT !.result = g.outcome]
  <2>1. /\ h \in Jobs /\ h.manifest = g.manifest /\ h.dir = g.dir /\ h.result = g.outcome
        /\ h.outcome = g.outcome
    BY DEF Jobs, Results
  <2>2. Goto(p, "ended", h)
    BY <1>2, <1>4 DEF Return
  <2>3. g.outcome \in Outcomes
    BY DEF Jobs
  <2> HIDE DEF h
  <2>4. /\ evidence' \in [Dirs -> Entries] /\ evidence'[g.dir].run = p
        /\ evidence'[g.dir].manifest = evidence[g.dir].manifest
        /\ evidence'[g.dir].report = g.outcome
        /\ \A d \in Dirs \ {g.dir} : evidence'[d] = evidence[d]
    BY <1>2, <1>3, <1>4, <2>3 DEF Entries
  <2>5. Finished(p, h, w, evidence', faults')
    BY <1>3, <1>4, <2>1, <2>4 DEF Finished, bounds
  <2>6. Claim(p, "ended", h, w, r, evidence', frozen', faults')
    BY <1>1, <1>3, <2>1, <2>4, <2>5 DEF Claim, Working, Running, Ending
  <2>7. Entry(p, "ended", w, r, evidence'[g.dir])
    <3>1. Earned(evidence[g.dir], w, r)
      BY <1>2, <1>3, EarnedMeans DEF IInv
    <3>2. Owned(g.dir, evidence[g.dir])
      BY <1>3 DEF IInv
    <3>3. evidence'[g.dir] \in Entries
      BY <1>3, <2>4
    <3>4. QED
      BY <1>3, <2>4, <3>1, <3>2, <3>3, Here DEF Entry, Earned, Owned
  <2>8. /\ DOMAIN evidence' = Dirs /\ evidence' = [d \in Dirs |-> evidence'[d]]
        /\ \A d \in Dirs : \/ evidence'[d] = evidence[d]
                           \/ /\ d = h.dir /\ "ended" # "capture"
                              /\ evidence[d].run \in {p, NoProc}
                              /\ Entry(p, "ended", w, r, evidence'[d])
    BY <1>3, <2>1, <2>4, <2>7
  <2>9. Own(p, "ended", h, w, r)
    BY <1>1, <1>2, <2>2, SameOwn
  <2>10. /\ pc[p] # "ended" /\ "ended" \in Labels \ {"idle"} /\ frozen' \subseteq Procs
         /\ frozen' \ {p} = frozen \ {p} /\ Distinct(h.manifest.commands)
         /\ h.dir = job[p].dir /\ faults' \in Nat /\ (faults' = 0 => faults = 0)
    BY <1>1, <1>2, <1>3, <1>4, <2>1 DEF Labels, bounds
  <2>11. QED
    BY <1>1, <1>2, <2>1, <2>6, <2>8, <2>9, <2>10, Steps
<1>5. CASE Fault /\ Return(p, job[p], "error") /\ UNCHANGED evidence
  BY <1>1, <1>5, SameWork, Ends DEF Bounded
<1>6. QED
  BY <1>4, <1>5 DEF WriteReport

-----------------------------------------------------------------------------
(* Snapshots, cleanups by others, and kills *)

\* FreezeConfiguration: the copy of the configuration is claimed by nobody.
LEMMA FreezeConfigurationKeeps ==
    ASSUME IInv, NEW p \in Procs, NEW d \in Dirs, FreezeConfiguration(p, d)
    PROVE  IInv'
<1>1. /\ pc[p] = "idle" /\ job[p] = NoJob /\ work[p] = NoWork /\ right[p] = {}
      /\ p \notin frozen /\ UNCHANGED <<work, evidence, right>>
  BY Here DEF Claim, FreezeConfiguration, At
<1>2. /\ work[p] \in Works /\ work[p].state <= Len(Journey) /\ right[p] \in SUBSET Stages
      /\ work[p].source => work[p].there
      /\ DOMAIN evidence' = Dirs /\ evidence' = [x \in Dirs |-> evidence'[x]]
      /\ frozen \subseteq Procs
  BY <1>1, Here
<1>3. CASE /\ frozen' = frozen \cup {p}
           /\ Goto(p, "capture", [NoJob EXCEPT !.dir = d])
           /\ UNCHANGED bounds
  <2> DEFINE h == [NoJob EXCEPT !.dir = d]
  <2>1. h \in Jobs /\ Distinct(h.manifest.commands) /\ h.dir = d
    BY Constants DEF NoJob, Jobs
  <2> HIDE DEF h
  <2>2. Claim(p, "capture", h, work[p], right[p], evidence', frozen', faults')
    BY <1>1, <2>1 DEF Claim, Working, Running, Ending
  <2>3. /\ Own(p, "capture", h, work[p], right[p]) /\ "capture" \in Labels \ {"idle"}
        /\ frozen' \subseteq Procs /\ frozen' \ {p} = frozen \ {p}
        /\ faults' \in Nat /\ (faults' = 0 => faults = 0)
    BY <1>1, <1>2, <1>3, SameOwn, Here DEF h, Labels, bounds
  <2>4. QED
    BY <1>1, <1>2, <2>1, <2>2, <2>3, Steps
<1>4. CASE Fault /\ Return(p, job[p], "error") /\ UNCHANGED frozen
  <2> DEFINE h == [NoJob EXCEPT !.result = "error"]
  <2>1. h \in Jobs /\ Distinct(h.manifest.commands) /\ h.result \notin Outcomes
    BY Constants DEF NoJob, Jobs, Results, Outcomes
  <2>2. Goto(p, "ended", h)
    BY <1>1, <1>4 DEF Return
  <2> HIDE DEF h
  <2>3. Claim(p, "ended", h, work[p], right[p], evidence', frozen', faults')
    BY <1>1, <1>4, <2>1 DEF Claim, Working, Running, Ending
  <2>4. faults' \in Nat /\ (faults' = 0 => faults = 0)
    BY <1>4, BoundedFaults DEF Bounded
  <2>5. /\ Own(p, "ended", h, work[p], right[p]) /\ "ended" \in Labels \ {"idle"}
        /\ frozen' \subseteq Procs /\ frozen' \ {p} = frozen \ {p}
    BY <1>1, <1>2, <1>4, <2>2, SameOwn DEF Labels
  <2>6. QED
    BY <1>1, <1>2, <2>1, <2>3, <2>4, <2>5, Steps
<1>5. QED
  BY <1>3, <1>4 DEF FreezeConfiguration

\* CaptureSnapshot: an inventory is in a directory of its own and is no manifest.
LEMMA CaptureSnapshotKeeps ==
    ASSUME IInv, NEW p \in Procs, CaptureSnapshot(p)
    PROVE  IInv'
<1>1. pc[p] = "capture" /\ frozen' = frozen \ {p} /\ UNCHANGED <<work, right>>
  BY DEF CaptureSnapshot, At
<1>2. PICK g \in Jobs : g = job[p] /\ g.dir \in Dirs /\ Distinct(g.manifest.commands)
  BY <1>1, Here DEF Claim
<1> DEFINE d == g.dir
<1>3. /\ work[p] \in Works /\ work[p].state <= Len(Journey) /\ right[p] \in SUBSET Stages
      /\ work[p].source => work[p].there
      /\ evidence \in [Dirs -> Entries] /\ frozen \subseteq Procs
  BY <1>1, Here
<1>4. PICK res \in {"captured", "error"}, e \in Entries :
         /\ Return(p, g, res) /\ Bounded
         /\ \/ evidence' = evidence
            \/ /\ evidence[d].run = NoProc
               /\ evidence' = [evidence EXCEPT ![d] = e]
         /\ e.run = p /\ e.manifest = NoManifest
  <2> DEFINE a == [Empty EXCEPT !.run = p, !.report = "inventory"]
             b == [Empty EXCEPT !.run = p]
  <2>1. /\ a \in Entries /\ a.run = p /\ a.manifest = NoManifest
        /\ b \in Entries /\ b.run = p /\ b.manifest = NoManifest
    BY Constants DEF Empty, Entries
  <2>2. CASE evidence[d].run # NoProc
    <3>1. Return(p, g, "error") /\ evidence' = evidence /\ Bounded
      BY <1>2, <2>2 DEF CaptureSnapshot, Bounded
    <3>2. QED
      BY <2>1, <3>1
  <2>3. CASE evidence[d].run = NoProc
    <3>1. \/ evidence' = [evidence EXCEPT ![d] = a] /\ Return(p, g, "captured") /\ Bounded
          \/ evidence' = [evidence EXCEPT ![d] = b] /\ Return(p, g, "error") /\ Bounded
      BY <1>2, <2>3 DEF CaptureSnapshot, Bounded
    <3> HIDE DEF a, b
    <3>2. QED
      BY <2>1, <2>3, <3>1
  <2>4. QED
    BY <2>2, <2>3
<1> DEFINE h == [g EXCEPT !.result = res]
<1>5. /\ h \in Jobs /\ h.manifest = g.manifest /\ h.dir = g.dir /\ h.result = res
      /\ res \notin Outcomes
  BY DEF Jobs, Results, Outcomes
<1>6. Goto(p, "ended", h)
  BY <1>4 DEF Return
<1> HIDE DEF h
<1>7. Claim(p, "ended", h, work[p], right[p], evidence', frozen', faults')
  BY <1>1, <1>5 DEF Claim, Working, Running, Ending
<1>8. faults' \in Nat /\ (faults' = 0 => faults = 0)
  BY <1>4, BoundedFaults
<1>9. Entry(p, "ended", work[p], right[p], e)
  BY <1>4, Constants DEF Entry, Earned, NoManifest, Blank
<1>10. /\ DOMAIN evidence' = Dirs /\ evidence' = [x \in Dirs |-> evidence'[x]]
       /\ \A x \in Dirs : \/ evidence'[x] = evidence[x]
                          \/ /\ x = h.dir /\ "ended" # "capture"
                             /\ evidence[x].run \in {p, NoProc}
                             /\ Entry(p, "ended", work[p], right[p], evidence'[x])
  BY <1>3, <1>4, <1>5, <1>9
<1>11. /\ Own(p, "ended", h, work[p], right[p]) /\ "ended" \in Labels \ {"idle"}
       /\ frozen' \subseteq Procs /\ frozen' \ {p} = frozen \ {p}
  BY <1>1, <1>3, <1>6, SameOwn DEF Labels
<1>12. /\ pc[p] # "ended" /\ pc[p] # "report"
       /\ pc[p] \notin {"idle", "capture"} => h.dir = job[p].dir /\ "ended" # "capture"
       /\ Distinct(h.manifest.commands)
       /\ work[p] \in Works /\ work[p].state <= Len(Journey)
       /\ (work[p].source => work[p].there) /\ right[p] \in SUBSET Stages
  BY <1>1, <1>2, <1>3, <1>5
<1>13. QED
  BY <1>5, <1>7, <1>8, <1>10, <1>11, <1>12, Steps

\* A cleanup takes from a run nothing that its claims need.
LEMMA CleanupKeeps ==
    ASSUME IInv, NEW p \in Procs, Cleanup(p)
    PROVE  IInv'
<1>1. /\ work' = [work EXCEPT ![p] = NoWork] /\ work[p].there
      /\ UNCHANGED <<evidence, frozen, pc, job, right, faults>>
  BY DEF Cleanup
<1>2. work'[p] = NoWork /\ \A q \in Procs \ {p} : work'[q] = work[q]
  BY <1>1 DEF IInv, Types
<1>3. ~NoWork.there /\ ~NoWork.source /\ NoWork.state = 0 /\ NoWork \in Works
  BY Constants DEF NoWork
<1>4. Types'
  BY <1>1, <1>2, <1>3, JourneyFacts DEF IInv, Types
<1>5. \A d \in Dirs : Owned(d, evidence[d])'
  BY <1>1 DEF IInv, Owned
<1>6. PassedIsEarned'
  <2>1. ASSUME NEW d \in Dirs
        PROVE  Earned(evidence[d], work[evidence[d].run], right[evidence[d].run])'
    <3>1. Earned(evidence[d], work[evidence[d].run], right[evidence[d].run])
      BY EarnedMeans DEF IInv
    <3>2. evidence[d].manifest.outcome = "passed" => evidence[d].run \in Procs
      BY DEF IInv, Owned
    <3>3. evidence[d].run \in Procs => ~work'[evidence[d].run].there \/
                                       work'[evidence[d].run] = work[evidence[d].run]
      BY <1>2, <1>3
    <3>4. QED
      BY <1>1, <3>1, <3>2, <3>3 DEF Earned
  <2>2. QED
    BY <2>1 DEF PassedIsEarned, Earned, AllPassed
<1>7. ASSUME NEW q \in Procs
      PROVE  Claim(q, pc[q], job[q], work[q], right[q], evidence, frozen, faults)'
  <2>1. Claim(q, pc[q], job[q], work[q], right[q], evidence, frozen, faults)
    BY DEF IInv
  <2>2. CASE q # p
    BY <1>1, <1>2, <2>1, <2>2
  <2>3. CASE q = p
    <3> DEFINE label == pc[p]  h == job[p]  w == work[p]  r == right[p]
    <3>1. label # "idle" /\ label \notin {"open", "prepare"}
      BY <1>1, <1>3, <2>1, <2>3 DEF Claim, Fresh
    <3>2. label \in Running => OnTheWay(label, h, NoWork, r)
      <4>1. h.stage \in 1..11
        BY Here, JourneyFacts DEF Jobs
      <4>2. label \in Running => OnTheWay(label, h, w, r)
        BY <2>1, <2>3 DEF Claim
      <4>3. QED
        BY <1>3, <4>1, <4>2 DEF OnTheWay
    <3>3. label \in Ending => Concluded(label, h, NoWork, r, faults)
      <4>1. label \in Ending => Concluded(label, h, w, r, faults)
        BY <2>1, <2>3 DEF Claim
      <4>2. QED
        BY <1>3, <4>1 DEF Concluded
    <3>4. Finished(p, h, w, evidence, faults) => Finished(p, h, NoWork, evidence, faults)
      BY <1>3 DEF Finished
    <3>5. Claim(p, label, h, NoWork, r, evidence, frozen, faults)
      BY <2>1, <2>3, <3>1, <3>2, <3>3, <3>4 DEF Claim
    <3>6. QED
      BY <1>1, <1>2, <2>3, <3>5
  <2>4. QED
    BY <2>2, <2>3
<1>8. QED
  BY <1>4, <1>5, <1>6, <1>7 DEF IInv

\* Kill: a killed process is about to write nothing.
LEMMA KillKeeps ==
    ASSUME IInv, NEW p \in Procs, Kill(p)
    PROVE  IInv'
<1>1. /\ pc[p] \notin {"idle", "ended"} /\ Fault /\ Return(p, job[p], "killed")
      /\ UNCHANGED <<files, right>>
  BY DEF Kill
<1>2. QED
  BY <1>1, SameWork, Ends DEF files, Bounded

\* IInv holds at the start.
LEMMA InitHolds == Init => IInv
<1> SUFFICES ASSUME Init PROVE IInv
  OBVIOUS
<1>1. Types
  <2>1. NoJob \in Jobs /\ NoWork \in Works /\ Empty \in Entries
    BY Constants
  <2>2. /\ Distinct(NoJob.manifest.commands) /\ Distinct(Empty.manifest.commands)
        /\ NoWork.state = 0 /\ ~NoWork.source
    BY Constants DEF NoJob, Empty, NoWork
  <2>3. QED
    BY <2>1, <2>2, JourneyFacts DEF Init, Types
<1>2. /\ Empty.run = NoProc /\ ~Empty.manifest.finished /\ Empty.manifest.outcome # "passed"
  BY DEF Empty, NoManifest, Blank
<1>3. \A d \in Dirs : Owned(d, evidence[d])
  BY <1>2, VerificationAssumption DEF Init, Owned
<1>4. PassedIsEarned
  BY <1>2 DEF Init, PassedIsEarned
<1>5. ASSUME NEW p \in Procs
      PROVE  Claim(p, pc[p], job[p], work[p], right[p], evidence, frozen, faults)
  BY DEF Init, Claim, Working, Running, Ending
<1>6. QED
  BY <1>1, <1>3, <1>4, <1>5 DEF IInv

\* IInv is inductive.
LEMMA NextKeeps == IInv /\ [Next]_vars => IInv'
<1> SUFFICES ASSUME IInv, [Next]_vars PROVE IInv'
  OBVIOUS
<1>1. ASSUME NEW p \in Procs, Smoke(p) PROVE IInv'
  BY <1>1, CreateEvidenceKeeps, OpenManifestKeeps, PrepareWorkKeeps, RunCommandKeeps,
     RecordCommandKeeps, JudgeKeeps, SealEvidenceKeeps, DryCleanupKeeps, CheckDryCleanupKeeps,
     RealCleanupKeeps, CheckCleanupKeeps, FinishManifestKeeps, WriteReportKeeps DEF Smoke
<1>2. ASSUME NEW p \in Procs, Snapshot(p) PROVE IInv'
  BY <1>2, FreezeConfigurationKeeps, CaptureSnapshotKeeps DEF Snapshot
<1>3. CASE Next
  BY <1>1, <1>2, <1>3, CleanupKeeps, KillKeeps DEF Next
<1>4. CASE UNCHANGED vars
  <2>1. UNCHANGED <<work, evidence, frozen, pc, job, right, faults>>
    BY <1>4 DEF vars, files, bounds
  <2>2. Types' /\ \A d \in Dirs : Owned(d, evidence[d])'
    BY <2>1 DEF IInv, Types, Owned
  <2>3. PassedIsEarned'
    BY <2>1 DEF IInv, PassedIsEarned
  <2>4. QED
    BY <2>1, <2>2, <2>3 DEF IInv
<1>5. QED
  BY <1>3, <1>4

\* IInv holds always.
LEMMA Invariant == Spec => []IInv
BY InitHolds, NextKeeps, PTL DEF Spec

-----------------------------------------------------------------------------
(* Theorems *)

\* A record of the right shape whose commands are distinct is a manifest.
LEMMA ManifestTypes ==
    ASSUME NEW m \in Manifests, Distinct(m.commands)
    PROVE  Manifest(m)
<1>1. DOMAIN m = DOMAIN Blank
  BY DEF Manifests, Blank
<1>2. /\ m.commands \in Seq(Stages \cup CleanupChecks) /\ m.checks \in SUBSET Checks
      /\ {m.candidate, m.dry, m.removed, m.finished} \subseteq BOOLEAN
      /\ m.outcome \in Outcomes \cup {"none"}
  BY DEF Manifests, Commands
<1>3. \A i, k \in DOMAIN m.commands : m.commands[i] = m.commands[k] => i = k
  BY <1>2 DEF Distinct
<1>4. QED
  BY <1>1, <1>2, <1>3 DEF Manifest

\* The types, with the bookkeeping of a smoke: no command is on record twice,
\* the journey stays within its stages, and a work root without its directory
\* has no source and no more changes than commands.
THEOREM TypeCorrect == Spec => []TypeOK
<1>1. IInv => TypeOK
  <2> SUFFICES ASSUME IInv PROVE TypeOK
    OBVIOUS
  <2>1. work \in [Procs -> [there : BOOLEAN, source : BOOLEAN, state : 0..Len(Journey)]]
    <3>1. ASSUME NEW p \in Procs
          PROVE  work[p] \in [there : BOOLEAN, source : BOOLEAN, state : 0..Len(Journey)]
      <4>1. work[p] \in Works /\ work[p].state <= 11 /\ Len(Journey) = 11
        BY JourneyFacts, Here
      <4>2. QED
        BY <4>1 DEF Works
    <3>2. work \in [Procs -> Works]
      BY DEF IInv, Types
    <3>3. QED
      BY <3>1, <3>2
  <2>2. \A d \in Dirs : /\ evidence[d].run \in Procs \cup {NoProc}
                        /\ Manifest(evidence[d].manifest)
                        /\ evidence[d].report \in Outcomes \cup {"none", "inventory"}
    BY ManifestTypes DEF IInv, Types, Entries
  <2>3. \A p \in Procs : /\ job[p].stage \in DOMAIN Journey
                         /\ Manifest(job[p].manifest)
                         /\ job[p].checks \subseteq Checks
                         /\ job[p].outcome \in Outcomes
                         /\ job[p].result \in Outcomes \cup {"none", "captured", "error", "killed"}
    BY ManifestTypes DEF IInv, Types, Jobs, Results
  <2>4. QED
    BY <2>1, <2>2, <2>3 DEF IInv, Types, TypeOK
<1>2. QED
  BY <1>1, Invariant, PTL

\* A manifest says passed only of a candidate whose every command did what it
\* should, with all of them and their checks on record and the work root gone,
\* whatever misbehaves, fails, is killed or is cleaned up in between.
THEOREM PassedManifestIsEarned == Spec => []PassedIsEarned
<1>1. IInv => PassedIsEarned
  BY DEF IInv
<1>2. QED
  BY <1>1, Invariant, PTL

\* A smoke that answers has left on disk the outcome that it answers, and its
\* work root is gone unless the manifest shows that it is not; a snapshot that
\* was not killed left no copy of the configuration.
THEOREM EndsClean == Spec => []NothingLeftBehind
<1>1. IInv => NothingLeftBehind
  <2> SUFFICES ASSUME IInv, NEW p \in Procs, pc[p] = "ended"
               PROVE  /\ job[p].result \in Outcomes =>
                           /\ evidence[job[p].dir].run = p
                           /\ evidence[job[p].dir].manifest.outcome = job[p].result
                           /\ evidence[job[p].dir].report = job[p].result
                           /\ work[p].there =>
                                 /\ ~evidence[job[p].dir].manifest.removed
                                 /\ faults = 0 =>
                                       NotCleaned(evidence[job[p].dir].manifest.checks)
                      /\ job[p].result # "killed" => p \notin frozen
    BY DEF NothingLeftBehind, At, NotCleaned
  <2>1. Claim(p, pc[p], job[p], work[p], right[p], evidence, frozen, faults)
    BY Here
  <2>2. QED
    BY <2>1 DEF Claim, Finished
<1>2. QED
  BY <1>1, Invariant, PTL

\* Once a manifest is finished nothing changes it: neither its own smoke nor
\* another command that was given the same directory.
THEOREM FinishedStays == Spec => OutcomeIsFinal
<1>1. ASSUME IInv, [Next]_vars, NEW d \in Dirs, evidence[d].manifest.finished
      PROVE  evidence'[d].manifest = evidence[d].manifest
  <2>1. /\ evidence[d].run \in Procs /\ evidence[d].run # NoProc
        /\ pc[evidence[d].run] \in {"report", "ended"}
        /\ evidence \in [Dirs -> Entries]
    BY <1>1, VerificationAssumption DEF IInv, Owned, Types
  <2>2. \A p \in Procs : pc[p] \in Working => evidence[job[p].dir].run = p
    BY <1>1, Here DEF Claim
  <2>3. ASSUME NEW p \in Procs, NEW m, pc[p] \in Working \ {"report"}, WriteManifest(p, m)
        PROVE  evidence'[d] = evidence[d]
    <3>1. job[p].dir # d
      BY <2>1, <2>2, <2>3 DEF Working, Running, Ending
    <3>2. QED
      BY <2>1, <2>3, <3>1 DEF WriteManifest
  <2>4. {"open"} \cup Running \cup Ending \subseteq Working \ {"report"}
    BY DEF Working, Running, Ending
  <2>5. ASSUME NEW p \in Procs, Smoke(p)
        PROVE  evidence'[d].manifest = evidence[d].manifest
    <3>1. ASSUME NEW x \in Dirs, CreateEvidence(p, x)
          PROVE  evidence'[d].manifest = evidence[d].manifest
      BY <2>1, <3>1 DEF CreateEvidence
    <3>2. CASE WriteReport(p)
      BY <2>1, <3>2 DEF WriteReport, Entries
    <3>3. CASE PrepareWork(p) \/ RunCommand(p) \/ Judge(p) \/ DryCleanup(p) \/ RealCleanup(p)
      BY <3>3 DEF PrepareWork, RunCommand, Judge, DryCleanup, RealCleanup, files
    <3>4. CASE OpenManifest(p)
      BY <2>3, <2>4, <3>4 DEF OpenManifest, At
    <3>5. CASE RecordCommand(p)
      BY <2>3, <2>4, <3>5 DEF RecordCommand, Record, NotRecorded, At, Running
    <3>6. CASE SealEvidence(p)
      BY <2>3, <2>4, <3>6 DEF SealEvidence, At, Ending
    <3>7. CASE CheckDryCleanup(p)
      BY <2>3, <2>4, <3>7 DEF CheckDryCleanup, Record, NotRecorded, At, Ending
    <3>8. CASE CheckCleanup(p)
      BY <2>3, <2>4, <3>8 DEF CheckCleanup, Record, NotRecorded, At, Ending
    <3>9. CASE FinishManifest(p)
      BY <2>3, <2>4, <3>9 DEF FinishManifest, At, Ending
    <3>10. QED
      BY <2>5, <3>1, <3>2, <3>3, <3>4, <3>5, <3>6, <3>7, <3>8, <3>9 DEF Smoke
  <2>6. ASSUME NEW p \in Procs, Snapshot(p)
        PROVE  evidence'[d].manifest = evidence[d].manifest
    <3>1. CASE CaptureSnapshot(p)
      BY <2>1, <3>1 DEF CaptureSnapshot
    <3>2. QED
      BY <2>6, <3>1 DEF Snapshot, FreezeConfiguration
  <2>7. CASE Next
    BY <2>5, <2>6, <2>7 DEF Next, Cleanup, Kill, files
  <2>8. CASE UNCHANGED vars
    BY <2>8 DEF vars, files
  <2>9. QED
    BY <1>1, <2>7, <2>8
<1>2. IInv /\ [Next]_vars =>
        [\A d \in Dirs : evidence[d].manifest.finished =>
                            evidence'[d].manifest = evidence[d].manifest]_vars
  BY <1>1
<1>3. QED
  BY <1>2, Invariant, PTL DEF Spec, OutcomeIsFinal
=============================================================================
