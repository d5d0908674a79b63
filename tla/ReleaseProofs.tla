---------------------------- MODULE ReleaseProofs ----------------------------
(***************************************************************************)
(* For any number of processes, releases, Skills, commands, failing steps  *)
(* and kills: the types, that `current` resolves, that a migration is made *)
(* once, and that a command which met no other did what it answers.        *)
(***************************************************************************)
EXTENDS Release, SequenceTheorems, TLAPS

-----------------------------------------------------------------------------
(* The inductive invariant of commands that meet                           *)

Locks == {"config", "current"}

Commands == {"none", "update", "auto", "install", "activate", "npm"}

Results == {"none", "done", "kept", "failed", "killed"}

\* The labels that only an installation reaches, and those at which it, or a
\* switch of `current`, holds the lock of `current`.
Installing ==
    {"config", "exclude", "preflight", "create", "retire", "activate", "rollback", "putback"}

Exclusive == {"move", "preflight", "create", "retire", "activate", "rollback", "putback"}

Placing == {"aside", "put"}

\* The labels before a command knows its release, those before its tree is put
\* in place, and those of the links and of the selection.
Early == {"idle", "inspect", "probe"}

Fetching == {"inspect", "auto", "probe", "compare", "download", "npm"}

Selecting == {"ensure", "sync", "check", "switch", "move", "select", "relink", "confirm"}

FileTypes ==
    /\ tree \in [Versions -> Contents \cup {Absent}]
    /\ current \in Layouts \cup {NoLayout}
    /\ retained \in Seq(Layouts)
    /\ links \in SUBSET (Exposed \cup Retired)

CountTypes ==
    /\ published \in Versions
    /\ commands \in 0..MaxCommands /\ faults \in 0..MaxFaults
    /\ torn \in SUBSET Versions /\ alone \in Procs \cup {NoProc}

ProcessTypes ==
    /\ lock \in [Locks -> Procs \cup {NoProc}]
    /\ pc \in [Procs -> Labels] /\ job \in [Procs -> Jobs]

Holds(p) ==
    pc[p] \in Exclusive \/ (pc[p] \in Placing /\ job[p].command = "install")

\* A release whose tree is there, or is being replaced, or was when a process
\* was killed.
Covered(v) == tree[v] # Absent \/ v \in torn \cup UNION {Away(q) : q \in Procs}

\* An installation that puts a tree where there was none, and would remove it.
Fresh(p) ==
    /\ job[p].command = "install" /\ job[p].backup = Absent
    /\ \/ pc[p] \in {"put", "rollback", "putback"}
       \/ pc[p] \in {"create", "retire", "activate"} /\ job[p].placed

\* What a process relies on while others take their steps.
LocksHeld(p) ==
    /\ pc[p] = "idle" => \A l \in Locks : lock[l] # p
    /\ Holds(p) => lock["current"] = p

Knows(p) ==
    /\ pc[p] # "idle" => job[p].command # "none"
    /\ pc[p] \in Installing => job[p].command = "install"
    /\ pc[p] \in Fetching \cup Selecting \cup {"restore"} => job[p].command # "install"
    /\ pc[p] \in Fetching \cup Placing => job[p].command \notin {"none", "activate"}
    /\ job[p].command \notin {"none", "activate"} => job[p].content # Absent
    /\ pc[p] \notin Early => job[p].version \in Versions
    /\ pc[p] = "restore" => job[p].backup # Absent
    /\ pc[p] \in {"config", "exclude", "preflight"} => ~job[p].placed

Relies(p) ==
    /\ pc[p] = "move" => (job[p].managed <=> current.kind = "dir")
    /\ pc[p] \in {"move", "create", "retire", "activate"} => Covered(job[p].version)
    /\ Fresh(p) /\ current.kind # "missing" /\ current.version = job[p].version =>
          job[p].version \in torn

Claim(p) == LocksHeld(p) /\ Knows(p) /\ Relies(p)

Resolves == current.kind # "missing" => Covered(current.version)

Types == FileTypes /\ CountTypes /\ ProcessTypes

IInv ==
    /\ Types
    /\ Resolves
    /\ current.kind # "link" => retained = << >>
    /\ \A p \in Procs : Claim(p)

-----------------------------------------------------------------------------
(* Steps that leave the trees and `current` alone                          *)

\* The next values of the variables that no proof but that of the types is about.
Counted ==
    /\ links' \in SUBSET (Exposed \cup Retired)
    /\ published' \in Versions
    /\ commands' \in 0..MaxCommands /\ faults' \in 0..MaxFaults
    /\ alone' \in Procs \cup {NoProc}

Quiet == UNCHANGED <<tree, current, retained, torn>>

\* What a step of p does to what the others rely on.
LockStep(p) ==
    \A l \in Locks : lock'[l] # lock[l] => lock[l] \in {p, NoProc} /\ lock'[l] \in {p, NoProc}

Guarantee(p) ==
    /\ \A q \in Procs \ {p} : pc'[q] = pc[q] /\ job'[q] = job[q]
    /\ LockStep(p)
    /\ torn \subseteq torn'
    /\ \/ current' = current
       \/ lock["current"] = p
       \/ /\ current.kind # "dir" /\ current'.kind # "dir"
          /\ lock["current"] # NoProc => current'.version \in torn'
    /\ \A v \in Versions : Covered(v) => Covered(v)' \/ lock["current"] = p

\* CurrentResolves, said of the releases that are covered.
LEMMA ResolvesIsEnough == CurrentResolves <=> Resolves
BY DEF CurrentResolves, Resolves, Covered

\* The result of Goto, process by process.
LEMMA GotoSets ==
    ASSUME ProcessTypes, NEW p \in Procs, NEW label, NEW work, Goto(p, label, work)
    PROVE  /\ pc'[p] = label /\ job'[p] = work
           /\ \A q \in Procs \ {p} : pc'[q] = pc[q] /\ job'[q] = job[q]
           /\ label \in Labels /\ work \in Jobs =>
                 pc' \in [Procs -> Labels] /\ job' \in [Procs -> Jobs]
BY DEF ProcessTypes, Goto

\* What another process relies on survives the step.
LEMMA OthersRely ==
    ASSUME IInv, NEW p \in Procs, Guarantee(p), NEW q \in Procs, q # p
    PROVE  Claim(q)'
<1>1. pc'[q] = pc[q] /\ job'[q] = job[q] BY DEF Guarantee
<1>2. Claim(q) /\ p # NoProc /\ q # NoProc BY ReleaseAssumption DEF IInv
<1>3. LocksHeld(q)'
  BY <1>1, <1>2 DEF Claim, LocksHeld, Guarantee, LockStep, Locks, Holds
<1>4. Knows(q)' BY <1>1, <1>2 DEF Claim, Knows
<1>5. Holds(q) => lock["current"] # p
  BY <1>2 DEF Claim, LocksHeld
<1>6. ASSUME pc[q] = "move" PROVE job[q].managed <=> current'.kind = "dir"
  <2>1. Holds(q) BY <1>6 DEF Holds, Exclusive
  <2> QED BY <1>2, <1>5, <1>6, <2>1 DEF Claim, Relies, Guarantee
<1>7. ASSUME pc[q] \in {"move", "create", "retire", "activate"}
      PROVE  Covered(job[q].version)'
  <2>1. Holds(q) BY <1>7 DEF Holds, Exclusive
  <2>2. job[q].version \in Versions BY <1>2, <1>7 DEF Claim, Knows, Early
  <2>3. Covered(job[q].version) BY <1>2, <1>7 DEF Claim, Relies
  <2>4. \A v \in Versions : Covered(v) => Covered(v)' BY <1>5, <2>1 DEF Guarantee
  <2>5. \A v \in Versions : v = job[q].version => (Covered(v)' <=> Covered(job[q].version)')
    BY <1>1 DEF Covered
  <2> QED BY <2>2, <2>3, <2>4, <2>5
<1>8. ASSUME Fresh(q), current'.kind # "missing", current'.version = job[q].version
      PROVE  job[q].version \in torn'
  <2>1. Holds(q) BY <1>8 DEF Fresh, Holds, Exclusive, Placing
  <2>2. lock["current"] = q BY <1>2, <2>1 DEF Claim, LocksHeld
  <2> QED BY <1>2, <1>5, <1>8, <2>1, <2>2 DEF Claim, Relies, Guarantee
<1>9. Relies(q)'
  <2>1. Fresh(q)' <=> Fresh(q) BY <1>1 DEF Fresh
  <2>2. Covered(job[q].version)' <=> Covered(job[q].version)' OBVIOUS
  <2> QED BY <1>1, <1>6, <1>7, <1>8, <2>1 DEF Relies
<1> QED BY <1>3, <1>4, <1>9 DEF Claim

\* The invariant after a step of p, from what p says of itself.
LEMMA Holding ==
    ASSUME IInv, NEW p \in Procs, Guarantee(p), Types', Resolves', Claim(p)',
           (current.kind # "link" => retained = << >>)'
    PROVE  IInv'
BY OthersRely DEF IInv

\* A release stays covered unless the one process that moved its tree away
\* forgets it.
LEMMA StaysCovered ==
    ASSUME ProcessTypes, NEW p \in Procs, NEW v,
           \A q \in Procs \ {p} : pc'[q] = pc[q] /\ job'[q] = job[q],
           torn \subseteq torn',
           tree[v] # Absent => tree'[v] # Absent \/ v \in Away(p)',
           v \in Away(p) => tree'[v] # Absent \/ v \in torn' \/ v \in Away(p)',
           Covered(v)
    PROVE  tree'[v] # Absent \/ v \in torn' \cup UNION {Away(q)' : q \in Procs}
<1>1. ASSUME NEW q \in Procs, v \in Away(q), q # p PROVE v \in Away(q)'
  BY <1>1 DEF Away, At
<1> QED BY <1>1 DEF Covered

\* The same of a step that touches neither the trees nor `current`.
LEMMA QuietCovers ==
    ASSUME IInv, NEW p \in Procs, NEW label, NEW work, Goto(p, label, work), Quiet,
           Away(p) \subseteq Away(p)' \cup torn
    PROVE  /\ \A v : Covered(v) => Covered(v)'
           /\ Resolves'
           /\ (current.kind # "link" => retained = << >>)'
<1>1. ProcessTypes BY DEF IInv, Types
<1>2. \A q \in Procs \ {p} : pc'[q] = pc[q] /\ job'[q] = job[q] BY <1>1, GotoSets
<1>3. ASSUME NEW v, Covered(v) PROVE Covered(v)'
  <2>1. tree'[v] # Absent \/ v \in torn' \cup UNION {Away(q)' : q \in Procs}
    BY <1>1, <1>2, <1>3, StaysCovered DEF Quiet
  <2> QED BY <2>1 DEF Covered
<1>4. Covered(current.version) => Covered(current.version)' BY <1>3 DEF Covered, Quiet
<1> QED BY <1>3, <1>4 DEF IInv, Resolves, Quiet

\* Such a step keeps the invariant, if p may say of itself what it comes to say.
LEMMA QuietKeeps ==
    ASSUME IInv, NEW p \in Procs, NEW label \in Labels, NEW work \in Jobs,
           Goto(p, label, work), Quiet, Counted, LockStep(p),
           lock' \in [Locks -> Procs \cup {NoProc}],
           Away(p) \subseteq Away(p)' \cup torn,
           Claim(p)'
    PROVE  IInv'
<1>1. Types /\ ProcessTypes BY DEF IInv, Types
<1>2. Types' BY <1>1, GotoSets DEF Types, FileTypes, CountTypes, ProcessTypes, Quiet, Counted
<1>3. /\ \A v : Covered(v) => Covered(v)'
      /\ Resolves'
      /\ (current.kind # "link" => retained = << >>)'
  BY QuietCovers
<1>4. Guarantee(p) BY <1>1, <1>3, GotoSets DEF Guarantee, Quiet
<1> QED BY <1>2, <1>3, <1>4, Holding

-----------------------------------------------------------------------------
(* The ways a step ends                                                    *)

\* The result of a command is a job, and it has no lock and no release to give
\* back.
LEMMA Returned ==
    ASSUME IInv, NEW p \in Procs, NEW result \in Results, Return(p, result)
    PROVE  /\ Goto(p, "idle", job'[p]) /\ "idle" \in Labels /\ job'[p] \in Jobs
           /\ lock' \in [Locks -> Procs \cup {NoProc}] /\ LockStep(p)
           /\ LocksHeld(p)' /\ Knows(p)' /\ Relies(p)' /\ Claim(p)'
           /\ pc'[p] = "idle"
<1> DEFINE work == [NoJob EXCEPT !.command = job[p].command, !.version = job[p].version,
                                 !.content = job[p].content, !.result = result]
<1>1. ProcessTypes /\ p # NoProc /\ Knows(p)
  BY ReleaseAssumption DEF IInv, Types, Claim
<1>2. Goto(p, "idle", work) /\ lock' = Released(p, DOMAIN lock) BY DEF Return
<1>3. job[p] \in Jobs BY <1>1 DEF ProcessTypes
<1>4. work \in Jobs
  BY <1>3 DEF Jobs, NoJob, Results
<1>5. /\ pc'[p] = "idle" /\ job'[p] = work BY <1>1, <1>2, GotoSets
<1>6. "idle" \in Labels BY DEF Labels
<1>7. lock' \in [Locks -> Procs \cup {NoProc}] /\ LockStep(p)
  BY <1>1, <1>2 DEF ProcessTypes, Released, LockStep
<1>8. \A l \in Locks : lock'[l] # p
  BY <1>1, <1>2 DEF ProcessTypes, Released
<1>9. /\ work.command = job[p].command /\ work.version = job[p].version
      /\ work.content = job[p].content /\ ~work.placed
  BY <1>3 DEF Jobs, NoJob
<1>10. LocksHeld(p)' BY <1>5, <1>8 DEF LocksHeld, Holds, Exclusive, Placing
<1>11. Knows(p)'
  BY <1>1, <1>5, <1>9 DEF Knows, Installing, Selecting, Fetching, Placing, Early
<1>12. Relies(p)' BY <1>5 DEF Relies, Fresh
<1> QED BY <1>2, <1>4, <1>5, <1>6, <1>7, <1>10, <1>11, <1>12 DEF Claim

\* A command that returns and leaves the trees and `current` alone.
LEMMA ReturnKeeps ==
    ASSUME IInv, NEW p \in Procs, NEW result \in Results, Return(p, result), Quiet, Counted,
           Away(p) \subseteq torn
    PROVE  IInv'
<1>1. /\ Goto(p, "idle", job'[p]) /\ "idle" \in Labels /\ job'[p] \in Jobs
      /\ lock' \in [Locks -> Procs \cup {NoProc}] /\ LockStep(p) /\ Claim(p)'
  BY Returned
<1>2. Away(p) \subseteq Away(p)' \cup torn OBVIOUS
<1> HIDE DEF Return
<1> QED BY <1>1, <1>2, QuietKeeps

\* A command that goes on at another label without a lock changing hands.
LEMMA GoesOn ==
    ASSUME IInv, NEW p \in Procs, NEW label \in Labels, NEW work \in Jobs,
           Continue(p, label, work), Quiet, Counted,
           Away(p) \subseteq Away(p)' \cup torn,
           Claim(p)'
    PROVE  IInv'
<1>1. Goto(p, label, work) /\ lock' = lock BY DEF Continue
<1>2. lock' \in [Locks -> Procs \cup {NoProc}] /\ LockStep(p)
  BY <1>1 DEF IInv, Types, ProcessTypes, LockStep
<1> QED BY <1>1, <1>2, QuietKeeps

\* The steps of an update that fail after its tree is in place.
LEMMA FailKeeps ==
    ASSUME IInv, NEW p \in Procs, pc[p] \in Selecting, Fail(p), Quiet,
           published' \in Versions, commands' \in 0..MaxCommands, faults' \in 0..MaxFaults,
           alone' \in Procs \cup {NoProc}
    PROVE  IInv'
<1>1. Claim(p) /\ ProcessTypes /\ FileTypes /\ p # NoProc
  BY ReleaseAssumption DEF IInv, Types
<1>2. Counted BY <1>1 DEF Fail, Counted, FileTypes
<1>3. Away(p) = {} BY DEF Away, At, Selecting
<1>4. CASE job[p].backup = Absent
  <2>1. Return(p, "failed") BY <1>4 DEF Fail
  <2>2. "failed" \in Results BY DEF Results
  <2> QED BY <1>2, <1>3, <2>1, <2>2, ReturnKeeps
<1>5. CASE job[p].backup # Absent
  <2>1. Goto(p, "restore", job[p]) /\ lock' = Released(p, {"current"}) BY <1>5 DEF Fail
  <2>2. "restore" \in Labels /\ job[p] \in Jobs BY <1>1 DEF Labels, ProcessTypes
  <2>3. pc'[p] = "restore" /\ job'[p] = job[p] BY <1>1, <2>1, GotoSets
  <2>4. lock' \in [Locks -> Procs \cup {NoProc}] /\ LockStep(p)
    BY <1>1, <2>1 DEF ProcessTypes, Released, LockStep
  <2>5. LocksHeld(p)' BY <2>3 DEF LocksHeld, Holds, Exclusive, Placing
  <2>6. Knows(p)'
    BY <1>1, <1>5, <2>3 DEF Claim, Knows, Installing, Selecting, Fetching, Placing, Early
  <2>7. Relies(p)' BY <2>3 DEF Relies, Fresh
  <2>8. Claim(p)' BY <2>5, <2>6, <2>7 DEF Claim
  <2>9. Away(p) \subseteq Away(p)' \cup torn BY <1>3
  <2> QED BY <1>2, <2>1, <2>2, <2>4, <2>8, <2>9, QuietKeeps
<1> QED BY <1>4, <1>5

\* The steps of an installation that fail after something was changed.
LEMMA UndoKeeps ==
    ASSUME IInv, NEW p \in Procs, pc[p] \in {"create", "retire", "activate"}, Undo(p), Quiet,
           published' \in Versions, commands' \in 0..MaxCommands, faults' \in 0..MaxFaults,
           alone' \in Procs \cup {NoProc}
    PROVE  IInv'
<1>1. Claim(p) /\ ProcessTypes /\ FileTypes BY DEF IInv, Types
<1>2. job[p] \in Jobs BY <1>1 DEF ProcessTypes
<1>3. Counted BY <1>1, <1>2 DEF Undo, Counted, FileTypes, Jobs
<1>4. Away(p) = {} BY DEF Away, At
<1>5. CASE ~job[p].placed
  <2>1. Return(p, "failed") BY <1>5 DEF Undo
  <2>2. "failed" \in Results BY DEF Results
  <2> QED BY <1>3, <1>4, <2>1, <2>2, ReturnKeeps
<1>6. CASE job[p].placed
  <2>1. Continue(p, "rollback", job[p]) BY <1>6 DEF Undo
  <2>2. "rollback" \in Labels BY DEF Labels
  <2>3. pc'[p] = "rollback" /\ job'[p] = job[p] /\ lock' = lock
    BY <1>1, <2>1, GotoSets DEF Continue
  <2>4. LocksHeld(p)' BY <1>1, <2>3 DEF Claim, LocksHeld, Holds, Exclusive, Placing
  <2>5. Knows(p)'
    BY <1>1, <2>3 DEF Claim, Knows, Installing, Selecting, Fetching, Placing, Early
  <2>6. Relies(p)' BY <1>1, <1>6, <2>3 DEF Claim, Relies, Fresh, Quiet
  <2>7. Claim(p)' BY <2>4, <2>5, <2>6 DEF Claim
  <2>8. Away(p) \subseteq Away(p)' \cup torn BY <1>4
  <2> QED BY <1>2, <1>3, <2>1, <2>2, <2>7, <2>8, GoesOn
<1> QED BY <1>5, <1>6

\* At a label without a lock a process relies on nothing that changes.
LEMMA Modest ==
    ASSUME IInv, NEW p \in Procs, NEW label, NEW work, Goto(p, label, work),
           label \notin Exclusive \cup Placing \cup {"idle"}
    PROVE  /\ pc'[p] = label /\ job'[p] = work
           /\ Knows(p)' => Claim(p)'
<1>1. pc'[p] = label /\ job'[p] = work BY GotoSets DEF IInv, Types
<1>2. LocksHeld(p)' BY <1>1 DEF LocksHeld, Holds
<1>3. Relies(p)' BY <1>1 DEF Relies, Fresh, Exclusive, Placing
<1> QED BY <1>1, <1>2, <1>3 DEF Claim

\* A command that goes on at such a label.
LEMMA ModestKeeps ==
    ASSUME IInv, NEW p \in Procs, NEW label \in Labels, NEW work \in Jobs,
           Continue(p, label, work), label \notin Exclusive \cup Placing \cup {"idle"},
           Quiet, Counted, Away(p) = {}, Knows(p)'
    PROVE  IInv'
<1>1. Goto(p, label, work) BY DEF Continue
<1>2. Claim(p)' BY <1>1, Modest
<1> QED BY <1>2, GoesOn

\* What is counted is counted within its bounds.
LEMMA CountedStays ==
    ASSUME IInv, UNCHANGED others, links' \in SUBSET (Exposed \cup Retired),
           Fault \/ UNCHANGED faults
    PROVE  Counted
BY ReleaseAssumption DEF IInv, Types, CountTypes, Counted, others, seen, Fault

\* The invariant, of the process that takes a step.
LEMMA OfStep ==
    ASSUME IInv, NEW p \in Procs
    PROVE  /\ pc[p] \in Labels /\ job[p] \in Jobs
           /\ FileTypes /\ CountTypes /\ ProcessTypes
           /\ LocksHeld(p) /\ Knows(p) /\ Relies(p)
BY DEF IInv, Types, ProcessTypes, Claim

\* What a process works on has its type.
LEMMA JobTyped ==
    ASSUME IInv, NEW p \in Procs
    PROVE  job[p] \in Jobs
BY OfStep

-----------------------------------------------------------------------------
(* The steps                                                               *)

\* A command begins.
LEMMA BeginKeeps ==
    ASSUME IInv, NEW p \in Procs, NEW label \in Labels, NEW work \in Jobs,
           Begin(p, label, work), label \notin Exclusive \cup Placing \cup {"idle"},
           Knows(p)'
    PROVE  IInv'
<1>1. Counted
  BY ReleaseAssumption DEF IInv, Types, FileTypes, CountTypes, Counted, Begin, files
<1>2. Away(p) = {} BY DEF Begin, Away, At
<1>3. Quiet /\ Continue(p, label, work) BY DEF Begin, Quiet, files
<1> QED BY <1>1, <1>2, <1>3, ModestKeeps

\* Every command begins with the invariant.
LEMMA StartKeeps ==
    ASSUME IInv, NEW p \in Procs, Start(p)
    PROVE  IInv'
<1> USE OfStep
<1>1. CASE StartUpdate(p)
  <2> DEFINE work == [NoJob EXCEPT !.command = "update", !.content = "published"]
  <2>1. Begin(p, "inspect", work) BY <1>1 DEF StartUpdate
  <2>2. work \in Jobs BY DEF Jobs, NoJob, Contents
  <2>3. Goto(p, "inspect", work) BY <2>1 DEF Begin, Continue
  <2>4. work.command = "update" /\ work.content # Absent BY DEF NoJob, Absent
  <2>5. pc'[p] = "inspect" /\ job'[p] = work BY <2>3, GotoSets DEF IInv, Types
  <2> HIDE DEF work
  <2>6. Knows(p)'
    BY <2>4, <2>5 DEF Knows, Installing, Selecting, Fetching, Placing, Early
  <2> QED BY <2>1, <2>2, <2>6, BeginKeeps DEF Labels, Exclusive, Placing
<1>2. CASE StartAuto(p)
  <2> DEFINE work == [NoJob EXCEPT !.command = "auto", !.content = "published",
                                   !.version = current.version]
  <2>1. Begin(p, "auto", work) /\ current.version \in Versions
    BY <1>2 DEF StartAuto, FileTypes, Layouts, NoLayout
  <2>2. work \in Jobs BY <2>1 DEF Jobs, NoJob, Contents
  <2>3. Goto(p, "auto", work) BY <2>1 DEF Begin, Continue
  <2>4. work.command = "auto" /\ work.content # Absent /\ work.version = current.version
    BY DEF NoJob, Absent
  <2>5. pc'[p] = "auto" /\ job'[p] = work BY <2>3, GotoSets DEF IInv, Types
  <2> HIDE DEF work
  <2>6. Knows(p)'
    BY <2>1, <2>4, <2>5 DEF Knows, Installing, Selecting, Fetching, Placing, Early
  <2> QED BY <2>1, <2>2, <2>6, BeginKeeps DEF Labels, Exclusive, Placing
<1>3. ASSUME NEW v \in Versions, StartActivate(p, v) PROVE IInv'
  <2> DEFINE work == [NoJob EXCEPT !.command = "activate", !.version = v]
  <2>1. Begin(p, "check", work) BY <1>3 DEF StartActivate
  <2>2. work \in Jobs BY DEF Jobs, NoJob, Contents
  <2>3. Goto(p, "check", work) BY <2>1 DEF Begin, Continue
  <2>4. work.command = "activate" /\ work.version = v BY DEF NoJob
  <2>5. pc'[p] = "check" /\ job'[p] = work BY <2>3, GotoSets DEF IInv, Types
  <2> HIDE DEF work
  <2>6. Knows(p)'
    BY <2>4, <2>5 DEF Knows, Installing, Selecting, Fetching, Placing, Early
  <2> QED BY <2>1, <2>2, <2>6, BeginKeeps DEF Labels, Exclusive, Placing
<1>4. ASSUME NEW v \in Versions, StartNpm(p, v) PROVE IInv'
  <2> DEFINE work == [NoJob EXCEPT !.command = "npm", !.content = "published", !.version = v]
  <2>1. Begin(p, "npm", work) BY <1>4 DEF StartNpm
  <2>2. work \in Jobs BY DEF Jobs, NoJob, Contents
  <2>3. Goto(p, "npm", work) BY <2>1 DEF Begin, Continue
  <2>4. work.command = "npm" /\ work.content # Absent /\ work.version = v
    BY DEF NoJob, Absent
  <2>5. pc'[p] = "npm" /\ job'[p] = work BY <2>3, GotoSets DEF IInv, Types
  <2> HIDE DEF work
  <2>6. Knows(p)'
    BY <2>4, <2>5 DEF Knows, Installing, Selecting, Fetching, Placing, Early
  <2> QED BY <2>1, <2>2, <2>6, BeginKeeps DEF Labels, Exclusive, Placing
<1>5. ASSUME NEW v \in Versions, NEW replace \in BOOLEAN, StartInstall(p, v, replace)
      PROVE IInv'
  <2> DEFINE work == [NoJob EXCEPT !.command = "install", !.content = "native",
                                   !.version = v, !.replace = replace]
  <2>1. Begin(p, "config", work) BY <1>5 DEF StartInstall
  <2>2. work \in Jobs BY DEF Jobs, NoJob, Contents
  <2>3. Goto(p, "config", work) BY <2>1 DEF Begin, Continue
  <2>4. work.command = "install" /\ work.content # Absent /\ work.version = v
        /\ ~work.placed
    BY DEF NoJob, Absent
  <2>5. pc'[p] = "config" /\ job'[p] = work BY <2>3, GotoSets DEF IInv, Types
  <2> HIDE DEF work
  <2>6. Knows(p)'
    BY <2>4, <2>5 DEF Knows, Installing, Selecting, Fetching, Placing, Early
  <2> QED BY <2>1, <2>2, <2>6, BeginKeeps DEF Labels, Exclusive, Placing
<1> QED BY <1>1, <1>2, <1>3, <1>4, <1>5 DEF Start

\* The cheap probe of a refresh.
LEMMA AutoProbeKeeps ==
    ASSUME IInv, NEW p \in Procs, AutoProbe(p)
    PROVE  IInv'
<1>1. pc[p] = "auto" /\ Away(p) = {} BY DEF AutoProbe, At, Away
<1>2. Quiet /\ Counted
  BY OfStep, CountedStays DEF AutoProbe, Quiet, files, others, seen, FileTypes
<1>3. \/ \E result \in {"kept", "failed"} : Return(p, result)
      \/ Continue(p, "inspect", job[p])
  BY DEF AutoProbe
<1>4. CASE \E result \in {"kept", "failed"} : Return(p, result)
  BY <1>1, <1>2, <1>4, ReturnKeeps DEF Results
<1>5. CASE Continue(p, "inspect", job[p])
  <2>1. pc'[p] = "inspect" /\ job'[p] = job[p] BY <1>5, OfStep, GotoSets DEF Continue
  <2>2. Knows(p)'
    BY <1>1, <2>1, OfStep DEF Knows, Installing, Selecting, Fetching, Placing, Early
  <2> QED BY <1>1, <1>2, <1>5, <2>2, OfStep, ModestKeeps DEF Labels, Exclusive, Placing
<1> QED BY <1>3, <1>4, <1>5

\* The look at `current` with which an update begins.
LEMMA InspectCurrentKeeps ==
    ASSUME IInv, NEW p \in Procs, InspectCurrent(p)
    PROVE  IInv'
<1> DEFINE work == [job[p] EXCEPT !.managed = current.kind = "dir" /\ job[p].command = "update"]
<1>1. pc[p] = "inspect" /\ Away(p) = {} BY DEF InspectCurrent, At, Away
<1>2. Quiet /\ Counted
  BY OfStep, CountedStays DEF InspectCurrent, Quiet, files, others, seen, FileTypes
<1>3. Return(p, "failed") \/ Continue(p, "probe", work) BY DEF InspectCurrent
<1>4. CASE Return(p, "failed")
  BY <1>1, <1>2, <1>4, ReturnKeeps DEF Results
<1>5. CASE Continue(p, "probe", work)
  <2>1. work \in Jobs BY JobTyped DEF Jobs
  <2>2. work.command = job[p].command /\ work.content = job[p].content
    BY JobTyped DEF Jobs
  <2>3. pc'[p] = "probe" /\ job'[p] = work BY <1>5, OfStep, GotoSets DEF Continue
  <2> HIDE DEF work
  <2>4. Knows(p)'
    BY <1>1, <2>2, <2>3, OfStep DEF Knows, Installing, Selecting, Fetching, Placing, Early
  <2> QED BY <1>1, <1>2, <1>5, <2>1, <2>4, ModestKeeps DEF Labels, Exclusive, Placing
<1> QED BY <1>3, <1>4, <1>5

\* The question which release is the latest.
LEMMA ProbeKeeps ==
    ASSUME IInv, NEW p \in Procs, Probe(p)
    PROVE  IInv'
<1> DEFINE work == [job[p] EXCEPT !.version = published]
<1>1. pc[p] = "probe" /\ Away(p) = {} BY DEF Probe, At, Away
<1>2. Quiet /\ Counted
  BY OfStep, CountedStays DEF Probe, Quiet, files, others, seen, FileTypes
<1>3. Return(p, "failed") \/ Continue(p, "compare", work) BY DEF Probe
<1>4. CASE Return(p, "failed")
  BY <1>1, <1>2, <1>4, ReturnKeeps DEF Results
<1>5. CASE Continue(p, "compare", work)
  <2>1. work \in Jobs /\ work.version \in Versions BY OfStep DEF Jobs, CountTypes
  <2>2. work.command = job[p].command /\ work.content = job[p].content
    BY JobTyped DEF Jobs
  <2>3. pc'[p] = "compare" /\ job'[p] = work BY <1>5, OfStep, GotoSets DEF Continue
  <2> HIDE DEF work
  <2>4. Knows(p)'
    BY <1>1, <2>1, <2>2, <2>3, OfStep DEF Knows, Installing, Selecting, Fetching, Placing, Early
  <2> QED BY <1>1, <1>2, <1>5, <2>1, <2>4, ModestKeeps DEF Labels, Exclusive, Placing
<1> QED BY <1>3, <1>4, <1>5

\* The comparison with the installed release.
LEMMA CompareKeeps ==
    ASSUME IInv, NEW p \in Procs, Compare(p)
    PROVE  IInv'
<1>1. pc[p] = "compare" /\ Away(p) = {} BY DEF Compare, At, Away
<1>2. Quiet /\ Counted
  BY OfStep, CountedStays DEF Compare, Quiet, files, others, seen, FileTypes
<1>3. \/ \E result \in {"kept", "failed"} : Return(p, result)
      \/ Continue(p, "download", job[p])
  BY DEF Compare
<1>4. CASE \E result \in {"kept", "failed"} : Return(p, result)
  BY <1>1, <1>2, <1>4, ReturnKeeps DEF Results
<1>5. CASE Continue(p, "download", job[p])
  <2>1. pc'[p] = "download" /\ job'[p] = job[p] BY <1>5, OfStep, GotoSets DEF Continue
  <2>2. Knows(p)'
    BY <1>1, <2>1, OfStep DEF Knows, Installing, Selecting, Fetching, Placing, Early
  <2> QED BY <1>1, <1>2, <1>5, <2>2, OfStep, ModestKeeps DEF Labels, Exclusive, Placing
<1> QED BY <1>3, <1>4, <1>5

\* The look at the package's `current`, before anything is fetched.
LEMMA InspectPackageKeeps ==
    ASSUME IInv, NEW p \in Procs, InspectPackage(p)
    PROVE  IInv'
<1>1. pc[p] = "npm" /\ Away(p) = {} BY DEF InspectPackage, At, Away
<1>2. Quiet /\ Counted
  BY OfStep, CountedStays DEF InspectPackage, Quiet, files, others, seen, FileTypes
<1>3. Return(p, "failed") \/ Continue(p, "download", job[p]) BY DEF InspectPackage
<1>4. CASE Return(p, "failed")
  BY <1>1, <1>2, <1>4, ReturnKeeps DEF Results
<1>5. CASE Continue(p, "download", job[p])
  <2>1. pc'[p] = "download" /\ job'[p] = job[p] BY <1>5, OfStep, GotoSets DEF Continue
  <2>2. Knows(p)'
    BY <1>1, <2>1, OfStep DEF Knows, Installing, Selecting, Fetching, Placing, Early
  <2> QED BY <1>1, <1>2, <1>5, <2>2, OfStep, ModestKeeps DEF Labels, Exclusive, Placing
<1> QED BY <1>3, <1>4, <1>5

\* The lock of `current` is not held at the labels of an update's tree: an
\* update that is at "put" or "aside" is no installation.
LEMMA AtPlacing ==
    ASSUME IInv, NEW p \in Procs, NEW label \in Placing, NEW work,
           Continue(p, label, work),
           work.command = job[p].command,
           job[p].command = "install" => Holds(p),
           /\ job[p].command = "install" /\ label = "put" /\ work.backup = Absent
           /\ current.kind # "missing" /\ current.version = work.version
           => work.version \in torn,
           current' = current, torn' = torn,
           Knows(p)'
    PROVE  Claim(p)'
<1>1. pc'[p] = label /\ job'[p] = work /\ lock' = lock
  BY GotoSets, OfStep DEF Continue
<1>2. LocksHeld(p)' BY <1>1, OfStep DEF LocksHeld, Holds, Exclusive, Placing
<1>3. Relies(p)' BY <1>1 DEF Relies, Fresh, Placing
<1> QED BY <1>2, <1>3 DEF Claim

\* The download, and the look at the tree that is there.
LEMMA DownloadKeeps ==
    ASSUME IInv, NEW p \in Procs, Download(p)
    PROVE  IInv'
<1> DEFINE work == [job[p] EXCEPT !.todo = Exposed]
<1>1. pc[p] = "download" /\ Away(p) = {} BY DEF Download, At, Away
<1>2. Quiet /\ Counted
  BY OfStep, CountedStays DEF Download, Quiet, files, others, seen, FileTypes
<1>3. \/ Return(p, "failed")
      \/ Continue(p, "ensure", work)
      \/ \E label \in Placing : Continue(p, label, job[p])
  BY DEF Download, Placing
<1>4. CASE Return(p, "failed")
  BY <1>1, <1>2, <1>4, ReturnKeeps DEF Results
<1>5. CASE Continue(p, "ensure", work)
  <2>1. work \in Jobs BY JobTyped DEF Jobs
  <2>2. /\ work.command = job[p].command /\ work.content = job[p].content
        /\ work.version = job[p].version
    BY JobTyped DEF Jobs
  <2>3. pc'[p] = "ensure" /\ job'[p] = work BY <1>5, OfStep, GotoSets DEF Continue
  <2> HIDE DEF work
  <2>4. Knows(p)'
    BY <1>1, <2>2, <2>3, OfStep DEF Knows, Installing, Selecting, Fetching, Placing, Early
  <2> QED BY <1>1, <1>2, <1>5, <2>1, <2>4, ModestKeeps DEF Labels, Exclusive, Placing
<1>6. ASSUME NEW label \in Placing, Continue(p, label, job[p]) PROVE IInv'
  <2>1. pc'[p] = label /\ job'[p] = job[p] BY <1>6, OfStep, GotoSets DEF Continue
  <2>2. Knows(p)'
    BY <1>1, <2>1, OfStep DEF Knows, Installing, Selecting, Fetching, Placing, Early
  <2>3. job[p].command # "install" BY <1>1, OfStep DEF Knows, Fetching
  <2>4. Claim(p)' BY <1>2, <1>6, <2>2, <2>3, AtPlacing DEF Quiet
  <2> QED BY <1>1, <1>2, <1>6, <2>4, OfStep, GoesOn DEF Labels, Placing
<1> QED BY <1>3, <1>4, <1>5, <1>6

\* A Skill link of an update.
LEMMA EnsureLinkKeeps ==
    ASSUME IInv, NEW p \in Procs, EnsureLink(p)
    PROVE  IInv'
<1> DEFINE link == CHOOSE l \in job[p].todo : TRUE
           rest == [job[p] EXCEPT !.todo = @ \ {link}]
           more == [rest EXCEPT !.created = @ \cup {link}]
<1>1. pc[p] = "ensure" /\ Away(p) = {} /\ pc[p] \in Selecting
  BY DEF EnsureLink, At, Away, Selecting
<1>2. Quiet /\ published' = published /\ commands' = commands /\ alone' = alone
      /\ (Fault \/ UNCHANGED faults) /\ UNCHANGED others
  BY DEF EnsureLink, Quiet, others, seen
<1>3. faults' \in 0..MaxFaults
  BY <1>2, OfStep, ReleaseAssumption DEF Fault, CountTypes
<1>4. CASE job[p].todo = {} /\ Continue(p, AfterLinks(p), job[p]) /\ UNCHANGED links
  <2>1. pc'[p] = AfterLinks(p) /\ job'[p] = job[p] BY <1>4, OfStep, GotoSets DEF Continue
  <2>2. AfterLinks(p) \in {"select", "sync", "check"} BY DEF AfterLinks
  <2>3. Knows(p)'
    BY <1>1, <2>1, <2>2, OfStep DEF Knows, Installing, Selecting, Fetching, Placing, Early
  <2>4. Counted BY <1>2, <1>4, OfStep, CountedStays DEF FileTypes
  <2>5. AfterLinks(p) \in Labels \ (Exclusive \cup Placing \cup {"idle"})
    BY <2>2 DEF Labels, Exclusive, Placing
  <2> QED BY <1>1, <1>2, <1>4, <2>3, <2>4, <2>5, OfStep, ModestKeeps
<1>5. ASSUME NEW work \in {rest, more}, job[p].todo # {}, links' = links \cup {link},
             Continue(p, "ensure", work)
      PROVE  IInv'
  <2>1. link \in job[p].todo BY <1>5
  <2>2. link \in Exposed BY <2>1, OfStep DEF Jobs
  <2> HIDE DEF link
  <2>3. rest \in Jobs /\ rest.command = job[p].command /\ rest.content = job[p].content
        /\ rest.version = job[p].version
    BY JobTyped DEF Jobs
  <2> HIDE DEF rest
  <2>4. more \in Jobs /\ more.command = job[p].command /\ more.content = job[p].content
        /\ more.version = job[p].version
    BY <2>2, <2>3 DEF Jobs
  <2> HIDE DEF more
  <2>5. pc'[p] = "ensure" /\ job'[p] = work BY <1>5, OfStep, GotoSets DEF Continue
  <2>6. Knows(p)'
    BY <1>1, <1>5, <2>3, <2>4, <2>5, OfStep
    DEF Knows, Installing, Selecting, Fetching, Placing, Early
  <2>7. Counted BY <1>2, <1>5, <2>2, OfStep, CountedStays DEF FileTypes
  <2> QED BY <1>1, <1>2, <1>5, <2>3, <2>4, <2>6, <2>7, ModestKeeps DEF Labels, Exclusive, Placing
<1>6. CASE Fail(p)
  BY <1>1, <1>2, <1>3, <1>6, OfStep, FailKeeps DEF CountTypes
<1> QED BY <1>4, <1>5, <1>6 DEF EnsureLink

\* The configuration that is synchronized before a directory is migrated.
LEMMA SyncConfigurationKeeps ==
    ASSUME IInv, NEW p \in Procs, SyncConfiguration(p)
    PROVE  IInv'
<1>1. pc[p] = "sync" /\ Away(p) = {} /\ pc[p] \in Selecting
  BY DEF SyncConfiguration, At, Away, Selecting
<1>2. Quiet /\ published' = published /\ commands' = commands /\ alone' = alone
      /\ (Fault \/ UNCHANGED faults) /\ UNCHANGED others
  BY DEF SyncConfiguration, Quiet, others, seen
<1>3. faults' \in 0..MaxFaults
  BY <1>2, OfStep, ReleaseAssumption DEF Fault, CountTypes
<1>4. CASE Continue(p, "check", job[p]) /\ UNCHANGED links
  <2>1. pc'[p] = "check" /\ job'[p] = job[p] BY <1>4, OfStep, GotoSets DEF Continue
  <2>2. Knows(p)'
    BY <1>1, <2>1, OfStep DEF Knows, Installing, Selecting, Fetching, Placing, Early
  <2>3. Counted BY <1>2, <1>4, OfStep, CountedStays DEF FileTypes
  <2> QED BY <1>1, <1>2, <1>4, <2>2, <2>3, OfStep, ModestKeeps DEF Labels, Exclusive, Placing
<1>5. CASE Fail(p)
  BY <1>1, <1>2, <1>3, <1>5, OfStep, FailKeeps DEF CountTypes
<1> QED BY <1>4, <1>5 DEF SyncConfiguration

\* The look at the release and at `current` before the lock.
LEMMA CheckSwitchKeeps ==
    ASSUME IInv, NEW p \in Procs, CheckSwitch(p)
    PROVE  IInv'
<1> DEFINE work == [job[p] EXCEPT !.managed = current.kind = "dir"]
<1>1. pc[p] = "check" /\ Away(p) = {} /\ pc[p] \in Selecting
  BY DEF CheckSwitch, At, Away, Selecting
<1>2. Quiet /\ published' = published /\ commands' = commands /\ alone' = alone
      /\ faults' = faults /\ UNCHANGED others
  BY DEF CheckSwitch, Quiet, others, seen
<1>3. CASE Continue(p, "switch", work) /\ UNCHANGED links
  <2>1. work \in Jobs /\ work.command = job[p].command /\ work.content = job[p].content
        /\ work.version = job[p].version
    BY JobTyped DEF Jobs
  <2>2. pc'[p] = "switch" /\ job'[p] = work BY <1>3, OfStep, GotoSets DEF Continue
  <2> HIDE DEF work
  <2>3. Knows(p)'
    BY <1>1, <2>1, <2>2, OfStep DEF Knows, Installing, Selecting, Fetching, Placing, Early
  <2>4. Counted BY <1>2, <1>3, OfStep, CountedStays DEF FileTypes
  <2> QED BY <1>1, <1>2, <1>3, <2>1, <2>3, <2>4, ModestKeeps DEF Labels, Exclusive, Placing
<1>4. CASE Fail(p)
  BY <1>1, <1>2, <1>4, OfStep, FailKeeps DEF CountTypes
<1> QED BY <1>3, <1>4 DEF CheckSwitch

\* A switch that has nothing to move, or has moved it, ends, or leaves npm to
\* look at it.
LEMMA ConcludeClaims ==
    ASSUME IInv, NEW p \in Procs, pc[p] \in Selecting, Conclude(p)
    PROVE  \E label \in Labels :
              /\ Goto(p, label, job'[p]) /\ job'[p] \in Jobs
              /\ lock' \in [Locks -> Procs \cup {NoProc}] /\ LockStep(p)
              /\ Claim(p)'
<1>1. CASE job[p].command = "npm"
  <2>1. Goto(p, "confirm", job[p]) /\ lock' = Released(p, {"current"})
    BY <1>1 DEF Conclude
  <2>2. pc'[p] = "confirm" /\ job'[p] = job[p] BY <2>1, OfStep, GotoSets
  <2>3. lock' \in [Locks -> Procs \cup {NoProc}] /\ LockStep(p)
    BY <2>1, OfStep, ReleaseAssumption DEF ProcessTypes, Released, LockStep
  <2>4. Knows(p)'
    BY <2>2, OfStep DEF Knows, Installing, Selecting, Fetching, Placing, Early
  <2>5. Claim(p)' BY <2>1, <2>4, Modest DEF Exclusive, Placing
  <2> QED BY <2>1, <2>2, <2>3, <2>5, OfStep DEF Labels
<1>2. CASE job[p].command # "npm"
  BY <1>2, Returned DEF Conclude, Results
<1> QED BY <1>1, <1>2

\* The switch, once it has the lock: it fails, has nothing to do, or keeps it.
LEMMA LockSwitchKeeps ==
    ASSUME IInv, NEW p \in Procs, LockSwitch(p)
    PROVE  IInv'
<1> DEFINE work == [job[p] EXCEPT !.managed = current.kind = "dir"]
<1>1. pc[p] = "switch" /\ Away(p) = {} /\ pc[p] \in Selecting
  BY DEF LockSwitch, At, Away, Selecting
<1>2. Quiet /\ published' = published /\ commands' = commands /\ alone' = alone
      /\ faults' = faults /\ UNCHANGED others
  BY DEF LockSwitch, Quiet, others, seen
<1>3. CASE Fail(p)
  BY <1>1, <1>2, <1>3, OfStep, FailKeeps DEF CountTypes
<1>4. CASE Conclude(p) /\ UNCHANGED links
  <2>1. Counted BY <1>2, <1>4, OfStep, CountedStays DEF FileTypes
  <2>2. PICK label \in Labels :
              /\ Goto(p, label, job'[p]) /\ job'[p] \in Jobs
              /\ lock' \in [Locks -> Procs \cup {NoProc}] /\ LockStep(p)
              /\ Claim(p)'
    BY <1>1, <1>4, ConcludeClaims
  <2>3. Away(p) \subseteq Away(p)' \cup torn BY <1>1
  <2> QED BY <1>2, <2>1, <2>2, <2>3, QuietKeeps
<1>5. CASE Switchable(p) /\ Take(p, "current") /\ Goto(p, "move", work) /\ UNCHANGED links
  <2>1. work \in Jobs /\ work.command = job[p].command /\ work.content = job[p].content
        /\ work.version = job[p].version /\ (work.managed <=> current.kind = "dir")
    BY JobTyped DEF Jobs
  <2>2. pc'[p] = "move" /\ job'[p] = work BY <1>5, OfStep, GotoSets
  <2> HIDE DEF work
  <2>3. Knows(p)'
    BY <1>1, <2>1, <2>2, OfStep DEF Knows, Installing, Selecting, Fetching, Placing, Early
  <2>4. Counted BY <1>2, <1>5, OfStep, CountedStays DEF FileTypes
  <2>5. lock' \in [Locks -> Procs \cup {NoProc}] /\ LockStep(p) /\ lock'["current"] = p
    BY <1>5, OfStep DEF Take, ProcessTypes, LockStep, Locks
  <2>6. LocksHeld(p)' BY <2>2, <2>5 DEF LocksHeld
  <2>7. Covered(job[p].version)'
    BY <1>2, <1>5, <2>1, <2>2 DEF Covered, Switchable, Quiet
  <2>8. Relies(p)' BY <1>2, <2>1, <2>2, <2>7 DEF Relies, Fresh, Quiet
  <2>9. Claim(p)' BY <2>3, <2>6, <2>8 DEF Claim
  <2> QED BY <1>1, <1>2, <1>5, <2>1, <2>4, <2>5, <2>9, QuietKeeps DEF Labels
<1> QED BY <1>3, <1>4, <1>5 DEF LockSwitch

\* What the package finds selected.
LEMMA SelectReleaseKeeps ==
    ASSUME IInv, NEW p \in Procs, SelectRelease(p)
    PROVE  IInv'
<1>1. pc[p] = "select" /\ Away(p) = {} /\ pc[p] \in Selecting
  BY DEF SelectRelease, At, Away, Selecting
<1>2. Quiet /\ published' = published /\ commands' = commands /\ alone' = alone
      /\ faults' = faults /\ UNCHANGED others
  BY DEF SelectRelease, Quiet, others, seen
<1>3. CASE Fail(p)
  BY <1>1, <1>2, <1>3, OfStep, FailKeeps DEF CountTypes
<1>4. CASE Return(p, "done") /\ UNCHANGED links
  <2>1. Counted BY <1>2, <1>4, OfStep, CountedStays DEF FileTypes
  <2> QED BY <1>1, <1>2, <1>4, <2>1, ReturnKeeps DEF Results
<1>5. ASSUME NEW label \in {"check", "relink"}, Continue(p, label, job[p]), UNCHANGED links
      PROVE  IInv'
  <2>1. pc'[p] = label /\ job'[p] = job[p] BY <1>5, OfStep, GotoSets DEF Continue
  <2>2. Knows(p)'
    BY <1>1, <2>1, OfStep DEF Knows, Installing, Selecting, Fetching, Placing, Early
  <2>3. Counted BY <1>2, <1>5, OfStep, CountedStays DEF FileTypes
  <2> QED BY <1>1, <1>2, <1>5, <2>2, <2>3, OfStep, ModestKeeps DEF Labels, Exclusive, Placing
<1> QED BY <1>3, <1>4, <1>5 DEF SelectRelease

\* What the package finds after the switch.
LEMMA ConfirmSwitchKeeps ==
    ASSUME IInv, NEW p \in Procs, ConfirmSwitch(p)
    PROVE  IInv'
<1>1. pc[p] = "confirm" /\ Away(p) = {} /\ pc[p] \in Selecting
  BY DEF ConfirmSwitch, At, Away, Selecting
<1>2. Quiet /\ published' = published /\ commands' = commands /\ alone' = alone
      /\ faults' = faults /\ UNCHANGED others
  BY DEF ConfirmSwitch, Quiet, others, seen
<1>3. CASE Fail(p)
  BY <1>1, <1>2, <1>3, OfStep, FailKeeps DEF CountTypes
<1>4. CASE Return(p, "done") /\ UNCHANGED links
  <2>1. Counted BY <1>2, <1>4, OfStep, CountedStays DEF FileTypes
  <2> QED BY <1>1, <1>2, <1>4, <2>1, ReturnKeeps DEF Results
<1> QED BY <1>3, <1>4 DEF ConfirmSwitch

\* An installation takes the configuration lock.
LEMMA LockConfigurationKeeps ==
    ASSUME IInv, NEW p \in Procs, LockConfiguration(p)
    PROVE  IInv'
<1>1. pc[p] = "config" /\ Away(p) = {} /\ Goto(p, "exclude", job[p])
  BY DEF LockConfiguration, At, Away
<1>2. Quiet /\ Counted
  BY OfStep, CountedStays DEF LockConfiguration, Quiet, files, others, seen, FileTypes
<1>3. lock' \in [Locks -> Procs \cup {NoProc}] /\ LockStep(p)
  BY OfStep DEF LockConfiguration, Take, ProcessTypes, LockStep, Locks
<1>4. pc'[p] = "exclude" /\ job'[p] = job[p] BY <1>1, OfStep, GotoSets
<1>5. Knows(p)'
  BY <1>1, <1>4, OfStep DEF Knows, Installing, Selecting, Fetching, Placing, Early
<1>6. Claim(p)' BY <1>1, <1>5, Modest DEF Exclusive, Placing
<1> QED BY <1>1, <1>2, <1>3, <1>6, OfStep, QuietKeeps DEF Labels

\* An installation takes the lock of `current`.
LEMMA LockCurrentKeeps ==
    ASSUME IInv, NEW p \in Procs, LockCurrent(p)
    PROVE  IInv'
<1>1. pc[p] = "exclude" /\ Away(p) = {} /\ Goto(p, "preflight", job[p])
  BY DEF LockCurrent, At, Away
<1>2. Quiet /\ Counted
  BY OfStep, CountedStays DEF LockCurrent, Quiet, files, others, seen, FileTypes
<1>3. lock' \in [Locks -> Procs \cup {NoProc}] /\ LockStep(p) /\ lock'["current"] = p
  BY OfStep DEF LockCurrent, Take, ProcessTypes, LockStep, Locks
<1>4. pc'[p] = "preflight" /\ job'[p] = job[p] BY <1>1, OfStep, GotoSets
<1>5. Knows(p)'
  BY <1>1, <1>4, OfStep DEF Knows, Installing, Selecting, Fetching, Placing, Early
<1>6. LocksHeld(p)' BY <1>3, <1>4 DEF LocksHeld
<1>7. Relies(p)' BY <1>4 DEF Relies, Fresh
<1>8. Claim(p)' BY <1>5, <1>6, <1>7 DEF Claim
<1> QED BY <1>1, <1>2, <1>3, <1>8, OfStep, QuietKeeps DEF Labels

\* Everything is looked at under both locks: a tree that is put where none was
\* is not the one that is selected.
LEMMA PreflightKeeps ==
    ASSUME IInv, NEW p \in Procs, Preflight(p)
    PROVE  IInv'
<1> DEFINE v == job[p].version
           work == [job[p] EXCEPT !.todo = Exposed \ links, !.obsolete = Obsolete]
<1>1. /\ pc[p] = "preflight" /\ Away(p) = {}
      /\ job[p].command = "install" /\ lock["current"] = p /\ v \in Versions
      /\ job[p].content # Absent
  BY OfStep
  DEF Preflight, At, Away, Knows, Installing, Early, LocksHeld, Holds, Exclusive
<1>2. Quiet /\ Counted
  BY OfStep, CountedStays DEF Preflight, Quiet, files, others, seen, FileTypes
<1>3. \/ Return(p, "failed")
      \/ tree[v] = job[p].content /\ Continue(p, "create", work)
      \/ Inspectable /\ current.kind # "link" /\ tree[v] = Absent /\ Continue(p, "put", work)
      \/ Continue(p, "aside", work)
  BY DEF Preflight
<1>4. Obsolete \in SUBSET Retired BY DEF Obsolete
<1>5. /\ work \in Jobs /\ work.command = job[p].command /\ work.content = job[p].content
      /\ work.version = job[p].version
  BY <1>4, OfStep DEF Jobs
<1>6. ~work.placed
  <2>1. work.placed = job[p].placed BY JobTyped DEF Jobs
  <2> QED BY <1>1, <2>1, OfStep DEF Knows
<1> HIDE DEF work
<1>7. ASSUME NEW label \in {"create", "put", "aside"}, Continue(p, label, work)
      PROVE  pc'[p] = label /\ job'[p] = work /\ Knows(p)' /\ LocksHeld(p)' /\ label \in Labels
  <2>1. pc'[p] = label /\ job'[p] = work /\ lock' = lock
    BY <1>7, OfStep, GotoSets DEF Continue
  <2>2. Knows(p)'
    BY <1>1, <1>5, <1>7, <2>1 DEF Knows, Installing, Selecting, Fetching, Placing, Early
  <2>3. LocksHeld(p)' BY <1>1, <1>7, <2>1 DEF LocksHeld
  <2> QED BY <1>7, <2>1, <2>2, <2>3 DEF Labels
<1>8. CASE Return(p, "failed")
  BY <1>1, <1>2, <1>8, ReturnKeeps DEF Results
<1>9. CASE tree[v] = job[p].content /\ Continue(p, "create", work)
  <2>1. pc'[p] = "create" /\ job'[p] = work /\ Knows(p)' /\ LocksHeld(p)' /\ "create" \in Labels
    BY <1>7, <1>9
  <2>2. Covered(job[p].version)'
    BY <1>1, <1>2, <1>5, <1>9, <2>1 DEF Covered, Quiet
  <2>3. Relies(p)' BY <1>6, <2>1, <2>2 DEF Relies, Fresh
  <2> QED BY <1>1, <1>2, <1>5, <1>9, <2>1, <2>3, GoesOn DEF Claim
<1>10. CASE Inspectable /\ current.kind # "link" /\ tree[v] = Absent /\ Continue(p, "put", work)
  <2>1. pc'[p] = "put" /\ job'[p] = work /\ Knows(p)' /\ LocksHeld(p)' /\ "put" \in Labels
    BY <1>7, <1>10
  <2>2. current.kind # "missing" => current.version # v
    BY <1>10, OfStep DEF Inspectable, FileTypes, Layouts, NoLayout
  <2>3. Relies(p)' BY <1>2, <1>5, <2>1, <2>2 DEF Relies, Fresh, Quiet
  <2> QED BY <1>1, <1>2, <1>5, <1>10, <2>1, <2>3, GoesOn DEF Claim
<1>11. CASE Continue(p, "aside", work)
  <2>1. pc'[p] = "aside" /\ job'[p] = work /\ Knows(p)' /\ LocksHeld(p)' /\ "aside" \in Labels
    BY <1>7, <1>11
  <2>2. Relies(p)' BY <2>1 DEF Relies, Fresh
  <2> QED BY <1>1, <1>2, <1>5, <1>11, <2>1, <2>2, GoesOn DEF Claim
<1> QED BY <1>3, <1>8, <1>9, <1>10, <1>11

\* An installation that goes on with its links, its release still covered.
LEMMA LinkingKeeps ==
    ASSUME IInv, NEW p \in Procs, pc[p] \in {"create", "retire"},
           NEW label \in {"create", "retire", "activate"}, NEW work \in Jobs,
           Continue(p, label, work), Quiet, Counted,
           work.command = job[p].command, work.content = job[p].content,
           work.version = job[p].version, work.placed = job[p].placed,
           work.backup = job[p].backup
    PROVE  IInv'
<1>1. pc'[p] = label /\ job'[p] = work /\ lock' = lock /\ Goto(p, label, work)
  BY OfStep, GotoSets DEF Continue
<1>2. Away(p) = {} BY DEF Away, At
<1>3. Knows(p)'
  BY <1>1, OfStep DEF Knows, Installing, Selecting, Fetching, Placing, Early
<1>4. LocksHeld(p)' BY <1>1, OfStep DEF LocksHeld, Holds, Exclusive
<1>5. \A u : Covered(u) => Covered(u)' BY <1>1, <1>2, QuietCovers
<1>6. Covered(job[p].version) BY OfStep DEF Relies
<1>7. Covered(job[p].version)' BY <1>1, <1>5, <1>6 DEF Covered
<1>8. Relies(p)' BY <1>1, <1>7, OfStep DEF Relies, Fresh, Quiet
<1> QED BY <1>2, <1>3, <1>4, <1>8, GoesOn DEF Claim, Labels

\* An installation creates a Skill link.
LEMMA CreateLinkKeeps ==
    ASSUME IInv, NEW p \in Procs, CreateLink(p)
    PROVE  IInv'
<1> DEFINE link == CHOOSE l \in job[p].todo : TRUE
           work == [job[p] EXCEPT !.todo = @ \ {link}, !.created = @ \cup {link}]
<1>1. pc[p] = "create" BY DEF CreateLink, At
<1>2. Quiet /\ published' = published /\ commands' = commands /\ alone' = alone
      /\ (Fault \/ UNCHANGED faults) /\ UNCHANGED others
  BY DEF CreateLink, Quiet, others, seen
<1>3. faults' \in 0..MaxFaults
  BY <1>2, OfStep, ReleaseAssumption DEF Fault, CountTypes
<1>4. CASE Continue(p, "retire", job[p]) /\ UNCHANGED links
  <2>1. Counted BY <1>2, <1>4, OfStep, CountedStays DEF FileTypes
  <2> QED BY <1>1, <1>2, <1>4, <2>1, OfStep, LinkingKeeps
<1>5. CASE job[p].todo # {} /\ links' = links \cup {link} /\ Continue(p, "create", work)
  <2>1. link \in job[p].todo BY <1>5
  <2>2. link \in Exposed BY <2>1, OfStep DEF Jobs
  <2> HIDE DEF link
  <2>3. /\ work \in Jobs /\ work.command = job[p].command /\ work.content = job[p].content
        /\ work.version = job[p].version /\ work.backup = job[p].backup
    BY <2>2, OfStep DEF Jobs
  <2>4. work.placed = job[p].placed BY JobTyped DEF Jobs
  <2> HIDE DEF work
  <2>5. Counted BY <1>2, <1>5, <2>2, OfStep, CountedStays DEF FileTypes
  <2> QED BY <1>1, <1>2, <1>5, <2>3, <2>4, <2>5, LinkingKeeps
<1>6. CASE Undo(p)
  BY <1>1, <1>2, <1>3, <1>6, OfStep, UndoKeeps DEF CountTypes
<1> QED BY <1>4, <1>5, <1>6 DEF CreateLink

\* An installation removes the link of a Skill that is exposed no more.
LEMMA RetireLinkKeeps ==
    ASSUME IInv, NEW p \in Procs, RetireLink(p)
    PROVE  IInv'
<1> DEFINE link == CHOOSE l \in job[p].obsolete : TRUE
           work == [job[p] EXCEPT !.obsolete = @ \ {link}, !.removed = @ \cup {link}]
<1>1. pc[p] = "retire" BY DEF RetireLink, At
<1>2. Quiet /\ published' = published /\ commands' = commands /\ alone' = alone
      /\ (Fault \/ UNCHANGED faults) /\ UNCHANGED others
  BY DEF RetireLink, Quiet, others, seen
<1>3. faults' \in 0..MaxFaults
  BY <1>2, OfStep, ReleaseAssumption DEF Fault, CountTypes
<1>4. CASE Continue(p, "activate", job[p]) /\ UNCHANGED links
  <2>1. Counted BY <1>2, <1>4, OfStep, CountedStays DEF FileTypes
  <2> QED BY <1>1, <1>2, <1>4, <2>1, OfStep, LinkingKeeps
<1>5. CASE job[p].obsolete # {} /\ links' = links \ {link} /\ Continue(p, "retire", work)
  <2>1. link \in job[p].obsolete BY <1>5
  <2>2. link \in Retired BY <2>1, OfStep DEF Jobs
  <2> HIDE DEF link
  <2>3. /\ work \in Jobs /\ work.command = job[p].command /\ work.content = job[p].content
        /\ work.version = job[p].version /\ work.backup = job[p].backup
    BY <2>2, OfStep DEF Jobs
  <2>4. work.placed = job[p].placed BY JobTyped DEF Jobs
  <2> HIDE DEF work
  <2>5. Counted BY <1>2, <1>5, OfStep, CountedStays DEF FileTypes
  <2> QED BY <1>1, <1>2, <1>5, <2>3, <2>4, <2>5, LinkingKeeps
<1>6. CASE Undo(p)
  BY <1>1, <1>2, <1>3, <1>6, OfStep, UndoKeeps DEF CountTypes
<1> QED BY <1>4, <1>5, <1>6 DEF RetireLink

-----------------------------------------------------------------------------
(* Steps that move a tree, or `current`                                    *)

\* What such a step has to say for the invariant.
LEMMA FilesKeep ==
    ASSUME IInv, NEW p \in Procs, NEW label \in Labels, NEW work \in Jobs,
           Goto(p, label, work), Counted, LockStep(p),
           lock' \in [Locks -> Procs \cup {NoProc}],
           tree' \in [Versions -> Contents \cup {Absent}],
           current' \in Layouts \cup {NoLayout}, retained' \in Seq(Layouts),
           torn' \in SUBSET Versions, torn \subseteq torn',
           \/ current' = current
           \/ lock["current"] = p
           \/ /\ current.kind # "dir" /\ current'.kind # "dir"
              /\ lock["current"] # NoProc => current'.version \in torn',
           \A v \in Versions : Covered(v) => Covered(v)' \/ lock["current"] = p,
           Resolves', (current.kind # "link" => retained = << >>)', Claim(p)'
    PROVE  IInv'
<1>1. pc' \in [Procs -> Labels] /\ job' \in [Procs -> Jobs]
      /\ \A q \in Procs \ {p} : pc'[q] = pc[q] /\ job'[q] = job[q]
  BY GotoSets, OfStep
<1>2. Types' BY <1>1 DEF Types, FileTypes, CountTypes, ProcessTypes, Counted
<1>3. Guarantee(p) BY <1>1 DEF Guarantee
<1> QED BY <1>2, <1>3, Holding

\* The releases that are covered stay so, if those do whose trees p moves.
LEMMA TreesCover ==
    ASSUME IInv, NEW p \in Procs, NEW label, NEW work, Goto(p, label, work),
           torn \subseteq torn',
           \A v \in Versions :
              /\ tree[v] # Absent => tree'[v] # Absent \/ v \in Away(p)'
              /\ v \in Away(p) => tree'[v] # Absent \/ v \in torn' \/ v \in Away(p)'
    PROVE  \A v \in Versions : Covered(v) => Covered(v)'
<1>1. \A q \in Procs \ {p} : pc'[q] = pc[q] /\ job'[q] = job[q] BY GotoSets, OfStep
<1>2. ASSUME NEW v \in Versions, Covered(v) PROVE Covered(v)'
  <2>1. tree'[v] # Absent \/ v \in torn' \cup UNION {Away(q)' : q \in Procs}
    BY <1>1, <1>2, OfStep, StaysCovered
  <2> QED BY <2>1 DEF Covered
<1> QED BY <1>2

\* A step that moves one tree.
LEMMA TreeKeeps ==
    ASSUME IInv, NEW p \in Procs, NEW label \in Labels, NEW work \in Jobs,
           Goto(p, label, work), Counted, LockStep(p),
           lock' \in [Locks -> Procs \cup {NoProc}],
           tree' \in [Versions -> Contents \cup {Absent}],
           UNCHANGED <<current, retained, torn>>,
           \A v \in Versions :
              /\ tree[v] # Absent => tree'[v] # Absent \/ v \in Away(p)'
              /\ v \in Away(p) => tree'[v] # Absent \/ v \in torn' \/ v \in Away(p)',
           Claim(p)'
    PROVE  IInv'
<1>1. \A v \in Versions : Covered(v) => Covered(v)' BY TreesCover
<1>2. current.kind # "missing" => current.version \in Versions
  BY OfStep DEF FileTypes, Layouts, NoLayout
<1>3. Resolves'
  <2>1. ASSUME current.kind # "missing" PROVE Covered(current.version)'
    <3>1. Covered(current.version) BY <2>1 DEF IInv, Resolves
    <3>2. PICK v \in Versions : v = current.version BY <1>2, <2>1
    <3>3. Covered(v)' BY <1>1, <3>1, <3>2
    <3> QED BY <3>2, <3>3 DEF Covered
  <2> QED BY <2>1 DEF Resolves
<1>4. (current.kind # "link" => retained = << >>)' BY DEF IInv
<1> QED BY <1>1, <1>3, <1>4, OfStep, FilesKeep DEF FileTypes, CountTypes

\* The old tree is moved to a backup.
LEMMA MoveAsideKeeps ==
    ASSUME IInv, NEW p \in Procs, MoveAside(p)
    PROVE  IInv'
<1> DEFINE v == job[p].version
           work == [job[p] EXCEPT !.backup = tree[v]]
<1>1. /\ pc[p] = "aside" /\ Away(p) = {} /\ v \in Versions
      /\ job[p].command = "install" => lock["current"] = p
      /\ UNCHANGED <<current, retained, torn, links>>
  BY OfStep
  DEF MoveAside, At, Away, Knows, Placing, Early, LocksHeld, Holds, others, seen
<1>2. Counted
  BY OfStep, CountedStays DEF MoveAside, FileTypes
<1>3. CASE /\ tree[v] # Absent /\ tree' = [tree EXCEPT ![v] = Absent]
           /\ Continue(p, "put", work)
  <2>1. /\ work \in Jobs /\ work.command = job[p].command /\ work.content = job[p].content
        /\ work.version = v /\ work.backup = tree[v]
    BY <1>1, OfStep DEF Jobs, FileTypes
  <2>2. pc'[p] = "put" /\ job'[p] = work /\ lock' = lock /\ Goto(p, "put", work)
    BY <1>3, OfStep, GotoSets DEF Continue
  <2> HIDE DEF work
  <2>3. Knows(p)'
    BY <1>1, <2>1, <2>2, OfStep DEF Knows, Installing, Selecting, Fetching, Placing, Early
  <2>4. LocksHeld(p)' BY <1>1, <2>1, <2>2 DEF LocksHeld, Holds, Exclusive
  <2>5. Relies(p)' BY <1>3, <2>1, <2>2 DEF Relies, Fresh
  <2>6. Claim(p)' BY <2>3, <2>4, <2>5 DEF Claim
  <2>7. v \in Away(p)' BY <1>3, <2>1, <2>2 DEF Away, At
  <2>8. lock' \in [Locks -> Procs \cup {NoProc}] /\ LockStep(p)
    BY <2>2, OfStep DEF ProcessTypes, LockStep
  <2>9. /\ tree' \in [Versions -> Contents \cup {Absent}]
        /\ \A u \in Versions : tree[u] # Absent => tree'[u] # Absent \/ u \in Away(p)'
    BY <1>1, <1>3, <2>7, OfStep DEF FileTypes
  <2> QED BY <1>1, <1>2, <2>1, <2>2, <2>6, <2>8, <2>9, TreeKeeps DEF Labels
<1>4. CASE Return(p, "failed") /\ UNCHANGED tree
  BY <1>1, <1>2, <1>4, ReturnKeeps DEF Results, Quiet
<1> QED BY <1>3, <1>4 DEF MoveAside

\* The staged tree is put in place, or the backup is renamed back.
LEMMA PutTreeKeeps ==
    ASSUME IInv, NEW p \in Procs, PutTree(p)
    PROVE  IInv'
<1> DEFINE v == job[p].version
           work == Placed(p)
<1>1. /\ pc[p] = "put" /\ v \in Versions
      /\ Away(p) = IF job[p].backup # Absent THEN {v} ELSE {}
      /\ job[p].command \notin {"none", "activate"} /\ job[p].content # Absent
      /\ job[p].command = "install" => lock["current"] = p
      /\ UNCHANGED <<current, retained, torn, links>>
  BY OfStep
  DEF PutTree, At, Away, Knows, Placing, Early, LocksHeld, Holds, others, seen
<1>2. Counted BY OfStep, CountedStays DEF PutTree, FileTypes
<1>3. CASE /\ tree[v] = Absent /\ tree' = [tree EXCEPT ![v] = job[p].content]
           /\ Continue(p, AfterPut(p), work)
  <2>1. /\ work \in Jobs /\ work.command = job[p].command /\ work.content = job[p].content
        /\ work.version = v /\ work.backup = job[p].backup
    BY JobTyped DEF Jobs, Placed
  <2>2. pc'[p] = AfterPut(p) /\ job'[p] = work /\ lock' = lock /\ Goto(p, AfterPut(p), work)
    BY <1>3, OfStep, GotoSets DEF Continue
  <2> HIDE DEF work
  <2>3. Knows(p)'
    BY <1>1, <2>1, <2>2 DEF Knows, AfterPut, Installing, Selecting, Fetching, Placing, Early
  <2>4. LocksHeld(p)' BY <1>1, <2>1, <2>2 DEF LocksHeld, AfterPut, Holds, Exclusive, Placing
  <2>5. /\ tree' \in [Versions -> Contents \cup {Absent}] /\ tree'[v] # Absent
        /\ \A u \in Versions : tree[u] # Absent => tree'[u] # Absent
    BY <1>1, <1>3, OfStep DEF FileTypes, Jobs
  <2>6. Covered(job[p].version)' BY <2>1, <2>2, <2>5 DEF Covered
  <2>7. Relies(p)'
    BY <1>1, <2>1, <2>2, <2>6, OfStep DEF Relies, Fresh, AfterPut
  <2>8. Claim(p)' BY <2>3, <2>4, <2>7 DEF Claim
  <2>9. lock' \in [Locks -> Procs \cup {NoProc}] /\ LockStep(p)
    BY <2>2, OfStep DEF ProcessTypes, LockStep
  <2>10. AfterPut(p) \in Labels BY DEF AfterPut, Labels
  <2> QED BY <1>1, <1>2, <2>1, <2>2, <2>5, <2>8, <2>9, <2>10, TreeKeeps
<1>4. CASE /\ Return(p, "failed")
           /\ IF tree[v] = Absent THEN tree' = [tree EXCEPT ![v] = job[p].backup]
              ELSE UNCHANGED tree
  <2>1. /\ Goto(p, "idle", job'[p]) /\ "idle" \in Labels /\ job'[p] \in Jobs
        /\ lock' \in [Locks -> Procs \cup {NoProc}] /\ LockStep(p) /\ Claim(p)'
    BY <1>4, Returned DEF Results
  <2>2. /\ tree' \in [Versions -> Contents \cup {Absent}]
        /\ \A u \in Versions : tree[u] # Absent => tree'[u] # Absent
        /\ job[p].backup # Absent => tree'[v] # Absent
    BY <1>1, <1>4, OfStep DEF FileTypes, Jobs
  <2> QED BY <1>1, <1>2, <2>1, <2>2, TreeKeeps
<1> QED BY <1>3, <1>4 DEF PutTree

\* The release that a failed update replaced is put back.
LEMMA RestoreReleaseKeeps ==
    ASSUME IInv, NEW p \in Procs, RestoreRelease(p)
    PROVE  IInv'
<1> DEFINE v == job[p].version
<1>1. /\ pc[p] = "restore" /\ v \in Versions /\ Away(p) = {} /\ job[p].backup # Absent
      /\ UNCHANGED <<current, retained, torn, links>>
  BY OfStep DEF RestoreRelease, At, Away, Knows, Early, others, seen
<1>2. Counted BY OfStep, CountedStays DEF RestoreRelease, FileTypes
<1>3. /\ Goto(p, "idle", job'[p]) /\ "idle" \in Labels /\ job'[p] \in Jobs
      /\ lock' \in [Locks -> Procs \cup {NoProc}] /\ LockStep(p) /\ Claim(p)'
  BY Returned DEF RestoreRelease, Results
<1>4. /\ tree' \in [Versions -> Contents \cup {Absent}]
      /\ \A u \in Versions : tree[u] # Absent => tree'[u] # Absent
  BY <1>1, OfStep DEF RestoreRelease, FileTypes, Jobs
<1> QED BY <1>1, <1>2, <1>3, <1>4, TreeKeeps

\* A failed installation removes its tree.
LEMMA RemoveTreeKeeps ==
    ASSUME IInv, NEW p \in Procs, RemoveTree(p)
    PROVE  IInv'
<1> DEFINE v == job[p].version
<1>1. /\ pc[p] = "rollback" /\ v \in Versions /\ Away(p) = {} /\ lock["current"] = p
      /\ UNCHANGED <<current, retained, torn, links>>
      /\ tree' = [tree EXCEPT ![v] = Absent]
  BY OfStep
  DEF RemoveTree, At, Away, Knows, Early, LocksHeld, Holds, Exclusive, others, seen
<1>2. Counted BY OfStep, CountedStays DEF RemoveTree, FileTypes
<1>3. pc'[p] = "putback" /\ job'[p] = job[p] /\ lock' = lock /\ Goto(p, "putback", job[p])
  BY OfStep, GotoSets DEF RemoveTree, Continue
<1>4. Knows(p)'
  BY <1>1, <1>3, OfStep DEF Knows, Installing, Selecting, Fetching, Placing, Early
<1>5. LocksHeld(p)' BY <1>1, <1>3 DEF LocksHeld
<1>6. Relies(p)' BY <1>1, <1>3, OfStep DEF Relies, Fresh
<1>7. Claim(p)' BY <1>4, <1>5, <1>6 DEF Claim
<1>8. v \in Away(p)' BY <1>3 DEF Away, At
<1>9. lock' \in [Locks -> Procs \cup {NoProc}] /\ LockStep(p)
  BY <1>3, OfStep DEF ProcessTypes, LockStep
<1>10. /\ tree' \in [Versions -> Contents \cup {Absent}]
       /\ \A u \in Versions : tree[u] # Absent => tree'[u] # Absent \/ u \in Away(p)'
  BY <1>1, <1>8, OfStep DEF FileTypes
<1> QED BY <1>1, <1>2, <1>3, <1>7, <1>9, <1>10, OfStep, TreeKeeps DEF Labels

\* And puts back what it replaced; if it replaced nothing, its release is gone,
\* and no reader of `current` misses it but one that npm has sent there.
LEMMA PutBackKeeps ==
    ASSUME IInv, NEW p \in Procs, PutBack(p)
    PROVE  IInv'
<1> DEFINE v == job[p].version
<1>1. /\ pc[p] = "putback" /\ v \in Versions /\ Away(p) = {v} /\ lock["current"] = p
      /\ UNCHANGED <<current, retained, torn, links>>
      /\ tree' = IF tree[v] = Absent THEN [tree EXCEPT ![v] = job[p].backup] ELSE tree
      /\ job[p].command = "install"
  BY OfStep
  DEF PutBack, At, Away, Knows, Early, Installing, LocksHeld, Holds, Exclusive, others, seen
<1>2. Counted BY OfStep, CountedStays DEF PutBack, FileTypes
<1>3. /\ Goto(p, "idle", job'[p]) /\ "idle" \in Labels /\ job'[p] \in Jobs
      /\ lock' \in [Locks -> Procs \cup {NoProc}] /\ LockStep(p) /\ Claim(p)'
  BY Returned DEF PutBack, Results
<1>4. tree' \in [Versions -> Contents \cup {Absent}]
  BY <1>1, OfStep DEF FileTypes, Jobs
<1>5. CASE tree[v] # Absent \/ job[p].backup # Absent
  <2>1. \A u \in Versions : tree[u] # Absent => tree'[u] # Absent
    BY <1>1, <1>5, OfStep DEF FileTypes
  <2>2. tree'[v] # Absent BY <1>1, <1>5, OfStep DEF FileTypes
  <2> QED BY <1>1, <1>2, <1>3, <1>4, <2>1, <2>2, TreeKeeps
<1>6. CASE tree[v] = Absent /\ job[p].backup = Absent
  <2>1. tree' = tree BY <1>1, <1>6, OfStep DEF FileTypes
  <2>2. Fresh(p) BY <1>1, <1>6 DEF Fresh
  <2>3. current.kind # "missing" /\ current.version = v => v \in torn
    BY <2>2, OfStep DEF Relies
  <2>4. \A q \in Procs \ {p} : Away(q)' = Away(q)
    BY <1>3, OfStep, GotoSets DEF Away, At
  <2>5. \A u \in Versions : Covered(u) /\ (u = v => v \in torn) => Covered(u)'
    BY <1>1, <2>1, <2>4 DEF Covered
  <2>6. Resolves'
    <3>1. ASSUME current.kind # "missing" PROVE Covered(current.version)'
      <4>1. Covered(current.version) BY <3>1 DEF IInv, Resolves
      <4>2. PICK u \in Versions : u = current.version
        BY <3>1, OfStep DEF FileTypes, Layouts, NoLayout
      <4>3. Covered(u)' BY <2>3, <2>5, <3>1, <4>1, <4>2
      <4> QED BY <1>1, <4>2, <4>3 DEF Covered
    <3> QED BY <1>1, <3>1 DEF Resolves
  <2>7. (current.kind # "link" => retained = << >>)' BY <1>1 DEF IInv
  <2> QED BY <1>1, <1>2, <1>3, <1>4, <2>6, <2>7, OfStep, FilesKeep DEF FileTypes, CountTypes
<1> QED BY <1>5, <1>6

\* `current` is moved under its lock: what was a directory is kept.
LEMMA MoveCurrentKeeps ==
    ASSUME IInv, NEW p \in Procs, MoveCurrent(p)
    PROVE  IInv'
<1> DEFINE v == job[p].version
<1>1. /\ pc[p] = "move" /\ pc[p] \in Selecting /\ Away(p) = {} /\ lock["current"] = p
      /\ v \in Versions /\ Covered(v) /\ (job[p].managed <=> current.kind = "dir")
      /\ UNCHANGED <<tree, torn, published, commands, alone>> /\ UNCHANGED others
  BY OfStep
  DEF MoveCurrent, At, Away, Knows, Early, LocksHeld, Holds, Exclusive, Relies, Selecting,
      others, seen
<1>2. CASE /\ current' = [kind |-> "link", version |-> v]
           /\ retained' = IF job[p].managed THEN Append(retained, current) ELSE retained
           /\ Conclude(p)
           /\ UNCHANGED <<links, faults>>
  <2>1. PICK label \in Labels :
              /\ Goto(p, label, job'[p]) /\ job'[p] \in Jobs
              /\ lock' \in [Locks -> Procs \cup {NoProc}] /\ LockStep(p)
              /\ Claim(p)'
    BY <1>1, <1>2, ConcludeClaims
  <2>2. Counted BY <1>1, <1>2, OfStep, CountedStays DEF FileTypes
  <2>3. current' \in Layouts BY <1>1, <1>2 DEF Layouts
  <2>4. retained' \in Seq(Layouts)
    <3>1. CASE job[p].managed
      <4>1. current \in Layouts BY <1>1, <3>1, OfStep DEF FileTypes, NoLayout
      <4> QED BY <1>2, <3>1, <4>1, OfStep DEF FileTypes
    <3>2. CASE ~job[p].managed BY <1>2, <3>2, OfStep DEF FileTypes
    <3> QED BY <3>1, <3>2
  <2>5. \A u \in Versions : Covered(u) => Covered(u)' BY <1>1, <2>1, TreesCover
  <2>6. Resolves' BY <1>1, <1>2, <2>5 DEF Resolves, Covered
  <2> QED BY <1>1, <1>2, <2>1, <2>2, <2>3, <2>4, <2>5, <2>6, OfStep, FilesKeep
          DEF FileTypes, CountTypes
<1>3. CASE Fault /\ Fail(p) /\ UNCHANGED <<current, retained>>
  <2>1. faults' \in 0..MaxFaults BY <1>3, OfStep, ReleaseAssumption DEF Fault, CountTypes
  <2> QED BY <1>1, <1>3, <2>1, OfStep, FailKeeps DEF Quiet, CountTypes
<1> QED BY <1>2, <1>3 DEF MoveCurrent

\* npm moves what is no directory, and waits for no lock.
LEMMA RelinkKeeps ==
    ASSUME IInv, NEW p \in Procs, Relink(p)
    PROVE  IInv'
<1> DEFINE v == job[p].version
<1>1. /\ pc[p] = "relink" /\ pc[p] \in Selecting /\ Away(p) = {} /\ v \in Versions
      /\ UNCHANGED <<tree, retained, published, commands, alone>>
  BY OfStep DEF Relink, At, Away, Knows, Early, Selecting
<1>2. CASE /\ current.kind # "dir"
           /\ current' = [kind |-> "link", version |-> v]
           /\ torn' = IF lock["current"] = NoProc /\ tree[v] # Absent THEN torn
                      ELSE torn \cup {v}
           /\ Return(p, "done")
           /\ UNCHANGED <<links, faults>>
  <2>1. /\ Goto(p, "idle", job'[p]) /\ "idle" \in Labels /\ job'[p] \in Jobs
        /\ lock' \in [Locks -> Procs \cup {NoProc}] /\ LockStep(p) /\ Claim(p)'
    BY <1>2, Returned DEF Results
  <2>2. Counted BY <1>1, <1>2, OfStep DEF Counted, FileTypes, CountTypes
  <2>3. current' \in Layouts BY <1>1, <1>2 DEF Layouts
  <2>4. torn \subseteq torn' /\ torn' \in SUBSET Versions
    BY <1>1, <1>2, OfStep DEF CountTypes
  <2>5. \A u \in Versions : Covered(u) => Covered(u)' BY <1>1, <2>1, <2>4, TreesCover
  <2>6. tree'[v] # Absent \/ v \in torn' BY <1>1, <1>2
  <2>7. Resolves' BY <1>2, <2>6 DEF Resolves, Covered
  <2> QED BY <1>1, <1>2, <2>1, <2>2, <2>3, <2>4, <2>5, <2>7, OfStep, FilesKeep DEF FileTypes
<1>3. CASE Fail(p) /\ (Fault \/ UNCHANGED faults) /\ UNCHANGED <<current, torn>>
  <2>1. faults' \in 0..MaxFaults BY <1>3, OfStep, ReleaseAssumption DEF Fault, CountTypes
  <2> QED BY <1>1, <1>3, <2>1, OfStep, FailKeeps DEF Quiet, CountTypes
<1> QED BY <1>2, <1>3 DEF Relink

\* An installation ends by selecting its release, in a directory.
LEMMA ActivateReleaseKeeps ==
    ASSUME IInv, NEW p \in Procs, ActivateRelease(p)
    PROVE  IInv'
<1> DEFINE v == job[p].version
<1>1. /\ pc[p] = "activate" /\ Away(p) = {} /\ lock["current"] = p
      /\ v \in Versions /\ Covered(v)
      /\ UNCHANGED <<tree, retained, torn, published, commands, alone>> /\ UNCHANGED others
  BY OfStep
  DEF ActivateRelease, At, Away, Knows, Early, LocksHeld, Holds, Exclusive, Relies, others, seen
<1>2. CASE /\ current.kind # "link"
           /\ current' = [kind |-> "dir", version |-> v]
           /\ Return(p, "done")
           /\ UNCHANGED <<links, faults>>
  <2>1. /\ Goto(p, "idle", job'[p]) /\ "idle" \in Labels /\ job'[p] \in Jobs
        /\ lock' \in [Locks -> Procs \cup {NoProc}] /\ LockStep(p) /\ Claim(p)'
    BY <1>2, Returned DEF Results
  <2>2. Counted BY <1>1, <1>2, OfStep, CountedStays DEF FileTypes
  <2>3. current' \in Layouts BY <1>1, <1>2 DEF Layouts
  <2>4. \A u \in Versions : Covered(u) => Covered(u)' BY <1>1, <2>1, TreesCover
  <2>5. Resolves' BY <1>1, <1>2, <2>4 DEF Resolves, Covered
  <2>6. retained' = << >> BY <1>1, <1>2 DEF IInv
  <2> QED BY <1>1, <1>2, <2>1, <2>2, <2>3, <2>4, <2>5, <2>6, OfStep, FilesKeep
          DEF FileTypes, CountTypes
<1>3. CASE Undo(p) /\ (Fault \/ UNCHANGED faults) /\ UNCHANGED current
  <2>1. faults' \in 0..MaxFaults BY <1>3, OfStep, ReleaseAssumption DEF Fault, CountTypes
  <2> QED BY <1>1, <1>3, <2>1, OfStep, UndoKeeps DEF Quiet, CountTypes
<1> QED BY <1>2, <1>3 DEF ActivateRelease

\* A process that is killed leaves its tree where it was.
LEMMA KillKeeps ==
    ASSUME IInv, NEW p \in Procs, Kill(p)
    PROVE  IInv'
<1>1. /\ UNCHANGED <<tree, current, retained, links, published, commands, alone>>
      /\ torn' = torn \cup Away(p) /\ Return(p, "killed") /\ Fault /\ ~At(p, "idle")
  BY DEF Kill, files
<1>2. /\ Goto(p, "idle", job'[p]) /\ "idle" \in Labels /\ job'[p] \in Jobs
      /\ lock' \in [Locks -> Procs \cup {NoProc}] /\ LockStep(p) /\ Claim(p)'
  BY <1>1, Returned DEF Results
<1>3. Counted
  BY <1>1, OfStep, ReleaseAssumption DEF Counted, FileTypes, CountTypes, Fault
<1>4. Away(p) \subseteq Versions
  BY OfStep DEF Away, At, Knows, Early
<1>5. torn \subseteq torn' /\ torn' \in SUBSET Versions BY <1>1, <1>4, OfStep DEF CountTypes
<1>6. \A u \in Versions : Covered(u) => Covered(u)' BY <1>1, <1>2, <1>5, TreesCover
<1>7. Resolves'
  <2>1. ASSUME current.kind # "missing" PROVE Covered(current.version)'
    <3>1. Covered(current.version) BY <2>1 DEF IInv, Resolves
    <3>2. PICK u \in Versions : u = current.version
      BY <2>1, OfStep DEF FileTypes, Layouts, NoLayout
    <3>3. Covered(u)' BY <1>6, <3>1, <3>2
    <3> QED BY <1>1, <3>2, <3>3 DEF Covered
  <2> QED BY <1>1, <2>1 DEF Resolves
<1>8. (current.kind # "link" => retained = << >>)' BY <1>1 DEF IInv
<1> QED BY <1>1, <1>2, <1>3, <1>5, <1>6, <1>7, <1>8, OfStep, FilesKeep DEF FileTypes

\* A publication, and a step that changes nothing.
LEMMA EnvironmentKeeps ==
    ASSUME IInv, PublishRelease \/ UNCHANGED vars
    PROVE  IInv'
<1>1. /\ UNCHANGED <<tree, current, retained, links, lock, pc, job, commands, faults, torn, alone>>
      /\ published' \in Versions
  BY ReleaseAssumption
  DEF PublishRelease, vars, files, seen, IInv, Types, CountTypes, Versions
<1>2. \A v : Covered(v)' <=> Covered(v) BY <1>1 DEF Covered, Away, At
<1>3. Types' BY <1>1 DEF IInv, Types, FileTypes, CountTypes, ProcessTypes
<1>4. Resolves' BY <1>1, <1>2 DEF IInv, Resolves, Covered, Away, At
<1>5. ASSUME NEW q \in Procs PROVE Claim(q)'
  <2>1. Claim(q) BY DEF IInv
  <2>2. LocksHeld(q)' BY <1>1, <2>1 DEF Claim, LocksHeld, Holds
  <2>3. Knows(q)' BY <1>1, <2>1 DEF Claim, Knows
  <2>4. Covered(job[q].version)' <=> Covered(job[q].version)
    BY <1>1 DEF Covered, Away, At
  <2>5. Relies(q)' BY <1>1, <2>1, <2>4 DEF Claim, Relies, Fresh
  <2> QED BY <2>2, <2>3, <2>5 DEF Claim
<1> QED BY <1>1, <1>3, <1>4, <1>5 DEF IInv

-----------------------------------------------------------------------------
(* The invariant                                                           *)

\* It holds at the beginning, whatever was installed before.
LEMMA InitHolds == Init => IInv
<1> SUFFICES ASSUME Init PROVE IInv OBVIOUS
<1>1. 1 \in Versions BY ReleaseAssumption DEF Versions
<1>2. FileTypes BY <1>1 DEF Init, FileTypes, Layouts, NoLayout, Contents
<1>3. CountTypes BY <1>1, ReleaseAssumption DEF Init, CountTypes
<1>4. NoJob \in Jobs BY DEF NoJob, Jobs
<1>5. ProcessTypes BY <1>4 DEF Init, ProcessTypes, Locks, Labels
<1>6. Resolves
  <2>1. current.kind # "missing" => tree[current.version] # Absent
    BY <1>1 DEF Init, NoLayout, Contents, Absent
  <2> QED BY <2>1 DEF Resolves, Covered
<1>7. ASSUME NEW p \in Procs PROVE Claim(p)
  <2>1. pc[p] = "idle" /\ job[p] = NoJob BY DEF Init
  <2>2. LocksHeld(p)
    BY <2>1, ReleaseAssumption DEF LocksHeld, Init, Locks, Holds, Exclusive, Placing
  <2>3. Knows(p)
    BY <2>1 DEF Knows, Installing, Selecting, Fetching, Placing, Early, NoJob
  <2>4. Relies(p) BY <2>1 DEF Relies, Fresh
  <2> QED BY <2>2, <2>3, <2>4 DEF Claim
<1> QED BY <1>2, <1>3, <1>5, <1>6, <1>7 DEF IInv, Types, Init

\* Every step of a process keeps it.
LEMMA StepKeeps ==
    ASSUME IInv, NEW p \in Procs, Step(p)
    PROVE  IInv'
BY AutoProbeKeeps, InspectCurrentKeeps, ProbeKeeps, CompareKeeps, DownloadKeeps,
   MoveAsideKeeps, PutTreeKeeps, EnsureLinkKeeps, SyncConfigurationKeeps, CheckSwitchKeeps,
   LockSwitchKeeps, MoveCurrentKeeps, RestoreReleaseKeeps, LockConfigurationKeeps,
   LockCurrentKeeps, PreflightKeeps, CreateLinkKeeps, RetireLinkKeeps, ActivateReleaseKeeps,
   RemoveTreeKeeps, PutBackKeeps, InspectPackageKeeps, SelectReleaseKeeps, RelinkKeeps,
   ConfirmSwitchKeeps
DEF Step

\* And so does every step of the system.
LEMMA NextKeeps == IInv /\ [Next]_vars => IInv'
<1> SUFFICES ASSUME IInv, [Next]_vars PROVE IInv' OBVIOUS
<1>1. CASE PublishRelease \/ UNCHANGED vars BY <1>1, EnvironmentKeeps
<1>2. ASSUME NEW p \in Procs, Start(p) PROVE IInv' BY <1>2, StartKeeps
<1>3. ASSUME NEW p \in Procs, Step(p) PROVE IInv' BY <1>3, StepKeeps
<1>4. ASSUME NEW p \in Procs, Kill(p) PROVE IInv' BY <1>4, KillKeeps
<1> QED BY <1>1, <1>2, <1>3, <1>4 DEF Next

\* The invariant is one.
LEMMA Invariant == Spec => []IInv
BY InitHolds, NextKeeps, PTL DEF Spec

\* Every variable has its type, and a command that has returned has no lock.
THEOREM TypeCorrect == Spec => []TypeOK
<1>1. IInv => TypeOK
  <2> SUFFICES ASSUME IInv PROVE TypeOK OBVIOUS
  <2>1. FileTypes /\ CountTypes /\ ProcessTypes BY DEF IInv, Types
  <2>2. \A p \in Procs : At(p, "idle") => \A l \in DOMAIN lock : lock[l] # p
    BY <2>1 DEF IInv, Claim, LocksHeld, At, ProcessTypes
  <2> QED BY <2>1, <2>2 DEF TypeOK, FileTypes, CountTypes, ProcessTypes, Locks
<1> QED BY <1>1, Invariant, PTL

\* `current` selects a release that is there, except inside a repair of it and
\* after one that was killed, or where npm sent it without the lock.
THEOREM AlwaysResolves == Spec => []CurrentResolves
<1>1. IInv => CurrentResolves BY ResolvesIsEnough DEF IInv
<1> QED BY <1>1, Invariant, PTL

-----------------------------------------------------------------------------
(* The migration                                                           *)

\* A step that moves `current` from a directory keeps that directory, and no
\* step makes a directory of a symlink.
LEMMA MigrationStep ==
    ASSUME IInv, [Next]_vars
    PROVE  /\ current.kind = "link" => current'.kind = "link" /\ retained' = retained
           /\ current.kind = "dir" /\ current'.kind = "link" => retained' = <<current>>
<1>1. CASE UNCHANGED <<current, retained>> BY <1>1
<1>2. ASSUME NEW p \in Procs, MoveCurrent(p), ~UNCHANGED <<current, retained>>
      PROVE  /\ current.kind = "link" => current'.kind = "link" /\ retained' = retained
             /\ current.kind = "dir" /\ current'.kind = "link" => retained' = <<current>>
  <2>1. job[p].managed <=> current.kind = "dir"
    BY <1>2, OfStep DEF MoveCurrent, At, Relies
  <2>2. current.kind # "link" => retained = << >> BY DEF IInv
  <2>3. /\ current' = [kind |-> "link", version |-> job[p].version]
        /\ retained' = IF job[p].managed THEN Append(retained, current) ELSE retained
    BY <1>2 DEF MoveCurrent
  <2>4. CASE current.kind = "dir"
    <3>1. retained' = Append(<< >>, current) BY <2>1, <2>2, <2>3, <2>4
    <3>2. Append(<< >>, current) = <<current>> OBVIOUS
    <3> QED BY <2>4, <3>1, <3>2
  <2>5. CASE current.kind # "dir" BY <2>1, <2>3, <2>5
  <2> QED BY <2>4, <2>5
<1>3. ASSUME NEW p \in Procs, Relink(p), ~UNCHANGED <<current, retained>>
      PROVE  current.kind # "dir" /\ current'.kind = "link" /\ retained' = retained
  BY <1>3 DEF Relink
<1>4. ASSUME NEW p \in Procs, ActivateRelease(p), ~UNCHANGED <<current, retained>>
      PROVE  current.kind # "link" /\ current'.kind = "dir"
  BY <1>4 DEF ActivateRelease
<1>5. ASSUME NEW p \in Procs, Step(p)
      PROVE  UNCHANGED <<current, retained>> \/ MoveCurrent(p) \/ Relink(p) \/ ActivateRelease(p)
  BY <1>5
  DEF Step, AutoProbe, InspectCurrent, Probe, Compare, Download, MoveAside, PutTree, EnsureLink,
      SyncConfiguration, CheckSwitch, LockSwitch, RestoreRelease, LockConfiguration, LockCurrent,
      Preflight, CreateLink, RetireLink, RemoveTree, PutBack, InspectPackage, SelectRelease,
      ConfirmSwitch, files
<1>6. ASSUME NEW p \in Procs, Start(p) \/ Kill(p) PROVE UNCHANGED <<current, retained>>
  BY <1>6
  DEF Start, StartUpdate, StartAuto, StartActivate, StartNpm, StartInstall, Begin, Kill, files
<1>7. PublishRelease \/ UNCHANGED vars => UNCHANGED <<current, retained>>
  BY DEF PublishRelease, vars, files
<1> QED BY <1>1, <1>2, <1>3, <1>4, <1>5, <1>6, <1>7 DEF Next

\* Once `current` is a symlink no step makes it a directory again or touches what
\* the migration has retained; and the step that exchanges the directory for the
\* symlink retains just that directory (MoveCurrent, the last part of Switch).
THEOREM MigratedOnce == Spec => MigrationIsFinal
<1>1. IInv /\ [Next]_vars =>
        [/\ current.kind = "link" => current'.kind = "link" /\ retained' = retained
         /\ current.kind = "dir" /\ current'.kind = "link" => retained' = <<current>>]_vars
  BY MigrationStep
<1> QED BY <1>1, Invariant, PTL DEF Spec, MigrationIsFinal

-----------------------------------------------------------------------------
(* The inductive invariant of a command that meets no other                *)

\* The labels before anything is changed, and those after the tree is in place.
Untouched == {"inspect", "auto", "probe", "compare", "download", "aside", "npm", "config",
              "exclude", "preflight"}

Linking == Selecting \cup {"create", "retire", "activate"}

\* Where `current` is, what happened to the links and to the trees, and which
\* links are still to be created or removed, told from what the command met.
SoloCurrent(p) ==
    current = IF pc[p] = "confirm" THEN [kind |-> "link", version |-> job[p].version]
              ELSE before.current

SoloLinks(p) ==
    /\ job[p].created \cap before.links = {}
    /\ job[p].removed \subseteq before.links
    /\ job[p].command # "install" => job[p].removed = {}
    /\ pc[p] \in Untouched \cup {"put"} => job[p].created = {} /\ job[p].removed = {}
    /\ links = IF pc[p] \in {"restore", "rollback", "putback"} THEN before.links
               ELSE (before.links \cup job[p].created) \ job[p].removed

SoloTrees(p) ==
    LET v == job[p].version IN
    /\ pc[p] \in Untouched => tree = before.tree /\ job[p].backup = Absent
    /\ pc[p] \in Untouched \cup {"put"} => ~job[p].placed
    /\ pc[p] \notin Untouched => \A w \in Versions \ {v} : tree[w] = before.tree[w]
    /\ pc[p] \in {"put", "putback"} => tree[v] = Absent
    /\ pc[p] \in {"put", "restore", "rollback", "putback"} => before.tree[v] = job[p].backup
    /\ pc[p] \in Linking =>
          IF job[p].placed THEN before.tree[v] = job[p].backup
          ELSE before.tree[v] = tree[v] /\ job[p].backup = Absent
    /\ pc[p] \in Linking \cup {"restore"} /\ job[p].command # "activate" =>
          tree[v] = job[p].content
    /\ job[p].command = "activate" => ~job[p].placed /\ job[p].backup = Absent

SoloSkills(p) ==
    /\ pc[p] \in Placing /\ job[p].command = "install" => job[p].todo = Exposed \ links
    /\ pc[p] \in {"ensure", "create"} => Exposed \ job[p].todo \subseteq links
    /\ pc[p] \in Linking \ {"ensure", "create"} /\ job[p].command # "activate" =>
          Exposed \subseteq links
    /\ /\ pc[p] \in Placing \cup {"create", "retire"} /\ job[p].command = "install"
       /\ before.current.version = 1
       => Retired \cap links \subseteq job[p].obsolete
    /\ pc[p] = "activate" /\ before.current.version = 1 => Retired \cap links = {}

\* What EndsAsAnswered says of one process that has ended.
Answered(p) ==
    /\ job[p].result = "failed" =>
          /\ current = before.current
          /\ links = before.links
          /\ current.kind # "missing" /\ before.tree[current.version] # Absent =>
                tree[current.version] = before.tree[current.version]
    /\ job[p].result = "done" =>
          /\ current.version = job[p].version
          /\ job[p].command # "activate" =>
                tree[current.version] = job[p].content /\ Exposed \subseteq links
          /\ job[p].command = "install" /\ before.current.version = 1 =>
                links \cap Retired = {}

Working(p) == SoloCurrent(p) /\ SoloLinks(p) /\ SoloTrees(p) /\ SoloSkills(p)

Solo(p) ==
    /\ \A q \in Procs \ {p} : pc[q] = "idle"
    /\ IF pc[p] = "idle" THEN Answered(p) ELSE Working(p)

SoloInv == \A p \in Procs : alone = p => Solo(p)

\* The hypotheses of the lemmas about its steps.
Alone(p) == IInv /\ Solo(p) /\ UNCHANGED <<alone, before>>

\* Answered, and what it is answered from.
LEMMA AnsweredIsEnough == SoloInv => EndsAsAnswered
BY DEF SoloInv, Solo, Answered, EndsAsAnswered, Ended, At

\* A command that returns keeps only what it was asked, and its answer.
LEMMA SoloReturns ==
    ASSUME NEW p \in Procs, Alone(p), NEW result, Return(p, result),
           (result = "failed" =>
              /\ current' = before.current /\ links' = before.links
              /\ \A w \in Versions : before.tree[w] # Absent => tree'[w] = before.tree[w]),
           (result = "done" =>
              /\ current'.version = job[p].version
              /\ job[p].command # "activate" =>
                    tree'[job[p].version] = job[p].content /\ Exposed \subseteq links'
              /\ job[p].command = "install" /\ before.current.version = 1 =>
                    links' \cap Retired = {}),
           current' \in Layouts \cup {NoLayout}
    PROVE  Solo(p)'
<1> DEFINE work == [NoJob EXCEPT !.command = job[p].command, !.version = job[p].version,
                                 !.content = job[p].content, !.result = result]
<1>1. work.command = job[p].command /\ work.version = job[p].version
      /\ work.content = job[p].content /\ work.result = result
  BY DEF NoJob
<1>2. Goto(p, "idle", work) BY DEF Return
<1> HIDE DEF work
<1>3. pc'[p] = "idle" /\ job'[p] = work /\ \A q \in Procs \ {p} : pc'[q] = pc[q]
  BY <1>2, OfStep, GotoSets DEF Alone
<1>4. current'.kind # "missing" => current'.version \in Versions BY DEF Layouts, NoLayout
<1>5. before' = before BY DEF Alone
<1>6. Answered(p)' BY <1>1, <1>3, <1>4, <1>5 DEF Answered
<1> QED BY <1>3, <1>6 DEF Solo, Alone

\* A command that goes on.
LEMMA SoloGoesOn ==
    ASSUME NEW p \in Procs, Alone(p), NEW label, label # "idle", NEW work,
           Goto(p, label, work), Working(p)'
    PROVE  Solo(p)'
<1>1. pc'[p] = label /\ \A q \in Procs \ {p} : pc'[q] = pc[q]
  BY OfStep, GotoSets DEF Alone
<1> QED BY <1>1 DEF Solo, Alone

\* A command that fails before it has changed anything.
LEMMA SoloFailsEarly ==
    ASSUME NEW p \in Procs, Alone(p), pc[p] \in Untouched, UNCHANGED files,
           Return(p, "failed") \/ Return(p, "kept")
    PROVE  Solo(p)'
<1>1. pc[p] # "idle" /\ pc[p] \notin {"confirm", "restore", "rollback", "putback"}
  BY DEF Untouched
<1>2. Working(p) BY <1>1 DEF Alone, Solo
<1>3. /\ current' = before.current /\ links' = before.links
      /\ \A w \in Versions : before.tree[w] # Absent => tree'[w] = before.tree[w]
  BY <1>1, <1>2 DEF Working, SoloCurrent, SoloLinks, SoloTrees, files
<1>4. current' \in Layouts \cup {NoLayout}
  BY OfStep DEF Alone, FileTypes, files
<1> QED BY <1>3, <1>4, SoloReturns

\* A command that goes on and has not changed anything.
LEMMA SoloLooks ==
    ASSUME NEW p \in Procs, Alone(p), pc[p] \in Untouched, UNCHANGED files,
           NEW label \in Untouched, NEW work, Goto(p, label, work),
           work.command = job[p].command, work.backup = job[p].backup,
           work.placed = job[p].placed, work.created = job[p].created,
           work.removed = job[p].removed,
           label = "aside" /\ job[p].command = "install" =>
              /\ work.todo = Exposed \ links
              /\ before.current.version = 1 => Retired \cap links \subseteq work.obsolete
    PROVE  Solo(p)'
<1>1. pc[p] # "idle" /\ pc[p] \notin {"confirm", "restore", "rollback", "putback"}
      /\ label # "idle" /\ label \notin {"confirm", "restore", "rollback", "putback"}
      /\ label \notin {"put", "ensure", "create", "retire", "activate"}
      /\ label \notin Linking /\ (label \in Placing => label = "aside")
  BY DEF Untouched, Linking, Selecting, Placing
<1>2. Working(p) BY <1>1 DEF Alone, Solo
<1>3. pc'[p] = label /\ job'[p] = work /\ before' = before
  BY OfStep, GotoSets DEF Alone
<1>4. SoloCurrent(p)' BY <1>1, <1>2, <1>3 DEF Working, SoloCurrent, files
<1>5. SoloLinks(p)' BY <1>1, <1>2, <1>3 DEF Working, SoloLinks, files
<1>6. SoloTrees(p)' BY <1>1, <1>2, <1>3 DEF Working, SoloTrees, files
<1>7. SoloSkills(p)'
  BY <1>1, <1>3 DEF SoloSkills, files
<1> QED BY <1>1, <1>4, <1>5, <1>6, <1>7, SoloGoesOn DEF Working

\* A command with its tree in place goes on: what it did to the links it knows.
LEMMA SoloLinksOn ==
    ASSUME NEW p \in Procs, Alone(p), pc[p] \in Linking, pc[p] # "confirm",
           UNCHANGED <<tree, current>>,
           NEW label \in Linking, label # "confirm", NEW work, Goto(p, label, work),
           work.command = job[p].command, work.version = job[p].version,
           work.content = job[p].content, work.backup = job[p].backup,
           work.placed = job[p].placed,
           links' = (before.links \cup work.created) \ work.removed,
           work.created \cap before.links = {}, work.removed \subseteq before.links,
           job[p].command # "install" => work.removed = {},
           SoloSkills(p)'
    PROVE  Solo(p)'
<1>1. /\ pc[p] # "idle" /\ label # "idle"
      /\ pc[p] \notin Untouched /\ label \notin Untouched
      /\ label \notin {"put", "restore", "rollback", "putback"}
  BY DEF Untouched, Linking, Selecting
<1>2. Working(p) BY <1>1 DEF Alone, Solo
<1>3. pc'[p] = label /\ job'[p] = work /\ before' = before
  BY OfStep, GotoSets DEF Alone
<1>4. SoloCurrent(p)' BY <1>2, <1>3 DEF Working, SoloCurrent
<1>5. SoloLinks(p)' BY <1>1, <1>3 DEF SoloLinks
<1>6. SoloTrees(p)' BY <1>1, <1>2, <1>3 DEF Working, SoloTrees
<1> QED BY <1>1, <1>4, <1>5, <1>6, SoloGoesOn DEF Working

\* An update, or npm, that fails: without a backup its tree is one that was
\* not there before, or the very one that was.
LEMMA SoloFails ==
    ASSUME NEW p \in Procs, Alone(p), pc[p] \in Selecting, pc[p] # "confirm", Fail(p),
           UNCHANGED <<tree, current>>
    PROVE  Solo(p)'
<1>1. /\ pc[p] # "idle" /\ pc[p] \in Linking /\ pc[p] \notin Untouched
      /\ pc[p] \notin {"put", "restore", "rollback", "putback"}
  BY DEF Untouched, Linking, Selecting
<1>2. Working(p) /\ Knows(p) /\ before' = before /\ job[p].command # "install"
  BY <1>1, OfStep DEF Alone, Solo, Knows
<1>3. current' = before.current BY <1>1, <1>2 DEF Working, SoloCurrent
<1>4. links' = before.links BY <1>1, <1>2 DEF Fail, Working, SoloLinks
<1>5. \A w \in Versions \ {job[p].version} : tree'[w] = before.tree[w]
  BY <1>1, <1>2 DEF Working, SoloTrees
<1>6. CASE job[p].backup = Absent
  <2>1. Return(p, "failed") BY <1>6 DEF Fail
  <2>2. \A w \in Versions : before.tree[w] # Absent => tree'[w] = before.tree[w]
    BY <1>1, <1>2, <1>5, <1>6 DEF Working, SoloTrees
  <2>3. current' \in Layouts \cup {NoLayout} BY OfStep DEF Alone, FileTypes
  <2> QED BY <1>3, <1>4, <2>1, <2>2, <2>3, SoloReturns
<1>7. CASE job[p].backup # Absent
  <2>1. Goto(p, "restore", job[p]) BY <1>7 DEF Fail
  <2>2. pc'[p] = "restore" /\ job'[p] = job[p] BY <2>1, OfStep, GotoSets DEF Alone
  <2>3. job[p].placed /\ before.tree[job[p].version] = job[p].backup
    BY <1>1, <1>2, <1>7 DEF Working, SoloTrees
  <2>4. SoloCurrent(p)' BY <1>2, <1>3, <2>2 DEF SoloCurrent
  <2>5. SoloLinks(p)' BY <1>2, <1>4, <2>2 DEF Working, SoloLinks, Untouched
  <2>6. SoloTrees(p)'
    BY <1>1, <1>2, <1>5, <2>2, <2>3 DEF Working, SoloTrees, Untouched, Linking, Selecting
  <2>7. SoloSkills(p)' BY <2>2 DEF SoloSkills, Placing, Linking, Selecting
  <2> QED BY <2>1, <2>4, <2>5, <2>6, <2>7, SoloGoesOn DEF Working
<1> QED BY <1>6, <1>7

\* An installation that fails puts the links back, and its tree makes room.
LEMMA SoloUndoes ==
    ASSUME NEW p \in Procs, Alone(p), pc[p] \in {"create", "retire", "activate"}, Undo(p),
           UNCHANGED <<tree, current>>
    PROVE  Solo(p)'
<1>1. /\ pc[p] # "idle" /\ pc[p] \in Linking /\ pc[p] \notin Untouched /\ pc[p] # "confirm"
      /\ pc[p] \notin {"put", "restore", "rollback", "putback"}
  BY DEF Untouched, Linking, Selecting
<1>2. Working(p) /\ before' = before /\ job[p].command = "install"
  BY <1>1, OfStep DEF Alone, Solo, Knows, Installing
<1>3. current' = before.current BY <1>1, <1>2 DEF Working, SoloCurrent
<1>4. links' = before.links BY <1>1, <1>2 DEF Undo, Working, SoloLinks
<1>5. \A w \in Versions \ {job[p].version} : tree'[w] = before.tree[w]
  BY <1>1, <1>2 DEF Working, SoloTrees
<1>6. CASE ~job[p].placed
  <2>1. Return(p, "failed") BY <1>6 DEF Undo
  <2>2. \A w \in Versions : before.tree[w] # Absent => tree'[w] = before.tree[w]
    BY <1>1, <1>2, <1>5, <1>6 DEF Working, SoloTrees
  <2>3. current' \in Layouts \cup {NoLayout} BY OfStep DEF Alone, FileTypes
  <2> QED BY <1>3, <1>4, <2>1, <2>2, <2>3, SoloReturns
<1>7. CASE job[p].placed
  <2>1. Goto(p, "rollback", job[p]) BY <1>7 DEF Undo, Continue
  <2>2. pc'[p] = "rollback" /\ job'[p] = job[p] BY <2>1, OfStep, GotoSets DEF Alone
  <2>3. before.tree[job[p].version] = job[p].backup
    BY <1>1, <1>2, <1>7 DEF Working, SoloTrees
  <2>4. SoloCurrent(p)' BY <1>2, <1>3, <2>2 DEF SoloCurrent
  <2>5. SoloLinks(p)' BY <1>2, <1>4, <2>2 DEF Working, SoloLinks, Untouched
  <2>6. SoloTrees(p)'
    BY <1>1, <1>2, <1>5, <2>2, <2>3 DEF Working, SoloTrees, Untouched, Linking, Selecting
  <2>7. SoloSkills(p)' BY <2>2 DEF SoloSkills, Placing, Linking, Selecting
  <2> QED BY <2>1, <2>4, <2>5, <2>6, <2>7, SoloGoesOn DEF Working
<1> QED BY <1>6, <1>7

-----------------------------------------------------------------------------
(* Its steps                                                               *)

\* The looks of an update, of a refresh and of npm before anything is fetched.
LEMMA SoloInspects ==
    ASSUME NEW p \in Procs, Alone(p),
           \/ AutoProbe(p) \/ InspectCurrent(p) \/ Probe(p) \/ Compare(p) \/ InspectPackage(p)
    PROVE  Solo(p)'
<1> DEFINE looked == [job[p] EXCEPT !.managed = current.kind = "dir" /\ job[p].command = "update"]
           probed == [job[p] EXCEPT !.version = published]
<1>1. /\ pc[p] \in Untouched /\ UNCHANGED files
      /\ \/ Return(p, "failed") \/ Return(p, "kept")
         \/ \E label \in {"inspect", "download"} : Continue(p, label, job[p])
         \/ Continue(p, "probe", looked)
         \/ Continue(p, "compare", probed)
  BY DEF AutoProbe, InspectCurrent, Probe, Compare, InspectPackage, At, Untouched
<1>2. CASE Return(p, "failed") \/ Return(p, "kept") BY <1>1, <1>2, SoloFailsEarly
<1>3. ASSUME NEW label \in {"inspect", "download"}, Continue(p, label, job[p])
      PROVE  Solo(p)'
  BY <1>1, <1>3, SoloLooks DEF Continue, Untouched
<1>4. CASE Continue(p, "probe", looked)
  <2>1. /\ looked.command = job[p].command /\ looked.backup = job[p].backup
        /\ looked.placed = job[p].placed /\ looked.created = job[p].created
        /\ looked.removed = job[p].removed
    BY OfStep DEF Jobs, Alone
  <2> HIDE DEF looked
  <2> QED BY <1>1, <1>4, <2>1, SoloLooks DEF Continue, Untouched
<1>5. CASE Continue(p, "compare", probed)
  <2>1. /\ probed.command = job[p].command /\ probed.backup = job[p].backup
        /\ probed.placed = job[p].placed /\ probed.created = job[p].created
        /\ probed.removed = job[p].removed
    BY OfStep DEF Jobs, Alone
  <2> HIDE DEF probed
  <2> QED BY <1>1, <1>5, <2>1, SoloLooks DEF Continue, Untouched
<1> QED BY <1>1, <1>2, <1>3, <1>4, <1>5

\* The locks of an installation.
LEMMA SoloLocks ==
    ASSUME NEW p \in Procs, Alone(p), LockConfiguration(p) \/ LockCurrent(p)
    PROVE  Solo(p)'
<1>1. /\ pc[p] \in Untouched /\ UNCHANGED files
      /\ \E label \in {"exclude", "preflight"} : Goto(p, label, job[p])
  BY DEF LockConfiguration, LockCurrent, At, Untouched
<1> QED BY <1>1, SoloLooks DEF Untouched

\* A command comes to put its tree where none is, or finds the one it wants.
LEMMA SoloPrepared ==
    ASSUME NEW p \in Procs, Alone(p), pc[p] \in Untouched, UNCHANGED files,
           job[p].version \in Versions, job[p].command # "activate",
           NEW label \in {"put", "ensure", "create"}, NEW work, Goto(p, label, work),
           work.command = job[p].command, work.version = job[p].version,
           work.content = job[p].content, work.backup = job[p].backup,
           work.placed = job[p].placed, work.created = job[p].created,
           work.removed = job[p].removed,
           tree[job[p].version] = IF label = "put" THEN Absent ELSE job[p].content,
           label # "put" => Exposed \ work.todo \subseteq links,
           job[p].command = "install" =>
              /\ label = "put" => work.todo = Exposed \ links
              /\ before.current.version = 1 => Retired \cap links \subseteq work.obsolete
    PROVE  Solo(p)'
<1>1. pc[p] # "idle" /\ pc[p] \notin {"confirm", "restore", "rollback", "putback"}
      /\ label # "idle" /\ label \notin Untouched
      /\ label \notin {"confirm", "restore", "rollback", "putback", "activate"}
  BY DEF Untouched
<1>2. Working(p) BY <1>1 DEF Alone, Solo
<1>3. pc'[p] = label /\ job'[p] = work /\ before' = before
  BY OfStep, GotoSets DEF Alone
<1>4. SoloCurrent(p)' BY <1>1, <1>2, <1>3 DEF Working, SoloCurrent, files
<1>5. SoloLinks(p)' BY <1>1, <1>2, <1>3 DEF Working, SoloLinks, files
<1>6. SoloTrees(p)'
  BY <1>1, <1>2, <1>3 DEF Working, SoloTrees, Linking, Selecting, files
<1>7. SoloSkills(p)'
  BY <1>1, <1>3 DEF SoloSkills, Linking, Selecting, Placing, files
<1> QED BY <1>1, <1>4, <1>5, <1>6, <1>7, SoloGoesOn DEF Working

\* The look at the tree after the download.
LEMMA SoloDownloads ==
    ASSUME NEW p \in Procs, Alone(p), Download(p)
    PROVE  Solo(p)'
<1> DEFINE work == [job[p] EXCEPT !.todo = Exposed]
<1>1. /\ pc[p] = "download" /\ pc[p] \in Untouched /\ UNCHANGED files
      /\ job[p].version \in Versions /\ job[p].command \notin {"activate", "install"}
  BY OfStep DEF Download, At, Untouched, Alone, Knows, Fetching, Early
<1>2. \/ Return(p, "failed")
      \/ tree[job[p].version] = job[p].content /\ Continue(p, "ensure", work)
      \/ tree[job[p].version] = Absent /\ Continue(p, "put", job[p])
      \/ Continue(p, "aside", job[p])
  BY DEF Download, InstalledTree
<1>3. CASE Return(p, "failed") BY <1>1, <1>3, SoloFailsEarly
<1>4. CASE tree[job[p].version] = job[p].content /\ Continue(p, "ensure", work)
  <2>1. /\ work.command = job[p].command /\ work.version = job[p].version
        /\ work.content = job[p].content /\ work.backup = job[p].backup
        /\ work.created = job[p].created /\ work.removed = job[p].removed
        /\ work.todo = Exposed
    BY OfStep DEF Jobs, Alone
  <2>2. work.placed = job[p].placed BY OfStep DEF Jobs, Alone
  <2>3. Exposed \ work.todo \subseteq links BY <2>1
  <2> HIDE DEF work
  <2> QED BY <1>1, <1>4, <2>1, <2>2, <2>3, SoloPrepared DEF Continue
<1>5. CASE tree[job[p].version] = Absent /\ Continue(p, "put", job[p])
  BY <1>1, <1>5, SoloPrepared DEF Continue
<1>6. CASE Continue(p, "aside", job[p])
  BY <1>1, <1>6, SoloLooks DEF Continue, Untouched
<1> QED BY <1>2, <1>3, <1>4, <1>5, <1>6

\* The look of an installation at all it will change.
LEMMA SoloPreflights ==
    ASSUME NEW p \in Procs, Alone(p), Preflight(p)
    PROVE  Solo(p)'
<1> DEFINE v == job[p].version
           work == [job[p] EXCEPT !.todo = Exposed \ links, !.obsolete = Obsolete]
<1>1. /\ pc[p] = "preflight" /\ pc[p] \in Untouched /\ UNCHANGED files
      /\ v \in Versions /\ job[p].command = "install" /\ pc[p] \notin {"idle", "confirm"}
  BY OfStep DEF Preflight, At, Untouched, Alone, Knows, Installing, Early
<1>2. \/ Return(p, "failed")
      \/ /\ Inspectable /\ current.kind # "link"
         /\ \/ tree[v] = job[p].content /\ Continue(p, "create", work)
            \/ tree[v] = Absent /\ Continue(p, "put", work)
            \/ Continue(p, "aside", work)
  BY DEF Preflight
<1>3. CASE Return(p, "failed") BY <1>1, <1>3, SoloFailsEarly
<1>4. ASSUME Inspectable, current.kind # "link", before.current.version = 1
      PROVE  Retired \cap links \subseteq Obsolete
  <2>1. Working(p) BY <1>1 DEF Alone, Solo
  <2>2. current = before.current BY <1>1, <2>1 DEF Working, SoloCurrent
  <2>3. current.kind = "dir"
    BY <1>4, <2>2, OfStep DEF Alone, FileTypes, Layouts, NoLayout
  <2> QED BY <1>4, <2>2, <2>3 DEF Obsolete, Inspectable
<1>5. /\ work.command = job[p].command /\ work.version = job[p].version
      /\ work.content = job[p].content /\ work.backup = job[p].backup
      /\ work.created = job[p].created /\ work.removed = job[p].removed
      /\ work.todo = Exposed \ links /\ work.obsolete = Obsolete
  BY OfStep DEF Jobs, Alone
<1>6. work.placed = job[p].placed BY OfStep DEF Jobs, Alone
<1>7. Exposed \ work.todo \subseteq links BY <1>5
<1> HIDE DEF work
<1>8. CASE Inspectable /\ current.kind # "link"
           /\ tree[v] = job[p].content /\ Continue(p, "create", work)
  BY <1>1, <1>4, <1>5, <1>6, <1>7, <1>8, SoloPrepared DEF Continue
<1>9. CASE Inspectable /\ current.kind # "link"
           /\ tree[v] = Absent /\ Continue(p, "put", work)
  BY <1>1, <1>4, <1>5, <1>6, <1>9, SoloPrepared DEF Continue
<1>10. CASE Inspectable /\ current.kind # "link" /\ Continue(p, "aside", work)
  BY <1>1, <1>4, <1>5, <1>6, <1>10, SoloLooks DEF Continue, Untouched
<1> QED BY <1>2, <1>3, <1>8, <1>9, <1>10

\* The old tree is the backup.
LEMMA SoloMovesAside ==
    ASSUME NEW p \in Procs, Alone(p), MoveAside(p)
    PROVE  Solo(p)'
<1> DEFINE v == job[p].version
           work == [job[p] EXCEPT !.backup = tree[v]]
<1>1. /\ pc[p] = "aside" /\ pc[p] \in Untouched
      /\ v \in Versions /\ job[p].command \notin {"none", "activate"}
      /\ UNCHANGED <<current, retained, links>>
  BY OfStep DEF MoveAside, At, Untouched, Alone, Knows, Placing, Early
<1>2. CASE Return(p, "failed") /\ UNCHANGED tree
  BY <1>1, <1>2, SoloFailsEarly DEF files
<1>3. CASE tree' = [tree EXCEPT ![v] = Absent] /\ Continue(p, "put", work)
  <2>1. Working(p) /\ before' = before BY <1>1 DEF Alone, Solo
  <2>2. /\ work.command = job[p].command /\ work.version = job[p].version
        /\ work.backup = tree[v] /\ work.todo = job[p].todo /\ work.obsolete = job[p].obsolete
        /\ work.created = job[p].created /\ work.removed = job[p].removed
    BY OfStep DEF Jobs, Alone
  <2>3. work.placed = job[p].placed BY OfStep DEF Jobs, Alone
  <2> HIDE DEF work
  <2>4. pc'[p] = "put" /\ job'[p] = work /\ Goto(p, "put", work)
    BY <1>3, OfStep, GotoSets DEF Alone, Continue
  <2>5. SoloCurrent(p)' BY <1>1, <2>1, <2>4 DEF Working, SoloCurrent
  <2>6. SoloLinks(p)' BY <1>1, <2>1, <2>2, <2>4 DEF Working, SoloLinks, Untouched
  <2>7. tree'[v] = Absent /\ \A w \in Versions \ {v} : tree'[w] = tree[w]
    BY <1>1, <1>3, OfStep DEF Alone, FileTypes
  <2>8. SoloTrees(p)'
    BY <1>1, <2>1, <2>2, <2>3, <2>4, <2>7
    DEF Working, SoloTrees, Untouched, Linking, Selecting
  <2>9. SoloSkills(p)'
    BY <1>1, <2>1, <2>2, <2>4 DEF Working, SoloSkills, Linking, Selecting, Placing
  <2> QED BY <2>4, <2>5, <2>6, <2>8, <2>9, SoloGoesOn DEF Working
<1> QED BY <1>2, <1>3 DEF MoveAside

\* The staged tree is in its place, or the backup is again.
LEMMA SoloPuts ==
    ASSUME NEW p \in Procs, Alone(p), PutTree(p)
    PROVE  Solo(p)'
<1> DEFINE v == job[p].version
           work == Placed(p)
<1>1. /\ pc[p] = "put" /\ v \in Versions /\ job[p].command \notin {"none", "activate"}
      /\ UNCHANGED <<current, retained, links>>
  BY OfStep DEF PutTree, At, Alone, Knows, Placing, Early
<1>2. Working(p) /\ before' = before BY <1>1 DEF Alone, Solo
<1>3. CASE tree' = [tree EXCEPT ![v] = job[p].content] /\ Continue(p, AfterPut(p), work)
  <2>1. /\ work.command = job[p].command /\ work.version = job[p].version
        /\ work.content = job[p].content
        /\ work.backup = job[p].backup /\ work.obsolete = job[p].obsolete
        /\ work.created = job[p].created /\ work.removed = job[p].removed
        /\ work.todo = IF job[p].command = "install" THEN job[p].todo ELSE Exposed
    BY OfStep DEF Jobs, Alone, Placed
  <2>2. work.placed BY OfStep DEF Jobs, Alone, Placed
  <2> HIDE DEF work
  <2>3. pc'[p] = AfterPut(p) /\ job'[p] = work /\ Goto(p, AfterPut(p), work)
    BY <1>3, OfStep, GotoSets DEF Alone, Continue
  <2>4. /\ AfterPut(p) \in {"create", "ensure"} /\ AfterPut(p) \in Linking
        /\ AfterPut(p) = "create" <=> job[p].command = "install"
    BY DEF AfterPut, Linking, Selecting
  <2>5. SoloCurrent(p)' BY <1>1, <1>2, <2>3, <2>4 DEF Working, SoloCurrent
  <2>6. SoloLinks(p)' BY <1>1, <1>2, <2>1, <2>3, <2>4 DEF Working, SoloLinks, Untouched
  <2>7. tree'[v] = job[p].content /\ \A w \in Versions \ {v} : tree'[w] = tree[w]
    BY <1>1, <1>3, OfStep DEF Alone, FileTypes
  <2>8. SoloTrees(p)'
    BY <1>1, <1>2, <2>1, <2>2, <2>3, <2>4, <2>7 DEF Working, SoloTrees, Untouched
  <2>9. SoloSkills(p)'
    BY <1>1, <1>2, <2>1, <2>3, <2>4 DEF Working, SoloSkills, Linking, Selecting, Placing
  <2> QED BY <2>3, <2>4, <2>5, <2>6, <2>8, <2>9, SoloGoesOn DEF Working
<1>4. CASE /\ Return(p, "failed")
           /\ IF tree[v] = Absent THEN tree' = [tree EXCEPT ![v] = job[p].backup]
              ELSE UNCHANGED tree
  <2>1. tree[v] = Absent /\ before.tree[v] = job[p].backup
        /\ \A w \in Versions \ {v} : tree[w] = before.tree[w]
    BY <1>1, <1>2 DEF Working, SoloTrees, Untouched
  <2>2. \A w \in Versions : tree'[w] = before.tree[w]
    BY <1>1, <1>4, <2>1, OfStep DEF Alone, FileTypes
  <2>3. current' = before.current /\ links' = before.links
    BY <1>1, <1>2 DEF Working, SoloCurrent, SoloLinks
  <2>4. current' \in Layouts \cup {NoLayout} BY <1>1, OfStep DEF Alone, FileTypes
  <2> QED BY <1>4, <2>2, <2>3, <2>4, SoloReturns
<1> QED BY <1>3, <1>4 DEF PutTree

\* What a command with its tree in place knows.
LEMMA SoloKnows ==
    ASSUME NEW p \in Procs, Alone(p), pc[p] \in Linking
    PROVE  /\ Working(p) /\ pc[p] # "idle"
           /\ links = (before.links \cup job[p].created) \ job[p].removed
           /\ job[p].created \cap before.links = {} /\ job[p].removed \subseteq before.links
           /\ job[p].command # "install" => job[p].removed = {}
<1>1. /\ pc[p] # "idle" /\ pc[p] \notin {"restore", "rollback", "putback"}
  BY DEF Linking, Selecting
<1> QED BY <1>1 DEF Alone, Solo, Working, SoloLinks

\* An update's link: it is one that the command created, or it was there.
LEMMA SoloEnsures ==
    ASSUME NEW p \in Procs, Alone(p), EnsureLink(p)
    PROVE  Solo(p)'
<1> DEFINE link == CHOOSE l \in job[p].todo : TRUE
           rest == [job[p] EXCEPT !.todo = @ \ {link}]
           more == [rest EXCEPT !.created = @ \cup {link}]
<1>1. /\ pc[p] = "ensure" /\ pc[p] \in Selecting /\ pc[p] \in Linking
      /\ job[p].command # "install" /\ UNCHANGED <<tree, current>>
  BY OfStep DEF EnsureLink, At, Selecting, Linking, Alone, Knows
<1>2. Working(p) BY <1>1, SoloKnows
<1>3. before' = before BY DEF Alone
<1>4. CASE job[p].todo = {} /\ Continue(p, AfterLinks(p), job[p]) /\ UNCHANGED links
  <2>1. AfterLinks(p) \in {"select", "sync", "check"} BY DEF AfterLinks
  <2>2. AfterLinks(p) \in Linking \ {"confirm"} BY <2>1 DEF Linking, Selecting
  <2>3. pc'[p] = AfterLinks(p) /\ job'[p] = job[p]
    BY <1>4, OfStep, GotoSets DEF Alone, Continue
  <2>4. SoloSkills(p)'
    BY <1>1, <1>2, <1>3, <1>4, <2>1, <2>3 DEF Working, SoloSkills, Placing
  <2>5. Goto(p, AfterLinks(p), job[p]) BY <1>4 DEF Continue
  <2> QED BY <1>1, <1>4, <2>2, <2>4, <2>5, SoloKnows, SoloLinksOn
<1>5. CASE /\ job[p].todo # {} /\ links' = links \cup {link}
           /\ Continue(p, "ensure", IF link \in links THEN rest ELSE more)
  <2>1. rest.command = job[p].command /\ rest.version = job[p].version
        /\ rest.content = job[p].content /\ rest.backup = job[p].backup
        /\ rest.created = job[p].created /\ rest.removed = job[p].removed
        /\ rest.todo = job[p].todo \ {link} /\ rest \in Jobs
    BY OfStep DEF Jobs, Alone
  <2>2. rest.placed = job[p].placed BY OfStep DEF Jobs, Alone
  <2> HIDE DEF rest
  <2>3. more.command = job[p].command /\ more.version = job[p].version
        /\ more.content = job[p].content /\ more.backup = job[p].backup
        /\ more.created = job[p].created \cup {link} /\ more.removed = job[p].removed
        /\ more.todo = job[p].todo \ {link}
    BY <2>1 DEF Jobs
  <2>4. more.placed = job[p].placed BY <2>1, <2>2 DEF Jobs
  <2> HIDE DEF more, link
  <2>5. PICK work : /\ work = IF link \in links THEN rest ELSE more
                    /\ Goto(p, "ensure", work)
    BY <1>5 DEF Continue
  <2>6. /\ work.command = job[p].command /\ work.version = job[p].version
        /\ work.content = job[p].content /\ work.backup = job[p].backup
        /\ work.created = (IF link \in links THEN job[p].created ELSE job[p].created \cup {link})
        /\ work.removed = job[p].removed /\ work.todo = job[p].todo \ {link}
    BY <2>1, <2>3, <2>5
  <2>7. work.placed = job[p].placed BY <2>2, <2>4, <2>5
  <2>8. pc'[p] = "ensure" /\ job'[p] = work BY <2>5, OfStep, GotoSets DEF Alone
  <2>9. /\ links' = (before.links \cup work.created) \ work.removed
        /\ work.created \cap before.links = {} /\ work.removed \subseteq before.links
        /\ job[p].command # "install" => work.removed = {}
    BY <1>1, <1>5, <2>6, SoloKnows
  <2>10. Exposed \ work.todo \subseteq links'
    BY <1>1, <1>2, <1>5, <2>6 DEF Working, SoloSkills
  <2>11. SoloSkills(p)' BY <1>1, <2>6, <2>8, <2>10 DEF SoloSkills, Placing
  <2> QED BY <1>1, <2>5, <2>6, <2>7, <2>9, <2>11, SoloLinksOn
<1>6. CASE Fail(p) BY <1>1, <1>6, SoloFails
<1> QED BY <1>4, <1>5, <1>6 DEF EnsureLink

\* A command that goes on with its links as they are.
LEMMA SoloKeepsLinks ==
    ASSUME NEW p \in Procs, Alone(p), pc[p] \in Linking \ {"confirm"},
           UNCHANGED <<tree, current, links>>,
           NEW label \in Linking \ {"confirm", "ensure", "create", "retire", "activate"},
           pc[p] \notin {"ensure", "create"}, NEW work, Goto(p, label, work),
           work.command = job[p].command, work.version = job[p].version,
           work.content = job[p].content, work.backup = job[p].backup,
           work.placed = job[p].placed, work.created = job[p].created,
           work.removed = job[p].removed
    PROVE  Solo(p)'
<1>1. Working(p) BY SoloKnows
<1>2. pc'[p] = label /\ job'[p] = work BY OfStep, GotoSets DEF Alone
<1>3. label \notin Placing BY DEF Linking, Selecting, Placing
<1>4. SoloSkills(p)' BY <1>1, <1>2, <1>3 DEF Working, SoloSkills
<1> QED BY <1>4, SoloKnows, SoloLinksOn

\* The configuration is synchronized, and the switch is looked at.
LEMMA SoloChecks ==
    ASSUME NEW p \in Procs, Alone(p), SyncConfiguration(p) \/ CheckSwitch(p)
    PROVE  Solo(p)'
<1> DEFINE work == [job[p] EXCEPT !.managed = current.kind = "dir"]
<1>1. /\ pc[p] \in {"sync", "check"} /\ pc[p] \in Selecting /\ pc[p] \in Linking
      /\ UNCHANGED <<tree, current>>
  BY DEF SyncConfiguration, CheckSwitch, At, Selecting, Linking
<1>2. \/ Fail(p)
      \/ Continue(p, "check", job[p]) /\ UNCHANGED links
      \/ Continue(p, "switch", work) /\ UNCHANGED links
  BY DEF SyncConfiguration, CheckSwitch
<1>3. CASE Fail(p) BY <1>1, <1>3, SoloFails
<1>4. CASE Continue(p, "check", job[p]) /\ UNCHANGED links
  BY <1>1, <1>4, SoloKeepsLinks DEF Continue, Linking, Selecting
<1>5. CASE Continue(p, "switch", work) /\ UNCHANGED links
  <2>1. work.command = job[p].command /\ work.version = job[p].version
        /\ work.content = job[p].content /\ work.backup = job[p].backup
        /\ work.created = job[p].created /\ work.removed = job[p].removed
    BY OfStep DEF Jobs, Alone
  <2>2. work.placed = job[p].placed BY OfStep DEF Jobs, Alone
  <2> HIDE DEF work
  <2> QED BY <1>1, <1>5, <2>1, <2>2, SoloKeepsLinks DEF Continue, Linking, Selecting
<1> QED BY <1>2, <1>3, <1>4, <1>5

\* A release that is selected, with every Skill linked, is what was asked for.
LEMMA SoloSucceeds ==
    ASSUME NEW p \in Procs, Alone(p), pc[p] \in Linking \ {"ensure", "create"},
           UNCHANGED <<tree, links>>, Return(p, "done"),
           current' \in Layouts, current'.version = job[p].version,
           job[p].command = "install" => pc[p] = "activate"
    PROVE  Solo(p)'
<1>1. Working(p) /\ before' = before BY SoloKnows DEF Alone
<1>2. job[p].command # "activate" =>
         tree'[job[p].version] = job[p].content /\ Exposed \subseteq links'
  BY <1>1 DEF Working, SoloTrees, SoloSkills
<1>3. job[p].command = "install" /\ before.current.version = 1 => links' \cap Retired = {}
  BY <1>1 DEF Working, SoloSkills
<1> QED BY <1>2, <1>3, SoloReturns

\* The switch of a binary ends: it has selected the release.
LEMMA SoloConcludes ==
    ASSUME NEW p \in Procs, Alone(p), pc[p] \in {"switch", "move"},
           UNCHANGED <<tree, links>>, Conclude(p), job[p].version \in Versions,
           current' = [kind |-> "link", version |-> job[p].version]
    PROVE  Solo(p)'
<1>1. /\ pc[p] \in Linking /\ pc[p] \in Selecting /\ pc[p] \notin Untouched
      /\ job[p].command # "install"
  BY OfStep DEF Linking, Selecting, Untouched, Alone, Knows
<1>2. Working(p) /\ before' = before BY <1>1, SoloKnows DEF Alone
<1>3. CASE job[p].command # "npm"
  <2>1. Return(p, "done") BY <1>3 DEF Conclude
  <2>2. current' \in Layouts /\ current'.version = job[p].version BY DEF Layouts
  <2> QED BY <1>1, <2>1, <2>2, SoloSucceeds
<1>4. CASE job[p].command = "npm"
  <2>1. Goto(p, "confirm", job[p]) BY <1>4 DEF Conclude
  <2>2. pc'[p] = "confirm" /\ job'[p] = job[p] BY <2>1, OfStep, GotoSets DEF Alone
  <2>3. "confirm" \in Linking \ {"ensure", "create", "retire", "activate"}
        /\ "confirm" \notin Untouched /\ "confirm" \notin Placing
    BY DEF Linking, Selecting, Untouched, Placing
  <2>4. SoloCurrent(p)' BY <2>2 DEF SoloCurrent
  <2>5. SoloLinks(p)' BY <1>1, <1>2, <2>2, <2>3 DEF Working, SoloLinks
  <2>6. SoloTrees(p)' BY <1>1, <1>2, <2>2, <2>3 DEF Working, SoloTrees
  <2>7. SoloSkills(p)' BY <1>1, <1>2, <2>2, <2>3 DEF Working, SoloSkills
  <2> QED BY <2>1, <2>4, <2>5, <2>6, <2>7, SoloGoesOn DEF Working
<1> QED BY <1>3, <1>4

\* The switch with the lock, and the move.
LEMMA SoloSwitches ==
    ASSUME NEW p \in Procs, Alone(p), LockSwitch(p) \/ MoveCurrent(p)
    PROVE  Solo(p)'
<1> DEFINE work == [job[p] EXCEPT !.managed = current.kind = "dir"]
<1>1. /\ pc[p] \in {"switch", "move"} /\ pc[p] \in Selecting /\ pc[p] \in Linking
      /\ UNCHANGED tree /\ job[p].version \in Versions
  BY OfStep DEF LockSwitch, MoveCurrent, At, Selecting, Linking, Alone, Knows, Early
<1>2. \/ Fail(p) /\ UNCHANGED current
      \/ /\ current' = [kind |-> "link", version |-> job[p].version]
         /\ Conclude(p) /\ UNCHANGED links
      \/ Goto(p, "move", work) /\ UNCHANGED <<current, links>>
  BY DEF LockSwitch, MoveCurrent
<1>3. CASE Fail(p) /\ UNCHANGED current BY <1>1, <1>3, SoloFails
<1>4. CASE /\ current' = [kind |-> "link", version |-> job[p].version]
           /\ Conclude(p) /\ UNCHANGED links
  BY <1>1, <1>4, SoloConcludes
<1>5. CASE Goto(p, "move", work) /\ UNCHANGED <<current, links>>
  <2>1. work.command = job[p].command /\ work.version = job[p].version
        /\ work.content = job[p].content /\ work.backup = job[p].backup
        /\ work.created = job[p].created /\ work.removed = job[p].removed
    BY OfStep DEF Jobs, Alone
  <2>2. work.placed = job[p].placed BY OfStep DEF Jobs, Alone
  <2> HIDE DEF work
  <2> QED BY <1>1, <1>5, <2>1, <2>2, SoloKeepsLinks DEF Linking, Selecting
<1> QED BY <1>2, <1>3, <1>4, <1>5

\* The selection of npm, its rename, and its last look.
LEMMA SoloSelects ==
    ASSUME NEW p \in Procs, Alone(p), SelectRelease(p) \/ Relink(p) \/ ConfirmSwitch(p)
    PROVE  Solo(p)'
<1> DEFINE selected == [kind |-> "link", version |-> job[p].version]
<1>1. /\ pc[p] \in {"select", "relink", "confirm"} /\ pc[p] \in Selecting /\ pc[p] \in Linking
      /\ UNCHANGED tree /\ job[p].version \in Versions /\ job[p].command # "install"
  BY OfStep
  DEF SelectRelease, Relink, ConfirmSwitch, At, Selecting, Linking, Alone, Knows, Early
<1>2. Working(p) BY <1>1, SoloKnows
<1>3. \/ Fail(p) /\ UNCHANGED current /\ (pc[p] = "confirm" => current # selected)
      \/ current' = selected /\ Return(p, "done") /\ UNCHANGED links
      \/ /\ \E label \in {"check", "relink"} : Continue(p, label, job[p])
         /\ pc[p] = "select" /\ UNCHANGED <<current, links>>
  BY DEF SelectRelease, Relink, ConfirmSwitch, At
<1>4. CASE Fail(p) /\ UNCHANGED current /\ (pc[p] = "confirm" => current # selected)
  <2>1. pc[p] # "confirm" BY <1>2, <1>4 DEF Working, SoloCurrent
  <2> QED BY <1>1, <1>4, <2>1, SoloFails
<1>5. CASE current' = selected /\ Return(p, "done") /\ UNCHANGED links
  <2>1. current' \in Layouts /\ current'.version = job[p].version
    BY <1>1, <1>5 DEF Layouts
  <2> QED BY <1>1, <1>5, <2>1, SoloSucceeds
<1>6. ASSUME NEW label \in {"check", "relink"}, Continue(p, label, job[p]),
             pc[p] = "select", UNCHANGED <<current, links>>
      PROVE  Solo(p)'
  BY <1>1, <1>6, SoloKeepsLinks DEF Continue, Linking, Selecting
<1> QED BY <1>3, <1>4, <1>5, <1>6

\* The tree that a failed command puts back is the one that was there.
LEMMA SoloRestores ==
    ASSUME NEW p \in Procs, Alone(p), RestoreRelease(p) \/ PutBack(p)
    PROVE  Solo(p)'
<1> DEFINE v == job[p].version
<1>1. /\ pc[p] \in {"restore", "putback"} /\ v \in Versions
      /\ UNCHANGED <<current, links>> /\ Return(p, "failed")
  BY OfStep DEF RestoreRelease, PutBack, At, Alone, Knows, Early
<1>2. Working(p) BY <1>1 DEF Alone, Solo
<1>3. /\ before.tree[v] = job[p].backup /\ \A w \in Versions \ {v} : tree[w] = before.tree[w]
      /\ current = before.current /\ links = before.links
  BY <1>1, <1>2 DEF Working, SoloTrees, SoloCurrent, SoloLinks, Untouched
<1>4. CASE RestoreRelease(p)
  <2>1. pc[p] = "restore" BY <1>4 DEF RestoreRelease, At
  <2>2. tree[v] # Absent
    <3>1. job[p].backup # Absent /\ job[p].command \notin {"none", "install"}
      BY <2>1, OfStep DEF Alone, Knows
    <3>2. job[p].command \notin {"none", "activate"} => job[p].content # Absent
      BY OfStep DEF Alone, Knows
    <3>3. job[p].command # "activate" BY <1>2, <3>1 DEF Working, SoloTrees
    <3>4. tree[v] = job[p].content BY <1>2, <2>1, <3>3 DEF Working, SoloTrees
    <3> QED BY <3>1, <3>2, <3>3, <3>4
  <2>3. tree' = [tree EXCEPT ![v] = job[p].backup] BY <1>4, <2>2 DEF RestoreRelease
  <2>4. \A w \in Versions : tree'[w] = before.tree[w]
    BY <1>1, <1>3, <2>3, OfStep DEF Alone, FileTypes
  <2>5. current' \in Layouts \cup {NoLayout} BY <1>1, OfStep DEF Alone, FileTypes
  <2> QED BY <1>1, <1>3, <2>4, <2>5, SoloReturns
<1>5. CASE PutBack(p)
  <2>1. pc[p] = "putback" BY <1>5 DEF PutBack, At
  <2>2. tree[v] = Absent BY <1>2, <2>1 DEF Working, SoloTrees
  <2>3. tree' = [tree EXCEPT ![v] = job[p].backup] BY <1>5, <2>2 DEF PutBack
  <2>4. \A w \in Versions : tree'[w] = before.tree[w]
    BY <1>1, <1>3, <2>3, OfStep DEF Alone, FileTypes
  <2>5. current' \in Layouts \cup {NoLayout} BY <1>1, OfStep DEF Alone, FileTypes
  <2> QED BY <1>1, <1>3, <2>4, <2>5, SoloReturns
<1> QED BY <1>4, <1>5

\* An installation creates the links that are not there.
LEMMA SoloCreates ==
    ASSUME NEW p \in Procs, Alone(p), CreateLink(p)
    PROVE  Solo(p)'
<1> DEFINE link == CHOOSE l \in job[p].todo : TRUE
           work == [job[p] EXCEPT !.todo = @ \ {link}, !.created = @ \cup {link}]
<1>1. /\ pc[p] = "create" /\ pc[p] \in Linking /\ job[p].command = "install"
      /\ UNCHANGED <<tree, current>>
  BY OfStep DEF CreateLink, At, Linking, Selecting, Alone, Knows, Installing
<1>2. Working(p) /\ before' = before BY <1>1, SoloKnows DEF Alone
<1>3. CASE job[p].todo = {} /\ Continue(p, "retire", job[p]) /\ UNCHANGED links
  <2>1. pc'[p] = "retire" /\ job'[p] = job[p] /\ Goto(p, "retire", job[p])
    BY <1>3, OfStep, GotoSets DEF Alone, Continue
  <2>2. SoloSkills(p)'
    BY <1>1, <1>2, <1>3, <2>1 DEF Working, SoloSkills, Placing
  <2> QED BY <1>1, <1>3, <2>1, <2>2, SoloKnows, SoloLinksOn DEF Linking
<1>4. CASE /\ job[p].todo # {} /\ link \notin links /\ links' = links \cup {link}
           /\ Continue(p, "create", work)
  <2>1. link \in Exposed
    <3>1. link \in job[p].todo BY <1>4
    <3> QED BY <3>1, OfStep DEF Alone, Jobs
  <2>2. work.command = job[p].command /\ work.version = job[p].version
        /\ work.content = job[p].content /\ work.backup = job[p].backup
        /\ work.created = job[p].created \cup {link} /\ work.removed = job[p].removed
        /\ work.todo = job[p].todo \ {link} /\ work.obsolete = job[p].obsolete
    BY OfStep DEF Jobs, Alone
  <2>3. work.placed = job[p].placed BY OfStep DEF Jobs, Alone
  <2> HIDE DEF work, link
  <2>4. pc'[p] = "create" /\ job'[p] = work /\ Goto(p, "create", work)
    BY <1>4, OfStep, GotoSets DEF Alone, Continue
  <2>5. link \notin job[p].removed
    BY <2>1, OfStep, ReleaseAssumption DEF Alone, Jobs
  <2>6. SoloSkills(p)'
    BY <1>1, <1>2, <1>4, <2>1, <2>2, <2>4, ReleaseAssumption DEF Working, SoloSkills, Placing
  <2> QED BY <1>1, <1>4, <2>2, <2>3, <2>4, <2>5, <2>6, SoloKnows, SoloLinksOn
<1>5. CASE Undo(p) BY <1>1, <1>5, SoloUndoes
<1> QED BY <1>3, <1>4, <1>5 DEF CreateLink

\* And removes those of the Skills that its release does not expose.
LEMMA SoloRetires ==
    ASSUME NEW p \in Procs, Alone(p), RetireLink(p)
    PROVE  Solo(p)'
<1> DEFINE link == CHOOSE l \in job[p].obsolete : TRUE
           work == [job[p] EXCEPT !.obsolete = @ \ {link}, !.removed = @ \cup {link}]
<1>1. /\ pc[p] = "retire" /\ pc[p] \in Linking /\ job[p].command = "install"
      /\ UNCHANGED <<tree, current>>
  BY OfStep DEF RetireLink, At, Linking, Selecting, Alone, Knows, Installing
<1>2. Working(p) /\ before' = before BY <1>1, SoloKnows DEF Alone
<1>3. CASE job[p].obsolete = {} /\ Continue(p, "activate", job[p]) /\ UNCHANGED links
  <2>1. pc'[p] = "activate" /\ job'[p] = job[p] /\ Goto(p, "activate", job[p])
    BY <1>3, OfStep, GotoSets DEF Alone, Continue
  <2>2. SoloSkills(p)'
    BY <1>1, <1>2, <1>3, <2>1 DEF Working, SoloSkills, Placing
  <2> QED BY <1>1, <1>3, <2>1, <2>2, SoloKnows, SoloLinksOn DEF Linking
<1>4. CASE /\ job[p].obsolete # {} /\ link \in links /\ links' = links \ {link}
           /\ Continue(p, "retire", work)
  <2>1. link \in Retired
    <3>1. link \in job[p].obsolete BY <1>4
    <3> QED BY <3>1, OfStep DEF Alone, Jobs
  <2>2. work.command = job[p].command /\ work.version = job[p].version
        /\ work.content = job[p].content /\ work.backup = job[p].backup
        /\ work.created = job[p].created /\ work.removed = job[p].removed \cup {link}
        /\ work.todo = job[p].todo /\ work.obsolete = job[p].obsolete \ {link}
    BY OfStep DEF Jobs, Alone
  <2>3. work.placed = job[p].placed BY OfStep DEF Jobs, Alone
  <2> HIDE DEF work, link
  <2>4. pc'[p] = "retire" /\ job'[p] = work /\ Goto(p, "retire", work)
    BY <1>4, OfStep, GotoSets DEF Alone, Continue
  <2>5. job[p].created \subseteq Exposed BY OfStep DEF Alone, Jobs
  <2>6. link \in before.links
    BY <1>1, <1>4, <2>1, <2>5, SoloKnows, ReleaseAssumption
  <2>7. SoloSkills(p)'
    BY <1>1, <1>2, <1>4, <2>1, <2>2, <2>4, ReleaseAssumption DEF Working, SoloSkills, Placing
  <2> QED BY <1>1, <1>4, <2>2, <2>3, <2>4, <2>6, <2>7, SoloKnows, SoloLinksOn
<1>5. CASE Undo(p) BY <1>1, <1>5, SoloUndoes
<1> QED BY <1>3, <1>4, <1>5 DEF RetireLink

\* Its release is selected, or everything is undone.
LEMMA SoloActivates ==
    ASSUME NEW p \in Procs, Alone(p), ActivateRelease(p)
    PROVE  Solo(p)'
<1>1. /\ pc[p] = "activate" /\ pc[p] \in Linking /\ UNCHANGED tree
      /\ job[p].version \in Versions
  BY OfStep DEF ActivateRelease, At, Linking, Alone, Knows, Early
<1>2. CASE /\ current' = [kind |-> "dir", version |-> job[p].version]
           /\ Return(p, "done") /\ UNCHANGED links
  <2>1. current' \in Layouts /\ current'.version = job[p].version
    BY <1>1, <1>2 DEF Layouts
  <2> QED BY <1>1, <1>2, <2>1, SoloSucceeds
<1>3. CASE Undo(p) /\ UNCHANGED current BY <1>1, <1>3, SoloUndoes
<1> QED BY <1>2, <1>3 DEF ActivateRelease

\* The tree of a failed installation makes room.
LEMMA SoloRemoves ==
    ASSUME NEW p \in Procs, Alone(p), RemoveTree(p)
    PROVE  Solo(p)'
<1> DEFINE v == job[p].version
<1>1. /\ pc[p] = "rollback" /\ v \in Versions /\ UNCHANGED <<current, links>>
      /\ tree' = [tree EXCEPT ![v] = Absent] /\ Goto(p, "putback", job[p])
  BY OfStep DEF RemoveTree, At, Alone, Knows, Early, Continue
<1>2. Working(p) /\ before' = before BY <1>1 DEF Alone, Solo
<1>3. pc'[p] = "putback" /\ job'[p] = job[p] BY <1>1, OfStep, GotoSets DEF Alone
<1>4. SoloCurrent(p)' BY <1>1, <1>2, <1>3 DEF Working, SoloCurrent
<1>5. SoloLinks(p)' BY <1>1, <1>2, <1>3 DEF Working, SoloLinks, Untouched
<1>6. tree'[v] = Absent /\ \A w \in Versions \ {v} : tree'[w] = tree[w]
  BY <1>1, OfStep DEF Alone, FileTypes
<1>7. SoloTrees(p)'
  BY <1>1, <1>2, <1>3, <1>6 DEF Working, SoloTrees, Untouched, Linking, Selecting
<1>8. SoloSkills(p)' BY <1>3 DEF SoloSkills, Linking, Selecting, Placing
<1> QED BY <1>1, <1>4, <1>5, <1>7, <1>8, SoloGoesOn DEF Working

\* A command that begins while all others are idle meets what there is.
LEMMA SoloBegins ==
    ASSUME IInv, NEW p \in Procs, NEW label \in {"inspect", "auto", "check", "npm", "config"},
           NEW work, Begin(p, label, work), alone' = p,
           work.backup = Absent, ~work.placed, work.created = {}, work.removed = {},
           label = "check" => work.command = "activate"
    PROVE  Solo(p)'
<1>1. /\ \A q \in Procs : pc[q] = "idle"
      /\ before' = [tree |-> tree, current |-> current, links |-> links]
      /\ UNCHANGED <<tree, current, links>> /\ Goto(p, label, work)
  BY ReleaseAssumption DEF Begin, At, Continue, files
<1>2. pc'[p] = label /\ job'[p] = work /\ \A q \in Procs \ {p} : pc'[q] = "idle"
  BY <1>1, OfStep, GotoSets
<1>3. before'.tree = tree' /\ before'.current = current' /\ before'.links = links'
  BY <1>1
<1>4. /\ label \notin {"idle", "confirm", "put", "restore", "rollback", "putback"}
      /\ label \notin {"ensure", "create", "retire", "activate"} /\ label \notin Placing
      /\ label \in Untouched \cup {"check"} /\ (label \in Linking => label = "check")
  BY DEF Placing, Untouched, Linking, Selecting
<1>5. SoloCurrent(p)' BY <1>2, <1>3, <1>4 DEF SoloCurrent
<1>6. SoloLinks(p)' BY <1>2, <1>3, <1>4 DEF SoloLinks
<1>7. SoloTrees(p)' BY <1>2, <1>3, <1>4 DEF SoloTrees
<1>8. SoloSkills(p)' BY <1>2, <1>3, <1>4 DEF SoloSkills
<1> QED BY <1>2, <1>4, <1>5, <1>6, <1>7, <1>8 DEF Solo, Working

\* Every command begins so.
LEMMA SoloStarts ==
    ASSUME IInv, SoloInv, NEW p \in Procs, Start(p)
    PROVE  SoloInv'
<1> DEFINE Fits(work) ==
             work.backup = Absent /\ ~work.placed /\ work.created = {} /\ work.removed = {}
           Begins(label, work) ==
             /\ Begin(p, label, work) /\ Fits(work)
             /\ label = "check" => work.command = "activate"
           update == [NoJob EXCEPT !.command = "update", !.content = "published"]
           auto == [NoJob EXCEPT !.command = "auto", !.content = "published",
                                 !.version = current.version]
           switch(v) == [NoJob EXCEPT !.command = "activate", !.version = v]
           npm(v) == [NoJob EXCEPT !.command = "npm", !.content = "published", !.version = v]
           install(v, r) == [NoJob EXCEPT !.command = "install", !.content = "native",
                                          !.version = v, !.replace = r]
<1>1. PICK label \in {"inspect", "auto", "check", "npm", "config"} :
          \E work : Begins(label, work)
  <2>1. CASE StartUpdate(p)
    <3>1. Begin(p, "inspect", update) BY <2>1 DEF StartUpdate
    <3>2. Fits(update) BY DEF NoJob
    <3> HIDE DEF update
    <3> QED BY <3>1, <3>2
  <2>2. CASE StartAuto(p)
    <3>1. Begin(p, "auto", auto) BY <2>2 DEF StartAuto
    <3>2. Fits(auto) BY DEF NoJob
    <3> HIDE DEF auto
    <3> QED BY <3>1, <3>2
  <2>3. ASSUME NEW v \in Versions, StartActivate(p, v)
        PROVE  Begins("check", switch(v))
    BY <2>3 DEF StartActivate, NoJob
  <2>4. ASSUME NEW v \in Versions, StartNpm(p, v)
        PROVE  Begins("npm", npm(v))
    BY <2>4 DEF StartNpm, NoJob
  <2>5. ASSUME NEW v \in Versions, NEW r \in BOOLEAN, StartInstall(p, v, r)
        PROVE  Begins("config", install(v, r))
    BY <2>5 DEF StartInstall, NoJob
  <2> HIDE DEF Begins
  <2> QED BY <2>1, <2>2, <2>3, <2>4, <2>5 DEF Start
<1> PICK work : Begins(label, work) BY <1>1
<1>2. alone' \in {p, NoProc} BY DEF Begin
<1>3. alone' = p => Solo(p)' BY SoloBegins
<1>4. \A q \in Procs : q # NoProc BY ReleaseAssumption
<1> QED BY <1>2, <1>3, <1>4 DEF SoloInv

\* Every step of the command that is alone.
LEMMA SoloSteps ==
    ASSUME NEW p \in Procs, Alone(p), Step(p)
    PROVE  Solo(p)'
BY SoloInspects, SoloLocks, SoloDownloads, SoloPreflights, SoloMovesAside, SoloPuts,
   SoloEnsures, SoloChecks, SoloSwitches, SoloSelects, SoloRestores, SoloCreates,
   SoloRetires, SoloActivates, SoloRemoves
DEF Step

\* The end of one that is killed, of which nothing is said.
LEMMA SoloDies ==
    ASSUME NEW p \in Procs, Alone(p), Kill(p)
    PROVE  Solo(p)'
<1>1. Return(p, "killed") /\ current' = current BY DEF Kill, files
<1>2. current' \in Layouts \cup {NoLayout} BY <1>1, OfStep DEF Alone, FileTypes
<1> QED BY <1>1, <1>2, SoloReturns

\* Nobody who is idle takes a step or is killed.
LEMMA IdleIsStill ==
    ASSUME NEW p \in Procs, Step(p) \/ Kill(p)
    PROVE  pc[p] # "idle" /\ UNCHANGED <<alone, before>>
<1>1. pc[p] # "idle"
  BY DEF Step, Kill, At, AutoProbe, InspectCurrent, Probe, Compare, Download, MoveAside,
         PutTree, EnsureLink, SyncConfiguration, CheckSwitch, LockSwitch, MoveCurrent,
         RestoreRelease, LockConfiguration, LockCurrent, Preflight, CreateLink, RetireLink,
         ActivateRelease, RemoveTree, PutBack, InspectPackage, SelectRelease, Relink,
         ConfirmSwitch
<1>2. UNCHANGED <<alone, before>>
  BY DEF Step, Kill, AutoProbe, InspectCurrent, Probe, Compare, Download, MoveAside,
         PutTree, EnsureLink, SyncConfiguration, CheckSwitch, LockSwitch, MoveCurrent,
         RestoreRelease, LockConfiguration, LockCurrent, Preflight, CreateLink, RetireLink,
         ActivateRelease, RemoveTree, PutBack, InspectPackage, SelectRelease, Relink,
         ConfirmSwitch, others, seen
<1> QED BY <1>1, <1>2

\* The second invariant is inductive, given the first.
LEMMA SoloNext == IInv /\ SoloInv /\ [Next]_vars => SoloInv'
<1> SUFFICES ASSUME IInv, SoloInv, [Next]_vars PROVE SoloInv' OBVIOUS
<1>1. ASSUME NEW p \in Procs, Step(p) \/ Kill(p), NEW q \in Procs, alone' = q
      PROVE  Solo(q)'
  <2>1. pc[p] # "idle" /\ UNCHANGED <<alone, before>> BY <1>1, IdleIsStill
  <2>2. Solo(q) BY <1>1, <2>1 DEF SoloInv
  <2>3. p = q BY <2>1, <2>2 DEF Solo
  <2>4. Alone(q) BY <2>1, <2>2 DEF Alone
  <2> QED BY <1>1, <2>3, <2>4, SoloSteps, SoloDies
<1>2. ASSUME NEW p \in Procs, Start(p) PROVE SoloInv' BY <1>2, SoloStarts
<1>3. CASE PublishRelease \/ UNCHANGED vars
  BY <1>3
  DEF PublishRelease, vars, files, seen, SoloInv, Solo, Answered, Working, SoloCurrent,
      SoloLinks, SoloTrees, SoloSkills
<1> QED BY <1>1, <1>2, <1>3 DEF Next, SoloInv

\* Nobody has begun.
LEMMA SoloInit == Init => SoloInv
BY ReleaseAssumption DEF Init, SoloInv

\* A command that met no other did what it answers: one that failed left
\* `current`, the links and the selected release as they were, and one that
\* succeeded has its release selected, with its bytes and its Skill links.
THEOREM AnswersTruly == Spec => []EndsAsAnswered
<1>1. IInv /\ SoloInv /\ [Next]_vars => SoloInv' BY SoloNext
<1>2. Spec => []SoloInv BY <1>1, Invariant, SoloInit, PTL DEF Spec
<1> QED BY <1>2, AnsweredIsEnough, PTL
=============================================================================
