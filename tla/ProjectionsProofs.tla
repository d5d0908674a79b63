--------------------------- MODULE ProjectionsProofs ---------------------------
(***************************************************************************)
(* For any number of processes, Events, snapshots and faults: the types,   *)
(* what a sync says of its start, the repairs of the Card and of the       *)
(* Trace, and that a snapshot stays.                                       *)
(***************************************************************************)
EXTENDS Projections, SequenceTheorems, TLAPS

-----------------------------------------------------------------------------
(* What the Events say, of any list of them *)

Latest(facts) == IF facts = {} THEN 0 ELSE CHOOSE i \in facts : \A j \in facts : j <= i
ShownIn(events, state) == Latest({i \in 1..state : events[i] \in CardFacts})

BoundIn(events, state) == \E i \in 1..state : events[i] = "bind"

\* What the log shows and binds, with the log as a parameter.
LEMMA OfTheLog ==
    ASSUME NEW n
    PROVE  Shown(n) = ShownIn(log, n) /\ Bound(n) = BoundIn(log, n)
  BY DEF Shown, ShownIn, Latest, Bound, BoundIn

\* What the first n Events say is in them alone.
LEMMA ShownStays ==
    ASSUME NEW events, NEW longer, NEW n, \A i \in 1..n : longer[i] = events[i]
    PROVE  ShownIn(longer, n) = ShownIn(events, n)
<1>1. {i \in 1..n : longer[i] \in CardFacts} = {i \in 1..n : events[i] \in CardFacts}
  OBVIOUS
<1> QED BY <1>1 DEF ShownIn

\* An Event of a sync changes nothing that the Card shows.
LEMMA ShownSkips ==
    ASSUME NEW events, NEW n \in Nat, events[n + 1] \notin CardFacts
    PROVE  ShownIn(events, n + 1) = ShownIn(events, n)
<1>1. {i \in 1..(n + 1) : events[i] \in CardFacts} = {i \in 1..n : events[i] \in CardFacts}
  OBVIOUS
<1> QED BY <1>1 DEF ShownIn

-----------------------------------------------------------------------------
(* The invariant *)

\* What a process knows of the log, which only grows: of which commit a sync
\* is, and that a Card can be rendered.
Knows(label, work, events) ==
    /\ label = "idle" => work = NoJob
    /\ label \in {"render", "rebuild", "check", "path", "snapshot"} => events # << >>
    /\ label \in {"rebuild", "check", "path", "snapshot"} => work.base >= 1
    /\ label = "commit" => work.kind \in Kinds
    /\ \/ label \in {"events", "targets"}
       \/ label = "commit" /\ work.kind \in {"succeeded", "partial"}
       => work.base >= 1 /\ events[work.base] = "started"
    /\ \/ label = "targets"
       \/ label = "commit" /\ work.kind \in {"succeeded", "partial"}
       => work.content.state = work.base /\ work.content.events \in work.base..Len(events)

\* Which command is at which label, and what it commits there.
Going(label, work) ==
    /\ label \in {"provision", "reload"} => work.command = "init"
    /\ label = "project" => work.command \in {"init", "report"}
    /\ label \in {"refresh", "refreshing"} => work.command \in {"init", "bind"}
    /\ label \in {"render", "rebuild", "check", "path", "snapshot"} =>
          work.command \in {"render", "dry-run"}
    /\ label \in {"sync", "events", "targets"} => work.command \in {"sync", "report"}
    /\ label = "commit" => \/ work.command = "init" /\ work.kind \in {"init", "bind"}
                           \/ work.command = "report" /\ work.kind = "report"
                           \/ work.command = "bind" /\ work.kind = "bind"
                           \/ work.command \in {"sync", "report"}
                              /\ work.kind \in Outcomes \cup {"started"}
    /\ label = "events" => work.kind = "started"

\* A report that comes to its sync has projected its State.
Syncing(label, work) ==
    \/ label \in {"sync", "events", "targets"}
    \/ label = "commit" /\ work.kind \in Outcomes \cup {"started"}

\* What the targets of an undisturbed sync show at each of its steps.
Settled(work, shows, table) ==
    /\ work.document = "todo" \/ (work.document = "succeeded" /\ shows = work.content)
    /\ \/ work.registry = "list"
       \/ work.registry = "upsert" /\ work.row = Len(table) /\ Len(table) <= 1
       \/ work.registry \in {"resolve", "succeeded"} /\ table = <<work.content>>
       \/ work.registry = "failed" /\ Len(table) > 1

\* What a command that met no other and no fault finds.
Undisturbed(label, work, events, picture, shows, table) ==
    LET now == Len(events) IN
    /\ label \in {"commit", "project", "refreshing", "events", "targets"} => work.base = now
    /\ work.command = "report" /\ Syncing(label, work) =>
          ShownIn(events, picture) = ShownIn(events, now)
    /\ label = "commit" /\ work.kind = "skipped" => ~BoundIn(events, now)
    /\ label = "targets" =>
          work.content = [state |-> now, events |-> now] /\ Settled(work, shows, table)
    /\ label = "commit" /\ work.kind \in {"succeeded", "partial"} =>
          /\ work.content = [state |-> now, events |-> now]
          /\ shows = work.content
          /\ IF work.kind = "succeeded" THEN table = <<work.content>> ELSE Len(table) > 1

AloneInv ==
    alone # NoProc =>
        /\ \A q \in Procs \ {alone} : pc[q] = "idle"
        /\ pc[alone] # "idle" =>
              Undisturbed(pc[alone], job[alone], log, card, document, rows)

IInv ==
    /\ TypeOK
    /\ \A p \in Procs : Knows(pc[p], job[p], log) /\ Going(pc[p], job[p])
    /\ AloneInv

\* An idle process knows nothing and is nowhere.
LEMMA IdleKnows ==
    ASSUME NEW events
    PROVE  Knows("idle", NoJob, events) /\ Going("idle", NoJob)
  BY DEF Knows, Going

\* An idle process has a job of the right type.
LEMMA NoJobTyped == NoJob \in Jobs /\ NoJob.base = 0 /\ NoContent \in Contents
  BY DEF NoJob, Jobs, NoContent, Contents

\* The log only grows, so what a process knows of it lasts.
LEMMA KnowledgeLasts ==
    ASSUME NEW label, NEW work \in Jobs, NEW events \in Seq(Kinds), NEW longer \in Seq(Kinds),
           Len(events) <= Len(longer), \A i \in 1..Len(events) : longer[i] = events[i],
           work.base <= Len(events),
           Knows(label, work, events)
    PROVE  Knows(label, work, longer)
<1>1. Len(events) \in Nat /\ Len(longer) \in Nat /\ work.base \in Nat
  BY DEF Jobs
<1>2. events # << >> => longer # << >>
  BY <1>1, EmptySeq
<1>3. work.base >= 1 => longer[work.base] = events[work.base]
  BY <1>1
<1>4. work.content.events \in work.base..Len(events) =>
         work.content.events \in work.base..Len(longer)
  BY <1>1
<1> QED BY <1>2, <1>3, <1>4 DEF Knows

\* What a step of one process has to show.
LEMMA Takes ==
    ASSUME IInv, NEW p \in Procs, NEW label \in Labels, NEW work \in Jobs,
           pc' = [pc EXCEPT ![p] = label], job' = [job EXCEPT ![p] = work],
           log' \in Seq(Kinds), Len(log) <= Len(log'),
           \A i \in 1..Len(log) : log'[i] = log[i],
           card' \in 0..Len(log'), snapshots' \in Seq(1..Len(log')),
           document' \in Contents, rows' \in Seq(Contents),
           lock' \in Procs \cup {NoProc}, lock' = p <=> label = "refreshing",
           \A q \in Procs \ {p} : lock' = q <=> lock = q,
           faults' \in 0..MaxFaults,
           work.base <= Len(log'), Knows(label, work, log'), Going(label, work),
           alone' \in {p, NoProc},
           alone' = p => /\ \A q \in Procs \ {p} : pc[q] = "idle"
                         /\ label # "idle" =>
                               Undisturbed(label, work, log', card', document', rows')
    PROVE  IInv'
<1>1. /\ pc'[p] = label /\ job'[p] = work
      /\ \A q \in Procs \ {p} : pc'[q] = pc[q] /\ job'[q] = job[q]
      /\ pc' \in [Procs -> Labels] /\ job' \in [Procs -> Jobs]
  BY DEF IInv, TypeOK
<1>2. Len(log) \in Nat /\ Len(log') \in Nat
  BY DEF IInv, TypeOK
<1>3. ASSUME NEW q \in Procs \ {p}
      PROVE  job'[q].base <= Len(log') /\ Knows(pc'[q], job'[q], log') /\ Going(pc'[q], job'[q])
  <2>1. /\ job[q] \in Jobs /\ job[q].base <= Len(log) /\ log \in Seq(Kinds)
        /\ Knows(pc[q], job[q], log) /\ Going(pc[q], job[q])
    BY DEF IInv, TypeOK
  <2>2. job[q].base \in Nat
    BY <2>1 DEF Jobs
  <2>3. Knows(pc[q], job[q], log')
    BY <2>1, KnowledgeLasts
  <2> QED BY <1>1, <1>2, <2>1, <2>2, <2>3
<1>4. TypeOK'
  <2>1. \A q \in Procs : lock' = q <=> pc'[q] = "refreshing"
    BY <1>1 DEF IInv, TypeOK
  <2>2. \A q \in Procs : job'[q].base <= Len(log')
    BY <1>1, <1>3
  <2> QED BY <1>1, <2>1, <2>2 DEF TypeOK
<1>5. AloneInv'
  BY <1>1, ProjectionsAssumption DEF AloneInv
<1> QED BY <1>1, <1>3, <1>4, <1>5 DEF IInv

\* A process that acts is the undisturbed one, if any is.
LEMMA Acts ==
    ASSUME IInv, NEW p \in Procs, pc[p] # "idle"
    PROVE  /\ alone \in {p, NoProc}
           /\ alone = p => /\ \A q \in Procs \ {p} : pc[q] = "idle"
                           /\ Undisturbed(pc[p], job[p], log, card, document, rows)
           /\ job[p] \in Jobs /\ Knows(pc[p], job[p], log) /\ Going(pc[p], job[p])
           /\ job[p].base \in Nat /\ job[p].base <= Len(log)
           /\ log \in Seq(Kinds) /\ Len(log) \in Nat
  BY ProjectionsAssumption DEF IInv, TypeOK, AloneInv, Jobs

\* A fault is counted, and from then on no command counts as the undisturbed one.
LEMMA Faults ==
    ASSUME IInv, NoFault \/ Fault
    PROVE  /\ faults' \in 0..MaxFaults
           /\ NoFault => alone' = alone
           /\ Fault => alone' = NoProc
  BY ProjectionsAssumption DEF IInv, TypeOK, NoFault, Fault

\* Most steps leave the files, the remote service and the lock alone.
LEMMA Quiet ==
    ASSUME IInv, NEW p \in Procs, pc[p] \notin {"idle", "refreshing"},
           NEW label \in Labels \ {"refreshing"}, NEW work \in Jobs,
           pc' = [pc EXCEPT ![p] = label], job' = [job EXCEPT ![p] = work],
           UNCHANGED <<local, remote, lock>>, NoFault \/ Fault,
           work.base <= Len(log), Knows(label, work, log), Going(label, work),
           alone = p /\ NoFault /\ label # "idle" =>
              Undisturbed(label, work, log, card, document, rows)
    PROVE  IInv'
<1>1. /\ log' = log /\ card' = card /\ snapshots' = snapshots
      /\ document' = document /\ rows' = rows /\ lock' = lock
  BY DEF local, remote
<1>2. /\ alone' \in {p, NoProc} /\ faults' \in 0..MaxFaults
      /\ alone' = p => NoFault /\ alone = p /\ \A q \in Procs \ {p} : pc[q] = "idle"
  BY Acts, Faults, ProjectionsAssumption
<1>3. /\ log \in Seq(Kinds) /\ Len(log) \in Nat /\ card \in 0..Len(log)
      /\ snapshots \in Seq(1..Len(log)) /\ document \in Contents /\ rows \in Seq(Contents)
      /\ lock \in Procs \cup {NoProc} /\ lock # p
  BY DEF IInv, TypeOK
<1>4. /\ log' \in Seq(Kinds) /\ Len(log) <= Len(log')
      /\ \A i \in 1..Len(log) : log'[i] = log[i]
      /\ card' \in 0..Len(log') /\ snapshots' \in Seq(1..Len(log'))
      /\ document' \in Contents /\ rows' \in Seq(Contents)
      /\ lock' \in Procs \cup {NoProc} /\ (lock' = p <=> label = "refreshing")
      /\ \A q \in Procs \ {p} : lock' = q <=> lock = q
      /\ work.base <= Len(log') /\ Knows(label, work, log')
  BY <1>1, <1>3
<1>5. alone' = p => /\ \A q \in Procs \ {p} : pc[q] = "idle"
                    /\ label # "idle" =>
                          Undisturbed(label, work, log', card', document', rows')
  BY <1>1, <1>2
<1> QED BY <1>2, <1>4, <1>5, Takes

\* The command of a process ends.
LEMMA QuietEnd ==
    ASSUME IInv, NEW p \in Procs, pc[p] \notin {"idle", "refreshing"}, Finish(p),
           UNCHANGED <<local, remote, lock>>, NoFault \/ Fault
    PROVE  IInv'
<1>1. pc' = [pc EXCEPT ![p] = "idle"] /\ job' = [job EXCEPT ![p] = NoJob]
  BY DEF Finish, Goto
<1>2. NoJob.base <= Len(log)
  BY NoJobTyped, Acts
<1> QED BY <1>1, <1>2, IdleKnows, NoJobTyped, Quiet DEF Labels

\* A process goes on with what it has.
LEMMA QuietContinue ==
    ASSUME IInv, NEW p \in Procs, pc[p] \notin {"idle", "refreshing"},
           NEW label \in Labels \ {"idle", "refreshing"}, Continue(p, label),
           UNCHANGED <<local, remote, lock>>, NoFault \/ Fault,
           Knows(label, job[p], log), Going(label, job[p]),
           alone = p /\ NoFault => Undisturbed(label, job[p], log, card, document, rows)
    PROVE  IInv'
<1>1. pc' = [pc EXCEPT ![p] = label] /\ job' = [job EXCEPT ![p] = job[p]]
  BY DEF Continue, Goto, IInv, TypeOK
<1>2. job[p] \in Jobs /\ job[p].base <= Len(log)
  BY Acts
<1> QED BY <1>1, <1>2, Quiet

-----------------------------------------------------------------------------
(* The steps *)

\* Start: the command begins with the log as it is, alone if no other is under way.
LEMMA StartTakes ==
    ASSUME IInv, NEW p \in Procs, Start(p)
    PROVE  IInv'
<1>1. ASSUME NEW w \in Jobs, NEW label \in {"commit", "refresh", "sync", "render"},
             NEW cost \in Int, Begin(p, w, label, cost), Going(label, w),
             label = "commit" => w.kind \in {"init", "report", "bind"},
             label = "sync" => w.command = "sync",
             label = "render" => log # << >>
      PROVE  IInv'
  <2> DEFINE work == [w EXCEPT !.base = Len(log), !.cost = cost]
  <2>1. /\ pc[p] = "idle" /\ pc' = [pc EXCEPT ![p] = label]
        /\ job' = [job EXCEPT ![p] = work]
        /\ log' = log /\ card' = card /\ snapshots' = snapshots
        /\ document' = document /\ rows' = rows /\ lock' = lock /\ faults' = faults
        /\ alone' = IF \A q \in Procs : pc[q] = "idle" THEN p ELSE NoProc
    BY <1>1 DEF Begin, At, Goto, local, remote
  <2>2. /\ log \in Seq(Kinds) /\ Len(log) \in Nat /\ card \in 0..Len(log)
        /\ snapshots \in Seq(1..Len(log)) /\ document \in Contents /\ rows \in Seq(Contents)
        /\ lock \in Procs \cup {NoProc} /\ (lock = p <=> label = "refreshing")
        /\ faults \in 0..MaxFaults
    BY <2>1 DEF IInv, TypeOK
  <2>3. /\ work \in Jobs /\ work.base = Len(log)
        /\ work.command = w.command /\ work.kind = w.kind
    BY <2>2 DEF Jobs
  <2> HIDE DEF work
  <2>4. Knows(label, work, log)
    BY <1>1, <2>3 DEF Knows, Kinds, CardFacts
  <2>5. Going(label, work)
    BY <1>1, <2>3 DEF Going
  <2>6. Undisturbed(label, work, log, card, document, rows)
    BY <1>1, <2>2, <2>3 DEF Undisturbed, Going, Syncing, Outcomes
  <2>7. label \in Labels /\ work.base <= Len(log)
    BY <2>2, <2>3 DEF Labels
  <2> QED BY <2>1, <2>2, <2>3, <2>4, <2>5, <2>6, <2>7, ProjectionsAssumption, Takes
<1>2. NoJob \in Jobs
  BY NoJobTyped
<1>3. CASE StartInit(p)
  <2> DEFINE w == [NoJob EXCEPT !.command = "init", !.kind = "init"]
  <2>1. w \in Jobs /\ w.command = "init" /\ w.kind = "init"
    BY <1>2 DEF Jobs, Kinds, CardFacts
  <2>2. Begin(p, w, "commit", 2)
    BY <1>3 DEF StartInit
  <2> HIDE DEF w
  <2> QED BY <1>1, <2>1, <2>2 DEF Going
<1>4. CASE StartReport(p)
  <2> DEFINE w == [NoJob EXCEPT !.command = "report", !.kind = "report"]
  <2>1. w \in Jobs /\ w.command = "report" /\ w.kind = "report"
    BY <1>2 DEF Jobs, Kinds, CardFacts
  <2>2. Begin(p, w, "commit", 3)
    BY <1>4 DEF StartReport
  <2> HIDE DEF w
  <2> QED BY <1>1, <2>1, <2>2 DEF Going
<1>5. CASE StartBind(p) /\ Bound(Len(log))
  <2> DEFINE w == [NoJob EXCEPT !.command = "bind"]
  <2>1. w \in Jobs /\ w.command = "bind"
    BY <1>2 DEF Jobs
  <2>2. Begin(p, w, "refresh", 0)
    BY <1>5 DEF StartBind
  <2> HIDE DEF w
  <2> QED BY <1>1, <2>1, <2>2 DEF Going
<1>6. CASE StartBind(p) /\ ~Bound(Len(log))
  <2> DEFINE w == [NoJob EXCEPT !.command = "bind", !.kind = "bind"]
  <2>1. w \in Jobs /\ w.command = "bind" /\ w.kind = "bind"
    BY <1>2 DEF Jobs, Kinds, CardFacts
  <2>2. Begin(p, w, "commit", 1)
    BY <1>6 DEF StartBind
  <2> HIDE DEF w
  <2> QED BY <1>1, <2>1, <2>2 DEF Going
<1>7. CASE StartSync(p)
  <2> DEFINE w == [NoJob EXCEPT !.command = "sync"]
  <2>1. w \in Jobs /\ w.command = "sync"
    BY <1>2 DEF Jobs
  <2>2. Begin(p, w, "sync", 2)
    BY <1>7 DEF StartSync
  <2> HIDE DEF w
  <2> QED BY <1>1, <2>1, <2>2 DEF Going
<1>8. ASSUME NEW command \in {"render", "dry-run"}, StartRender(p, command)
      PROVE  IInv'
  <2> DEFINE w == [NoJob EXCEPT !.command = command, !.content.state = card]
  <2>1. card \in Nat
    BY DEF IInv, TypeOK
  <2>2. w \in Jobs /\ w.command = command
    BY <1>2, <2>1 DEF Jobs, Contents, NoJob
  <2>3. log # << >> /\ Begin(p, w, "render", 0)
    BY <1>8 DEF StartRender
  <2> HIDE DEF w
  <2> QED BY <1>1, <2>2, <2>3 DEF Going
<1> QED BY <1>3, <1>4, <1>5, <1>6, <1>7, <1>8 DEF Start

\* Commit: an Event goes through only over the log that its command has loaded.
LEMMA CommitTakes ==
    ASSUME IInv, NEW p \in Procs, Commit(p)
    PROVE  IInv'
<1> DEFINE kind == job[p].kind
           events == Append(log, kind)
<1>1. /\ pc[p] = "commit" /\ lock = NoProc /\ kind \in Kinds
      /\ card' = card /\ snapshots' = snapshots /\ document' = document /\ rows' = rows
      /\ lock' = lock
  BY Acts DEF Commit, At, Knows, remote
<1>2. ASSUME Refuse(p), log' = log, NoFault \/ Fault,
             NoFault => job[p].base # Len(log)
      PROVE  IInv'
  <2>1. UNCHANGED <<local, remote, lock>>
    BY <1>1, <1>2 DEF local, remote
  <2>2. alone = p => ~NoFault
    BY <1>1, <1>2, Acts DEF Undisturbed
  <2>3. CASE Finish(p)
    BY <1>1, <1>2, <2>1, <2>3, QuietEnd
  <2>4. CASE job[p].command = "init" /\ Continue(p, "reload")
    <3>1. Knows("reload", job[p], log) /\ Going("reload", job[p])
      BY <2>4 DEF Knows, Going
    <3> QED BY <1>1, <1>2, <2>1, <2>2, <2>4, <3>1, QuietContinue DEF Labels
  <2> QED BY <1>2, <2>3, <2>4 DEF Refuse
<1>3. /\ log \in Seq(Kinds) /\ Len(log) \in Nat /\ events \in Seq(Kinds)
      /\ Len(events) = Len(log) + 1 /\ events[Len(log) + 1] = kind
      /\ \A i \in 1..Len(log) : events[i] = log[i]
  BY <1>1 DEF IInv, TypeOK
<1>4. ASSUME job[p].base = Len(log), log' = events, NoFault,
             NEW label \in Labels \ {"refreshing"}, NEW work \in Jobs,
             pc' = [pc EXCEPT ![p] = label], job' = [job EXCEPT ![p] = work],
             work.base <= Len(log) + 1, Knows(label, work, events), Going(label, work),
             alone = p /\ label # "idle" => Undisturbed(label, work, events, card, document, rows)
      PROVE  IInv'
  <2>1. /\ alone' = alone /\ faults' = faults
        /\ alone \in {p, NoProc}
        /\ alone = p => \A q \in Procs \ {p} : pc[q] = "idle"
    BY <1>1, <1>4, Acts DEF NoFault
  <2>2. /\ card \in 0..Len(events) /\ snapshots \in Seq(1..Len(events))
        /\ document \in Contents /\ rows \in Seq(Contents)
        /\ lock \in Procs \cup {NoProc} /\ (lock = p <=> label = "refreshing")
        /\ faults \in 0..MaxFaults
    <3>1. snapshots \in Seq(1..Len(log)) /\ 1..Len(log) \subseteq 1..Len(events)
      BY <1>3 DEF IInv, TypeOK
    <3>2. snapshots \in Seq(1..Len(events))
      BY <3>1
    <3> QED BY <1>1, <1>3, <3>2, ProjectionsAssumption DEF IInv, TypeOK
  <2>3. /\ log' \in Seq(Kinds) /\ Len(log) <= Len(log')
        /\ \A i \in 1..Len(log) : log'[i] = log[i]
        /\ work.base <= Len(log') /\ Knows(label, work, log')
    BY <1>3, <1>4
  <2>4. /\ card' \in 0..Len(log') /\ snapshots' \in Seq(1..Len(log'))
        /\ document' \in Contents /\ rows' \in Seq(Contents)
        /\ lock' \in Procs \cup {NoProc} /\ (lock' = p <=> label = "refreshing")
        /\ \A q \in Procs \ {p} : lock' = q <=> lock = q
    BY <1>1, <1>4, <2>2
  <2>5. /\ alone' \in {p, NoProc} /\ faults' \in 0..MaxFaults
        /\ alone' = p => /\ \A q \in Procs \ {p} : pc[q] = "idle"
                         /\ label # "idle" =>
                               Undisturbed(label, work, log', card', document', rows')
    BY <1>1, <1>4, <2>1, <2>2
  <2> HIDE DEF events
  <2> QED BY <1>4, <2>3, <2>4, <2>5, Takes
<1>5. ASSUME job[p].base = Len(log), log' = events, NoFault, kind \in Outcomes, Finish(p)
      PROVE  IInv'
  <2>1. pc' = [pc EXCEPT ![p] = "idle"] /\ job' = [job EXCEPT ![p] = NoJob]
    BY <1>5 DEF Finish, Goto
  <2>2. NoJob.base <= Len(log) + 1
    BY <1>3, NoJobTyped
  <2> HIDE DEF events
  <2> QED BY <1>4, <1>5, <2>1, <2>2, IdleKnows, NoJobTyped DEF Labels
<1>6. ASSUME job[p].base = Len(log), log' = events, NoFault, kind \notin Outcomes,
             job' = [job EXCEPT ![p].base = Len(log'), ![p].cost = @ - 1],
             Goto(p, AfterCommit(p))
      PROVE  IInv'
  <2> DEFINE work == [job[p] EXCEPT !.base = Len(log) + 1, !.cost = @ - 1]
             label == AfterCommit(p)
  <2>1. /\ pc' = [pc EXCEPT ![p] = label] /\ job' = [job EXCEPT ![p] = work]
    BY <1>3, <1>6 DEF Goto, IInv, TypeOK
  <2>2. /\ work \in Jobs /\ work.base = Len(log) + 1
        /\ work.command = job[p].command /\ work.kind = kind
    <3>1. job[p] \in Jobs /\ job[p].cost \in Int /\ job[p].cost - 1 \in Int /\ Len(log) + 1 \in Nat
      BY <1>1, <1>3, Acts DEF Jobs
    <3> DEFINE less == job[p].cost - 1
               more == Len(log) + 1
    <3>2. work = [job[p] EXCEPT !.base = more, !.cost = less]
      OBVIOUS
    <3>3. less \in Int /\ more \in Nat
      BY <3>1
    <3> HIDE DEF less, more, work
    <3>4. work \in Jobs /\ work.base = more /\ work.command = job[p].command /\ work.kind = job[p].kind
      BY <3>1, <3>2, <3>3 DEF Jobs
    <3> QED BY <3>4 DEF more
  <2>3. \/ kind = "init" /\ label = "provision"
        \/ kind = "report" /\ label = "project"
        \/ kind = "bind" /\ label = "refresh"
        \/ kind = "started" /\ label = "events"
    BY <1>1, <1>6 DEF AfterCommit, Kinds, CardFacts, Outcomes
  <2>4. Going("commit", job[p]) /\ (alone = p => Undisturbed("commit", job[p], log, card, document, rows))
    BY <1>1, Acts
  <2>5. card \in 0..Len(log)
    BY DEF IInv, TypeOK
  <2> HIDE DEF work, label
  <2>6. Going(label, work)
    BY <2>2, <2>3, <2>4 DEF Going, Outcomes
  <2>7. Knows(label, work, events)
    BY <1>3, <2>2, <2>3 DEF Knows
  <2>8. ASSUME alone = p
        PROVE  Undisturbed(label, work, events, card, document, rows)
    <3>1. ASSUME kind = "started", work.command = "report"
          PROVE  ShownIn(events, card) = ShownIn(events, Len(events))
      <4>1. ShownIn(log, card) = ShownIn(log, Len(log))
        BY <2>2, <2>4, <2>8, <3>1 DEF Undisturbed, Syncing
      <4>2. ShownIn(events, Len(log) + 1) = ShownIn(events, Len(log))
        BY <1>3, <3>1, ShownSkips DEF CardFacts
      <4>3. ShownIn(events, Len(log)) = ShownIn(log, Len(log))
        BY <1>3, ShownStays
      <4>4. ShownIn(events, card) = ShownIn(log, card)
        <5>1. card \in Nat /\ \A i \in 1..card : i \in 1..Len(log)
          BY <1>3, <2>5
        <5>2. \A i \in 1..card : events[i] = log[i]
          BY <1>3, <5>1
        <5> HIDE DEF events
        <5> QED BY <5>2, ShownStays
      <4> QED BY <1>3, <4>1, <4>2, <4>3, <4>4
    <3> HIDE DEF events
    <3> QED BY <1>3, <2>2, <2>3, <3>1 DEF Undisturbed, Syncing
  <2>9. label \in Labels \ {"refreshing"} /\ work.base <= Len(log) + 1
    BY <1>3, <2>2, <2>3 DEF Labels
  <2>10. job[p].base = Len(log) /\ log' = events /\ NoFault
    BY <1>6
  <2>11. work \in Jobs
    BY <2>2
  <2>12. alone = p /\ label # "idle" => Undisturbed(label, work, events, card, document, rows)
    BY <2>8
  <2> HIDE DEF events, kind
  <2> QED BY <1>4, <2>1, <2>6, <2>7, <2>9, <2>10, <2>11, <2>12
<1>7. CASE job[p].base # Len(log) /\ Refuse(p) /\ NoFault /\ UNCHANGED log
  BY <1>2, <1>7
<1>8. CASE Fault /\ Refuse(p) /\ UNCHANGED log
  <2>1. NoFault => job[p].base # Len(log)
    BY <1>8, ProjectionsAssumption DEF NoFault, Fault, IInv, TypeOK
  <2> QED BY <1>2, <1>8, <2>1
<1>9. CASE /\ job[p].base = Len(log) /\ log' = events /\ NoFault
           /\ IF kind \in Outcomes THEN Finish(p)
              ELSE /\ job' = [job EXCEPT ![p].base = Len(log'), ![p].cost = @ - 1]
                   /\ Goto(p, AfterCommit(p))
  <2>1. CASE kind \in Outcomes
    BY <1>5, <1>9, <2>1, Zenon
  <2>2. CASE kind \notin Outcomes
    BY <1>6, <1>9, <2>2, Zenon
  <2> QED BY <2>1, <2>2
<1> QED BY <1>7, <1>8, <1>9, Zenon DEF Commit

\* Provision: the init goes on with or without a document to bind.
LEMMA ProvisionTakes ==
    ASSUME IInv, NEW p \in Procs, Provision(p)
    PROVE  IInv'
<1>1. /\ pc[p] = "provision" /\ NoFault /\ UNCHANGED <<local, remote, lock>>
      /\ job[p] \in Jobs /\ job[p].command = "init" /\ Len(log) \in Nat
  BY Acts DEF Provision, At, Going
<1>2. CASE Continue(p, "reload")
  <2>1. Knows("reload", job[p], log) /\ Going("reload", job[p])
    BY <1>1 DEF Knows, Going
  <2>2. Undisturbed("reload", job[p], log, card, document, rows)
    BY <1>1 DEF Undisturbed
  <2> QED BY <1>1, <1>2, <2>1, <2>2, QuietContinue DEF Labels
<1>3. ASSUME job' = [job EXCEPT ![p].kind = "bind", ![p].base = Len(log)],
             NEW label \in {"reload", "commit"}, Goto(p, label)
      PROVE  IInv'
  <2> DEFINE work == [job[p] EXCEPT !.kind = "bind", !.base = Len(log)]
  <2>1. pc' = [pc EXCEPT ![p] = label] /\ job' = [job EXCEPT ![p] = work]
    BY <1>3 DEF Goto, IInv, TypeOK
  <2>2. /\ work \in Jobs /\ work.base = Len(log) /\ work.kind = "bind"
        /\ work.command = "init" /\ work.base <= Len(log)
    <3>1. "bind" \in Kinds
      BY DEF Kinds, CardFacts
    <3>2. /\ work \in Jobs /\ work.base = Len(log) /\ work.kind = "bind"
          /\ work.command = "init"
      BY <1>1, <3>1 DEF Jobs
    <3> HIDE DEF work
    <3> QED BY <1>1, <3>2
  <2> HIDE DEF work
  <2>3. Knows(label, work, log) /\ Going(label, work)
    BY <2>2 DEF Knows, Going, Kinds, CardFacts
  <2>4. Undisturbed(label, work, log, card, document, rows)
    BY <2>2 DEF Undisturbed
  <2>5. pc[p] \notin {"idle", "refreshing"} /\ label \in Labels \ {"refreshing"}
    BY <1>1 DEF Labels
  <2> QED BY <1>1, <2>1, <2>2, <2>3, <2>4, <2>5, Quiet
<1> QED BY <1>2, <1>3 DEF Provision

\* Reload: the init projects the State as it is now.
LEMMA ReloadTakes ==
    ASSUME IInv, NEW p \in Procs, Reload(p)
    PROVE  IInv'
<1> DEFINE work == [job[p] EXCEPT !.base = Len(log)]
<1>1. /\ pc[p] = "reload" /\ NoFault /\ UNCHANGED <<local, remote, lock>>
      /\ job[p] \in Jobs /\ job[p].command = "init" /\ Len(log) \in Nat
  BY Acts DEF Reload, At, Going
<1>2. pc' = [pc EXCEPT ![p] = "project"] /\ job' = [job EXCEPT ![p] = work]
  BY DEF Reload, Goto, IInv, TypeOK
<1>3. /\ work \in Jobs /\ work.base = Len(log) /\ work.base <= Len(log)
      /\ work.command = "init"
  BY <1>1 DEF Jobs
<1> HIDE DEF work
<1>4. Knows("project", work, log) /\ Going("project", work)
  BY <1>3 DEF Knows, Going
<1>5. Undisturbed("project", work, log, card, document, rows)
  BY <1>3 DEF Undisturbed
<1>6. pc[p] \notin {"idle", "refreshing"} /\ "project" \in Labels \ {"refreshing"}
  BY <1>1 DEF Labels
<1> QED BY <1>1, <1>2, <1>3, <1>4, <1>5, <1>6, Quiet

\* A step that writes a file, a target or the lock, and appends no Event.
LEMMA Writes ==
    ASSUME IInv, NEW p \in Procs, pc[p] # "idle", NEW label \in Labels, NEW work \in Jobs,
           pc' = [pc EXCEPT ![p] = label], job' = [job EXCEPT ![p] = work],
           NoFault \/ Fault, log' = log,
           card' \in 0..Len(log), snapshots' \in Seq(1..Len(log)),
           document' \in Contents, rows' \in Seq(Contents),
           lock' \in Procs \cup {NoProc}, lock' = p <=> label = "refreshing",
           \A q \in Procs \ {p} : lock' = q <=> lock = q,
           work.base <= Len(log), Knows(label, work, log), Going(label, work),
           alone = p /\ NoFault /\ label # "idle" =>
              Undisturbed(label, work, log, card', document', rows')
    PROVE  IInv'
<1>1. /\ alone' \in {p, NoProc} /\ faults' \in 0..MaxFaults
      /\ alone' = p => NoFault /\ alone = p /\ \A q \in Procs \ {p} : pc[q] = "idle"
  BY Acts, Faults, ProjectionsAssumption
<1>2. /\ log' \in Seq(Kinds) /\ Len(log) <= Len(log')
      /\ \A i \in 1..Len(log) : log'[i] = log[i]
      /\ card' \in 0..Len(log') /\ snapshots' \in Seq(1..Len(log'))
      /\ work.base <= Len(log') /\ Knows(label, work, log')
  BY Acts
<1>3. alone' = p => /\ \A q \in Procs \ {p} : pc[q] = "idle"
                    /\ label # "idle" =>
                          Undisturbed(label, work, log', card', document', rows')
  BY <1>1
<1> QED BY <1>1, <1>2, <1>3, Takes

\* The same for one that leaves the lock, and for the last one of a command.
LEMMA WritesOn ==
    ASSUME IInv, NEW p \in Procs, pc[p] \notin {"idle", "refreshing"},
           NEW label \in Labels \ {"refreshing"}, NEW work \in Jobs,
           pc' = [pc EXCEPT ![p] = label], job' = [job EXCEPT ![p] = work],
           NoFault \/ Fault, log' = log, lock' = lock,
           card' \in 0..Len(log), snapshots' \in Seq(1..Len(log)),
           document' \in Contents, rows' \in Seq(Contents),
           work.base <= Len(log), Knows(label, work, log), Going(label, work),
           alone = p /\ NoFault /\ label # "idle" =>
              Undisturbed(label, work, log, card', document', rows')
    PROVE  IInv'
<1>1. /\ lock' \in Procs \cup {NoProc} /\ (lock' = p <=> label = "refreshing")
      /\ \A q \in Procs \ {p} : lock' = q <=> lock = q
  BY DEF IInv, TypeOK
<1> QED BY <1>1, Writes

\* A command that ends with its last projection leaves the log and the lock alone.
LEMMA WritesEnd ==
    ASSUME IInv, NEW p \in Procs, pc[p] \notin {"idle", "refreshing"}, Finish(p),
           NoFault \/ Fault, log' = log, lock' = lock,
           card' \in 0..Len(log), snapshots' \in Seq(1..Len(log)),
           document' \in Contents, rows' \in Seq(Contents)
    PROVE  IInv'
<1>1. pc' = [pc EXCEPT ![p] = "idle"] /\ job' = [job EXCEPT ![p] = NoJob]
  BY DEF Finish, Goto
<1>2. NoJob.base <= Len(log) /\ "idle" \in Labels \ {"refreshing"}
  BY NoJobTyped, Acts DEF Labels
<1> QED BY <1>1, <1>2, IdleKnows, NoJobTyped, WritesOn

\* What holds of the files, the targets and the lock before such a step.
LEMMA Typed ==
    ASSUME IInv
    PROVE  /\ card \in 0..Len(log) /\ snapshots \in Seq(1..Len(log))
           /\ document \in Contents /\ rows \in Seq(Contents)
           /\ lock \in Procs \cup {NoProc}
           /\ \A p \in Procs : lock = p <=> pc[p] = "refreshing"
           /\ \A p \in Procs : job = [job EXCEPT ![p] = job[p]]
           /\ \A p \in Procs : pc = [pc EXCEPT ![p] = pc[p]]
           /\ \A p \in Procs : pc[p] \in Labels
           /\ NoJob.base <= Len(log)
  BY NoJobTyped DEF IInv, TypeOK

\* Project: the Card written is that of the State the command has committed.
LEMMA ProjectTakes ==
    ASSUME IInv, NEW p \in Procs, Project(p)
    PROVE  IInv'
<1>1. /\ pc[p] = "project" /\ UNCHANGED <<log, snapshots, remote, lock>>
      /\ job[p] \in Jobs /\ job[p].base \in Nat /\ job[p].base <= Len(log)
      /\ alone = p => job[p].base = Len(log)
  BY Acts DEF Project, At, Undisturbed
<1>2. (card' = job[p].base /\ NoFault) \/ (Fault /\ UNCHANGED card)
  BY DEF Project
<1>3. /\ log' = log /\ lock' = lock /\ (NoFault \/ Fault)
      /\ pc[p] \notin {"idle", "refreshing"}
      /\ snapshots' \in Seq(1..Len(log)) /\ document' \in Contents /\ rows' \in Seq(Contents)
      /\ card' \in 0..Len(log)
      /\ alone = p /\ NoFault => card' = Len(log)
  BY <1>1, <1>2, Typed, Acts, Faults, ProjectionsAssumption DEF remote
<1>4. CASE Finish(p)
  BY <1>3, <1>4, WritesEnd
<1>5. CASE job[p].command = "report" /\ Continue(p, "sync")
  <2>1. pc' = [pc EXCEPT ![p] = "sync"] /\ job' = [job EXCEPT ![p] = job[p]]
    BY <1>5, Typed DEF Continue, Goto
  <2>2. Knows("sync", job[p], log) /\ Going("sync", job[p])
    BY <1>5 DEF Knows, Going
  <2>3. alone = p /\ NoFault => Undisturbed("sync", job[p], log, card', document', rows')
    BY <1>3 DEF Undisturbed
  <2>4. "sync" \in Labels \ {"refreshing"}
    BY DEF Labels
  <2> QED BY <1>1, <1>3, <2>1, <2>2, <2>3, <2>4, WritesOn
<1> QED BY <1>4, <1>5 DEF Project

\* Refresh: the lock is taken for the picture of the log as it is read.
LEMMA RefreshTakes ==
    ASSUME IInv, NEW p \in Procs, Refresh(p)
    PROVE  IInv'
<1> DEFINE work == [job[p] EXCEPT !.base = Len(log)]
<1>1. /\ pc[p] = "refresh" /\ lock = NoProc /\ lock' = p /\ NoFault
      /\ log' = log /\ card' = card /\ snapshots' = snapshots
      /\ document' = document /\ rows' = rows
      /\ job[p] \in Jobs /\ job[p].command \in {"init", "bind"} /\ Len(log) \in Nat
  BY Acts DEF Refresh, At, Going, local, remote
<1>2. pc' = [pc EXCEPT ![p] = "refreshing"] /\ job' = [job EXCEPT ![p] = work]
  BY DEF Refresh, Goto, IInv, TypeOK
<1>3. /\ work \in Jobs /\ work.base = Len(log) /\ work.base <= Len(log)
      /\ work.command \in {"init", "bind"}
  BY <1>1 DEF Jobs
<1> HIDE DEF work
<1>4. Knows("refreshing", work, log) /\ Going("refreshing", work)
  BY <1>3 DEF Knows, Going
<1>5. Undisturbed("refreshing", work, log, card', document', rows')
  BY <1>3 DEF Undisturbed
<1>6. /\ lock' \in Procs \cup {NoProc} /\ (lock' = p <=> "refreshing" = "refreshing")
      /\ \A q \in Procs \ {p} : lock' = q <=> lock = q
  BY <1>1, ProjectionsAssumption
<1>7. /\ card' \in 0..Len(log) /\ snapshots' \in Seq(1..Len(log))
      /\ document' \in Contents /\ rows' \in Seq(Contents)
      /\ "refreshing" \in Labels /\ pc[p] # "idle"
  BY <1>1, Typed DEF Labels
<1> QED BY <1>1, <1>2, <1>3, <1>4, <1>5, <1>6, <1>7, Writes

\* WriteRefreshed: the Card written under the lock is of the log that was read.
LEMMA WriteRefreshedTakes ==
    ASSUME IInv, NEW p \in Procs, WriteRefreshed(p)
    PROVE  IInv'
<1>1. /\ pc[p] = "refreshing" /\ lock' = NoProc /\ lock = p
      /\ log' = log /\ snapshots' = snapshots /\ document' = document /\ rows' = rows
      /\ job[p] \in Jobs /\ job[p].base \in Nat /\ job[p].base <= Len(log)
  BY Acts, Typed DEF WriteRefreshed, At, remote
<1>2. (card' = job[p].base /\ NoFault) \/ (Fault /\ UNCHANGED card)
  BY DEF WriteRefreshed
<1>3. /\ NoFault \/ Fault
      /\ card' \in 0..Len(log) /\ snapshots' \in Seq(1..Len(log))
      /\ document' \in Contents /\ rows' \in Seq(Contents)
      /\ lock' \in Procs \cup {NoProc} /\ lock' # p
      /\ \A q \in Procs \ {p} : lock' = q <=> lock = q
  BY <1>1, <1>2, Typed, Acts, ProjectionsAssumption
<1>4. CASE Finish(p)
  <2>1. pc' = [pc EXCEPT ![p] = "idle"] /\ job' = [job EXCEPT ![p] = NoJob]
    BY <1>4 DEF Finish, Goto
  <2>2. NoJob.base <= Len(log) /\ "idle" \in Labels /\ pc[p] # "idle"
    BY <1>1, Typed DEF Labels
  <2> QED BY <1>1, <1>3, <2>1, <2>2, IdleKnows, NoJobTyped, Writes
<1>5. CASE job[p].command = "init" /\ Continue(p, "reload")
  <2>1. pc' = [pc EXCEPT ![p] = "reload"] /\ job' = [job EXCEPT ![p] = job[p]]
    BY <1>5, Typed DEF Continue, Goto
  <2>2. Knows("reload", job[p], log) /\ Going("reload", job[p])
    BY <1>5 DEF Knows, Going
  <2>3. Undisturbed("reload", job[p], log, card', document', rows')
    BY <1>5 DEF Undisturbed
  <2>4. "reload" \in Labels /\ pc[p] # "idle"
    BY <1>1 DEF Labels
  <2> QED BY <1>1, <1>3, <2>1, <2>2, <2>3, <2>4, Writes
<1> QED BY <1>4, <1>5 DEF WriteRefreshed

\* Nothing is asked of a render that nothing disturbs.
Rendering == {"render", "rebuild", "check", "path", "snapshot"}

\* While it renders, a command claims nothing about the targets.
LEMMA RenderUndisturbed ==
    ASSUME NEW label \in Rendering, NEW work, NEW events, NEW picture, NEW shows, NEW table
    PROVE  Undisturbed(label, work, events, picture, shows, table)
  BY DEF Rendering, Undisturbed, Syncing

\* The steps that render a Card and number its snapshot.
LEMMA RenderTakes ==
    ASSUME IInv, NEW p \in Procs,
           LoadState(p) \/ CheckRebuilt(p) \/ NextCardPath(p) \/ Rebuild(p) \/ WriteSnapshot(p)
    PROVE  IInv'
<1>1. /\ pc[p] \in Rendering /\ pc[p] \notin {"idle", "refreshing"}
      /\ job[p].command \in {"render", "dry-run"} /\ log # << >>
      /\ job[p] \in Jobs /\ job[p].base \in Nat /\ job[p].base <= Len(log)
      /\ Len(log) \in Nat /\ Len(log) >= 1
  <2>1. pc[p] \in Rendering
    BY DEF LoadState, CheckRebuilt, NextCardPath, Rebuild, WriteSnapshot, At, Rendering
  <2>2. log # << >> /\ job[p].command \in {"render", "dry-run"}
    BY <2>1, Acts DEF Rendering, Knows, Going
  <2>3. Len(log) >= 1
    BY <2>2, Acts, EmptySeq
  <2> QED BY <2>1, <2>2, <2>3, Acts DEF Rendering
<1>2. pc[p] # "render" => job[p].base >= 1
  BY <1>1, Acts DEF Rendering, Knows
<1>3. ASSUME NEW label \in Rendering, NEW work \in Jobs,
             label = "render" \/ work.base >= 1, work.command = job[p].command
      PROVE  Knows(label, work, log) /\ Going(label, work) /\ label \in Labels \ {"idle", "refreshing"}
  BY <1>1, <1>3 DEF Rendering, Knows, Going, Labels
<1>4. CASE LoadState(p)
  <2>1. UNCHANGED <<local, remote, lock>> /\ NoFault
    BY <1>4 DEF LoadState
  <2>2. CASE Finish(p)
    BY <1>1, <2>1, <2>2, QuietEnd
  <2>3. ASSUME job' = [job EXCEPT ![p].base = Len(log)],
               NEW label \in {"path", "rebuild"}, Goto(p, label)
        PROVE  IInv'
    <3> DEFINE work == [job[p] EXCEPT !.base = Len(log)]
    <3>1. pc' = [pc EXCEPT ![p] = label] /\ job' = [job EXCEPT ![p] = work]
      BY <2>3 DEF Goto, IInv, TypeOK
    <3>2. work \in Jobs /\ work.base = Len(log) /\ work.command = job[p].command
      BY <1>1 DEF Jobs
    <3> HIDE DEF work
    <3>3. work.base >= 1 /\ work.base <= Len(log) /\ label \in Rendering
      BY <1>1, <3>2 DEF Rendering
    <3>4. /\ Knows(label, work, log) /\ Going(label, work) /\ label \in Labels \ {"refreshing"}
          /\ Undisturbed(label, work, log, card, document, rows)
      BY <1>3, <3>2, <3>3, RenderUndisturbed
    <3> QED BY <1>1, <2>1, <3>1, <3>2, <3>3, <3>4, Quiet
  <2> QED BY <1>4, <2>2, <2>3 DEF LoadState
<1>5. ASSUME NEW label \in {"path", "check"}, Continue(p, label), job[p].base >= 1
      PROVE  /\ pc' = [pc EXCEPT ![p] = label] /\ job' = [job EXCEPT ![p] = job[p]]
             /\ Knows(label, job[p], log) /\ Going(label, job[p])
             /\ label \in Labels \ {"idle", "refreshing"}
             /\ \A picture : Undisturbed(label, job[p], log, picture, document, rows)
  <2>1. label \in Rendering
    BY DEF Rendering
  <2>2. pc' = [pc EXCEPT ![p] = label] /\ job' = [job EXCEPT ![p] = job[p]]
    BY <1>5, Typed DEF Continue, Goto
  <2> QED BY <1>1, <1>3, <1>5, <2>1, <2>2, RenderUndisturbed
<1>6. CASE CheckRebuilt(p)
  <2>1. UNCHANGED <<local, remote, lock>> /\ NoFault /\ job[p].base >= 1
    BY <1>2, <1>6 DEF CheckRebuilt, At
  <2>2. CASE Finish(p)
    BY <1>1, <2>1, <2>2, QuietEnd
  <2>3. CASE Continue(p, "path")
    BY <1>1, <1>5, <2>1, <2>3, QuietContinue
  <2> QED BY <1>6, <2>2, <2>3 DEF CheckRebuilt
<1>7. CASE NextCardPath(p)
  <2> DEFINE work == [job[p] EXCEPT !.name = Len(snapshots) + 1]
  <2>1. /\ UNCHANGED <<local, remote, lock>> /\ NoFault /\ job[p].base >= 1
        /\ Len(snapshots) + 1 \in Nat
    BY <1>2, <1>7, Typed DEF NextCardPath, At
  <2>2. pc' = [pc EXCEPT ![p] = "snapshot"] /\ job' = [job EXCEPT ![p] = work]
    BY <1>7 DEF NextCardPath, Goto, IInv, TypeOK
  <2>3. work \in Jobs /\ work.base = job[p].base /\ work.command = job[p].command
    BY <1>1, <2>1 DEF Jobs
  <2> HIDE DEF work
  <2>4. "snapshot" \in Rendering
    BY DEF Rendering
  <2>5. /\ Knows("snapshot", work, log) /\ Going("snapshot", work)
        /\ "snapshot" \in Labels \ {"refreshing"} /\ work.base <= Len(log)
        /\ Undisturbed("snapshot", work, log, card, document, rows)
    BY <1>1, <1>3, <2>1, <2>3, <2>4, RenderUndisturbed
  <2> QED BY <1>1, <2>1, <2>2, <2>3, <2>5, Quiet
<1>8. CASE Rebuild(p)
  <2>1. /\ log' = log /\ lock' = lock /\ (NoFault \/ Fault)
        /\ job[p].base >= 1 /\ card' \in 0..Len(log) /\ snapshots' \in Seq(1..Len(log))
        /\ document' = document /\ rows' = rows
        /\ document' \in Contents /\ rows' \in Seq(Contents)
    BY <1>1, <1>2, <1>8, Typed DEF Rebuild, At, remote
  <2>2. CASE Finish(p)
    BY <1>1, <2>1, <2>2, WritesEnd
  <2>3. CASE Continue(p, "check")
    BY <1>1, <1>5, <2>1, <2>3, WritesOn
  <2> QED BY <1>8, <2>2, <2>3 DEF Rebuild
<1>9. CASE WriteSnapshot(p)
  <2>1. /\ log' = log /\ lock' = lock /\ (NoFault \/ Fault) /\ Finish(p)
        /\ job[p].base \in 1..Len(log) /\ card' \in 0..Len(log)
        /\ document' \in Contents /\ rows' \in Seq(Contents)
        /\ snapshots' \in {snapshots, Append(snapshots, job[p].base)}
    <3>1. /\ log' = log /\ lock' = lock /\ card' = card /\ document' = document
          /\ rows' = rows /\ pc[p] = "snapshot"
      BY <1>9 DEF WriteSnapshot, At, remote
    <3>2. /\ NoFault \/ Fault
          /\ Finish(p)
          /\ snapshots' \in {snapshots, Append(snapshots, job[p].base)}
      <4>1. \/ snapshots' = Append(snapshots, job[p].base) /\ Finish(p) /\ NoFault
            \/ Finish(p) /\ NoFault /\ snapshots' = snapshots
            \/ Fault /\ Finish(p) /\ snapshots' = snapshots
        BY <1>9, Zenon DEF WriteSnapshot
      <4> QED BY <4>1
    <3>3. job[p].base \in 1..Len(log)
      BY <1>1, <1>2, <3>1
    <3>4. card' \in 0..Len(log) /\ document' \in Contents /\ rows' \in Seq(Contents)
      BY <3>1, Typed
    <3> QED BY <3>1, <3>2, <3>3, <3>4, Zenon
  <2>2. snapshots' \in Seq(1..Len(log))
    <3> DEFINE States == 1..Len(log)
    <3>1. snapshots \in Seq(States) /\ job[p].base \in States
      BY <2>1, Typed
    <3> HIDE DEF States
    <3>2. Append(snapshots, job[p].base) \in Seq(States)
      BY <3>1, AppendProperties
    <3>3. snapshots' \in Seq(States)
      BY <2>1, <3>1, <3>2
    <3> QED BY <3>3 DEF States
  <2> QED BY <1>1, <2>1, <2>2, WritesEnd
<1> QED BY <1>4, <1>6, <1>7, <1>8, <1>9

\* Sync: the sync_started that was committed is the command's own, by its number.
LEMMA SyncTakes ==
    ASSUME IInv, NEW p \in Procs, Sync(p)
    PROVE  IInv'
<1> DEFINE kind == IF Bound(Len(log)) THEN "started" ELSE "skipped"
           work == [job[p] EXCEPT !.base = Len(log), !.kind = kind]
<1>1. /\ pc[p] = "sync" /\ NoFault /\ UNCHANGED <<local, remote, lock>>
      /\ job[p] \in Jobs /\ job[p].command \in {"sync", "report"} /\ Len(log) \in Nat
      /\ alone = p => Undisturbed("sync", job[p], log, card, document, rows)
  BY Acts DEF Sync, At, Going
<1>2. pc' = [pc EXCEPT ![p] = "commit"] /\ job' = [job EXCEPT ![p] = work]
  BY DEF Sync, Goto, IInv, TypeOK
<1>3. kind \in {"started", "skipped"} /\ (kind = "skipped" => ~BoundIn(log, Len(log)))
  BY OfTheLog
<1> HIDE DEF kind
<1>4. work \in Jobs /\ work.base = Len(log) /\ work.kind = kind /\ work.command = job[p].command
  <2>1. kind \in Kinds \cup {"none"}
    BY <1>3 DEF Kinds, Outcomes
  <2> QED BY <1>1, <2>1 DEF Jobs
<1> HIDE DEF work
<1>5. Knows("commit", work, log) /\ Going("commit", work) /\ work.base <= Len(log)
  BY <1>1, <1>3, <1>4 DEF Knows, Going, Kinds, Outcomes
<1>6. ASSUME alone = p
      PROVE  Undisturbed("commit", work, log, card, document, rows)
  <2>1. work.command = "report" => ShownIn(log, card) = ShownIn(log, Len(log))
    BY <1>1, <1>4, <1>6 DEF Undisturbed, Syncing
  <2> QED BY <1>3, <1>4, <2>1 DEF Undisturbed
<1>7. pc[p] \notin {"idle", "refreshing"} /\ "commit" \in Labels \ {"refreshing"}
  BY <1>1 DEF Labels
<1> QED BY <1>1, <1>2, <1>4, <1>5, <1>6, <1>7, Quiet

\* ReadEvents: what is rendered for the document is a prefix of the log.
LEMMA ReadEventsTakes ==
    ASSUME IInv, NEW p \in Procs, ReadEvents(p)
    PROVE  IInv'
<1> DEFINE content == [state |-> job[p].base, events |-> Len(log)]
           work == [job[p] EXCEPT !.content = content, !.document = "todo", !.registry = "list"]
<1>1. /\ pc[p] = "events" /\ NoFault /\ UNCHANGED <<local, remote, lock>>
      /\ job[p] \in Jobs /\ job[p].command \in {"sync", "report"}
      /\ job[p].base \in Nat /\ job[p].base <= Len(log) /\ Len(log) \in Nat
      /\ job[p].base >= 1 /\ log[job[p].base] = "started"
      /\ alone = p => Undisturbed("events", job[p], log, card, document, rows)
  BY Acts DEF ReadEvents, At, Going, Knows
<1>2. pc' = [pc EXCEPT ![p] = "targets"] /\ job' = [job EXCEPT ![p] = work]
  BY DEF ReadEvents, Goto, IInv, TypeOK
<1>3. content \in Contents /\ content.state = job[p].base /\ content.events = Len(log)
  BY <1>1 DEF Contents
<1>4. job[p].base = Len(log) => content = [state |-> Len(log), events |-> Len(log)]
  OBVIOUS
<1> HIDE DEF content
<1>5. /\ work \in Jobs /\ work.base = job[p].base /\ work.command = job[p].command
      /\ work.content = content /\ work.document = "todo" /\ work.registry = "list"
  BY <1>1, <1>3 DEF Jobs
<1> HIDE DEF work
<1>6. Knows("targets", work, log) /\ Going("targets", work) /\ work.base <= Len(log)
  BY <1>1, <1>3, <1>5 DEF Knows, Going
<1>7. ASSUME alone = p
      PROVE  Undisturbed("targets", work, log, card, document, rows)
  <2>1. work.command = "report" => ShownIn(log, card) = ShownIn(log, Len(log))
    BY <1>1, <1>5, <1>7 DEF Undisturbed, Syncing
  <2>2. work.base = Len(log)
    BY <1>1, <1>5, <1>7 DEF Undisturbed
  <2>3. Settled(work, document, rows)
    BY <1>5 DEF Settled
  <2> QED BY <1>4, <1>5, <2>1, <2>2, <2>3 DEF Undisturbed
<1>8. pc[p] \notin {"idle", "refreshing"} /\ "targets" \in Labels \ {"refreshing"}
  BY <1>1 DEF Labels
<1> QED BY <1>1, <1>2, <1>5, <1>6, <1>7, <1>8, Quiet

\* A step at the targets changes neither the log nor the Card, and what its
\* process does there is a matter of the targets and their rows.
LEMMA AtTargets ==
    ASSUME IInv, NEW p \in Procs, pc[p] = "targets", NEW work \in Jobs,
           job' = [job EXCEPT ![p] = work], UNCHANGED <<local, lock, pc>>, NoFault \/ Fault,
           document' \in Contents, rows' \in Seq(Contents),
           work.base = job[p].base, work.command = job[p].command, work.kind = job[p].kind,
           work.content = job[p].content,
           NoFault /\ Settled(job[p], document, rows) => Settled(work, document', rows')
    PROVE  IInv'
<1>1. /\ pc' = [pc EXCEPT ![p] = "targets"] /\ log' = log /\ card' = card /\ lock' = lock
      /\ card' \in 0..Len(log) /\ snapshots' \in Seq(1..Len(log))
      /\ pc[p] \notin {"idle", "refreshing"} /\ "targets" \in Labels \ {"refreshing"}
      /\ work.base <= Len(log)
  BY Typed, Acts DEF local, Labels
<1>2. Knows("targets", work, log) /\ Going("targets", work)
  BY Acts DEF Knows, Going
<1>3. ASSUME alone = p, NoFault
      PROVE  Undisturbed("targets", work, log, card', document', rows')
  <2>1. Undisturbed("targets", job[p], log, card, document, rows)
    BY <1>3, Acts
  <2>2. Settled(work, document', rows')
    BY <1>3, <2>1 DEF Undisturbed
  <2>3. work.command = "report" => ShownIn(log, card) = ShownIn(log, Len(log))
    BY <2>1 DEF Undisturbed, Syncing
  <2> QED BY <1>1, <2>1, <2>2, <2>3 DEF Undisturbed
<1> QED BY <1>1, <1>2, <1>3, WritesOn

\* SyncDocument: the document has the content of the log, or the target has failed.
LEMMA SyncDocumentTakes ==
    ASSUME IInv, NEW p \in Procs, SyncDocument(p)
    PROVE  IInv'
<1>1. /\ pc[p] = "targets" /\ job[p] \in Jobs /\ job[p].content \in Contents
      /\ document \in Contents /\ rows' \in Seq(Contents) /\ rows' = rows
      /\ UNCHANGED <<local, lock, pc>>
  BY Acts, Typed DEF SyncDocument, At, Jobs
<1>2. ASSUME NEW result \in {"succeeded", "failed"},
             job' = [job EXCEPT ![p].document = result],
             NoFault \/ Fault, NoFault => result = "succeeded" /\ document' = job[p].content,
             document' \in {document, job[p].content}
      PROVE  IInv'
  <2> DEFINE work == [job[p] EXCEPT !.document = result]
  <2>1. job' = [job EXCEPT ![p] = work]
    BY <1>2 DEF IInv, TypeOK
  <2>2. /\ work \in Jobs /\ work.base = job[p].base /\ work.command = job[p].command
        /\ work.kind = job[p].kind /\ work.content = job[p].content
        /\ work.document = result /\ work.registry = job[p].registry /\ work.row = job[p].row
    BY <1>1 DEF Jobs
  <2> HIDE DEF work
  <2>3. NoFault /\ Settled(job[p], document, rows) => Settled(work, document', rows')
    BY <1>1, <1>2, <2>2 DEF Settled
  <2>4. document' \in Contents
    BY <1>1, <1>2
  <2> QED BY <1>1, <1>2, <2>1, <2>2, <2>3, <2>4, AtTargets
<1>3. CASE /\ document' = job[p].content /\ NoFault
           /\ job' = [job EXCEPT ![p].document = "succeeded"]
  BY <1>2, <1>3
<1>4. CASE /\ document' \in {document, job[p].content} /\ Fault
           /\ job' = [job EXCEPT ![p].document = "failed"]
  <2>1. ~NoFault
    BY <1>4, ProjectionsAssumption DEF NoFault, Fault, IInv, TypeOK
  <2> QED BY <1>2, <1>4, <2>1
<1> QED BY <1>3, <1>4, Zenon DEF SyncDocument

\* The same for a step of the Registry.
LEMMA AtRegistry ==
    ASSUME IInv, NEW p \in Procs, pc[p] = "targets", UNCHANGED <<local, lock, pc, document>>,
           NEW row \in Nat, NEW registry \in {"upsert", "resolve", "succeeded", "failed"},
           job' = [job EXCEPT ![p] = [job[p] EXCEPT !.row = row, !.registry = registry]],
           NoFault \/ Fault, rows' \in Seq(Contents),
           NoFault /\ Settled(job[p], document, rows) =>
              \/ registry = "upsert" /\ row = Len(rows') /\ Len(rows') <= 1
              \/ registry \in {"resolve", "succeeded"} /\ rows' = <<job[p].content>>
              \/ registry = "failed" /\ Len(rows') > 1
    PROVE  IInv'
<1> DEFINE work == [job[p] EXCEPT !.row = row, !.registry = registry]
<1>1. job[p] \in Jobs /\ document' = document /\ document' \in Contents
  BY Acts, Typed
<1>2. /\ work \in Jobs /\ work.base = job[p].base /\ work.command = job[p].command
      /\ work.kind = job[p].kind /\ work.content = job[p].content
      /\ work.document = job[p].document /\ work.registry = registry /\ work.row = row
  BY <1>1 DEF Jobs
<1>3. job' = [job EXCEPT ![p] = work]
  OBVIOUS
<1> HIDE DEF work
<1>4. NoFault /\ Settled(job[p], document, rows) => Settled(work, document', rows')
  BY <1>1, <1>2 DEF Settled
<1>5. UNCHANGED <<local, lock, pc>>
  OBVIOUS
<1> QED BY <1>1, <1>2, <1>3, <1>4, <1>5, AtTargets

\* The first row of the key, updated, is the only one if there is one.
LEMMA UpdateRow ==
    ASSUME NEW table \in Seq(Contents), NEW content \in Contents
    PROVE  /\ [table EXCEPT ![1] = content] \in Seq(Contents)
           /\ Len(table) = 1 => [table EXCEPT ![1] = content] = <<content>>
<1> DEFINE updated == [table EXCEPT ![1] = content]
<1>1. CASE Len(table) = 0
  <2>1. table = << >>
    BY <1>1, EmptySeq
  <2>2. updated = table
    BY <2>1
  <2>3. updated \in Seq(Contents)
    BY <2>2
  <2> QED BY <1>1, <2>3
<1>2. CASE Len(table) >= 1
  <2>1. /\ updated \in Seq(Contents) /\ Len(updated) = Len(table)
        /\ \A j \in 1..Len(table) : updated[j] = IF j = 1 THEN content ELSE table[j]
    BY <1>2, ExceptSeq
  <2>2. ASSUME Len(table) = 1
        PROVE  updated = <<content>>
    <3>1. <<content>> \in Seq(Contents) /\ Len(<<content>>) = 1 /\ <<content>>[1] = content
      OBVIOUS
    <3>2. updated[1] = content
      BY <2>1, <2>2
    <3> HIDE DEF updated
    <3>3. \A i \in 1..Len(updated) : updated[i] = <<content>>[i]
      BY <2>1, <2>2, <3>1, <3>2
    <3> QED BY <2>1, <2>2, <3>1, <3>3, SeqEqual
  <2> QED BY <2>1, <2>2
<1> QED BY <1>1, <1>2

\* The steps that list, upsert and resolve the row of the Registry.
LEMMA RegistryTakes ==
    ASSUME IInv, NEW p \in Procs, ListRows(p) \/ UpsertRow(p) \/ ResolveRow(p)
    PROVE  IInv'
<1>1. /\ pc[p] = "targets" /\ UNCHANGED <<local, lock, pc, document>>
      /\ job[p] \in Jobs /\ job[p].content \in Contents /\ job[p].row \in Nat
      /\ job[p].registry \in {"list", "upsert", "resolve"}
      /\ rows \in Seq(Contents) /\ Len(rows) \in Nat
  BY Acts, Typed DEF ListRows, UpsertRow, ResolveRow, At, remote, Jobs
<1>2. Fault => ~NoFault
  BY ProjectionsAssumption DEF NoFault, Fault, IInv, TypeOK
<1>3. ASSUME NEW registry \in {"upsert", "resolve", "succeeded", "failed"},
             job' = [job EXCEPT ![p].registry = registry]
      PROVE  job' = [job EXCEPT ![p] = [job[p] EXCEPT !.row = job[p].row, !.registry = registry]]
  <2>1. [job[p] EXCEPT !.registry = registry]
           = [job[p] EXCEPT !.row = job[p].row, !.registry = registry]
    BY <1>1 DEF Jobs
  <2>2. job' = [job EXCEPT ![p] = [job[p] EXCEPT !.registry = registry]]
    BY <1>3 DEF IInv, TypeOK
  <2> QED BY <2>1, <2>2
<1>4. ASSUME Fault, rows' \in Seq(Contents), job' = [job EXCEPT ![p].registry = "failed"]
      PROVE  IInv'
  BY <1>1, <1>2, <1>3, <1>4, AtRegistry
<1>5. CASE ListRows(p)
  <2>1. rows' = rows
    BY <1>5 DEF ListRows, remote
  <2>2. CASE /\ job' = [job EXCEPT ![p].row = Len(rows),
                                   ![p].registry = IF Len(rows) > 1 THEN "failed" ELSE "upsert"]
             /\ NoFault
    <3> DEFINE registry == IF Len(rows) > 1 THEN "failed" ELSE "upsert"
    <3>1. registry \in {"upsert", "resolve", "succeeded", "failed"}
      OBVIOUS
    <3>2. job' = [job EXCEPT ![p] = [job[p] EXCEPT !.row = Len(rows), !.registry = registry]]
      BY <2>2 DEF IInv, TypeOK
    <3>3. \/ registry = "upsert" /\ Len(rows) = Len(rows') /\ Len(rows') <= 1
          \/ registry = "failed" /\ Len(rows') > 1
      BY <1>1, <2>1
    <3>4. rows' \in Seq(Contents) /\ (NoFault \/ Fault)
      BY <1>1, <2>1, <2>2
    <3> HIDE DEF registry
    <3>5. \/ registry = "upsert" /\ Len(rows) = Len(rows') /\ Len(rows') <= 1
          \/ registry \in {"resolve", "succeeded"} /\ rows' = <<job[p].content>>
          \/ registry = "failed" /\ Len(rows') > 1
      BY <3>3
    <3> QED BY <1>1, <3>1, <3>2, <3>4, <3>5, AtRegistry
  <2>3. CASE job' = [job EXCEPT ![p].registry = "failed"] /\ Fault
    BY <1>1, <1>4, <2>1, <2>3
  <2> QED BY <1>5, <2>2, <2>3, Zenon DEF ListRows
<1>6. CASE UpsertRow(p)
  <2>1. Upserted(p) \in Seq(Contents)
    <3>1. Append(rows, job[p].content) \in Seq(Contents)
      BY <1>1
    <3>2. [rows EXCEPT ![1] = job[p].content] \in Seq(Contents)
      BY <1>1, UpdateRow
    <3> QED BY <3>1, <3>2 DEF Upserted
  <2>2. CASE /\ rows' = Upserted(p) /\ NoFault
             /\ job' = [job EXCEPT ![p].registry =
                            IF job[p].row = 0 THEN "resolve" ELSE "succeeded"]
    <3> DEFINE registry == IF job[p].row = 0 THEN "resolve" ELSE "succeeded"
    <3>1. registry \in {"resolve", "succeeded"}
      OBVIOUS
    <3>2. ASSUME Settled(job[p], document, rows)
          PROVE  rows' = <<job[p].content>>
      <4>1. job[p].row = Len(rows) /\ Len(rows) <= 1
        BY <1>6, <3>2 DEF UpsertRow, Settled
      <4>2. CASE Len(rows) = 0
        <5>1. rows = << >>
          BY <1>1, <4>2, EmptySeq
        <5> QED BY <1>1, <2>2, <4>1, <4>2, <5>1 DEF Upserted
      <4>3. CASE Len(rows) = 1
        <5>1. rows' = [rows EXCEPT ![1] = job[p].content]
          BY <2>2, <4>1, <4>3 DEF Upserted
        <5> QED BY <1>1, <4>3, <5>1, UpdateRow
      <4>4. Len(rows) = 0 \/ Len(rows) = 1
        <5>1. Len(rows) \in Nat
          BY <1>1
        <5>2. Len(rows) <= 1
          BY <4>1
        <5> QED BY <5>1, <5>2
      <4> QED BY <4>2, <4>3, <4>4, Zenon
    <3>3. job' = [job EXCEPT ![p].registry = registry]
      BY <2>2
    <3>4. rows' \in Seq(Contents) /\ (NoFault \/ Fault)
      BY <2>1, <2>2
    <3> HIDE DEF registry
    <3>5. job' = [job EXCEPT ![p] = [job[p] EXCEPT !.row = job[p].row, !.registry = registry]]
      BY <1>3, <3>1, <3>3
    <3>6. /\ registry \in {"upsert", "resolve", "succeeded", "failed"}
          /\ Settled(job[p], document, rows) =>
                \/ registry = "upsert" /\ job[p].row = Len(rows') /\ Len(rows') <= 1
                \/ registry \in {"resolve", "succeeded"} /\ rows' = <<job[p].content>>
                \/ registry = "failed" /\ Len(rows') > 1
      BY <3>1, <3>2
    <3> QED BY <1>1, <3>4, <3>5, <3>6, AtRegistry
  <2>3. CASE /\ rows' \in {rows, Upserted(p)} /\ Fault
             /\ job' = [job EXCEPT ![p].registry = "failed"]
    BY <1>1, <1>4, <2>1, <2>3
  <2> QED BY <1>6, <2>2, <2>3, Zenon DEF UpsertRow
<1>7. CASE ResolveRow(p)
  <2>1. rows' = rows /\ job[p].registry = "resolve"
    BY <1>7 DEF ResolveRow, remote
  <2>2. Settled(job[p], document, rows) => rows = <<job[p].content>> /\ Len(rows) = 1
    BY <1>1, <2>1 DEF Settled
  <2>3. CASE job' = [job EXCEPT ![p].registry = "succeeded"] /\ NoFault
    BY <1>1, <1>3, <2>1, <2>2, <2>3, AtRegistry
  <2>4. CASE Len(rows) # 1 /\ job' = [job EXCEPT ![p].registry = "failed"] /\ NoFault
    BY <1>1, <1>3, <2>1, <2>2, <2>4, AtRegistry
  <2>5. CASE job' = [job EXCEPT ![p].registry = "failed"] /\ Fault
    BY <1>1, <1>4, <2>1, <2>5
  <2> QED BY <1>7, <2>3, <2>4, <2>5, Zenon DEF ResolveRow
<1> QED BY <1>5, <1>6, <1>7

\* Conclude: trace.synced is committed right behind the Event it answers.
LEMMA ConcludeTakes ==
    ASSUME IInv, NEW p \in Procs, Conclude(p)
    PROVE  IInv'
<1> DEFINE kind == IF "failed" \in {job[p].document, job[p].registry} THEN "partial" ELSE "succeeded"
           work == [job[p] EXCEPT !.kind = kind]
<1>1. /\ pc[p] = "targets" /\ NoFault /\ UNCHANGED <<local, remote, lock>>
      /\ job[p] \in Jobs /\ job[p].command \in {"sync", "report"}
      /\ {job[p].document, job[p].registry} \subseteq {"succeeded", "failed"}
      /\ Knows("targets", job[p], log) /\ job[p].base <= Len(log)
      /\ alone = p => Undisturbed("targets", job[p], log, card, document, rows)
  BY Acts DEF Conclude, At, Going
<1>2. pc' = [pc EXCEPT ![p] = "commit"] /\ job' = [job EXCEPT ![p] = work]
  BY DEF Conclude, Goto, IInv, TypeOK
<1>3. /\ kind \in {"succeeded", "partial"}
      /\ kind = "succeeded" <=> job[p].document = "succeeded" /\ job[p].registry = "succeeded"
  BY <1>1
<1> HIDE DEF kind
<1>4. /\ work \in Jobs /\ work.base = job[p].base /\ work.kind = kind
      /\ work.command = job[p].command /\ work.content = job[p].content
  <2>1. kind \in Kinds \cup {"none"}
    BY <1>3 DEF Kinds, Outcomes
  <2> QED BY <1>1, <2>1 DEF Jobs
<1> HIDE DEF work
<1>5. Knows("commit", work, log) /\ Going("commit", work) /\ work.base <= Len(log)
  BY <1>1, <1>3, <1>4 DEF Knows, Going, Kinds, Outcomes
<1>6. ASSUME alone = p
      PROVE  Undisturbed("commit", work, log, card, document, rows)
  <2>1. /\ job[p].base = Len(log) /\ Settled(job[p], document, rows)
        /\ job[p].content = [state |-> Len(log), events |-> Len(log)]
        /\ work.command = "report" => ShownIn(log, card) = ShownIn(log, Len(log))
    BY <1>1, <1>4, <1>6 DEF Undisturbed, Syncing
  <2>2. /\ job[p].document = "succeeded" /\ document = job[p].content
        /\ IF job[p].registry = "succeeded" THEN rows = <<job[p].content>> ELSE Len(rows) > 1
    BY <1>1, <2>1 DEF Settled
  <2> QED BY <1>3, <1>4, <2>1, <2>2 DEF Undisturbed
<1>7. pc[p] \notin {"idle", "refreshing"} /\ "commit" \in Labels \ {"refreshing"}
  BY <1>1 DEF Labels
<1> QED BY <1>1, <1>2, <1>4, <1>5, <1>6, <1>7, Quiet

\* Crash: a killed command claims nothing, and the lock it held is free.
LEMMA CrashTakes ==
    ASSUME IInv, NEW p \in Procs, Crash(p)
    PROVE  IInv'
<1>1. /\ pc[p] # "idle" /\ Fault /\ log' = log
      /\ card' = card /\ snapshots' = snapshots /\ document' = document /\ rows' = rows
      /\ lock' = IF lock = p THEN NoProc ELSE lock
      /\ pc' = [pc EXCEPT ![p] = "idle"] /\ job' = [job EXCEPT ![p] = NoJob]
  BY DEF Crash, Finish, Goto, local, remote
<1>2. ~NoFault
  BY <1>1, ProjectionsAssumption DEF NoFault, Fault, IInv, TypeOK
<1>3. /\ card' \in 0..Len(log) /\ snapshots' \in Seq(1..Len(log))
      /\ document' \in Contents /\ rows' \in Seq(Contents)
      /\ NoJob.base <= Len(log) /\ "idle" \in Labels
  BY <1>1, Typed DEF Labels
<1>4. /\ lock' \in Procs \cup {NoProc} /\ lock' # p
      /\ \A q \in Procs \ {p} : lock' = q <=> lock = q
  BY <1>1, Typed, ProjectionsAssumption
<1> QED BY <1>1, <1>2, <1>3, <1>4, IdleKnows, NoJobTyped, Writes

-----------------------------------------------------------------------------
(* Every state *)

\* IInv holds at the start.
LEMMA InitHolds == Init => IInv
<1> SUFFICES ASSUME Init
             PROVE  IInv
  OBVIOUS
<1>1. /\ log = << >> /\ card = 0 /\ snapshots = << >> /\ document = NoContent /\ rows = << >>
      /\ lock = NoProc /\ alone = NoProc /\ faults = 0
      /\ pc = [p \in Procs |-> "idle"] /\ job = [p \in Procs |-> NoJob]
  BY DEF Init
<1>2. log \in Seq(Kinds) /\ Len(log) = 0
  BY <1>1
<1>3. /\ card \in 0..Len(log) /\ snapshots \in Seq(1..Len(log)) /\ rows \in Seq(Contents)
      /\ document \in Contents
  BY <1>1, <1>2, NoJobTyped, EmptySeq
<1>4. /\ pc \in [Procs -> Labels] /\ job \in [Procs -> Jobs] /\ faults \in 0..MaxFaults
      /\ \A p \in Procs : pc[p] = "idle" /\ job[p] = NoJob
  BY <1>1, NoJobTyped, ProjectionsAssumption DEF Labels
<1>5. \A p \in Procs : (lock = p <=> pc[p] = "refreshing") /\ job[p].base <= Len(log)
  BY <1>1, <1>2, <1>4, NoJobTyped, ProjectionsAssumption
<1>6. TypeOK
  BY <1>1, <1>2, <1>3, <1>4, <1>5 DEF TypeOK
<1>7. \A p \in Procs : Knows(pc[p], job[p], log) /\ Going(pc[p], job[p])
  BY <1>4, IdleKnows
<1>8. AloneInv
  BY <1>1 DEF AloneInv
<1> QED BY <1>6, <1>7, <1>8 DEF IInv

\* IInv is inductive.
LEMMA Inductive == IInv /\ [Next]_vars => IInv'
<1> SUFFICES ASSUME IInv, [Next]_vars
             PROVE  IInv'
  OBVIOUS
<1>1. CASE UNCHANGED vars
  <2>1. TypeOK'
    BY <1>1 DEF IInv, TypeOK, vars
  <2>2. \A p \in Procs : Knows(pc'[p], job'[p], log') /\ Going(pc'[p], job'[p])
    BY <1>1 DEF IInv, vars
  <2>3. AloneInv'
    BY <1>1 DEF IInv, AloneInv, vars
  <2> QED BY <2>1, <2>2, <2>3 DEF IInv
<1>2. ASSUME NEW p \in Procs, Advance(p)
      PROVE  IInv'
  BY <1>2, CommitTakes, ProvisionTakes, ReloadTakes, ProjectTakes, RefreshTakes,
     WriteRefreshedTakes, RenderTakes, SyncTakes, ReadEventsTakes, SyncDocumentTakes,
     RegistryTakes, ConcludeTakes DEF Advance
<1> QED BY <1>1, <1>2, StartTakes, CrashTakes DEF Next

\* IInv holds always.
LEMMA Always == Spec => []IInv
  BY InitHolds, Inductive, PTL DEF Spec

\* The types of the log, the files, the remote service and the processes, in
\* every state; and that the lock is held between two steps by a refresh only.
THEOREM TypeCorrect == Spec => []TypeOK
<1>1. IInv => TypeOK
  BY DEF IInv
<1> QED BY <1>1, Always, PTL

-----------------------------------------------------------------------------
(* What a step may do *)

\* A process moves by its own steps only.
LEMMA OthersStay ==
    ASSUME IInv, NEW p \in Procs, Start(p) \/ Advance(p) \/ Crash(p), NEW q \in Procs \ {p}
    PROVE  pc'[q] = pc[q]
<1>1. \A label : Goto(p, label) => pc'[q] = pc[q]
  BY DEF Goto, IInv, TypeOK
<1>2. CASE Start(p)
  BY <1>1, <1>2 DEF Start, StartInit, StartReport, StartBind, StartSync, StartRender, Begin
<1>3. CASE Crash(p)
  BY <1>1, <1>3 DEF Crash, Finish
<1>4. CASE Commit(p)
  BY <1>1, <1>4, Zenon DEF Commit, Refuse, Continue, Finish
<1>5. CASE Provision(p) \/ Reload(p) \/ Project(p) \/ Refresh(p) \/ WriteRefreshed(p)
  BY <1>1, <1>5, Zenon DEF Provision, Reload, Project, Refresh, WriteRefreshed, Continue, Finish
<1>6. CASE \/ LoadState(p) \/ Rebuild(p) \/ CheckRebuilt(p) \/ NextCardPath(p)
           \/ WriteSnapshot(p)
  BY <1>1, <1>6, Zenon DEF LoadState, Rebuild, CheckRebuilt, NextCardPath, WriteSnapshot,
                          Continue, Finish
<1>7. CASE Sync(p) \/ ReadEvents(p) \/ Conclude(p)
  BY <1>1, <1>7, Zenon DEF Sync, ReadEvents, Conclude
<1>8. CASE SyncDocument(p) \/ ListRows(p) \/ UpsertRow(p) \/ ResolveRow(p)
  BY <1>8 DEF SyncDocument, ListRows, UpsertRow, ResolveRow
<1> QED BY <1>2, <1>3, <1>4, <1>5, <1>6, <1>7, <1>8 DEF Advance

\* A process under way moves only by its own step or by a kill.
LEMMA Acted ==
    ASSUME IInv, Next, NEW p \in Procs, pc'[p] # pc[p], pc[p] # "idle"
    PROVE  Advance(p) \/ Crash(p)
<1>1. PICK q \in Procs : Start(q) \/ Advance(q) \/ Crash(q)
  BY DEF Next
<1>2. q = p
  BY <1>1, OthersStay
<1>3. ~Start(p)
  BY DEF Start, StartInit, StartReport, StartBind, StartSync, StartRender, Begin, At
<1> QED BY <1>1, <1>2, <1>3

\* At its commit it moves only by Commit.
LEMMA CommitActed ==
    ASSUME IInv, NEW p \in Procs, pc[p] = "commit", Advance(p)
    PROVE  Commit(p)
  BY DEF Advance, At, Provision, Reload, Project, Refresh, WriteRefreshed, LoadState, Rebuild,
         CheckRebuilt, NextCardPath, WriteSnapshot, Sync, ReadEvents, SyncDocument, ListRows,
         UpsertRow, ResolveRow, Conclude

\* A trace.synced Event follows the trace.sync_started of its own sync, and what
\* it reports on showed one moment, the one of that start, for any number of
\* processes that commit, sync and are killed.
THEOREM SyncsDescribeTheirStart == Spec => SyncedDescribesItsStart
<1> DEFINE Describes ==
      \A p \in Procs :
          /\ pc[p] = "commit" /\ job[p].kind \in {"succeeded", "partial"}
          /\ log' # log /\ pc'[p] # "commit"
          => /\ log[Len(log)] = "started"
             /\ job[p].content = [state |-> Len(log), events |-> Len(log)]
<1>1. IInv /\ [Next]_vars => [Describes]_vars
  <2> SUFFICES ASSUME IInv, Next, NEW p \in Procs,
                      pc[p] = "commit", job[p].kind \in {"succeeded", "partial"},
                      log' # log, pc'[p] # "commit"
               PROVE  /\ log[Len(log)] = "started"
                      /\ job[p].content = [state |-> Len(log), events |-> Len(log)]
    OBVIOUS
  <2>1. Commit(p)
    <3>1. ~Crash(p)
      BY DEF Crash, local
    <3> QED BY <3>1, Acted, CommitActed
  <2>2. job[p].base = Len(log)
    BY <2>1 DEF Commit
  <2>3. /\ job[p].base >= 1 /\ log[job[p].base] = "started"
        /\ job[p].content.state = job[p].base
        /\ job[p].content.events \in job[p].base..Len(log)
        /\ job[p].content \in Contents /\ Len(log) \in Nat
    BY Acts DEF Knows, Jobs
  <2>4. job[p].content.events = Len(log)
    BY <2>2, <2>3
  <2> QED BY <2>2, <2>3, <2>4 DEF Contents
<1> QED BY <1>1, Always, PTL DEF Spec, SyncedDescribesItsStart

\* A Card snapshot that was written is never changed, whatever renders race.
THEOREM SnapshotsStay == Spec => SnapshotsKept
<1>1. IInv /\ [Next]_vars => [IsPrefix(snapshots, snapshots')]_vars
  <2> SUFFICES ASSUME IInv, Next
               PROVE  IsPrefix(snapshots, snapshots')
    OBVIOUS
  <2>1. PICK p \in Procs : Start(p) \/ Advance(p) \/ Crash(p)
    BY DEF Next
  <2>2. snapshots' = snapshots \/ snapshots' = Append(snapshots, job[p].base)
    <3>1. CASE Start(p)
      BY <3>1 DEF Start, StartInit, StartReport, StartBind, StartSync, StartRender, Begin, local
    <3>2. CASE Crash(p)
      BY <3>2 DEF Crash, local
    <3>3. CASE WriteSnapshot(p)
      BY <3>3, Zenon DEF WriteSnapshot
    <3>4. CASE Advance(p) /\ ~WriteSnapshot(p)
      BY <3>4, Zenon DEF Advance, Commit, Provision, Reload, Project, Refresh, WriteRefreshed,
         LoadState, Rebuild, CheckRebuilt, NextCardPath, Sync, ReadEvents, SyncDocument,
         ListRows, UpsertRow, ResolveRow, Conclude, local
    <3> QED BY <2>1, <3>1, <3>2, <3>3, <3>4
  <2>3. snapshots \in Seq(1..Len(log)) /\ Len(snapshots) \in Nat
    BY Typed
  <2>4. CASE snapshots' = snapshots
    BY <2>3, <2>4 DEF IsPrefix
  <2>5. CASE snapshots' = Append(snapshots, job[p].base)
    BY <2>3, <2>5 DEF IsPrefix
  <2> QED BY <2>2, <2>4, <2>5
<1> QED BY <1>1, Always, PTL DEF Spec, SnapshotsKept

\* How the command of a process ends if it met no other and no fault: with the
\* last commit of its sync, with the Card, or rendering.
LEMMA EndsIn ==
    ASSUME IInv, Next, NEW p \in Procs, alone' = p, pc[p] # "idle", pc'[p] = "idle"
    PROVE  /\ Undisturbed(pc[p], job[p], log, card, document, rows)
           /\ \/ /\ pc[p] = "commit" /\ job[p].kind \in Outcomes
                 /\ log' = Append(log, job[p].kind)
                 /\ card' = card /\ document' = document /\ rows' = rows
              \/ /\ pc[p] = "project" /\ card' = job[p].base /\ log' = log
                 /\ ~(job[p].command = "report" /\ Bound(job[p].base))
              \/ pc[p] = "refreshing" /\ card' = job[p].base /\ log' = log
              \/ pc[p] \in Rendering
<1>1. ~Fault
  BY ProjectionsAssumption DEF Fault
<1>2. Advance(p)
  BY <1>1, Acted DEF Crash
<1>3. \A label : Goto(p, label) => pc'[p] = label
  BY DEF Goto, IInv, TypeOK
<1>4. \A label : Continue(p, label) => pc'[p] = label
  BY <1>3 DEF Continue
<1>5. NoFault => Undisturbed(pc[p], job[p], log, card, document, rows)
  BY Acts, Faults
<1>6. CASE Commit(p)
  <2>1. pc[p] = "commit" /\ card' = card /\ document' = document /\ rows' = rows
    BY <1>6 DEF Commit, At, remote
  <2>2. NoFault
    BY <1>1, <1>6, Zenon DEF Commit
  <2>3. job[p].base = Len(log) /\ job[p].kind \in Kinds
    BY <1>5, <2>1, <2>2, Acts DEF Undisturbed, Knows
  <2>4. job[p].kind \in Outcomes \/ AfterCommit(p) # "idle"
    BY <2>3 DEF Kinds, CardFacts, AfterCommit
  <2>5. /\ log' = Append(log, job[p].kind)
        /\ job[p].kind \in Outcomes \/ Goto(p, AfterCommit(p))
    BY <1>1, <1>6, <2>3, Zenon DEF Commit
  <2> QED BY <1>3, <1>5, <2>1, <2>2, <2>4, <2>5
<1>7. CASE Project(p)
  <2>1. /\ pc[p] = "project" /\ NoFault /\ card' = job[p].base /\ log' = log
    BY <1>1, <1>7, Zenon DEF Project, At
  <2>2. ~(job[p].command = "report" /\ Bound(job[p].base))
    BY <1>4, <1>7 DEF Project
  <2> QED BY <1>5, <2>1, <2>2
<1>8. CASE WriteRefreshed(p)
  <2>1. /\ pc[p] = "refreshing" /\ NoFault /\ card' = job[p].base /\ log' = log
    BY <1>1, <1>8, Zenon DEF WriteRefreshed, At
  <2> QED BY <1>5, <2>1
<1>9. CASE LoadState(p) \/ Rebuild(p) \/ CheckRebuilt(p) \/ NextCardPath(p) \/ WriteSnapshot(p)
  <2>1. pc[p] \in Rendering
    BY <1>9 DEF LoadState, Rebuild, CheckRebuilt, NextCardPath, WriteSnapshot, At, Rendering
  <2> QED BY <2>1, RenderUndisturbed
<1>10. ~(Provision(p) \/ Reload(p) \/ Refresh(p) \/ Sync(p) \/ ReadEvents(p) \/ Conclude(p))
  BY <1>3, <1>4 DEF Provision, Reload, Refresh, Sync, ReadEvents, Conclude
<1>11. ~(SyncDocument(p) \/ ListRows(p) \/ UpsertRow(p) \/ ResolveRow(p))
  BY DEF SyncDocument, ListRows, UpsertRow, ResolveRow
<1> QED BY <1>2, <1>6, <1>7, <1>8, <1>9, <1>10, <1>11 DEF Advance

\* What the Card shows after a step, and what it should.
LEMMA ShownNext ==
    /\ Shown(card)' = ShownIn(log', card')
    /\ Shown(Len(log))' = ShownIn(log', Len(log'))
  BY DEF Shown, ShownIn, Latest

\* Whatever races and faults there were before, the next command that writes the
\* Card projection, if nothing disturbs it, leaves it up to date.
THEOREM CardRepaired == Spec => CardIsRepaired
<1> DEFINE Repaired ==
      \A p \in Procs : EndsAlone(p, {"init", "report", "bind"}) =>
          Shown(card)' = Shown(Len(log))'
<1>1. IInv /\ [Next]_vars => [Repaired]_vars
  <2> SUFFICES ASSUME IInv, Next, NEW p \in Procs, EndsAlone(p, {"init", "report", "bind"})
               PROVE  Shown(card)' = Shown(Len(log))'
    OBVIOUS
  <2>1. /\ alone' = p /\ pc[p] # "idle" /\ pc'[p] = "idle"
        /\ job[p].command \in {"init", "report", "bind"}
    BY DEF EndsAlone
  <2>2. pc[p] \notin Rendering
    BY <2>1, Acts DEF Rendering, Going
  <2>3. CASE (pc[p] = "project" \/ pc[p] = "refreshing") /\ card' = job[p].base /\ log' = log
    <3>1. job[p].base = Len(log)
      BY <2>1, <2>3, EndsIn DEF Undisturbed
    <3> QED BY <2>3, <3>1, ShownNext
  <2>4. CASE /\ pc[p] = "commit" /\ job[p].kind \in Outcomes
             /\ log' = Append(log, job[p].kind) /\ card' = card
    <3>1. job[p].command = "report"
      BY <2>1, <2>4, Acts DEF Going, Outcomes
    <3>2. ShownIn(log, card) = ShownIn(log, Len(log))
      BY <2>1, <2>4, <3>1, EndsIn DEF Undisturbed, Syncing
    <3>3. /\ Len(log) \in Nat /\ card \in 0..Len(log) /\ Len(log') = Len(log) + 1
          /\ log'[Len(log) + 1] = job[p].kind
          /\ \A i \in 1..Len(log) : log'[i] = log[i]
      BY <2>4, Typed, Acts
    <3>4. ShownIn(log', Len(log) + 1) = ShownIn(log', Len(log))
      BY <2>4, <3>3, ShownSkips DEF Outcomes, CardFacts
    <3>5. ShownIn(log', Len(log)) = ShownIn(log, Len(log))
      BY <3>3, ShownStays
    <3>6. ShownIn(log', card) = ShownIn(log, card)
      <4>1. \A i \in 1..card : log'[i] = log[i]
        BY <3>3
      <4> QED BY <4>1, ShownStays
    <3> QED BY <2>4, <3>2, <3>3, <3>4, <3>5, <3>6, ShownNext
  <2> QED BY <2>1, <2>2, <2>3, <2>4, EndsIn
<1> QED BY <1>1, Always, PTL DEF Spec, CardIsRepaired

\* A table with more than one row is not the one of a single row.
LEMMA NotAlone ==
    ASSUME NEW table \in Seq(Contents), Len(table) > 1
    PROVE  Len(table) # 1
<1>1. \A n \in Nat : n > 1 => n # 1
  OBVIOUS
<1>2. Len(table) \in Nat
  BY LenProperties
<1> QED BY <1>1, <1>2

\* Whatever overwrites arrived out of order or were lost before, the next sync
\* that nothing disturbs leaves document and row as of its start, and says
\* "succeeded" if it did so.  It can only fail to if the row is not unique.
THEOREM TraceRepaired == Spec => TraceIsRepaired
<1> DEFINE Repaired ==
      \A p \in Procs :
          /\ EndsAlone(p, {"sync", "report"})
          /\ Bound(job[p].base)
          => LET start == [state |-> Len(log), events |-> Len(log)] IN
             /\ document' = start
             /\ IF Len(rows') = 1
                THEN rows' = <<start>> /\ log' = Append(log, "succeeded")
                ELSE log' = Append(log, "partial")
<1>1. IInv /\ [Next]_vars => [Repaired]_vars
  <2> SUFFICES ASSUME IInv, Next, NEW p \in Procs,
                      EndsAlone(p, {"sync", "report"}), Bound(job[p].base)
               PROVE  LET start == [state |-> Len(log), events |-> Len(log)] IN
                      /\ document' = start
                      /\ IF Len(rows') = 1
                         THEN rows' = <<start>> /\ log' = Append(log, "succeeded")
                         ELSE log' = Append(log, "partial")
    OBVIOUS
  <2> DEFINE start == [state |-> Len(log), events |-> Len(log)]
  <2>1. /\ alone' = p /\ pc[p] # "idle" /\ pc'[p] = "idle"
        /\ job[p].command \in {"sync", "report"}
    BY DEF EndsAlone
  <2>2. pc[p] \notin Rendering /\ pc[p] # "refreshing"
    BY <2>1, Acts DEF Rendering, Going
  <2>3. pc[p] # "project" \/ job[p].command = "report"
    BY <2>1, Acts DEF Going
  <2>4. /\ pc[p] = "commit" /\ job[p].kind \in Outcomes
        /\ log' = Append(log, job[p].kind) /\ document' = document /\ rows' = rows
        /\ Undisturbed("commit", job[p], log, card, document, rows)
    BY <2>1, <2>2, <2>3, EndsIn
  <2>5. job[p].kind # "skipped"
    BY <2>4, OfTheLog DEF Undisturbed
  <2>6. job[p].kind \in {"succeeded", "partial"}
    BY <2>4, <2>5 DEF Outcomes
  <2>7. /\ job[p].content = start /\ document = start
        /\ IF job[p].kind = "succeeded" THEN rows = <<start>> ELSE Len(rows) > 1
    BY <2>4, <2>6 DEF Undisturbed
  <2> HIDE DEF start
  <2>8. /\ document' = start
        /\ IF Len(rows') = 1
           THEN rows' = <<start>> /\ log' = Append(log, "succeeded")
           ELSE log' = Append(log, "partial")
    <3>1. CASE job[p].kind = "succeeded"
      <4>1. rows' = <<start>> /\ Len(<<start>>) = 1
        BY <2>4, <2>7, <3>1
      <4> QED BY <2>4, <2>7, <3>1, <4>1
    <3>2. CASE job[p].kind = "partial"
      <4>1. Len(rows') # 1
        <5>1. Len(rows) > 1
          BY <2>7, <3>2
        <5>2. Len(rows) # 1
          BY <5>1, Typed, NotAlone
        <5> QED BY <2>4, <5>2
      <4> QED BY <2>4, <2>7, <3>2, <4>1
    <3> QED BY <2>6, <3>1, <3>2
  <2> QED BY <2>8 DEF start
<1> QED BY <1>1, Always, PTL DEF Spec, TraceIsRepaired
================================================================================
