----------------------------- MODULE StoreProofs -----------------------------
(***************************************************************************)
(* For any number of processes, snapshots, Events, rebinds, failing writes *)
(* and kills: the types with the exclusion of the Requirement lock, that   *)
(* the files of one commit stay together, and that the files implement the *)
(* append-only log of module CommitLog; and for one initializer and one    *)
(* failing write, that the pin is accounted for.                           *)
(***************************************************************************)
EXTENDS Store, SequenceTheorems, TLAPS

-----------------------------------------------------------------------------
(* Histories *)

\* One history is the beginning of another.
Prefix(h, g) == Len(h) <= Len(g) /\ \A i \in 1..Len(h) : h[i] = g[i]

\* The order in which the Events of a history were issued.
Increasing(h) == \A i, j \in 1..Len(h) : i < j => h[i].id < h[j].id

\* Every Event of a history is older than one with this id.
Before(h, id) == \A i \in 1..Len(h) : h[i].id < id

\* A history with one more Event.
LEMMA AppendHistory ==
    ASSUME NEW h \in Histories, NEW e \in Events
    PROVE  /\ Append(h, e) \in Histories
           /\ Len(Append(h, e)) = Len(h) + 1 /\ Append(h, e)[Len(h) + 1] = e
           /\ \A i \in 1..Len(h) : Append(h, e)[i] = h[i]
           /\ Append(h, e) # << >>
           /\ Prefix(h, Append(h, e))
BY DEF Histories, Prefix

\* The Events of a history are Events, and their ids numbers.
LEMMA Elements ==
    \A h \in Histories : \A i \in 1..Len(h) : h[i] \in Events /\ h[i].id \in Nat
<1>1. \A h \in Histories : \A i \in 1..Len(h) : h[i] \in Events
  BY DEF Histories
<1>2. \A e \in Events : e.id \in Nat
  BY StoreAssumption DEF Events
<1>3. QED
  BY <1>1, <1>2

\* The last id of a history, of none and of one with an Event more.
LEMMA LastIDs ==
    /\ \A h \in Histories : h # << >> => LastID(h) = h[Len(h)].id /\ LastID(h) \in 1..MaxEvents
    /\ LastID(<< >>) = 0
    /\ \A h \in Histories : LastID(h) \in 0..MaxEvents
    /\ \A h \in Histories, e \in Events : LastID(Append(h, e)) = e.id
<1>1. ASSUME NEW h \in Histories, h # << >>
      PROVE LastID(h) = h[Len(h)].id /\ LastID(h) \in 1..MaxEvents
  <2>1. Len(h) \in 1..Len(h)
    BY <1>1 DEF Histories
  <2>2. h[Len(h)] \in Events
    BY <1>1, <2>1 DEF Histories
  <2>3. QED
    BY <1>1, <2>2 DEF LastID, Log!LastID, Events
<1>2. LastID(<< >>) = 0
  BY DEF LastID, Log!LastID, Log!NoID
<1>3. ASSUME NEW h \in Histories PROVE LastID(h) \in 0..MaxEvents
  BY <1>1, <1>2, StoreAssumption
<1>4. ASSUME NEW h \in Histories, NEW e \in Events PROVE LastID(Append(h, e)) = e.id
  <2> DEFINE n == Append(h, e)
  <2>1. n \in Histories /\ n # << >> /\ Len(n) = Len(h) + 1 /\ n[Len(h) + 1] = e
    BY AppendHistory
  <2> HIDE DEF n
  <2>2. LastID(n) = e.id
    BY <1>1, <2>1
  <2>3. QED
    BY <2>2 DEF n
<1>5. QED
  BY <1>1, <1>2, <1>3, <1>4

\* Two moments of one growing history with the same last Event are one moment.
LEMMA SameMoment ==
    ASSUME NEW h \in Histories, NEW g \in Histories, Prefix(h, g), Increasing(g),
           LastID(h) = LastID(g)
    PROVE  h = g
<1>1. Len(h) \in Nat /\ Len(g) \in Nat
  BY DEF Histories
<1>2. Len(h) = Len(g)
  <2>1. CASE h = << >>
    BY <2>1, LastIDs DEF Histories
  <2>2. CASE h # << >> /\ g # << >>
    <3>1. Len(h) \in 1..Len(h) /\ Len(g) \in 1..Len(g)
      BY <2>2 DEF Histories
    <3>2. h[Len(h)] = g[Len(h)] /\ Len(h) \in 1..Len(g)
      BY <1>1, <3>1 DEF Prefix
    <3>3. g[Len(h)].id = g[Len(g)].id
      BY <2>2, <3>2, LastIDs
    <3>4. g[Len(h)] \in Events /\ g[Len(g)] \in Events
      BY <3>1, <3>2 DEF Histories
    <3>5. ~ Len(h) < Len(g)
      BY <3>1, <3>2, <3>3, <3>4 DEF Increasing, Events
    <3>6. QED
      BY <1>1, <3>5 DEF Prefix
  <2>3. CASE g = << >>
    BY <1>1, <2>3 DEF Prefix
  <2>4. QED
    BY <2>1, <2>2, <2>3
<1>3. QED
  BY <1>2 DEF Prefix, Histories

\* Being the beginning of a history is an order, with the empty one below all.
LEMMA PrefixOrder ==
    /\ \A h \in Histories : Prefix(h, h) /\ Prefix(<< >>, h)
    /\ \A h, g, f \in Histories : Prefix(h, g) /\ Prefix(g, f) => Prefix(h, f)
    /\ \A h, g \in Histories : Prefix(h, g) /\ h # << >> => g # << >>
    /\ << >> \in Histories
<1>1. \A h \in Histories : Len(h) \in Nat
  BY DEF Histories
<1>2. \A h \in Histories : Prefix(h, h) /\ Prefix(<< >>, h)
  BY <1>1 DEF Prefix
<1>3. \A h, g, f \in Histories : Prefix(h, g) /\ Prefix(g, f) => Prefix(h, f)
  BY <1>1 DEF Prefix
<1>5. \A h, g \in Histories : Prefix(h, g) /\ h # << >> => g # << >>
  BY DEF Prefix, Histories
<1>6. << >> \in Histories
  BY DEF Histories
<1>7. QED
  BY <1>2, <1>3, <1>5, <1>6

\* The beginning of a history, cut out of it.
LEMMA PrefixIsSubSeq ==
    ASSUME NEW h \in Histories, NEW g \in Histories, Prefix(h, g)
    PROVE  SubSeq(g, 1, Len(h)) = h
BY DEF Prefix, Histories

\* An Event newer than all others keeps a history in order.
LEMMA IncreasingAppend ==
    ASSUME NEW h \in Histories, NEW e \in Events, Increasing(h), Before(h, e.id)
    PROVE  Increasing(Append(h, e))
<1> DEFINE n == Append(h, e)
<1>1. Len(h) \in Nat /\ Len(n) = Len(h) + 1 /\ n[Len(h) + 1] = e /\ \A i \in 1..Len(h) : n[i] = h[i]
  BY AppendHistory DEF Histories
<1>2. ASSUME NEW i \in 1..Len(n), NEW j \in 1..Len(n), i < j PROVE n[i].id < n[j].id
  <2>1. i \in 1..Len(h) /\ n[i] = h[i]
    BY <1>1, <1>2
  <2>2. CASE j = Len(h) + 1
    BY <1>1, <2>1, <2>2 DEF Before
  <2>3. CASE j # Len(h) + 1
    BY <1>1, <1>2, <2>1, <2>3 DEF Increasing
  <2>4. QED
    BY <2>2, <2>3
<1>3. QED
  BY <1>2 DEF Increasing

\* What is left to do when the i-th thing is done.
LEMMA Removed ==
    ASSUME NEW S, NEW s \in Seq(S), NEW i \in 1..Len(s)
    PROVE  /\ RemoveAt(s, i) \in Seq(S) /\ Len(RemoveAt(s, i)) = Len(s) - 1
           /\ \A j \in 1..(Len(s) - 1) : RemoveAt(s, i)[j] = IF j < i THEN s[j] ELSE s[j + 1]
<1>1. SubSeq(s, 1, i - 1) \in Seq(S) /\ SubSeq(s, i + 1, Len(s)) \in Seq(S)
  OBVIOUS
<1>2. Len(SubSeq(s, 1, i - 1)) = i - 1 /\ Len(SubSeq(s, i + 1, Len(s))) = Len(s) - i
  OBVIOUS
<1>3. /\ \A j \in 1..(i - 1) : SubSeq(s, 1, i - 1)[j] = s[j]
      /\ \A j \in 1..(Len(s) - i) : SubSeq(s, i + 1, Len(s))[j] = s[i + j]
  OBVIOUS
<1> DEFINE front == SubSeq(s, 1, i - 1)
           back == SubSeq(s, i + 1, Len(s))
<1> HIDE DEF front, back
<1>4. /\ front \in Seq(S) /\ back \in Seq(S) /\ Len(front) = i - 1 /\ Len(back) = Len(s) - i
      /\ \A j \in 1..(i - 1) : front[j] = s[j]
      /\ \A j \in 1..(Len(s) - i) : back[j] = s[i + j]
  BY <1>1, <1>2, <1>3 DEF front, back
<1>5. /\ front \o back \in Seq(S) /\ Len(front \o back) = Len(front) + Len(back)
      /\ \A j \in 1..(Len(front) + Len(back)) :
            (front \o back)[j] = IF j <= Len(front) THEN front[j] ELSE back[j - Len(front)]
  BY <1>4, ConcatProperties
<1>6. RemoveAt(s, i) = front \o back
  BY DEF RemoveAt, front, back
<1>7. ASSUME NEW j \in 1..(Len(s) - 1)
      PROVE (front \o back)[j] = IF j < i THEN s[j] ELSE s[j + 1]
  <2>types. i \in Nat /\ Len(s) \in Nat /\ j \in Nat
    OBVIOUS
  <2>1. (front \o back)[j] = IF j <= i - 1 THEN front[j] ELSE back[j - (i - 1)]
    BY <1>4, <1>5, <2>types
  <2>2. j <= i - 1 => front[j] = s[j]
    BY <1>4, <2>types
  <2>3. ~ j <= i - 1 => back[j - (i - 1)] = s[i + (j - (i - 1))]
    BY <1>4, <2>types
  <2>4. i + (j - (i - 1)) = j + 1 /\ (j <= i - 1 <=> j < i)
    BY <2>types
  <2>5. QED
    BY <2>1, <2>2, <2>3, <2>4
<1>8. QED
  BY <1>4, <1>5, <1>6, <1>7

-----------------------------------------------------------------------------
(* The invariant *)

\* Where a process can be, and where it holds the Requirement lock.
Labels ==
    {"idle", "pin", "outputs", "workflow", "events", "report", "rebuild", "render", "commit",
     "write", "restore", "prepare", "move", "committed", "undo"}

Locked == {"write", "restore", "prepare", "move", "committed", "undo"}

Records == [phase : {"prepared", "committed"}, previous : Snapshots, new : Snapshots]

Jobs ==
    [command : {"none", "init", "status", "report", "rebuild", "rebind"},
     snapshot : Snapshots \cup {NoPin}, state : Histories, outputs : Histories,
     event : Events \cup {NoEvent}, before : [Paths -> Histories],
     todo : Histories \cup Seq(Paths) \cup Seq({"audit", "pin"}),
     audited : Seq(Records), pinned : Snapshots \cup {NoPin}]

\* The three files a load compares agree.
Agree(content) ==
    /\ content["events"] = content["state"]
    /\ LastID(content["outputs"]) = LastID(content["state"])
    /\ Registry(content["outputs"]) = Registry(content["state"])

\* No kill and at most one failing write: what one restore can make good.
Benign == crashes = 0 /\ faults <= 1

\* The Event of a command is the next one of the history it was evaluated on.
Fresh(work) ==
    /\ work.event \in Events /\ work.event.id <= issued
    /\ work.event.cause = LastID(work.state)
    /\ Before(work.state, work.event.id)

New(work) == Append(work.state, work.event)

\* A commit under way: nothing but what it writes has changed since it began.
Committing(work) ==
    /\ work.before["state"] = work.state /\ work.before["events"] = work.state
    /\ files["state"] = work.state
    /\ files["events"] \in {work.state, New(work)}
    /\ Registry(Append(work.outputs, work.event)) = Registry(New(work))
    /\ Benign => Agree(work.before)

\* Of the four files the first ones are written.
Writing(work) ==
    /\ Len(work.todo) \in 1..4 /\ work.todo \in Seq(Paths)
    /\ \A i \in 1..Len(work.todo) : work.todo[i] = WriteOrder[4 - Len(work.todo) + i]
    /\ files["outputs"] = IF Len(work.todo) <= 3 THEN Append(work.outputs, work.event)
                          ELSE work.before["outputs"]
    /\ files["events"] = IF Len(work.todo) <= 2 THEN New(work) ELSE work.state

\* After one failure every file is as before, or still to be put back.
Restoring(work) ==
    /\ Len(work.todo) >= 1 /\ work.todo \in Seq(Paths)
    /\ faults >= 1
    /\ Benign => \A path \in {"outputs", "events"} :
          \/ files[path] = work.before[path]
          \/ \E i \in 1..Len(work.todo) : work.todo[i] = path

\* What a process may rely on, wherever it is.
Claim(p) ==
    LET work == job[p] IN
    /\ pc[p] # "idle" => Prefix(work.state, files["state"])
    /\ pc[p] \in {"outputs", "workflow", "events", "report"} => work.state # << >>
    /\ pc[p] \in {"outputs", "workflow", "events"} =>
          work.command \in {"status", "report", "rebuild"}
    /\ pc[p] \in {"pin", "events", "report", "rebuild", "render"} => work.snapshot \in Snapshots
    /\ pc[p] \in {"pin", "commit", "write", "restore"} => Fresh(work)
    /\ pc[p] \in {"commit", "write"} => pin \in Snapshots
    /\ pc[p] \in {"write", "restore"} => Committing(work)
    /\ pc[p] = "write" => Writing(work)
    /\ pc[p] = "restore" => Restoring(work)
    /\ pc[p] = "render" => work.todo \in Histories
    /\ pc[p] \in {"prepare", "move", "committed", "undo"} =>
          work.snapshot \in Snapshots /\ work.pinned \in Snapshots
    /\ pc[p] = "undo" => work.todo \in Seq({"audit", "pin"}) /\ Len(work.todo) >= 1

TypeInv ==
    /\ TypeOK
    /\ pc \in [Procs -> Labels]
    /\ job \in [Procs -> Jobs]

\* events.jsonl is in order, and state.json it or all but its last Event.
HistoryInv ==
    /\ Increasing(files["events"]) /\ Before(files["events"], issued + 1)
    /\ Prefix(files["state"], files["events"])
    /\ Len(files["events"]) <= Len(files["state"]) + 1
    /\ files["events"] # << >> => pin \in Snapshots

\* While no commit is under way the files agree.
QuietInv ==
    Benign /\ (\A p \in Procs : pc[p] \notin {"write", "restore"}) => Agree(files)

IInv ==
    /\ TypeInv
    /\ HistoryInv
    /\ QuietInv
    /\ \A p \in Procs : Claim(p)

\* The four files, in the order a commit writes them.
LEMMA PathNames ==
  /\ Paths = {"outputs", "events", "trace", "state"} /\ WriteOrder \in Seq(Paths)
  /\ Len(WriteOrder) = 4 /\ WriteOrder[1] = "outputs" /\ WriteOrder[2] = "events"
  /\ WriteOrder[3] = "trace" /\ WriteOrder[4] = "state"
<1>1. WriteOrder = <<"outputs", "events", "trace", "state">>
  BY DEF WriteOrder
<1>2. /\ DOMAIN WriteOrder = 1..4 /\ Len(WriteOrder) = 4
      /\ WriteOrder[1] = "outputs" /\ WriteOrder[2] = "events"
      /\ WriteOrder[3] = "trace" /\ WriteOrder[4] = "state"
  BY <1>1
<1>3. Paths = {"outputs", "events", "trace", "state"}
  BY <1>2 DEF Paths
<1>4. WriteOrder \in Seq(Paths)
  BY <1>1, <1>3
<1>5. QED
  BY <1>2, <1>3, <1>4

\* A process that this step leaves alone keeps its claim: what a State was made of
\* stays a prefix, Events and faults are only counted up.
LEMMA Others ==
    ASSUME IInv, NEW q \in Procs, pc'[q] = pc[q], job'[q] = job[q],
           files'["state"] \in Histories, Prefix(files["state"], files'["state"]),
           pin \in Snapshots => pin' \in Snapshots,
           issued' \in Nat, issued <= issued', faults' \in Nat, faults <= faults',
           crashes' \in Nat, crashes <= crashes',
           pc[q] \in {"write", "restore"} =>
               /\ files'["state"] = files["state"] /\ files'["events"] = files["events"]
               /\ files'["outputs"] = files["outputs"]
    PROVE  Claim(q)'
<1> DEFINE work == job[q]
<1>1. job'[q] = work /\ work \in Jobs /\ Claim(q) /\ pc'[q] = pc[q]
  BY DEF IInv, TypeInv
<1>2. issued \in Nat /\ faults \in Nat /\ crashes \in Nat
  BY StoreAssumption DEF IInv, TypeInv, TypeOK
<1>3. Benign' => Benign
  BY <1>2 DEF Benign
<1>4. Fresh(work) => Fresh(work)'
  BY <1>1, <1>2 DEF Fresh, Events
<1>5. pc[q] # "idle" => Prefix(work.state, files'["state"])
  <2>1. files["state"] \in Histories /\ work.state \in Histories
    BY <1>1, PathNames DEF IInv, TypeInv, TypeOK, Jobs
  <2>2. QED
    BY <1>1, <2>1, PrefixOrder DEF Claim
<1>6. pc[q] \in {"write", "restore"} /\ Committing(work) => Committing(work)'
  BY <1>1, <1>3 DEF Committing, New, Agree
<1>7. pc[q] \in {"write", "restore"} /\ Writing(work) => Writing(work)'
  BY <1>1 DEF Writing, New
<1>8. pc[q] \in {"write", "restore"} /\ Restoring(work) => Restoring(work)'
  BY <1>1, <1>2, <1>3 DEF Restoring
<1>9. QED
  BY <1>1, <1>4, <1>5, <1>6, <1>7, <1>8 DEF Claim

\* A step of p that goes to a label with what it has read until then.
StepOf(p, label, work) ==
    /\ pc' = [pc EXCEPT ![p] = label] /\ job' = [job EXCEPT ![p] = work]
    /\ label \in Locked => lock \in {p, NoProc}
    /\ lock' = IF label \in Locked THEN p ELSE IF lock = p THEN NoProc ELSE lock
    /\ pin' \in Snapshots \cup {NoPin} /\ (pin \in Snapshots => pin' \in Snapshots)
    /\ audit' \in Seq(Records)
    /\ issued' \in issued..MaxEvents /\ rebinds' \in 0..MaxRebinds
    /\ faults' \in faults..MaxFaults /\ crashes' \in crashes..MaxCrashes

\* What a step of p has to show for the invariant: its own claim, the histories,
\* and that the three files stay unless p holds the lock.
LEMMA Steps ==
    ASSUME IInv, NEW p \in Procs, NEW label \in Labels, NEW work \in Jobs,
           StepOf(p, label, work), files' \in [Paths -> Histories],
           \/ /\ files'["state"] = files["state"] /\ files'["events"] = files["events"]
              /\ files'["outputs"] = files["outputs"]
           \/ pc[p] \in Locked /\ Prefix(files["state"], files'["state"]),
           HistoryInv', QuietInv', Claim(p)'
    PROVE  IInv'
<1>1. issued \in 0..MaxEvents /\ faults \in 0..MaxFaults /\ crashes \in 0..MaxCrashes
  BY DEF IInv, TypeInv, TypeOK
<1>2. pc' \in [Procs -> Labels] /\ job' \in [Procs -> Jobs]
  BY DEF IInv, TypeInv, StepOf
<1>3. ASSUME NEW q \in Procs PROVE lock' = q <=> pc'[q] \in Locked
  <2>1. /\ lock = q <=> pc[q] \in Locked
        /\ pc'[q] = IF q = p THEN label ELSE pc[q]
    BY DEF IInv, TypeInv, TypeOK, Locked, StepOf
  <2>2. NoProc # q /\ NoProc # p
    BY StoreAssumption
  <2>3. QED
    BY <2>1, <2>2 DEF StepOf
<1>4. lock' \in Procs \cup {NoProc}
  BY DEF IInv, TypeInv, TypeOK, StepOf
<1>5. TypeOK'
  <2>1. issued' \in 0..MaxEvents /\ faults' \in 0..MaxFaults /\ crashes' \in 0..MaxCrashes
    BY <1>1, StoreAssumption DEF StepOf
  <2>2. QED
    BY <1>3, <1>4, <2>1 DEF TypeOK, StepOf, Records, Locked
<1>6. ASSUME NEW q \in Procs PROVE Claim(q)'
  <2>1. CASE q = p
    BY <2>1
  <2>2. CASE q # p
    <3>1. pc'[q] = pc[q] /\ job'[q] = job[q]
      BY <2>2 DEF IInv, TypeInv, StepOf
    <3>2. files["state"] \in Histories /\ files'["state"] \in Histories
      BY PathNames DEF IInv, TypeInv, TypeOK
    <3>3. Prefix(files["state"], files'["state"])
      BY <3>2, PrefixOrder
    <3>4. pc[q] \in {"write", "restore"} => pc[p] \notin Locked
      BY <2>2 DEF IInv, TypeInv, TypeOK, Locked
    <3>5. /\ issued' \in Nat /\ issued <= issued' /\ faults' \in Nat /\ faults <= faults'
          /\ crashes' \in Nat /\ crashes <= crashes'
      BY <1>1, StoreAssumption DEF StepOf
    <3>6. QED
      BY <3>1, <3>2, <3>3, <3>4, <3>5, Others DEF StepOf
  <2>3. QED
    BY <2>1, <2>2
<1>7. QED
  BY <1>2, <1>5, <1>6 DEF IInv, TypeInv

\* A step that leaves the three files alone, or a kill.
LEMMA QuietSteps ==
    ASSUME IInv, NEW p \in Procs, NEW label \in Labels, NEW work \in Jobs,
           StepOf(p, label, work), files' \in [Paths -> Histories],
           files'["state"] = files["state"], files'["events"] = files["events"],
           files'["outputs"] = files["outputs"],
           pc[p] \in {"write", "restore"} => label \in {"write", "restore"} \/ ~Benign',
           Claim(p)'
    PROVE  IInv'
<1>1. /\ issued \in Nat /\ issued' \in Nat /\ issued <= issued'
      /\ faults \in Nat /\ faults' \in Nat /\ faults <= faults'
      /\ crashes \in Nat /\ crashes' \in Nat /\ crashes <= crashes'
  BY StoreAssumption DEF IInv, TypeInv, TypeOK, StepOf
<1>2. HistoryInv'
  <2>1. files["events"] \in Histories /\ files["state"] \in Histories
    BY PathNames DEF IInv, TypeInv, TypeOK
  <2>2. \A i \in 1..Len(files["events"]) : files["events"][i].id \in Nat
    BY <2>1, Elements
  <2>3. Before(files["events"], issued' + 1)
    BY <1>1, <2>1, <2>2 DEF IInv, HistoryInv, Before
  <2>4. QED
    BY <2>3 DEF IInv, HistoryInv, StepOf, Before, Increasing, Prefix
<1>3. QuietInv'
  <2>1. Benign' => Benign
    BY <1>1 DEF Benign
  <2>2. \A q \in Procs : q # p => pc'[q] = pc[q]
    BY DEF IInv, TypeInv, StepOf
  <2>3. pc'[p] = label
    BY DEF IInv, TypeInv, StepOf
  <2>4. QED
    BY <2>1, <2>2, <2>3 DEF IInv, QuietInv, Agree
<1>4. QED
  BY <1>2, <1>3, Steps

-----------------------------------------------------------------------------
(* The steps that only read, refuse or end *)

\* A process that runs nothing has read nothing, of the right types.
LEMMA NoJobTyped == NoJob \in Jobs
  BY PrefixOrder DEF NoJob, Jobs

\* The lock is with whom it protects, and the counters have their types.
LEMMA Lock ==
    ASSUME IInv, NEW p \in Procs
    PROVE  /\ pc[p] \in Locked <=> lock = p
           /\ lock # NoProc => \E q \in Procs : lock = q
           /\ issued \in 0..MaxEvents /\ rebinds \in 0..MaxRebinds
           /\ faults \in 0..MaxFaults /\ crashes \in 0..MaxCrashes
           /\ pin \in Snapshots \cup {NoPin} /\ audit \in Seq(Records)
           /\ job[p] \in Jobs /\ files \in [Paths -> Histories]
           /\ files["state"] \in Histories /\ files["events"] \in Histories
           /\ files["outputs"] \in Histories
           /\ job = [job EXCEPT ![p] = job[p]]
BY PathNames DEF IInv, TypeInv, TypeOK, Locked, Records

\* What a command carries and what it reads have their types.
LEMMA JobTyped ==
    ASSUME IInv, NEW p \in Procs
    PROVE  /\ job[p] \in Jobs /\ job = [job EXCEPT ![p] = job[p]]
           /\ files \in [Paths -> Histories] /\ files["state"] \in Histories
           /\ files["events"] \in Histories /\ files["outputs"] \in Histories
           /\ pin \in Snapshots \cup {NoPin}
BY Lock

\* A command that gets new files to put back, or new work to do, keeps its types.
LEMMA WithTodo ==
    ASSUME NEW j \in Jobs, NEW content \in [Paths -> Histories],
           NEW todo \in Histories \cup Seq(Paths) \cup Seq({"audit", "pin"})
    PROVE  /\ [j EXCEPT !.todo = todo] \in Jobs
           /\ [j EXCEPT !.before = content, !.todo = todo] \in Jobs
<1> DEFINE Contents == [Paths -> Histories]
           Todos == Histories \cup Seq(Paths) \cup Seq({"audit", "pin"})
           Typed == [command : {"none", "init", "status", "report", "rebuild", "rebind"},
                     snapshot : Snapshots \cup {NoPin}, state : Histories,
                     outputs : Histories, event : Events \cup {NoEvent},
                     before : Contents, todo : Todos,
                     audited : Seq(Records), pinned : Snapshots \cup {NoPin}]
<1>1. Jobs = Typed /\ content \in Contents /\ todo \in Todos
  BY DEF Jobs
<1> HIDE DEF Contents, Todos
<1>2. \A x \in Typed : /\ [x EXCEPT !.todo = todo] \in Typed
                       /\ [x EXCEPT !.before = content, !.todo = todo] \in Typed
  BY <1>1
<1> HIDE DEF Typed
<1> QED
  BY <1>1, <1>2

\* Whatever a command did, it ends.
LEMMA Ending ==
    ASSUME IInv, NEW p \in Procs, Finish(p),
           files' \in [Paths -> Histories],
           files'["state"] = files["state"], files'["events"] = files["events"],
           files'["outputs"] = files["outputs"],
           lock' = IF lock = p THEN NoProc ELSE lock,
           pin' \in Snapshots \cup {NoPin}, pin \in Snapshots => pin' \in Snapshots,
           audit' \in Seq(Records), issued' = issued, rebinds' = rebinds,
           faults' \in faults..MaxFaults, crashes' \in crashes..MaxCrashes,
           pc[p] \in {"write", "restore"} => ~Benign'
    PROVE  IInv'
<1>1. issued' \in issued..MaxEvents /\ rebinds' \in 0..MaxRebinds
  BY Lock, StoreAssumption
<1>2. StepOf(p, "idle", NoJob)
  BY <1>1 DEF StepOf, Finish, Goto, Locked
<1>3. pc'[p] = "idle"
  BY <1>2 DEF StepOf, IInv, TypeInv
<1>4. Claim(p)'
  BY <1>3 DEF Claim
<1>5. QED
  BY <1>2, <1>4, NoJobTyped, QuietSteps DEF Labels

\* The counters only grow, and within their bounds.
LEMMA Counters ==
    ASSUME IInv
    PROVE  /\ issued \in issued..MaxEvents /\ faults \in faults..MaxFaults
           /\ crashes \in crashes..MaxCrashes
           /\ Fault => faults' \in faults..MaxFaults /\ faults' >= 1
           /\ issued < MaxEvents => issued + 1 \in issued..MaxEvents /\ issued + 1 \in 1..MaxEvents
BY StoreAssumption DEF IInv, TypeInv, TypeOK, Fault

\* flow init evaluates its first Event on an empty history.
LEMMA StartInitKeeps ==
    ASSUME IInv, NEW p \in Procs, NEW snapshot \in Snapshots, StartInit(p, snapshot)
    PROVE  IInv'
<1> DEFINE event == [id |-> issued + 1, cause |-> 0, registers |-> FALSE, snapshot |-> snapshot]
           work == [NoJob EXCEPT !.command = "init", !.snapshot = snapshot, !.event = event,
                                 !.state = files["state"]]
<1>1. event \in Events
  BY Counters, StoreAssumption DEF StartInit, Events
<1>2. work \in Jobs
  BY <1>1, NoJobTyped, Lock DEF Jobs, NoJob
<1>3. StepOf(p, "pin", work)
  <2>1. LastID(<< >>) = 0
    BY LastIDs
  <2>2. job' = [job EXCEPT ![p] = work]
    BY <2>1 DEF StartInit, Begin, NewEvent, NoJob
  <2>3. lock # p
    BY Lock DEF StartInit, At, Locked
  <2>4. QED
    BY <2>2, <2>3, Lock, Counters DEF StartInit, Begin, Goto, StepOf, Locked
<1>4. pc'[p] = "pin" /\ job'[p] = work /\ files["state"] = << >> /\ issued' = issued + 1
  BY <1>3 DEF StepOf, IInv, TypeInv, StartInit
<1>5. Fresh(job[p])'
  <2>1. work.event = event /\ work.state = << >>
    BY <1>4 DEF NoJob
  <2>2. Before(<< >>, event.id)
    BY DEF Before
  <2>3. event.id <= issued' /\ event.cause = LastID(<< >>)
    BY <1>4, LastIDs, Lock
  <2>4. QED
    BY <1>1, <1>4, <2>1, <2>2, <2>3 DEF Fresh
<1>6. Claim(p)'
  <2>1. work.state = files["state"] /\ work.snapshot = snapshot /\ files' = files
    BY DEF NoJob, StartInit
  <2>2. Prefix(work.state, files'["state"])
    BY <2>1, Lock, PrefixOrder
  <2>3. QED
    BY <1>4, <1>5, <2>1, <2>2 DEF Claim
<1>7. QED
  BY <1>2, <1>3, <1>6, Lock, QuietSteps DEF StartInit, At, Labels

\* flow init writes the pin, or ends when it cannot.
LEMMA PinConfigurationKeeps ==
    ASSUME IInv, NEW p \in Procs, PinConfiguration(p)
    PROVE  IInv'
<1>1. pc[p] = "pin" /\ lock # p /\ job[p].snapshot \in Snapshots /\ Claim(p)
  BY Lock DEF PinConfiguration, At, Locked, IInv, Claim
<1>2. CASE Finish(p)
  BY <1>1, <1>2, Lock, Counters, Ending DEF PinConfiguration
<1>3. CASE pin' = job[p].snapshot /\ Continue(p, "commit") /\ UNCHANGED faults
  <2>1. StepOf(p, "commit", job[p])
    BY <1>1, <1>3, Lock, Counters DEF PinConfiguration, Continue, Goto, StepOf, Locked
  <2>2. pc'[p] = "commit" /\ job'[p] = job[p] /\ files' = files /\ issued' = issued
    BY <2>1 DEF StepOf, IInv, TypeInv, PinConfiguration
  <2>3. Claim(p)'
    BY <1>1, <1>3, <2>2 DEF Claim, Fresh
  <2>4. QED
    BY <1>1, <2>1, <2>2, <2>3, Lock, QuietSteps DEF Labels
<1>4. QED
  BY <1>2, <1>3 DEF PinConfiguration

\* A step that leaves all files and the pin alone and goes on.
LEMMA GoingOn ==
    ASSUME IInv, NEW p \in Procs, pc[p] \notin Locked, NEW label \in Labels \ Locked,
           NEW work \in Jobs,
           pc' = [pc EXCEPT ![p] = label], job' = [job EXCEPT ![p] = work],
           UNCHANGED <<files, pin, audit, lock, rebinds, faults, crashes>>,
           issued' \in issued..MaxEvents, Claim(p)'
    PROVE  IInv'
<1>1. lock # p
  BY Lock
<1>2. StepOf(p, label, work)
  BY <1>1, Lock, Counters DEF StepOf
<1>3. QED
  BY <1>2, Lock, QuietSteps DEF Locked

\* A load begins with the State as it is.
LEMMA StartLoadKeeps ==
    ASSUME IInv, NEW p \in Procs, NEW command \in Commands[p], StartLoad(p, command)
    PROVE  IInv'
<1> DEFINE work == [NoJob EXCEPT !.command = command, !.state = files["state"]]
<1>1. command \in {"status", "report", "rebuild"}
  BY StoreAssumption
<1>2. work \in Jobs
  BY <1>1, NoJobTyped, Lock DEF Jobs, NoJob
<1>3. pc' = [pc EXCEPT ![p] = "outputs"] /\ job' = [job EXCEPT ![p] = work]
  BY DEF StartLoad, Begin, Goto, NoJob
<1>4. pc'[p] = "outputs" /\ job'[p] = work
  BY <1>3 DEF IInv, TypeInv
<1>5. work.state = files["state"] /\ work.command = command
  BY DEF NoJob
<1>6. Claim(p)'
  BY <1>1, <1>4, <1>5, Lock, PrefixOrder DEF Claim, StartLoad
<1>7. QED
  BY <1>2, <1>3, <1>6, Counters, GoingOn DEF StartLoad, At, Labels, Locked

\* A load reads the Output Registry, or finds none and ends.
LEMMA ReadOutputsKeeps ==
    ASSUME IInv, NEW p \in Procs, ReadOutputs(p)
    PROVE  IInv'
<1>1. pc[p] = "outputs" /\ lock # p /\ Claim(p)
  BY Lock DEF ReadOutputs, At, Locked, IInv
<1>2. CASE Finish(p)
  BY <1>1, <1>2, Lock, Counters, Ending DEF ReadOutputs
<1>3. CASE /\ job' = [job EXCEPT ![p].outputs = files["outputs"]]
           /\ Goto(p, "workflow")
  <2> DEFINE work == [job[p] EXCEPT !.outputs = files["outputs"]]
  <2>1. work \in Jobs /\ job' = [job EXCEPT ![p] = work]
    BY <1>3, JobTyped DEF Jobs
  <2>2. pc'[p] = "workflow" /\ job'[p] = work
    BY <1>3, <2>1 DEF IInv, TypeInv, Goto
  <2>3. work.state = job[p].state /\ work.command = job[p].command
    BY JobTyped DEF Jobs
  <2>4. Claim(p)'
    BY <1>1, <2>2, <2>3 DEF Claim, ReadOutputs
  <2>5. QED
    BY <1>1, <1>3, <2>1, <2>4, Counters, GoingOn DEF ReadOutputs, Goto, Labels, Locked
<1>4. QED
  BY <1>2, <1>3 DEF ReadOutputs

\* A load that found a State finds a pin: it was written before the first commit.
LEMMA LoadWorkflowKeeps ==
    ASSUME IInv, NEW p \in Procs, LoadWorkflow(p)
    PROVE  IInv'
<1> DEFINE work == [job[p] EXCEPT !.snapshot = pin]
<1>1. pc[p] = "workflow" /\ Claim(p)
  BY DEF LoadWorkflow, At, IInv
<1>2. work \in Jobs /\ job' = [job EXCEPT ![p] = work]
  BY JobTyped DEF Jobs, LoadWorkflow
<1>3. pc'[p] = "events" /\ job'[p] = work
  BY <1>2 DEF IInv, TypeInv, LoadWorkflow, Goto
<1>4. work.state = job[p].state /\ work.command = job[p].command /\ work.snapshot = pin
  BY JobTyped DEF Jobs
<1>5. pin \in Snapshots
  <2>1. job[p].state \in Histories /\ job[p].state # << >> /\ Prefix(job[p].state, files["state"])
    BY <1>1, Lock DEF Claim, Jobs
  <2>2. files["events"] # << >>
    BY <2>1, Lock, PrefixOrder DEF IInv, HistoryInv
  <2>3. QED
    BY <2>2 DEF IInv, HistoryInv
<1>6. Claim(p)'
  BY <1>1, <1>3, <1>4, <1>5 DEF Claim, LoadWorkflow
<1>7. QED
  BY <1>1, <1>2, <1>6, Counters, GoingOn DEF LoadWorkflow, Goto, Labels, Locked

\* A load that is accepted goes on to its command, another one ends.
LEMMA ReadEventsKeeps ==
    ASSUME IInv, NEW p \in Procs, ReadEvents(p)
    PROVE  IInv'
<1>1. pc[p] = "events" /\ lock # p /\ Claim(p)
  BY Lock DEF ReadEvents, At, Locked, IInv
<1>2. CASE Finish(p)
  BY <1>1, <1>2, Lock, Counters, Ending DEF ReadEvents
<1>3. CASE Continue(p, job[p].command) /\ job[p].command # "status"
  <2> DEFINE label == job[p].command
  <2>1. label \in {"report", "rebuild"}
    BY <1>1, <1>3 DEF Claim
  <2>2. pc' = [pc EXCEPT ![p] = label] /\ job' = [job EXCEPT ![p] = job[p]]
    BY <1>3, Lock DEF Continue, Goto
  <2>3. pc'[p] = label /\ job'[p] = job[p]
    BY <2>2 DEF IInv, TypeInv
  <2>4. Claim(p)'
    BY <1>1, <2>1, <2>3 DEF Claim, ReadEvents
  <2>5. QED
    BY <1>1, <2>1, <2>2, <2>4, Lock, Counters, GoingOn DEF ReadEvents, Labels, Locked
<1>4. QED
  BY <1>2, <1>3 DEF ReadEvents

\* A report that is refused changes nothing.
LEMMA RefuseReportKeeps ==
    ASSUME IInv, NEW p \in Procs, RefuseReport(p)
    PROVE  IInv'
<1>1. pc[p] = "report" /\ lock # p
  BY Lock DEF RefuseReport, At, Locked
<1>2. QED
  BY <1>1, Lock, Counters, Ending DEF RefuseReport

\* A report makes an Event newer than every other, caused by the State it loaded.
LEMMA EvaluateKeeps ==
    ASSUME IInv, NEW p \in Procs, Evaluate(p)
    PROVE  IInv'
<1>1. PICK registers \in BOOLEAN : job' = [job EXCEPT ![p].event = NewEvent(job[p], registers)]
  BY DEF Evaluate
<1>2. pc[p] = "report" /\ Claim(p) /\ job[p] \in Jobs /\ issued < MaxEvents
  BY Lock DEF Evaluate, At, IInv
<1>3. PICK event \in Events : event = NewEvent(job[p], registers)
  <2>1. LastID(job[p].state) \in 0..MaxEvents /\ job[p].snapshot \in Snapshots
    BY <1>2, LastIDs DEF Jobs, Claim
  <2>2. QED
    BY <1>2, <2>1, Counters DEF NewEvent, Events
<1>4. PICK work \in Jobs : work = [job[p] EXCEPT !.event = event]
  BY <1>2 DEF Jobs
<1>5. job' = [job EXCEPT ![p] = work]
  BY <1>1, <1>3, <1>4, JobTyped DEF Jobs
<1>6. pc'[p] = "commit" /\ job'[p] = work /\ issued' = issued + 1 /\ files' = files /\ pin' = pin
  BY <1>5 DEF IInv, TypeInv, Evaluate, Goto
<1>7. /\ work.state = job[p].state /\ work.event = event /\ event.id = issued + 1
      /\ event.cause = LastID(job[p].state) /\ job[p].state \in Histories
  BY <1>2, <1>3, <1>4 DEF Jobs, NewEvent
<1>8. Before(work.state, event.id)
  <2>1. /\ Prefix(work.state, files["state"]) /\ Prefix(files["state"], files["events"])
        /\ Before(files["events"], issued + 1)
    BY <1>2, <1>7 DEF Claim, IInv, HistoryInv
  <2>2. Prefix(work.state, files["events"])
    BY <1>7, <2>1, Lock, PrefixOrder
  <2>3. Len(work.state) \in Nat /\ Len(files["events"]) \in Nat
    BY <1>7, Lock DEF Histories
  <2>4. QED
    BY <1>7, <2>1, <2>2, <2>3 DEF Before, Prefix
<1>9. pin \in Snapshots
  <2>1. job[p].state # << >> /\ Prefix(job[p].state, files["state"])
    BY <1>2 DEF Claim
  <2>2. files["events"] # << >>
    BY <1>7, <2>1, Lock, PrefixOrder DEF IInv, HistoryInv
  <2>3. QED
    BY <2>2 DEF IInv, HistoryInv
<1>10. Claim(p)'
  BY <1>2, <1>6, <1>7, <1>8, <1>9, Lock DEF Claim, Fresh
<1>11. QED
  BY <1>2, <1>5, <1>6, <1>10, Counters, GoingOn DEF Evaluate, Goto, Labels, Locked

\* A rebuild reads the Events it will render.
LEMMA RebuildReadKeeps ==
    ASSUME IInv, NEW p \in Procs, RebuildRead(p)
    PROVE  IInv'
<1> DEFINE work == [job[p] EXCEPT !.todo = files["events"]]
<1>1. pc[p] = "rebuild" /\ Claim(p)
  BY DEF RebuildRead, At, IInv
<1>2. work \in Jobs /\ job' = [job EXCEPT ![p] = work]
  BY JobTyped DEF Jobs, RebuildRead
<1>3. pc'[p] = "render" /\ job'[p] = work
  BY <1>2 DEF IInv, TypeInv, RebuildRead, Goto
<1>4. /\ work.state = job[p].state /\ work.snapshot = job[p].snapshot
      /\ work.todo \in Histories
  BY JobTyped DEF Jobs
<1>5. Claim(p)'
  BY <1>1, <1>3, <1>4 DEF Claim, RebuildRead
<1>6. QED
  BY <1>1, <1>2, <1>5, Counters, GoingOn DEF RebuildRead, Goto, Labels, Locked

\* A rebuild replaces trace/events.md only.
LEMMA RebuildWriteKeeps ==
    ASSUME IInv, NEW p \in Procs, RebuildWrite(p)
    PROVE  IInv'
<1>1. pc[p] = "render" /\ lock # p /\ job[p].todo \in Histories
  BY Lock DEF RebuildWrite, At, Locked, IInv, Claim
<1>2. Finish(p) /\ faults' \in faults..MaxFaults
  BY Counters DEF RebuildWrite
<1>3. /\ files' \in [Paths -> Histories] /\ files'["state"] = files["state"]
      /\ files'["events"] = files["events"] /\ files'["outputs"] = files["outputs"]
  BY <1>1, Lock, PathNames DEF RebuildWrite
<1>4. QED
  BY <1>1, <1>2, <1>3, Lock, Counters, Ending DEF RebuildWrite

-----------------------------------------------------------------------------
(* The steps of a commit *)

\* A commit that is let through was evaluated on the history as it is now.
LEMMA CommitStarts ==
    ASSUME IInv, NEW p \in Procs, pc[p] = "commit",
           ValidateCommit(job[p].outputs, job[p].event, pin)
    PROVE  /\ job[p].state = files["state"] /\ files["events"] = files["state"]
           /\ Registry(Append(job[p].outputs, job[p].event)) = Registry(New(job[p]))
<1>1. PICK work \in Jobs : work = job[p]
  BY Lock
<1>2. PICK h \in Histories : h = files["events"]
  BY Lock
<1>3. /\ Prefix(work.state, files["state"]) /\ Fresh(work) /\ work.state \in Histories
      /\ files["state"] \in Histories /\ Prefix(files["state"], h) /\ Increasing(h)
  BY <1>1, <1>2, Lock DEF IInv, HistoryInv, Claim, Jobs
<1>4. files["state"] = h
  <2>1. CASE files["state"] # << >>
    BY <1>2, <1>3, <2>1, SameMoment DEF ValidateCommit
  <2>2. CASE files["state"] = << >>
    BY <1>2, <2>2 DEF ValidateCommit
  <2>3. QED
    BY <2>1, <2>2
<1>5. ValidateHistory(Append(h, work.event), work.event.id,
                      Registry(Append(work.outputs, work.event)), pin)
  BY <1>1, <1>2 DEF ValidateCommit
<1>6. PICK e \in Events : e = work.event
  BY <1>3 DEF Fresh
<1>7. PICK longer \in Histories : longer = Append(h, e)
  BY AppendHistory
<1>8. /\ Len(longer) = Len(h) + 1 /\ longer[Len(h) + 1] = e /\ SubSeq(longer, 1, Len(h)) = h
      /\ Len(h) \in Nat /\ DOMAIN longer = 1..Len(longer)
  BY <1>7, AppendHistory, PrefixIsSubSeq DEF Histories
<1>9. e.cause = LastID(h)
  <2>1. \A i \in DOMAIN longer : longer[i].cause = LastID(SubSeq(longer, 1, i - 1))
    BY <1>5, <1>6, <1>7 DEF ValidateHistory
  <2>2. Len(h) + 1 \in DOMAIN longer /\ (Len(h) + 1) - 1 = Len(h)
    BY <1>8
  <2>3. QED
    BY <1>8, <2>1, <2>2
<1>10. LastID(work.state) = LastID(h)
  BY <1>3, <1>6, <1>9 DEF Fresh
<1>11. work.state = h
  BY <1>3, <1>4, <1>10, SameMoment
<1>12. Registry(Append(work.outputs, work.event)) = Registry(New(work))
  BY <1>5, <1>11 DEF ValidateHistory, New
<1>13. QED
  BY <1>1, <1>2, <1>4, <1>11, <1>12

\* A commit takes the lock with all files agreeing, or is refused.
LEMMA BeginCommitKeeps ==
    ASSUME IInv, NEW p \in Procs, BeginCommit(p)
    PROVE  IInv'
<1>1. pc[p] = "commit" /\ lock = NoProc /\ lock # p /\ Claim(p) /\ job[p] \in Jobs
  BY Lock DEF BeginCommit, At, Locked, IInv
<1>2. CASE Finish(p) /\ UNCHANGED lock
  BY <1>1, <1>2, Lock, Counters, Ending DEF BeginCommit
<1>3. CASE /\ ValidateCommit(job[p].outputs, job[p].event, pin)
           /\ lock' = p
           /\ job' = [job EXCEPT ![p].before = files, ![p].todo = WriteOrder]
           /\ Goto(p, "write")
  <2>1. PICK work \in Jobs : work = [job[p] EXCEPT !.before = files, !.todo = WriteOrder]
    <3>1. [job[p] EXCEPT !.before = files, !.todo = WriteOrder] \in Jobs
      BY <1>1, JobTyped, PathNames, WithTodo
    <3> QED
      BY <3>1, Zenon
  <2>2. job' = [job EXCEPT ![p] = work]
    BY <1>3, <2>1, JobTyped DEF Jobs
  <2>3. StepOf(p, "write", work)
    BY <1>1, <1>3, <2>2, Lock, Counters DEF StepOf, BeginCommit, Goto, Locked
  <2>4. /\ pc'[p] = "write" /\ job'[p] = work /\ files' = files /\ pin' = pin /\ issued' = issued
        /\ faults' = faults /\ crashes' = crashes
    BY <2>3 DEF StepOf, IInv, TypeInv, BeginCommit
  <2>5. /\ work.state = job[p].state /\ work.event = job[p].event
        /\ work.outputs = job[p].outputs /\ work.before = files /\ work.todo = WriteOrder
    BY <1>1, <2>1 DEF Jobs
  <2>6. /\ job[p].state = files["state"] /\ files["events"] = files["state"]
        /\ Registry(Append(job[p].outputs, job[p].event)) = Registry(New(job[p]))
    BY <1>1, <1>3, CommitStarts
  <2>7. Fresh(job[p])'
    BY <1>1, <2>4, <2>5 DEF Claim, Fresh
  <2>8. Benign => Agree(files)
    <3>1. \A q \in Procs : pc[q] \notin {"write", "restore"}
      BY <1>1, Lock, StoreAssumption DEF Locked
    <3>2. QED
      BY <3>1 DEF IInv, QuietInv
  <2>9. Committing(work)'
    BY <2>4, <2>5, <2>6, <2>8 DEF Committing, New, Benign
  <2>10. Writing(work)'
    BY <2>4, <2>5, <2>6, PathNames DEF Writing
  <2>11. Claim(p)'
    BY <1>1, <2>4, <2>5, <2>7, <2>9, <2>10 DEF Claim
  <2>12. QED
    BY <1>1, <2>3, <2>4, <2>11, Lock, QuietSteps DEF Labels
<1>4. QED
  BY <1>2, <1>3 DEF BeginCommit

\* A failed write begins to put back all four files.
LEMMA WriteFailsKeeps ==
    ASSUME IInv, NEW p \in Procs, WriteFails(p)
    PROVE  IInv'
<1>1. pc[p] = "write" /\ Claim(p) /\ job[p] \in Jobs /\ lock = p
  BY Lock DEF WriteFails, At, IInv, Locked
<1>2. PICK work \in Jobs : work = [job[p] EXCEPT !.todo = WriteOrder]
  BY <1>1, PathNames DEF Jobs
<1>3. job' = [job EXCEPT ![p] = work]
  BY <1>2, JobTyped DEF Jobs, WriteFails
<1>4. StepOf(p, "restore", work)
  BY <1>1, <1>3, Lock, Counters DEF StepOf, WriteFails, Goto, Locked
<1>5. /\ pc'[p] = "restore" /\ job'[p] = work /\ files' = files /\ pin' = pin /\ issued' = issued
      /\ faults' >= 1 /\ crashes' = crashes
  BY <1>4, Counters DEF StepOf, IInv, TypeInv, WriteFails
<1>6. /\ work.state = job[p].state /\ work.event = job[p].event
      /\ work.outputs = job[p].outputs /\ work.before = job[p].before /\ work.todo = WriteOrder
  BY <1>1, <1>2 DEF Jobs
<1>7. Fresh(job[p])'
  BY <1>1, <1>5, <1>6 DEF Claim, Fresh
<1>8. Benign' => Benign
  BY Counters, Lock DEF Benign, WriteFails, Fault
<1>9. Committing(work)'
  <2>1. Committing(job[p])
    BY <1>1 DEF Claim
  <2>2. QED
    BY <1>5, <1>6, <1>8, <2>1 DEF Committing, New
<1>10. Restoring(work)'
  BY <1>5, <1>6, PathNames DEF Restoring
<1>11. Claim(p)'
  BY <1>1, <1>5, <1>6, <1>7, <1>9, <1>10 DEF Claim
<1>12. QED
  BY <1>1, <1>4, <1>5, <1>11, Lock, QuietSteps DEF Labels

\* The next of several things is done under the lock: the command ends with the
\* last of them, and keeps the rest of the list otherwise.
LEMMA Proceeding ==
    ASSUME IInv, NEW p \in Procs, pc[p] \in Locked, NEW S \in {Paths, {"audit", "pin"}},
           job[p].todo \in Seq(S), NEW i \in 1..Len(job[p].todo), Proceed(p, i)
    PROVE  \/ Len(job[p].todo) = 1 /\ Finish(p) /\ lock' = NoProc
           \/ \E next \in Jobs :
                 /\ Len(job[p].todo) # 1 /\ next.todo = RemoveAt(job[p].todo, i)
                 /\ next.todo \in Seq(S)
                 /\ next = [job[p] EXCEPT !.todo = next.todo]
                 /\ next.state = job[p].state /\ next.outputs = job[p].outputs
                 /\ next.event = job[p].event /\ next.before = job[p].before
                 /\ next.snapshot = job[p].snapshot /\ next.pinned = job[p].pinned
                 /\ pc' = [pc EXCEPT ![p] = pc[p]] /\ job' = [job EXCEPT ![p] = next]
                 /\ lock' = p /\ lock = p
                 /\ pc'[p] = pc[p] /\ job'[p] = next
<1>1. CASE Len(job[p].todo) = 1
  BY <1>1 DEF Proceed
<1>2. CASE Len(job[p].todo) # 1
  <2>1. PICK rest \in Seq(S) : rest = RemoveAt(job[p].todo, i)
    BY Removed
  <2>2. PICK next \in Jobs : next = [job[p] EXCEPT !.todo = rest]
    BY <2>1, JobTyped DEF Jobs
  <2>3. /\ next.todo = rest /\ next.state = job[p].state /\ next.outputs = job[p].outputs
        /\ next.event = job[p].event /\ next.before = job[p].before
        /\ next.snapshot = job[p].snapshot /\ next.pinned = job[p].pinned
    BY <2>2, JobTyped DEF Jobs
  <2>4. job' = [job EXCEPT ![p] = next] /\ UNCHANGED <<pc, lock>>
    BY <1>2, <2>1, <2>2, Lock DEF Proceed
  <2>5. pc' = [pc EXCEPT ![p] = pc[p]] /\ pc'[p] = pc[p] /\ job'[p] = next
    BY <2>4 DEF IInv, TypeInv
  <2>6. lock = p /\ lock' = p
    BY <2>4, Lock
  <2>7. QED
    BY <1>2, <2>1, <2>2, <2>3, <2>4, <2>5, <2>6
<1>3. QED
  BY <1>1, <1>2

\* The next State of a commit under way is a history that can be written.
LEMMA NewHistory ==
    ASSUME IInv, NEW p \in Procs, pc[p] \in {"write", "restore"}
    PROVE  /\ New(job[p]) \in Histories /\ Append(job[p].outputs, job[p].event) \in Histories
           /\ Prefix(job[p].state, New(job[p])) /\ Increasing(New(job[p]))
           /\ Len(New(job[p])) = Len(job[p].state) + 1 /\ Before(New(job[p]), issued + 1)
           /\ LastID(New(job[p])) = job[p].event.id
           /\ LastID(Append(job[p].outputs, job[p].event)) = job[p].event.id
           /\ job[p].state \in Histories /\ Increasing(job[p].state)
           /\ Before(job[p].state, issued + 1) /\ New(job[p]) # << >>
<1>1. PICK h \in Histories : h = job[p].state
  BY JobTyped DEF Jobs
<1>2. PICK outputs \in Histories : outputs = job[p].outputs
  BY JobTyped DEF Jobs
<1>3. Fresh(job[p]) /\ files["state"] = h
  BY <1>1 DEF IInv, Claim, Committing
<1>4. PICK e \in Events : e = job[p].event
  BY <1>3 DEF Fresh
<1>5. e.id <= issued /\ Before(h, e.id) /\ issued \in Nat /\ e.id \in Nat
  BY <1>1, <1>3, <1>4, Lock, StoreAssumption DEF Fresh, Events
<1>6. Increasing(h) /\ Len(h) \in Nat
  <2>1. Prefix(h, files["events"]) /\ Increasing(files["events"]) /\ files["events"] \in Histories
    BY <1>3, Lock DEF IInv, HistoryInv
  <2>2. Len(h) \in Nat /\ Len(files["events"]) \in Nat
    BY <2>1 DEF Histories
  <2>3. QED
    BY <2>1, <2>2 DEF Prefix, Increasing
<1>7. PICK new \in Histories : new = Append(h, e)
  BY AppendHistory
<1>8. /\ Len(new) = Len(h) + 1 /\ new[Len(h) + 1] = e /\ \A i \in 1..Len(h) : new[i] = h[i]
      /\ Prefix(h, new) /\ new # << >> /\ Increasing(new) /\ LastID(new) = e.id
      /\ Append(outputs, e) \in Histories /\ LastID(Append(outputs, e)) = e.id
  BY <1>5, <1>6, <1>7, AppendHistory, IncreasingAppend, LastIDs
<1>9. Before(h, issued + 1)
  <2>1. \A i \in 1..Len(h) : h[i].id \in Nat
    BY Elements
  <2>2. QED
    BY <1>5, <2>1 DEF Before
<1>10. Before(new, issued + 1)
  <2>1. ASSUME NEW i \in 1..Len(new) PROVE new[i].id < issued + 1
    <3>1. CASE i = Len(h) + 1
      BY <1>5, <1>8, <3>1
    <3>2. CASE i # Len(h) + 1
      <4>1. i \in 1..Len(h)
        BY <1>6, <1>8, <3>2
      <4>2. QED
        BY <1>8, <1>9, <4>1 DEF Before
    <3>3. QED
      BY <3>1, <3>2
  <2>2. QED
    BY <2>1 DEF Before
<1>11. QED
  BY <1>1, <1>2, <1>4, <1>6, <1>7, <1>8, <1>9, <1>10 DEF New

\* The files of the write order are replaced one by one; with the last of them
\* they agree again.
LEMMA WriteKeeps ==
    ASSUME IInv, NEW p \in Procs, Write(p)
    PROVE  IInv'
<1>1. /\ pc[p] = "write" /\ Fresh(job[p]) /\ Committing(job[p]) /\ Writing(job[p])
      /\ pin \in Snapshots
  BY DEF Write, At, IInv, Claim
<1>2. PICK h \in Histories : h = job[p].state
  BY JobTyped DEF Jobs
<1>3. PICK new \in Histories : new = New(job[p])
  BY <1>1, NewHistory
<1>4. PICK outputs \in Histories : outputs = Append(job[p].outputs, job[p].event)
  BY <1>1, NewHistory
<1>5. PICK n \in 1..4 :
        /\ n = Len(job[p].todo) /\ job[p].todo \in Seq(Paths) /\ 1 \in 1..n
        /\ \A i \in 1..n : job[p].todo[i] = WriteOrder[4 - n + i]
  <2>1. \A n \in 1..4 : 1 \in 1..n
    OBVIOUS
  <2>2. QED
    BY <1>1, <2>1 DEF Writing
<1>6. /\ Prefix(h, new) /\ Increasing(new) /\ Len(new) = Len(h) + 1 /\ Before(new, issued + 1)
      /\ LastID(new) = job[p].event.id /\ LastID(outputs) = job[p].event.id
      /\ Increasing(h) /\ Before(h, issued + 1) /\ Len(h) \in Nat
  BY <1>1, <1>2, <1>3, <1>4, NewHistory DEF Histories
<1>7. PICK path \in Paths : path = Head(job[p].todo) /\ path = WriteOrder[5 - n]
  <2>1. job[p].todo[1] = WriteOrder[4 - n + 1]
    BY <1>5
  <2>2. Head(job[p].todo) = job[p].todo[1] /\ job[p].todo[1] \in Paths
    BY <1>5
  <2>3. 4 - n + 1 = 5 - n
    OBVIOUS
  <2>4. QED
    BY <2>1, <2>2, <2>3
<1>8. /\ n = 4 => path = "outputs"
      /\ n = 3 => path = "events"
      /\ n = 2 => path = "trace"
      /\ n = 1 => path = "state"
  BY <1>7, PathNames
<1>9. /\ files["state"] = h /\ files["events"] = IF n <= 2 THEN new ELSE h
      /\ n <= 3 => files["outputs"] = outputs
      /\ job[p].before["events"] = h
  BY <1>1, <1>2, <1>3, <1>4, <1>5 DEF Committing, Writing
<1>10. Content(job[p], path) = IF n = 4 THEN outputs ELSE new
  BY <1>2, <1>3, <1>4, <1>8, <1>9 DEF Content, New
<1>11. files' = [files EXCEPT ![path] = IF n = 4 THEN outputs ELSE new]
  BY <1>7, <1>10 DEF Write
<1>12. /\ files' \in [Paths -> Histories] /\ files'["outputs"] = outputs
       /\ files'["events"] = IF n <= 3 THEN new ELSE h
       /\ files'["state"] = IF n = 1 THEN new ELSE h
  <2>1. files \in [Paths -> Histories]
    BY Lock
  <2>2. CASE n = 4
    BY <1>8, <1>9, <1>11, <2>1, <2>2, PathNames
  <2>3. CASE n = 3
    BY <1>8, <1>9, <1>11, <2>1, <2>3, PathNames
  <2>4. CASE n = 2
    BY <1>8, <1>9, <1>11, <2>1, <2>4, PathNames
  <2>5. CASE n = 1
    BY <1>8, <1>9, <1>11, <2>1, <2>5, PathNames
  <2>6. QED
    BY <2>2, <2>3, <2>4, <2>5
<1>13. HistoryInv'
  <2>1. issued' = issued /\ pin' = pin
    BY DEF Write
  <2>2. Prefix(new, new) /\ Prefix(h, h) /\ Len(h) \in Nat /\ Len(new) \in Nat
    BY PrefixOrder DEF Histories
  <2>3. CASE n = 1
    BY <1>1, <1>6, <1>12, <2>1, <2>2, <2>3 DEF HistoryInv, Increasing, Before, Prefix
  <2>4. CASE n # 1 /\ n <= 3
    BY <1>1, <1>6, <1>12, <2>1, <2>2, <2>4 DEF HistoryInv, Increasing, Before, Prefix
  <2>5. CASE n = 4
    BY <1>1, <1>6, <1>12, <2>1, <2>2, <2>5 DEF HistoryInv, Increasing, Before, Prefix
  <2>6. QED
    BY <2>3, <2>4, <2>5
<1>14. pc[p] \in Locked /\ job[p].todo \in Seq(Paths) /\ 1 \in 1..Len(job[p].todo)
  BY <1>1, <1>5 DEF Locked
<1>15. Prefix(files["state"], files'["state"])
  BY <1>6, <1>9, <1>12, PrefixOrder
<1>16. CASE n = 1
  <2>done. Finish(p) /\ lock' = NoProc
    BY <1>5, <1>16 DEF Write, Proceed
  <2>1. StepOf(p, "idle", NoJob)
    BY <1>14, <2>done, Lock, Counters DEF StepOf, Write, Finish, Goto, Locked
  <2>2. pc'[p] = "idle"
    BY <2>1 DEF StepOf, IInv, TypeInv
  <2>3. Claim(p)'
    BY <2>2 DEF Claim
  <2>4. QuietInv'
    <3>1. Registry(outputs) = Registry(new)
      BY <1>1, <1>3, <1>4 DEF Committing
    <3>2. Agree(files)'
      BY <1>6, <1>12, <1>16, <3>1 DEF Agree
    <3>3. QED
      BY <3>2 DEF QuietInv
  <2>5. QED
    BY <1>12, <1>13, <1>14, <1>15, <2>1, <2>3, <2>4, NoJobTyped, Steps DEF Labels
<1>17. CASE n # 1
  <2>1. PICK next \in Jobs :
          /\ next.todo = RemoveAt(job[p].todo, 1) /\ next.todo \in Seq(Paths)
          /\ next.state = job[p].state /\ next.outputs = job[p].outputs
          /\ next.event = job[p].event /\ next.before = job[p].before
          /\ pc' = [pc EXCEPT ![p] = pc[p]] /\ job' = [job EXCEPT ![p] = next]
          /\ lock' = p /\ lock = p
          /\ pc'[p] = pc[p] /\ job'[p] = next
    BY <1>5, <1>14, <1>17, Proceeding DEF Write
  <2>2. StepOf(p, "write", next)
    BY <1>1, <2>1, Lock, Counters DEF StepOf, Write, Locked
  <2>3. Fresh(job[p])'
    BY <1>1, <2>1 DEF Fresh, Write
  <2>4. Committing(next)'
    <3>1. Benign' = Benign
      BY DEF Benign, Write
    <3>2. /\ next.before["state"] = h /\ next.before["events"] = h /\ next.state = h
          /\ Append(next.state, next.event) = new
          /\ Benign => LastID(next.before["outputs"]) = LastID(next.before["state"])
          /\ Benign => Registry(next.before["outputs"]) = Registry(next.before["state"])
          /\ Registry(Append(next.outputs, next.event)) = Registry(new)
      BY <1>1, <1>2, <1>3, <2>1 DEF Committing, New, Agree
    <3>3. files'["state"] = h /\ files'["events"] \in {h, new}
      BY <1>12, <1>17
    <3>4. QED
      BY <3>1, <3>2, <3>3 DEF Committing, Agree, New
  <2>5. Writing(next)'
    <3>1. /\ Len(next.todo) = n - 1
          /\ \A j \in 1..(n - 1) : next.todo[j] = job[p].todo[j + 1]
      <4>1. PICK todo \in Seq(Paths) : todo = job[p].todo
        BY <1>14
      <4>2. next.todo = RemoveAt(todo, 1) /\ 1 \in 1..Len(todo) /\ Len(todo) = n
        BY <1>5, <1>14, <2>1, <4>1
      <4>3. /\ Len(RemoveAt(todo, 1)) = Len(todo) - 1
            /\ \A j \in 1..(Len(todo) - 1) :
                  RemoveAt(todo, 1)[j] = IF j < 1 THEN todo[j] ELSE todo[j + 1]
        BY <4>2, Removed
      <4>4. \A j \in 1..(n - 1) : ~ j < 1
        OBVIOUS
      <4>5. QED
        BY <4>1, <4>2, <4>3, <4>4
    <3>2. ASSUME NEW j \in 1..(n - 1) PROVE next.todo[j] = WriteOrder[4 - (n - 1) + j]
      <4>1. j + 1 \in 1..n /\ 4 - n + (j + 1) = 4 - (n - 1) + j
        OBVIOUS
      <4>2. job[p].todo[j + 1] = WriteOrder[4 - n + (j + 1)]
        BY <1>5, <4>1
      <4>3. QED
        BY <3>1, <4>1, <4>2
    <3>3. n - 1 \in 1..3
      BY <1>17
    <3>4. \A i \in 1..Len(next.todo) : next.todo[i] = WriteOrder[4 - Len(next.todo) + i]
      BY <3>1, <3>2
    <3>5. /\ Len(next.todo) \in 1..4 /\ Len(next.todo) <= 3
          /\ Len(next.todo) <= 2 <=> n <= 3
      BY <3>1, <3>3
    <3>6. /\ New(next) = new /\ next.state = h
          /\ Append(next.outputs, next.event) = outputs
      BY <1>2, <1>3, <1>4, <2>1 DEF New
    <3>7. QED
      BY <1>12, <2>1, <3>4, <3>5, <3>6 DEF Writing
  <2>6. Claim(p)'
    <3>1. Prefix(next.state, files'["state"]) /\ pin' = pin
      BY <1>2, <1>9, <1>15, <2>1 DEF Write
    <3>2. QED
      BY <1>1, <2>1, <2>3, <2>4, <2>5, <3>1 DEF Claim
  <2>7. QuietInv'
    BY <1>1, <2>1 DEF QuietInv
  <2>8. QED
    BY <1>12, <1>13, <1>14, <1>15, <2>2, <2>6, <2>7, Steps DEF Labels
<1>18. QED
  BY <1>16, <1>17

\* Every file that is put back is as before the commit; after one failure all
\* of them are.
LEMMA RestoreKeeps ==
    ASSUME IInv, NEW p \in Procs, Restore(p)
    PROVE  IInv'
<1>1. /\ pc[p] = "restore" /\ Fresh(job[p]) /\ Committing(job[p]) /\ Restoring(job[p])
      /\ pc[p] \in Locked /\ job[p].todo \in Seq(Paths)
  BY DEF Restore, At, IInv, Claim, Restoring, Locked
<1>2. PICK before \in [Paths -> Histories] : before = job[p].before
  BY JobTyped DEF Jobs
<1>3. PICK h \in Histories : h = job[p].state
  BY JobTyped DEF Jobs
<1>4. PICK i \in 1..Len(job[p].todo), path \in Paths :
        /\ path = job[p].todo[i]
        /\ \/ files' = [files EXCEPT ![path] = before[path]] /\ UNCHANGED faults
           \/ Fault /\ UNCHANGED files
        /\ Proceed(p, i)
  <2>1. PICK i \in DOMAIN job[p].todo :
          LET path == job[p].todo[i] IN
          /\ \/ files' = [files EXCEPT ![path] = before[path]] /\ UNCHANGED faults
             \/ Fault /\ UNCHANGED files
          /\ Proceed(p, i)
    BY <1>2 DEF Restore
  <2>2. i \in 1..Len(job[p].todo) /\ job[p].todo[i] \in Paths
    BY <1>1
  <2>3. QED
    BY <2>1, <2>2
<1>new. PICK new \in Histories : new = New(job[p])
  BY <1>1, NewHistory
<1>5. /\ before["state"] = h /\ before["events"] = h /\ files["state"] = h
      /\ files["events"] \in {h, new}
  BY <1>new, <1>1, <1>2, <1>3 DEF Committing
<1>agreed. /\ Benign => LastID(before["outputs"]) = LastID(before["state"])
           /\ Benign => Registry(before["outputs"]) = Registry(before["state"])
  BY <1>1, <1>2 DEF Committing, Agree
<1>registry. Registry(Append(job[p].outputs, job[p].event)) = Registry(new)
  BY <1>new, <1>1 DEF Committing
<1>6. /\ files' \in [Paths -> Histories] /\ files'["state"] = h
      /\ files'["events"] \in {h, new}
  <2>files. files \in [Paths -> Histories] /\ "state" \in Paths /\ "events" \in Paths
    BY Lock, PathNames
  <2>1. CASE files' = files
    BY <1>5, <2>files, <2>1
  <2>2. CASE files' = [files EXCEPT ![path] = before[path]]
    <3>1. files' \in [Paths -> Histories] /\ before[path] \in Histories
      BY <2>files, <2>2
    <3>2. CASE path = "state" \/ path = "events"
      BY <1>5, <2>files, <2>2, <3>1, <3>2
    <3>3. CASE path # "state" /\ path # "events"
      BY <1>5, <2>files, <2>2, <3>1, <3>3
    <3>4. QED
      BY <3>2, <3>3
  <2>3. QED
    BY <1>4, <2>1, <2>2
<1>7. /\ issued' = issued /\ pin' = pin /\ crashes' = crashes
      /\ faults \in Nat /\ faults' \in faults..MaxFaults
  BY <1>4, Lock, Counters, StoreAssumption DEF Restore
<1>8. /\ Prefix(h, new) /\ Prefix(h, h) /\ Increasing(new)
      /\ Len(new) = Len(h) + 1 /\ Before(new, issued + 1)
      /\ Increasing(h) /\ Before(h, issued + 1) /\ Len(h) \in Nat
      /\ new \in Histories
  BY <1>new, <1>1, <1>3, NewHistory, PrefixOrder DEF Histories
<1>9. HistoryInv'
  <2>1. files'["events"] # << >> => pin \in Snapshots
    <3>1. CASE files'["events"] = files["events"] \/ files'["events"] = h
      <4>1. h # << >> => files["events"] # << >>
        BY <1>5, Lock, PrefixOrder DEF IInv, HistoryInv
      <4>2. QED
        BY <3>1, <4>1 DEF IInv, HistoryInv
    <3>2. CASE files'["events"] # files["events"] /\ files'["events"] # h
      <4>1. path = "events" \/ files'["events"] = files["events"]
        BY <1>4, Lock, PathNames
      <4>2. QED
        BY <1>4, <1>5, <3>2, <4>1, Lock, PathNames
    <3>3. QED
      BY <3>1, <3>2
  <2>2. CASE files'["events"] = h
    BY <1>6, <1>7, <1>8, <2>1, <2>2 DEF HistoryInv, Increasing, Before, Prefix
  <2>3. CASE files'["events"] = new
    BY <1>6, <1>7, <1>8, <2>1, <2>3 DEF HistoryInv, Increasing, Before, Prefix
  <2>4. QED
    BY <1>6, <2>2, <2>3
<1>10. Benign' => Benign /\ files' = [files EXCEPT ![path] = before[path]]
  BY <1>1, <1>4, <1>7 DEF Benign, Restoring, Fault
<1>11. ASSUME Benign', NEW other \in {"outputs", "events"}
       PROVE  \/ files'[other] = before[other]
              \/ \E j \in 1..Len(job[p].todo) : j # i /\ job[p].todo[j] = other
  <2>1. \/ files[other] = before[other]
        \/ \E j \in 1..Len(job[p].todo) : job[p].todo[j] = other
    BY <1>1, <1>2, <1>10, <1>11 DEF Restoring
  <2>2. path = other => files'[other] = before[other]
    BY <1>10, <1>11, Lock, PathNames
  <2>3. path # other => files'[other] = files[other]
    BY <1>10, <1>11, Lock, PathNames
  <2>4. QED
    BY <1>4, <2>1, <2>2, <2>3
<1>12. Prefix(files["state"], files'["state"])
  BY <1>5, <1>6, <1>8
<1>13. CASE Len(job[p].todo) = 1
  <2>1. Finish(p) /\ lock' = NoProc
    BY <1>4, <1>13 DEF Proceed
  <2>2. StepOf(p, "idle", NoJob)
    BY <1>1, <1>7, <2>1, Lock, Counters DEF StepOf, Restore, Finish, Goto, Locked
  <2>3. pc'[p] = "idle"
    BY <2>2 DEF StepOf, IInv, TypeInv
  <2>4. Claim(p)'
    BY <2>3 DEF Claim
  <2>5. QuietInv'
    <3>1. SUFFICES ASSUME Benign' PROVE Agree(files)'
      BY DEF QuietInv
    <3>2. files'["outputs"] = before["outputs"] /\ files'["events"] = before["events"]
      <4>1. ~ \E j \in 1..Len(job[p].todo) : j # i
        BY <1>13
      <4>2. QED
        BY <1>11, <3>1, <4>1
    <3>3. Benign
      BY <1>10, <3>1
    <3>4. /\ LastID(before["outputs"]) = LastID(h)
          /\ Registry(before["outputs"]) = Registry(h)
      BY <1>5, <1>agreed, <3>3
    <3>5. files'["events"] = h /\ files'["state"] = h
      BY <1>5, <1>6, <3>2
    <3>6. QED
      BY <3>2, <3>4, <3>5 DEF Agree
  <2>6. QED
    BY <1>1, <1>6, <1>9, <1>12, <2>2, <2>4, <2>5, NoJobTyped, Steps DEF Labels
<1>14. CASE Len(job[p].todo) # 1
  <2>1. PICK next \in Jobs :
          /\ next.todo = RemoveAt(job[p].todo, i) /\ next.todo \in Seq(Paths)
          /\ next.state = job[p].state /\ next.outputs = job[p].outputs
          /\ next.event = job[p].event /\ next.before = job[p].before
          /\ pc' = [pc EXCEPT ![p] = pc[p]] /\ job' = [job EXCEPT ![p] = next]
          /\ lock' = p /\ lock = p
          /\ pc'[p] = pc[p] /\ job'[p] = next
    BY <1>1, <1>4, <1>14, Proceeding
  <2>2. StepOf(p, "restore", next)
    BY <1>1, <1>7, <2>1, Lock, Counters DEF StepOf, Restore, Locked
  <2>3. Fresh(job[p])'
    BY <1>1, <1>7, <2>1 DEF Fresh
  <2>4. Committing(next)'
    <3>1. /\ next.before["state"] = h /\ next.before["events"] = h /\ next.state = h
          /\ Append(next.state, next.event) = new
          /\ Registry(Append(next.outputs, next.event)) = Registry(new)
          /\ next.before = before
      BY <1>new, <1>2, <1>3, <1>5, <1>registry, <2>1 DEF New
    <3>2. Benign' => Benign
      BY <1>10
    <3>3. Benign' => /\ next.before["events"] = next.before["state"]
                     /\ LastID(next.before["outputs"]) = LastID(next.before["state"])
                     /\ Registry(next.before["outputs"]) = Registry(next.before["state"])
      BY <1>agreed, <3>1, <3>2
    <3>4. QED
      BY <1>6, <3>1, <3>3 DEF Committing, Agree, New
  <2>5. Restoring(next)'
    <3>1. /\ Len(next.todo) = Len(job[p].todo) - 1
          /\ \A j \in 1..(Len(job[p].todo) - 1) :
                next.todo[j] = IF j < i THEN job[p].todo[j] ELSE job[p].todo[j + 1]
      BY <1>1, <2>1, Removed
    <3>2. PICK n \in Nat : n = Len(job[p].todo)
      BY <1>1
    <3>3. Len(next.todo) >= 1
      <4>1. n >= 1 /\ n # 1 /\ Len(next.todo) = n - 1
        BY <1>1, <1>14, <3>1, <3>2 DEF Restoring
      <4>2. QED
        BY <4>1
    <3>4. ASSUME Benign', NEW other \in {"outputs", "events"}, files'[other] # before[other]
          PROVE \E k \in 1..Len(next.todo) : next.todo[k] = other
      <4>1. PICK j \in 1..n : j # i /\ job[p].todo[j] = other
        BY <1>11, <3>2, <3>4
      <4>2. CASE j < i
        <5>1. j \in 1..(n - 1) /\ next.todo[j] = other
          BY <3>1, <3>2, <4>1, <4>2
        <5>2. QED
          BY <3>1, <3>2, <5>1
      <4>3. CASE ~ j < i
        <5>1. j - 1 \in 1..(n - 1) /\ ~ j - 1 < i /\ (j - 1) + 1 = j
          BY <3>2, <4>1, <4>3
        <5>2. next.todo[j - 1] = other
          BY <3>1, <3>2, <4>1, <5>1
        <5>3. QED
          BY <3>1, <3>2, <5>1, <5>2
      <4>4. QED
        BY <4>2, <4>3
    <3>5. faults' >= 1
      BY <1>1, <1>7 DEF Restoring
    <3>6. next.before = before
      BY <1>2, <2>1
    <3>7. QED
      BY <2>1, <3>3, <3>4, <3>5, <3>6 DEF Restoring
  <2>6. Claim(p)'
    <3>1. Prefix(next.state, files'["state"])
      BY <1>3, <1>6, <1>8, <2>1
    <3>2. QED
      BY <1>1, <2>1, <2>3, <2>4, <2>5, <3>1 DEF Claim
  <2>7. QuietInv'
    BY <1>1, <2>1 DEF QuietInv
  <2>8. QED
    BY <1>1, <1>6, <1>9, <1>12, <2>2, <2>6, <2>7, Steps DEF Labels
<1>15. QED
  BY <1>13, <1>14

-----------------------------------------------------------------------------
(* The steps of a rebind, and a kill *)

\* A rebind takes the lock and remembers the pin and the audit it found.
LEMMA BeginRebindKeeps ==
    ASSUME IInv, NEW p \in Procs, NEW snapshot \in Snapshots, BeginRebind(p, snapshot)
    PROVE  IInv'
<1>1. pc[p] = "idle" /\ lock = NoProc /\ pin \in Snapshots
  BY Lock DEF BeginRebind, At, Rebindable
<1>2. PICK work \in Jobs :
        work = [NoJob EXCEPT !.command = "rebind", !.snapshot = snapshot, !.audited = audit,
                             !.pinned = pin, !.state = files["state"]]
  BY NoJobTyped, Lock DEF Jobs, NoJob
<1>3. job' = [job EXCEPT ![p] = work]
  BY <1>2 DEF BeginRebind, Begin, NoJob
<1>4. rebinds' \in 0..MaxRebinds
  BY Lock, StoreAssumption DEF BeginRebind
<1>5. StepOf(p, "prepare", work)
  BY <1>1, <1>3, <1>4, Lock, Counters DEF StepOf, BeginRebind, Begin, Goto, Locked
<1>6. pc'[p] = "prepare" /\ job'[p] = work
  BY <1>5 DEF StepOf, IInv, TypeInv
<1>7. work.state = files["state"] /\ work.snapshot = snapshot /\ work.pinned = pin
  BY <1>2 DEF NoJob
<1>8. Claim(p)'
  BY <1>1, <1>6, <1>7, Lock, PrefixOrder DEF Claim, BeginRebind
<1>9. QED
  BY <1>1, <1>5, <1>8, Lock, QuietSteps DEF BeginRebind, Labels

\* A step of a rebind under its lock, which leaves the files alone.
LEMMA Rebinding ==
    ASSUME IInv, NEW p \in Procs, pc[p] \in {"prepare", "move", "committed", "undo"},
           NEW label \in {"move", "committed", "undo"}, NEW work \in Jobs,
           work.state = job[p].state, work.snapshot = job[p].snapshot,
           work.pinned = job[p].pinned,
           label = "undo" => work.todo \in Seq({"audit", "pin"}) /\ Len(work.todo) >= 1,
           pc' = [pc EXCEPT ![p] = label], job' = [job EXCEPT ![p] = work],
           UNCHANGED <<files, lock, issued, rebinds, crashes>>,
           pin' \in Snapshots \cup {NoPin}, pin \in Snapshots => pin' \in Snapshots,
           audit' \in Seq(Records), faults' \in faults..MaxFaults
    PROVE  IInv'
<1>1. lock = p /\ Claim(p)
  BY Lock DEF Locked, IInv
<1>2. StepOf(p, label, work)
  BY <1>1, Lock, Counters DEF StepOf, Locked
<1>3. pc'[p] = label /\ job'[p] = work /\ files' = files
  BY <1>2 DEF StepOf, IInv, TypeInv
<1>4. Claim(p)'
  BY <1>1, <1>3 DEF Claim
<1>5. QED
  BY <1>2, <1>3, <1>4, Lock, QuietSteps DEF Labels

\* What a rebind works with, and the records it writes.
LEMMA RebindWork ==
    ASSUME IInv, NEW p \in Procs, pc[p] \in {"prepare", "move", "committed", "undo"}
    PROVE  /\ job[p].snapshot \in Snapshots /\ job[p].pinned \in Snapshots
           /\ job[p].audited \in Seq(Records) /\ lock = p
           /\ pc[p] \notin {"write", "restore"}
           /\ \A phase \in {"prepared", "committed"} :
                 Append(audit, AuditRecord(p, phase)) \in Seq(Records)
<1>1. job[p].snapshot \in Snapshots /\ job[p].pinned \in Snapshots
  BY DEF IInv, Claim
<1>2. job[p].audited \in Seq(Records) /\ lock = p /\ audit \in Seq(Records)
  BY Lock DEF Jobs, Locked
<1>3. \A phase \in {"prepared", "committed"} : AuditRecord(p, phase) \in Records
  BY <1>1 DEF AuditRecord, Records
<1>4. QED
  BY <1>1, <1>2, <1>3

\* A rebind writes its prepared record, or ends when it cannot.
LEMMA PrepareKeeps ==
    ASSUME IInv, NEW p \in Procs, Prepare(p)
    PROVE  IInv'
<1>1. pc[p] = "prepare"
  BY DEF Prepare, At
<1>2. CASE Finish(p) /\ lock' = NoProc /\ UNCHANGED audit
  BY <1>1, <1>2, RebindWork, Lock, Counters, Ending DEF Prepare
<1>3. CASE /\ audit' = Append(audit, AuditRecord(p, "prepared"))
           /\ Continue(p, "move")
           /\ UNCHANGED <<lock, faults>>
  <2>1. audit' \in Seq(Records)
    BY <1>1, <1>3, RebindWork
  <2>2. pc' = [pc EXCEPT ![p] = "move"] /\ job' = [job EXCEPT ![p] = job[p]]
    BY <1>3, Lock DEF Continue, Goto
  <2>3. QED
    BY <1>1, <1>3, <2>1, <2>2, Lock, Counters, Rebinding DEF Prepare
<1>4. QED
  BY <1>2, <1>3 DEF Prepare

\* A rebind that fails begins to put back the pin and the audit.
LEMMA UndoStarts ==
    ASSUME IInv, NEW p \in Procs, pc[p] \in {"move", "committed"},
           NEW order \in {<<"audit", "pin">>, <<"pin", "audit">>}, RebindFails(p, order),
           UNCHANGED <<files, answer, issued, rebinds, crashes>>
    PROVE  IInv'
<1>1. order \in Seq({"audit", "pin"}) /\ Len(order) = 2
  <2>1. CASE order = <<"audit", "pin">>
    BY <2>1
  <2>2. CASE order = <<"pin", "audit">>
    BY <2>2
  <2>3. QED
    BY <2>1, <2>2
<1>2. PICK work \in Jobs : work = [job[p] EXCEPT !.todo = order]
  <2>1. [job[p] EXCEPT !.todo = order] \in Jobs
    BY <1>1, JobTyped, WithTodo
  <2> QED
    BY <2>1, Zenon
<1>3. /\ work.state = job[p].state /\ work.snapshot = job[p].snapshot
      /\ work.pinned = job[p].pinned /\ work.todo = order
      /\ job' = [job EXCEPT ![p] = work]
  BY <1>2, JobTyped DEF Jobs, RebindFails
<1>4. pc' = [pc EXCEPT ![p] = "undo"] /\ faults' \in faults..MaxFaults
  BY Counters DEF RebindFails, Goto
<1>5. pin' \in Snapshots \cup {NoPin} /\ pin' = pin /\ lock' = lock /\ audit' \in Seq(Records)
  BY Lock DEF RebindFails
<1>6. work.todo \in Seq({"audit", "pin"}) /\ Len(work.todo) >= 1
  BY <1>1, <1>3
<1>7. QED
  BY <1>3, <1>4, <1>5, <1>6, Rebinding

\* A rebind moves the pin to another snapshot, or fails.
LEMMA MovePinKeeps ==
    ASSUME IInv, NEW p \in Procs, MovePin(p)
    PROVE  IInv'
<1>1. pc[p] = "move"
  BY DEF MovePin, At
<1>2. CASE /\ pin' = job[p].snapshot
           /\ Continue(p, "committed")
           /\ UNCHANGED <<audit, lock, faults>>
  <2>1. pin' \in Snapshots
    BY <1>1, <1>2, RebindWork
  <2>2. pc' = [pc EXCEPT ![p] = "committed"] /\ job' = [job EXCEPT ![p] = job[p]]
    BY <1>2, Lock DEF Continue, Goto
  <2>3. QED
    BY <1>1, <1>2, <2>1, <2>2, Lock, Counters, Rebinding DEF MovePin
<1>3. CASE RebindFails(p, <<"audit", "pin">>)
  BY <1>1, <1>3, UndoStarts DEF MovePin
<1>4. QED
  BY <1>2, <1>3 DEF MovePin

\* A rebind ends with its committed record, or fails.
LEMMA CommitAuditKeeps ==
    ASSUME IInv, NEW p \in Procs, CommitAudit(p)
    PROVE  IInv'
<1>1. pc[p] = "committed"
  BY DEF CommitAudit, At
<1>2. CASE /\ audit' = Append(audit, AuditRecord(p, "committed"))
           /\ Finish(p) /\ lock' = NoProc
           /\ UNCHANGED <<pin, faults>>
  <2>1. audit' \in Seq(Records)
    BY <1>1, <1>2, RebindWork
  <2>2. QED
    BY <1>1, <1>2, <2>1, RebindWork, Lock, Counters, Ending DEF CommitAudit
<1>3. CASE RebindFails(p, <<"pin", "audit">>)
  BY <1>1, <1>3, UndoStarts DEF CommitAudit
<1>4. QED
  BY <1>2, <1>3 DEF CommitAudit

\* A rebind that failed puts the pin and the audit back, one by one.
LEMMA UndoKeeps ==
    ASSUME IInv, NEW p \in Procs, Undo(p)
    PROVE  IInv'
<1>1. /\ pc[p] = "undo" /\ job[p].todo \in Seq({"audit", "pin"})
      /\ pc[p] \in Locked /\ 1 \in 1..Len(job[p].todo)
      /\ Len(job[p].todo) \in Nat /\ Len(job[p].todo) >= 1
  <2>1. pc[p] = "undo"
    BY DEF Undo, At
  <2>2. job[p].todo \in Seq({"audit", "pin"}) /\ Len(job[p].todo) >= 1
    BY <2>1 DEF IInv, Claim
  <2>3. QED
    BY <2>1, <2>2 DEF Locked
<1>2. /\ pin' \in Snapshots \cup {NoPin} /\ (pin \in Snapshots => pin' \in Snapshots)
      /\ audit' \in Seq(Records) /\ faults' \in faults..MaxFaults
  BY <1>1, RebindWork, Lock, Counters DEF Undo
<1>3. CASE Finish(p) /\ lock' = NoProc
  BY <1>1, <1>2, <1>3, RebindWork, Lock, Counters, Ending DEF Undo
<1>4. CASE ~(Finish(p) /\ lock' = NoProc)
  <2>1. Proceed(p, 1)
    BY DEF Undo
  <2>2. PICK next \in Jobs :
          /\ Len(job[p].todo) # 1 /\ next.todo = RemoveAt(job[p].todo, 1)
          /\ next.todo \in Seq({"audit", "pin"})
          /\ next.state = job[p].state /\ next.snapshot = job[p].snapshot
          /\ next.pinned = job[p].pinned
          /\ pc' = [pc EXCEPT ![p] = pc[p]] /\ job' = [job EXCEPT ![p] = next]
          /\ lock' = p /\ lock = p
    BY <1>1, <1>4, <2>1, Proceeding
  <2>3. Len(next.todo) >= 1
    <3>1. PICK n \in Nat : n = Len(job[p].todo) /\ n >= 1 /\ n # 1
      BY <1>1, <2>2
    <3>2. Len(next.todo) = n - 1
      BY <1>1, <2>2, <3>1, Removed
    <3>3. \A m \in Nat : m >= 1 /\ m # 1 => m - 1 >= 1
      OBVIOUS
    <3>4. QED
      BY <3>1, <3>2, <3>3
  <2>4. QED
    BY <1>1, <1>2, <2>2, <2>3, Rebinding DEF Undo
<1>5. QED
  BY <1>3, <1>4

\* A kill leaves the files as they are and gives up the lock.
LEMMA CrashKeeps ==
    ASSUME IInv, NEW p \in Procs, Crash(p)
    PROVE  IInv'
<1>1. crashes' \in crashes..MaxCrashes /\ crashes' # 0
  BY Lock, StoreAssumption DEF Crash
<1>2. ~Benign'
  BY <1>1 DEF Benign
<1>3. QED
  BY <1>1, <1>2, Lock, Counters, Ending DEF Crash

-----------------------------------------------------------------------------
(* Every step is one of the log, or none *)

\* A step the log does not see.
Unseen == UNCHANGED Log!vars

\* A command that goes on, and changes neither State nor answer.
LEMMA GoesOn ==
    ASSUME IInv, NEW p \in Procs, NEW label, NEW work, label # "idle", pc[p] # "idle",
           pc' = [pc EXCEPT ![p] = label], job' = [job EXCEPT ![p] = work],
           work.state = job[p].state, files'["state"] = files["state"], answer' = answer
    PROVE  Unseen
<1>1. /\ pc \in [Procs -> Labels] /\ job \in [Procs -> Jobs]
  BY DEF IInv, TypeInv
<1>2. ASSUME NEW q \in Procs
      PROVE  /\ pc'[q] = "idle" <=> pc[q] = "idle"
             /\ job'[q].state = job[q].state
  BY <1>1
<1>3. Started' = Started
  BY <1>2 DEF Started
<1>4. QED
  BY <1>3 DEF Unseen, Log!vars

\* A command that ends has no beginning any more.
LEMMA Ends ==
    ASSUME IInv, NEW p \in Procs, Finish(p)
    PROVE  Log!End(p)
<1>1. /\ pc \in [Procs -> Labels] /\ job \in [Procs -> Jobs]
  BY DEF IInv, TypeInv
<1>2. ASSUME NEW q \in Procs
      PROVE  /\ q = p => pc'[q] = "idle"
             /\ q # p => pc'[q] = pc[q] /\ job'[q] = job[q]
  BY <1>1 DEF Finish, Goto
<1>3. Started' = [Started EXCEPT ![p] = -1]
  BY <1>2 DEF Started
<1>4. QED
  BY <1>3 DEF Log!End, Log!Idle

\* A command that ends without a State or an answer of its own has had no effect.
LEMMA Abandons ==
    ASSUME IInv, NEW p \in Procs, Finish(p), files'["state"] = files["state"], answer' = answer
    PROVE  Log!Next
BY Ends DEF Log!Next, Log!Abandon

\* A command begins with the log as it is.
LEMMA Begins ==
    ASSUME IInv, NEW p \in Procs, NEW work \in Jobs, NEW label \in Labels \ {"idle"},
           pc[p] = "idle", Begin(p, work, label), files' = files
    PROVE  Log!Next
<1>1. /\ pc \in [Procs -> Labels] /\ job \in [Procs -> Jobs]
  BY DEF IInv, TypeInv
<1>2. job' = [job EXCEPT ![p] = [work EXCEPT !.state = files["state"]]]
  BY DEF Begin
<1>3. [work EXCEPT !.state = files["state"]].state = files["state"]
  BY DEF Jobs
<1>4. ASSUME NEW q \in Procs
      PROVE  /\ q = p => pc'[q] # "idle" /\ job'[q].state = files["state"]
             /\ q # p => pc'[q] = pc[q] /\ job'[q] = job[q]
  BY <1>1, <1>2, <1>3 DEF Begin, Goto
<1>5. Started' = [Started EXCEPT ![p] = Len(files["state"])]
  BY <1>4 DEF Started
<1>6. Started[p] = -1
  BY DEF Started
<1>7. Log!Begin(p)
  BY <1>5, <1>6 DEF Log!Begin, Log!Idle, Begin
<1>8. QED
  BY <1>7 DEF Log!Next

\* What a load accepts is the State it read first, with its own Registry.
LEMMA Answers ==
    ASSUME IInv, NEW p \in Procs, pc[p] = "events",
           ValidateHistory(files["events"], LastID(job[p].state), Registry(job[p].outputs),
                           job[p].snapshot)
    PROVE  \E n \in Started[p]..Len(files["state"]) :
              LoadedView(p) = Log!View(SubSeq(files["state"], 1, n))
<1>1. PICK h \in Histories : h = job[p].state
  BY JobTyped DEF Jobs
<1>2. PICK s \in Histories, g \in Histories : s = files["state"] /\ g = files["events"]
  BY Lock
<1>3. Prefix(h, s) /\ Prefix(s, g) /\ Increasing(g)
  BY <1>1, <1>2 DEF IInv, HistoryInv, Claim
<1>4. LastID(g) = LastID(h) /\ Registry(g) = Registry(job[p].outputs)
  BY <1>1, <1>2 DEF ValidateHistory
<1>5. h = g
  BY <1>3, <1>4, PrefixOrder, SameMoment
<1>6. SubSeq(s, 1, Len(h)) = h /\ Len(h) \in Len(h)..Len(s)
  BY <1>3, PrefixIsSubSeq DEF Prefix, Histories
<1>7. LoadedView(p) = Log!View(h)
  BY <1>1, <1>4, <1>5 DEF LoadedView, Log!View, LastID, Registry
<1>8. Started[p] = Len(h)
  BY <1>1 DEF Started
<1>9. QED
  BY <1>2, <1>6, <1>7, <1>8

\* The last read of a load answers, or refuses.
LEMMA ReadEventsAnswers ==
    ASSUME IInv, NEW p \in Procs, ReadEvents(p)
    PROVE  Log!Next
<1>1. pc[p] = "events" /\ files' = files
  BY DEF ReadEvents, At
<1>2. CASE Finish(p) /\ UNCHANGED answer
  BY <1>1, <1>2, Abandons
<1>3. CASE /\ ValidateHistory(files["events"], LastID(job[p].state), Registry(job[p].outputs),
                               job[p].snapshot)
           /\ answer' = [answer EXCEPT ![p] = LoadedView(p)]
  <2>1. PICK n \in Started[p]..Len(files["state"]) :
          LoadedView(p) = Log!View(SubSeq(files["state"], 1, n))
    BY <1>1, <1>3, Answers
  <2>2. Started[p] # Log!Idle
    <3>1. job[p].state \in Histories
      BY JobTyped DEF Jobs
    <3>2. Len(job[p].state) \in Nat
      BY <3>1 DEF Histories
    <3>3. QED
      BY <1>1, <3>2 DEF Started, Log!Idle
  <2>3. Log!End(p) \/ Started' = Started
    <3>1. CASE Finish(p)
      BY <3>1, Ends
    <3>2. CASE Continue(p, job[p].command)
      <4>1. job[p].command \in {"status", "report", "rebuild"}
        BY <1>1 DEF IInv, Claim
      <4>2. pc' = [pc EXCEPT ![p] = job[p].command] /\ job' = job
        BY <3>2 DEF Continue, Goto
      <4>3. \A q \in Procs : pc'[q] = "idle" <=> pc[q] = "idle"
        BY <1>1, <4>1, <4>2 DEF IInv, TypeInv
      <4>4. QED
        BY <4>2, <4>3 DEF Started
    <3>3. QED
      BY <1>3, <3>1, <3>2 DEF ReadEvents
  <2>4. Log!Answer(p)
    BY <1>1, <1>3, <2>1, <2>2, <2>3 DEF Log!Answer
  <2>5. QED
    BY <2>4 DEF Log!Next
<1>4. QED
  BY <1>2, <1>3 DEF ReadEvents

\* The Event is committed when state.json is replaced, the last of the four.
LEMMA WriteCommits ==
    ASSUME IInv, NEW p \in Procs, Write(p)
    PROVE  Log!Next \/ Unseen
<1>1. /\ pc[p] = "write" /\ Fresh(job[p]) /\ Committing(job[p]) /\ Writing(job[p])
      /\ answer' = answer
  BY DEF Write, At, IInv, Claim
<1>2. PICK n \in 1..4 :
        /\ n = Len(job[p].todo) /\ job[p].todo \in Seq(Paths) /\ 1 \in 1..n
        /\ \A i \in 1..n : job[p].todo[i] = WriteOrder[4 - n + i]
  <2>1. \A n \in 1..4 : 1 \in 1..n
    OBVIOUS
  <2>2. QED
    BY <1>1, <2>1 DEF Writing
<1>3. Head(job[p].todo) = WriteOrder[5 - n]
  <2>1. job[p].todo[1] = WriteOrder[4 - n + 1]
    BY <1>2
  <2>2. Head(job[p].todo) = job[p].todo[1]
    BY <1>2
  <2>3. 4 - n + 1 = 5 - n
    OBVIOUS
  <2>4. QED
    BY <2>1, <2>2, <2>3
<1>4. files \in [Paths -> Histories] /\ "state" \in Paths
  BY Lock, PathNames
<1>5. CASE n = 1
  <2>1. Finish(p) /\ Head(job[p].todo) = "state"
    BY <1>2, <1>3, <1>5, PathNames DEF Write, Proceed
  <2>2. files'["state"] = Append(files["state"], job[p].event)
    BY <1>1, <1>4, <2>1 DEF Write, Content, Committing
  <2>3. PICK h \in Histories : h = files["state"]
    BY Lock
  <2>4. /\ job[p].event.cause = LastID(h) /\ Before(h, job[p].event.id)
        /\ job[p].event \in Events
    BY <1>1, <2>3 DEF Committing, Fresh
  <2>5. \A i \in DOMAIN h : h[i].id # job[p].event.id
    <3>1. DOMAIN h = 1..Len(h) /\ \A i \in 1..Len(h) : h[i].id \in Nat
      BY Elements DEF Histories
    <3>2. job[p].event.id \in Nat
      BY <2>4, StoreAssumption DEF Events
    <3>3. QED
      BY <2>4, <3>1, <3>2 DEF Before
  <2>6. Started[p] # Log!Idle
    <3>1. job[p].state \in Histories
      BY JobTyped DEF Jobs
    <3>2. Len(job[p].state) \in Nat
      BY <3>1 DEF Histories
    <3>3. QED
      BY <1>1, <3>2 DEF Started, Log!Idle
  <2>7. Log!Commit(p, job[p].event)
    BY <1>1, <2>1, <2>2, <2>3, <2>4, <2>5, <2>6, Ends DEF Log!Commit, LastID
  <2>8. QED
    BY <2>4, <2>7 DEF Log!Next
<1>6. CASE n # 1
  <2>1. Head(job[p].todo) # "state"
    <3>1. n = 2 \/ n = 3 \/ n = 4
      BY <1>6
    <3>2. QED
      BY <1>3, <3>1, PathNames
  <2>2. files'["state"] = files["state"]
    BY <1>4, <2>1 DEF Write
  <2>3. pc[p] \in Locked /\ 1 \in 1..Len(job[p].todo)
    BY <1>1, <1>2 DEF Locked
  <2>4. PICK next \in Jobs :
          /\ next.state = job[p].state
          /\ pc' = [pc EXCEPT ![p] = pc[p]] /\ job' = [job EXCEPT ![p] = next]
    BY <1>2, <1>6, <2>3, Proceeding DEF Write
  <2>5. QED
    BY <1>1, <2>2, <2>4, GoesOn
<1>7. QED
  BY <1>5, <1>6

\* state.json is the last file to be written, so no restore can change it.
LEMMA RestoreIsUnseen ==
    ASSUME IInv, NEW p \in Procs, Restore(p)
    PROVE  Log!Next \/ Unseen
<1>1. /\ pc[p] = "restore" /\ pc[p] \in Locked /\ job[p].todo \in Seq(Paths) /\ answer' = answer
      /\ Committing(job[p])
  BY DEF Restore, At, IInv, Claim, Restoring, Locked
<1>2. PICK i \in 1..Len(job[p].todo) :
        /\ \/ files' = [files EXCEPT ![job[p].todo[i]] = job[p].before[job[p].todo[i]]]
           \/ UNCHANGED files
        /\ Proceed(p, i)
  BY <1>1 DEF Restore
<1>3. files'["state"] = files["state"]
  <2>1. files["state"] = job[p].before["state"]
    BY <1>1 DEF Committing
  <2>2. files \in [Paths -> Histories] /\ "state" \in Paths
    BY Lock, PathNames
  <2>3. QED
    BY <1>2, <2>1, <2>2
<1>4. CASE Finish(p)
  BY <1>1, <1>3, <1>4, Abandons
<1>5. CASE ~ Finish(p)
  <2>1. PICK next \in Jobs :
          /\ next.state = job[p].state
          /\ pc' = [pc EXCEPT ![p] = pc[p]] /\ job' = [job EXCEPT ![p] = next]
    BY <1>1, <1>2, <1>5, Proceeding
  <2>2. QED
    BY <1>1, <1>3, <2>1, GoesOn
<1>6. QED
  BY <1>4, <1>5

\* The steps of a rebind, a pin or a rendering show nothing of themselves.
LEMMA OthersAreUnseen ==
    ASSUME IInv, NEW p \in Procs, pc[p] # "idle", files'["state"] = files["state"],
           answer' = answer,
           \/ Finish(p)
           \/ \E label \in Labels \ {"idle"} : Continue(p, label)
           \/ \E label \in Labels \ {"idle"}, work \in Jobs :
                 /\ Goto(p, label) /\ job' = [job EXCEPT ![p] = work]
                 /\ work.state = job[p].state
    PROVE  Log!Next \/ Unseen
<1>1. CASE Finish(p)
  BY <1>1, Abandons
<1>2. ASSUME NEW label \in Labels \ {"idle"}, Continue(p, label) PROVE Unseen
  BY <1>2, Lock, GoesOn DEF Continue, Goto
<1>3. ASSUME NEW label \in Labels \ {"idle"}, NEW work \in Jobs, Goto(p, label),
             job' = [job EXCEPT ![p] = work], work.state = job[p].state
      PROVE  Unseen
  BY <1>3, GoesOn DEF Goto
<1>4. QED
  BY <1>1, <1>2, <1>3

\* Putting back the pin and the audit does not touch the log.
LEMMA UndoIsUnseen ==
    ASSUME IInv, NEW p \in Procs, Undo(p)
    PROVE  Log!Next \/ Unseen
<1>1. /\ pc[p] = "undo" /\ pc[p] \in Locked /\ job[p].todo \in Seq({"audit", "pin"})
      /\ Len(job[p].todo) >= 1 /\ answer' = answer /\ files' = files /\ Proceed(p, 1)
  BY DEF Undo, At, IInv, Claim, Locked
<1>2. 1 \in 1..Len(job[p].todo)
  BY <1>1
<1>3. CASE Finish(p)
  BY <1>1, <1>3, Abandons
<1>4. CASE ~ Finish(p)
  <2>1. PICK next \in Jobs :
          /\ next.state = job[p].state
          /\ pc' = [pc EXCEPT ![p] = pc[p]] /\ job' = [job EXCEPT ![p] = next]
    BY <1>1, <1>2, <1>4, Proceeding
  <2>2. QED
    BY <1>1, <2>1, GoesOn
<1>5. QED
  BY <1>3, <1>4

\* Every step of a running command is one of the log, or none.
LEMMA AdvanceIsALogStep ==
    ASSUME IInv, NEW p \in Procs, Advance(p)
    PROVE  Log!Next \/ Unseen
<1>2. CASE PinConfiguration(p)
  BY <1>2, OthersAreUnseen DEF PinConfiguration, At, Labels
<1>3. CASE ReadOutputs(p)
  <2>1. CASE Finish(p)
    BY <1>3, <2>1, OthersAreUnseen DEF ReadOutputs, At
  <2>2. CASE ~ Finish(p)
    <3>1. PICK work \in Jobs : work = [job[p] EXCEPT !.outputs = files["outputs"]]
      <4>1. [job[p] EXCEPT !.outputs = files["outputs"]] \in Jobs
        BY JobTyped DEF Jobs
      <4> QED
        BY <4>1, Zenon
    <3>2. job' = [job EXCEPT ![p] = work] /\ work.state = job[p].state /\ Goto(p, "workflow")
      BY <1>3, <2>2, <3>1, JobTyped DEF ReadOutputs, Jobs
    <3>3. QED
      BY <1>3, <3>2, OthersAreUnseen DEF ReadOutputs, At, Labels
  <2>3. QED
    BY <2>1, <2>2
<1>4. CASE LoadWorkflow(p)
  <2>1. PICK work \in Jobs : work = [job[p] EXCEPT !.snapshot = pin]
    <3>1. [job[p] EXCEPT !.snapshot = pin] \in Jobs
      BY JobTyped DEF Jobs
    <3> QED
      BY <3>1, Zenon
  <2>2. job' = [job EXCEPT ![p] = work] /\ work.state = job[p].state
    BY <1>4, <2>1, JobTyped DEF LoadWorkflow, Jobs
  <2>3. QED
    BY <1>4, <2>2, OthersAreUnseen DEF LoadWorkflow, At, Labels
<1>5. CASE ReadEvents(p)
  BY <1>5, ReadEventsAnswers
<1>6. CASE Evaluate(p)
  <2>1. PICK registers \in BOOLEAN : job' = [job EXCEPT ![p].event = NewEvent(job[p], registers)]
    BY <1>6 DEF Evaluate
  <2>2. /\ job' = [job EXCEPT ![p] = [job[p] EXCEPT !.event = NewEvent(job[p], registers)]]
        /\ [job[p] EXCEPT !.event = NewEvent(job[p], registers)].state = job[p].state
    BY <2>1, JobTyped DEF Jobs
  <2>3. QED
    BY <1>6, <2>2, GoesOn DEF Evaluate, Goto, At
<1>7. CASE RefuseReport(p)
  BY <1>7, OthersAreUnseen DEF RefuseReport, At
<1>8. CASE RebuildRead(p)
  <2>1. PICK work \in Jobs : work = [job[p] EXCEPT !.todo = files["events"]]
    <3>1. [job[p] EXCEPT !.todo = files["events"]] \in Jobs
      BY JobTyped DEF Jobs
    <3> QED
      BY <3>1, Zenon
  <2>2. job' = [job EXCEPT ![p] = work] /\ work.state = job[p].state
    BY <1>8, <2>1, JobTyped DEF RebuildRead, Jobs
  <2>3. QED
    BY <1>8, <2>2, OthersAreUnseen DEF RebuildRead, At, Labels
<1>9. CASE RebuildWrite(p)
  <2>1. files'["state"] = files["state"]
    BY <1>9, Lock, PathNames DEF RebuildWrite
  <2>2. QED
    BY <1>9, <2>1, OthersAreUnseen DEF RebuildWrite, At
<1>10. CASE BeginCommit(p)
  <2>1. CASE Finish(p)
    BY <1>10, <2>1, OthersAreUnseen DEF BeginCommit, At
  <2>2. CASE /\ job' = [job EXCEPT ![p].before = files, ![p].todo = WriteOrder]
             /\ Goto(p, "write")
    <3>1. PICK work \in Jobs : work = [job[p] EXCEPT !.before = files, !.todo = WriteOrder]
      <4>1. [job[p] EXCEPT !.before = files, !.todo = WriteOrder] \in Jobs
        BY JobTyped, PathNames, WithTodo
      <4> QED
        BY <4>1, Zenon
    <3>2. job' = [job EXCEPT ![p] = work]
      BY <2>2, <3>1, JobTyped DEF Jobs
    <3>3. work.state = job[p].state
      BY <3>1, JobTyped DEF Jobs
    <3>4. QED
      BY <1>10, <2>2, <3>2, <3>3, OthersAreUnseen DEF BeginCommit, At, Labels
  <2>3. QED
    BY <1>10, <2>1, <2>2 DEF BeginCommit
<1>11. CASE Write(p)
  BY <1>11, WriteCommits
<1>12. CASE WriteFails(p)
  <2>1. PICK work \in Jobs : work = [job[p] EXCEPT !.todo = WriteOrder]
    <3>1. [job[p] EXCEPT !.todo = WriteOrder] \in Jobs
      BY JobTyped, PathNames, WithTodo
    <3> QED
      BY <3>1, Zenon
  <2>2. job' = [job EXCEPT ![p] = work] /\ work.state = job[p].state
    BY <1>12, <2>1, JobTyped DEF WriteFails, Jobs
  <2>3. QED
    BY <1>12, <2>2, OthersAreUnseen DEF WriteFails, At, Labels
<1>13. CASE Restore(p)
  BY <1>13, RestoreIsUnseen
<1>14. CASE Prepare(p)
  BY <1>14, OthersAreUnseen DEF Prepare, At, Labels
<1>15. ASSUME NEW order \in {<<"audit", "pin">>, <<"pin", "audit">>}, RebindFails(p, order),
              pc[p] # "idle", answer' = answer, files' = files
       PROVE  Unseen
  <2>1. /\ job' = [job EXCEPT ![p] = [job[p] EXCEPT !.todo = order]]
        /\ [job[p] EXCEPT !.todo = order].state = job[p].state
    BY <1>15, JobTyped DEF RebindFails, Jobs
  <2>2. QED
    BY <1>15, <2>1, GoesOn DEF RebindFails, Goto
<1>16. CASE MovePin(p)
  <2>1. CASE Continue(p, "committed")
    BY <1>16, <2>1, OthersAreUnseen DEF MovePin, At, Labels
  <2>2. CASE RebindFails(p, <<"audit", "pin">>)
    BY <1>15, <1>16, <2>2 DEF MovePin, At
  <2>3. QED
    BY <1>16, <2>1, <2>2 DEF MovePin
<1>17. CASE CommitAudit(p)
  <2>1. CASE Finish(p)
    BY <1>17, <2>1, OthersAreUnseen DEF CommitAudit, At
  <2>2. CASE RebindFails(p, <<"pin", "audit">>)
    BY <1>15, <1>17, <2>2 DEF CommitAudit, At
  <2>3. QED
    BY <1>17, <2>1, <2>2 DEF CommitAudit
<1>18. CASE Undo(p)
  BY <1>18, UndoIsUnseen
<1>19. QED
  BY <1>2, <1>3, <1>4, <1>5, <1>6, <1>7, <1>8, <1>9, <1>10, <1>11, <1>12, <1>13, <1>14, <1>16,
     <1>17, <1>18 DEF Advance

\* Every command begins in the log.
LEMMA StartIsALogStep ==
    ASSUME IInv, NEW p \in Procs, Start(p)
    PROVE  Log!Next
<1>1. ASSUME NEW snapshot \in Snapshots, StartInit(p, snapshot) PROVE Log!Next
  <2>1. PICK work \in Jobs : work = [NoJob EXCEPT !.command = "init", !.snapshot = snapshot]
    <3>1. [NoJob EXCEPT !.command = "init", !.snapshot = snapshot] \in Jobs
      BY NoJobTyped DEF Jobs, NoJob
    <3> QED
      BY <3>1, Zenon
  <2>2. PICK event \in Events : event = NewEvent(work, FALSE)
    <3>1. /\ issued + 1 \in 1..MaxEvents /\ work.snapshot = snapshot
          /\ LastID(work.state) \in 0..MaxEvents
      BY <1>1, <2>1, Counters, LastIDs DEF StartInit, NoJob, Jobs
    <3>2. QED
      BY <3>1 DEF NewEvent, Events
  <2>3. PICK full \in Jobs : full = [work EXCEPT !.event = event]
    BY DEF Jobs
  <2>4. Begin(p, full, "pin") /\ pc[p] = "idle" /\ files' = files
    BY <1>1, <2>1, <2>2, <2>3 DEF StartInit, At
  <2>5. QED
    BY <2>4, Begins DEF Labels
<1>2. ASSUME NEW snapshot \in Snapshots, BeginRebind(p, snapshot) PROVE Log!Next
  <2>1. PICK work \in Jobs : work = [NoJob EXCEPT !.command = "rebind", !.snapshot = snapshot,
                                                 !.audited = audit, !.pinned = pin]
    BY NoJobTyped, Lock DEF Jobs, NoJob
  <2>2. Begin(p, work, "prepare") /\ pc[p] = "idle" /\ files' = files
    BY <1>2, <2>1 DEF BeginRebind, At
  <2>3. QED
    BY <2>2, Begins DEF Labels
<1>3. ASSUME NEW command \in Commands[p], StartLoad(p, command) PROVE Log!Next
  <2>1. command \in {"status", "report", "rebuild"}
    BY StoreAssumption
  <2>2. PICK work \in Jobs : work = [NoJob EXCEPT !.command = command]
    <3>1. [NoJob EXCEPT !.command = command] \in Jobs
      BY <2>1, NoJobTyped DEF Jobs, NoJob
    <3> QED
      BY <3>1, Zenon
  <2>3. Begin(p, work, "outputs") /\ pc[p] = "idle" /\ files' = files
    BY <1>3, <2>2 DEF StartLoad, At
  <2>4. QED
    BY <2>3, Begins DEF Labels
<1>4. QED
  BY <1>1, <1>2, <1>3 DEF Start

\* No file is an empty log.
LEMMA InitIsALogInit == Init => Log!Init
<1> SUFFICES ASSUME Init PROVE Log!Init
  OBVIOUS
<1>1. files["state"] = << >>
  BY PathNames DEF Init
<1>2. Started = [p \in Procs |-> -1]
  BY DEF Init, Started
<1>3. QED
  BY <1>1, <1>2 DEF Init, Log!Init, Log!Idle

\* Every step implements one of the log.
LEMMA NextIsALogStep == IInv /\ [Next]_vars => [Log!Next]_(Log!vars)
<1> SUFFICES ASSUME IInv, [Next]_vars PROVE Log!Next \/ Unseen
  BY DEF Unseen
<1>1. ASSUME NEW p \in Procs, Crash(p) PROVE Log!Next
  BY <1>1, Abandons DEF Crash
<1>2. CASE UNCHANGED vars
  BY <1>2 DEF vars, Unseen, Log!vars, Started
<1>3. QED
  BY <1>1, <1>2, StartIsALogStep, AdvanceIsALogStep DEF Next

-----------------------------------------------------------------------------
(* The theorems *)

\* Before the first command there is no file.
LEMMA InitHolds == Init => IInv
<1> SUFFICES ASSUME Init PROVE IInv
  OBVIOUS
<1>1. << >> \in Histories /\ files \in [Paths -> Histories]
  BY PrefixOrder DEF Init
<1>2. /\ files["state"] = << >> /\ files["events"] = << >> /\ files["outputs"] = << >>
  BY PathNames DEF Init
<1>3. job \in [Procs -> Jobs] /\ pc \in [Procs -> Labels]
  BY NoJobTyped DEF Init, Labels
<1>4. audit \in Seq([phase : {"prepared", "committed"}, previous : Snapshots, new : Snapshots])
  BY DEF Init
<1>5. TypeOK
  BY <1>1, <1>4, StoreAssumption DEF Init, TypeOK
<1>6. HistoryInv
  BY <1>1, <1>2, PrefixOrder DEF HistoryInv, Increasing, Before
<1>7. QuietInv
  BY <1>2 DEF QuietInv, Agree
<1>8. \A p \in Procs : Claim(p)
  BY DEF Init, Claim
<1>9. QED
  BY <1>3, <1>5, <1>6, <1>7, <1>8 DEF IInv, TypeInv

\* Every step keeps the invariant.
LEMMA NextKeeps == IInv /\ [Next]_vars => IInv'
<1> SUFFICES ASSUME IInv, [Next]_vars PROVE IInv'
  OBVIOUS
<1>1. ASSUME NEW p \in Procs, Start(p) PROVE IInv'
  BY <1>1, StartInitKeeps, BeginRebindKeeps, StartLoadKeeps DEF Start
<1>2. ASSUME NEW p \in Procs, Advance(p) PROVE IInv'
  BY <1>2, PinConfigurationKeeps, ReadOutputsKeeps, LoadWorkflowKeeps, ReadEventsKeeps,
     EvaluateKeeps, RefuseReportKeeps, RebuildReadKeeps, RebuildWriteKeeps, BeginCommitKeeps,
     WriteKeeps, WriteFailsKeeps, RestoreKeeps, PrepareKeeps, MovePinKeeps, CommitAuditKeeps,
     UndoKeeps DEF Advance
<1>3. ASSUME NEW p \in Procs, Crash(p) PROVE IInv'
  BY <1>3, CrashKeeps
<1>4. CASE UNCHANGED vars
  <2>1. /\ files' = files /\ pin' = pin /\ audit' = audit /\ lock' = lock /\ pc' = pc
        /\ job' = job /\ issued' = issued /\ rebinds' = rebinds /\ faults' = faults
        /\ crashes' = crashes
    BY <1>4 DEF vars
  <2>2. TypeInv'
    BY <2>1 DEF IInv, TypeInv, TypeOK
  <2>3. HistoryInv'
    BY <2>1 DEF IInv, HistoryInv, Increasing, Before, Prefix
  <2>4. QuietInv'
    BY <2>1 DEF IInv, QuietInv, Benign, Agree
  <2>5. ASSUME NEW p \in Procs PROVE Claim(p)'
    <3>1. Claim(p) /\ files["state"] \in Histories /\ Prefix(files["state"], files["state"])
      BY Lock, PrefixOrder DEF IInv
    <3>2. issued \in Nat /\ faults \in Nat /\ crashes \in Nat
      BY Lock, StoreAssumption
    <3>3. QED
      BY <2>1, <3>1, <3>2, Others
  <2>6. QED
    BY <2>2, <2>3, <2>4, <2>5 DEF IInv
<1>5. QED
  BY <1>1, <1>2, <1>3, <1>4 DEF Next

\* The inductive invariant holds of every behaviour.
THEOREM Invariant == Spec => []IInv
  BY InitHolds, NextKeeps, PTL DEF Spec

\* Every file, record and counter has its type, and whoever writes under the
\* Requirement lock holds it, and nobody else does.
THEOREM TypeCorrect == Spec => []TypeOK
<1>1. IInv => TypeOK
  BY DEF IInv, TypeInv
<1>2. QED
  BY <1>1, Invariant, PTL

\* events.jsonl is never behind state.json and at most one Event ahead, whatever
\* fails and whoever is killed; and after one failed write the files agree.
THEOREM StaysTogether == Spec => []FilesStayTogether
<1>1. ASSUME IInv PROVE FilesStayTogether
  <2>1. PICK h \in Histories : h = files["state"]
    BY <1>1, PathNames DEF IInv, TypeInv, TypeOK
  <2>2. PICK g \in Histories : g = files["events"]
    BY <1>1, PathNames DEF IInv, TypeInv, TypeOK
  <2>3. Prefix(h, g) /\ Len(g) <= Len(h) + 1 /\ Len(h) \in Nat /\ Len(g) \in Nat
    BY <1>1, <2>1, <2>2 DEF IInv, HistoryInv, Histories
  <2>4. h = SubSeq(g, 1, Len(h))
    BY <2>3, PrefixIsSubSeq
  <2>5. \E n \in {0, 1} : Len(g) = Len(h) + n
    BY <2>3 DEF Prefix
  <2>6. lock = NoProc /\ crashes = 0 /\ faults <= 1 => Agree(files)
    <3>1. lock = NoProc => \A p \in Procs : pc[p] \notin {"write", "restore"}
      BY <1>1, StoreAssumption DEF IInv, TypeInv, TypeOK
    <3>2. QED
      BY <1>1, <3>1 DEF IInv, QuietInv, Benign
  <2>7. QED
    BY <2>1, <2>2, <2>4, <2>5, <2>6 DEF FilesStayTogether, Agree
<1>2. QED
  BY <1>1, Invariant, PTL

\* The files implement the append-only log: whatever commands interleave, fail
\* or are killed, a commit is one step of it and a load answers with one moment.
THEOREM Implements == Spec => Linear
<1>1. Spec => Log!Init /\ [][Log!Next]_(Log!vars)
  BY Invariant, InitIsALogInit, NextIsALogStep, PTL DEF Spec
<1>2. QED
  BY <1>1 DEF Linear, Log!Spec

-----------------------------------------------------------------------------
(* The pin *)

\* One process alone may initialize, and one write may fail: a second init can
\* overwrite the pin (finding init_race), and the error of a restore is ignored.
Lone == (\A p, q \in Initializers : p = q) /\ MaxFaults <= 1

\* How the pin came about, for a Requirement initialized with this snapshot.
AccountedBy(records, snapshot, first) ==
    IF records = << >> THEN snapshot = first
    ELSE LET record == records[Len(records)] IN
         \/ snapshot = record.new
         \/ record.phase = "prepared" /\ snapshot = record.previous

\* An init that has yet to commit the first Event.
Founding(p) ==
    \/ pc[p] = "pin"
    \/ pc[p] \in {"commit", "write", "restore"} /\ job[p].state = << >>

Prepared(work) ==
    Append(work.audited, [phase |-> "prepared", previous |-> work.pinned, new |-> work.snapshot])

\* How far a rebind has come with the pin and the audit.
Rebound(label, work) ==
    /\ label = "prepare" => pin = work.pinned /\ audit = work.audited
    /\ label = "move" => pin = work.pinned /\ audit = Prepared(work)
    /\ label = "committed" => pin = work.snapshot /\ audit = Prepared(work)
    /\ label = "undo" =>
          /\ faults >= 1
          /\ \/ work.todo = <<"audit", "pin">> /\ pin = work.pinned /\ audit = Prepared(work)
             \/ work.todo = <<"pin", "audit">> /\ pin = work.snapshot /\ audit = Prepared(work)
             \/ work.todo = <<"audit">> /\ pin = work.pinned /\ audit = Prepared(work)
             \/ work.todo = <<"pin">> /\ pin = work.pinned /\ audit = work.audited

\* What a rebind under the lock may rely on.
RebindClaim(label, work) ==
    /\ files["state"] # << >>
    /\ Accepted(files["state"], work.snapshot) /\ Accepted(files["state"], work.pinned)
    /\ AccountedBy(work.audited, work.pinned, files["state"][1].snapshot)
    /\ Rebound(label, work)

\* What a process may rely on about the pin.
PinClaim(p) ==
    LET work == job[p] IN
    /\ Founding(p) => p \in Initializers /\ files["state"] = << >>
    /\ files["state"] = << >> => pc[p] = "idle" \/ Founding(p)
    /\ pc[p] = "pin" => work.event.snapshot = work.snapshot
    /\ Founding(p) /\ pc[p] \in {"commit", "write"} => work.event.snapshot = pin
    /\ pc[p] = "write" => Accepted(New(work), pin)
    /\ pc[p] \in {"prepare", "move", "committed", "undo"} => RebindClaim(pc[p], work)

PinInv ==
    /\ files["state"] = << >> => audit = << >>
    /\ PinIsAccountedFor
    /\ \A p \in Procs : PinClaim(p)

\* The property, in the words of the invariant.
LEMMA PinInWords ==
    PinIsAccountedFor <=>
        (files["state"] # << >> =>
            /\ pin \in Snapshots /\ Accepted(files["state"], pin)
            /\ AccountedBy(audit, pin, files["state"][1].snapshot))
  BY DEF PinIsAccountedFor, AccountedBy

\* While there is no State, the one initializer is the only process at work.
LEMMA FounderIsAlone ==
    ASSUME Lone, IInv, PinInv, NEW p \in Procs, NEW q \in Procs, p # q, Founding(q)
    PROVE  ~Founding(p) /\ pc[p] = "idle" /\ p \notin Initializers /\ files["state"] = << >>
<1>1. PinClaim(p) /\ PinClaim(q)
  BY DEF PinInv
<1>2. q \in Initializers /\ files["state"] = << >>
  BY <1>1 DEF PinClaim
<1>3. p \notin Initializers
  BY <1>2 DEF Lone
<1> QED
  BY <1>1, <1>2, <1>3 DEF PinClaim

\* A process that this step leaves alone keeps its claim on the pin: whoever moves the
\* pin or writes state.json holds the lock or is the founder.
LEMMA OthersPin ==
    ASSUME Lone, IInv, PinInv, NEW p \in Procs, NEW q \in Procs, q # p,
           pc'[q] = pc[q], job'[q] = job[q],
           files'["state"] \in Histories, Prefix(files["state"], files'["state"]),
           faults' \in faults..MaxFaults,
           pc[p] = "idle" /\ files["state"] = << >> => p \in Initializers,
           pc[p] \in Locked \/ Founding(p) \/
              (pin' = pin /\ audit' = audit /\ files'["state"] = files["state"])
    PROVE  PinClaim(q)'
<1>1. PinClaim(q) /\ PinClaim(p) /\ Claim(q)
  BY DEF PinInv, IInv
<1>2. ~Founding(q)
  BY FounderIsAlone
<1>3. ~Founding(q)'
  BY <1>2 DEF Founding
<1>4. files'["state"] = << >> => pc[q] = "idle"
  <2>1. files'["state"] = << >> => files["state"] = << >>
    BY Lock, PrefixOrder
  <2> QED
    BY <1>1, <1>2, <2>1 DEF PinClaim
<1>5. pc[q] \in Locked =>
         pin' = pin /\ audit' = audit /\ files'["state"] = files["state"]
  <2>1. ASSUME pc[q] \in Locked PROVE pc[p] \notin Locked /\ ~Founding(p)
    <3>1. pc[p] \notin Locked
      BY <2>1, Lock
    <3>2. pc[q] # "idle"
      BY <2>1 DEF Locked
    <3> QED
      BY <3>1, <3>2, FounderIsAlone
  <2> QED
    BY <2>1
<1>6. pc'[q] = "write" => Accepted(New(job'[q]), pin')
  BY <1>1, <1>5 DEF PinClaim, Locked
<1>7. pc'[q] \in {"prepare", "move", "committed", "undo"} => RebindClaim(pc[q], job[q])'
  <2>1. faults >= 1 => faults' >= 1
    BY Lock, StoreAssumption
  <2>2. ASSUME pc[q] \in {"prepare", "move", "committed", "undo"}
        PROVE  RebindClaim(pc[q], job[q])'
    <3>1. /\ RebindClaim(pc[q], job[q])
          /\ pin' = pin /\ audit' = audit /\ files'["state"] = files["state"]
      BY <1>1, <1>5, <2>2 DEF PinClaim, Locked
    <3>2. Rebound(pc[q], job[q])'
      BY <2>1, <3>1 DEF RebindClaim, Rebound
    <3>3. /\ files'["state"] # << >>
          /\ Accepted(files'["state"], job'[q].snapshot)
          /\ Accepted(files'["state"], job'[q].pinned)
          /\ AccountedBy(job'[q].audited, job'[q].pinned, files'["state"][1].snapshot)
      BY <3>1 DEF RebindClaim
    <3> QED
      BY <3>2, <3>3 DEF RebindClaim
  <2> QED
    BY <2>2
<1>8. pc'[q] # "pin"
  BY <1>3 DEF Founding
<1> QED
  BY <1>3, <1>4, <1>6, <1>7, <1>8 DEF PinClaim

\* What a step of p has to show: its own claim, and how the pin came about.
LEMMA PinSteps ==
    ASSUME Lone, IInv, PinInv, NEW p \in Procs, NEW label, NEW work,
           pc' = [pc EXCEPT ![p] = label], job' = [job EXCEPT ![p] = work],
           files'["state"] \in Histories, Prefix(files["state"], files'["state"]),
           faults' \in faults..MaxFaults,
           pc[p] = "idle" /\ files["state"] = << >> => p \in Initializers,
           pc[p] \in Locked \/ Founding(p) \/
              (pin' = pin /\ audit' = audit /\ files'["state"] = files["state"]),
           PinClaim(p)', PinIsAccountedFor',
           files'["state"] = << >> => audit' = << >>
    PROVE  PinInv'
<1>1. ASSUME NEW q \in Procs, q # p PROVE PinClaim(q)'
  <2>1. pc'[q] = pc[q] /\ job'[q] = job[q]
    BY <1>1 DEF IInv, TypeInv
  <2> QED
    BY <1>1, <2>1, OthersPin
<1> QED
  BY <1>1 DEF PinInv

\* A step that leaves state.json, the pin and the audit alone.
LEMMA QuietPin ==
    ASSUME Lone, IInv, PinInv, NEW p \in Procs, NEW label, NEW work,
           pc' = [pc EXCEPT ![p] = label], job' = [job EXCEPT ![p] = work],
           files'["state"] = files["state"], UNCHANGED <<pin, audit>>,
           faults' \in faults..MaxFaults,
           pc[p] = "idle" /\ files["state"] = << >> => p \in Initializers,
           PinClaim(p)'
    PROVE  PinInv'
<1>1. /\ files'["state"] \in Histories /\ Prefix(files["state"], files'["state"])
      /\ pin' = pin /\ audit' = audit
  BY Lock, PrefixOrder
<1>2. PinIsAccountedFor'
  <2>1. PinIsAccountedFor
    BY DEF PinInv
  <2> QED
    BY <1>1, <2>1 DEF PinIsAccountedFor
<1>3. files'["state"] = << >> => audit' = << >>
  BY <1>1 DEF PinInv
<1> QED
  BY <1>1, <1>2, <1>3, PinSteps

\* A command that ends without a trace makes no claim any more.
LEMMA PinEnding ==
    ASSUME Lone, IInv, PinInv, NEW p \in Procs, pc[p] # "idle", Finish(p),
           files'["state"] = files["state"], UNCHANGED <<pin, audit>>,
           faults' \in faults..MaxFaults
    PROVE  PinInv'
<1>1. pc' = [pc EXCEPT ![p] = "idle"] /\ job' = [job EXCEPT ![p] = NoJob]
  BY DEF Finish, Goto
<1>2. pc'[p] = "idle"
  BY <1>1 DEF IInv, TypeInv
<1>3. PinClaim(p)'
  BY <1>2 DEF PinClaim, Founding
<1> QED
  BY <1>1, <1>3, QuietPin

\* A load or a rebuild needs nothing of the pin, and finds a State.
LEMMA PinReading ==
    ASSUME Lone, IInv, PinInv, NEW p \in Procs, ~Founding(p),
           pc[p] = "idle" => files["state"] # << >>,
           NEW label \in {"outputs", "workflow", "events", "report", "rebuild", "render"},
           NEW work,
           pc' = [pc EXCEPT ![p] = label], job' = [job EXCEPT ![p] = work],
           files'["state"] = files["state"], UNCHANGED <<pin, audit, faults>>
    PROVE  PinInv'
<1>1. pc'[p] = label
  BY DEF IInv, TypeInv
<1>2. files["state"] # << >>
  BY DEF PinInv, PinClaim
<1>3. PinClaim(p)'
  BY <1>1, <1>2 DEF PinClaim, Founding
<1>4. faults' \in faults..MaxFaults
  BY Counters
<1> QED
  BY <1>2, <1>3, <1>4, QuietPin

\* What is behind an empty history is empty: a founder has read no State.
LEMMA FounderReadsNothing ==
    ASSUME IInv, PinInv, NEW p \in Procs, pc[p] # "idle"
    PROVE  files["state"] = << >> => job[p].state = << >>
  BY Lock, PrefixOrder DEF IInv, Claim, Jobs

\* An init starts over nothing.
LEMMA StartInitPins ==
    ASSUME Lone, IInv, PinInv, NEW p \in Procs, NEW snapshot \in Snapshots, StartInit(p, snapshot)
    PROVE  PinInv'
<1> DEFINE event == [id |-> issued + 1, cause |-> LastID(<< >>), registers |-> FALSE,
                     snapshot |-> snapshot]
           work == [NoJob EXCEPT !.command = "init", !.snapshot = snapshot, !.event = event,
                                 !.state = files["state"]]
<1>1. job' = [job EXCEPT ![p] = work] /\ pc' = [pc EXCEPT ![p] = "pin"]
  BY DEF StartInit, Begin, NewEvent, NoJob, Goto
<1>2. pc'[p] = "pin" /\ job'[p] = work
  BY <1>1 DEF IInv, TypeInv
<1>3. work.event.snapshot = work.snapshot
  BY DEF NoJob
<1>4. p \in Initializers /\ files["state"] = << >> /\ files' = files
  BY DEF StartInit
<1> HIDE DEF work
<1>5. PinClaim(p)'
  BY <1>2, <1>3, <1>4 DEF PinClaim, Founding
<1>6. faults' \in faults..MaxFaults
  BY Counters DEF StartInit
<1> QED
  BY <1>1, <1>4, <1>5, <1>6, QuietPin DEF StartInit

\* An init pins the snapshot of its first Event, when nobody else is at work.
LEMMA PinConfigurationPins ==
    ASSUME Lone, IInv, PinInv, NEW p \in Procs, PinConfiguration(p)
    PROVE  PinInv'
<1>1. pc[p] = "pin" /\ Founding(p) /\ PinClaim(p) /\ files' = files /\ audit' = audit
  BY DEF PinConfiguration, At, Founding, PinInv
<1>2. files["state"] = << >> /\ p \in Initializers /\ job[p].event.snapshot = job[p].snapshot
  BY <1>1 DEF PinClaim
<1>3. CASE Fault /\ Finish(p) /\ UNCHANGED pin
  BY <1>1, <1>3, Counters, PinEnding DEF PinConfiguration
<1>4. CASE pin' = job[p].snapshot /\ Continue(p, "commit") /\ UNCHANGED faults
  <2>1. pc' = [pc EXCEPT ![p] = "commit"] /\ job' = [job EXCEPT ![p] = job[p]]
    BY <1>4, Lock DEF Continue, Goto
  <2>2. pc'[p] = "commit" /\ job'[p] = job[p]
    BY <2>1 DEF IInv, TypeInv
  <2>3. job[p].state = << >>
    BY <1>1, <1>2, FounderReadsNothing
  <2>4. PinClaim(p)'
    BY <1>1, <1>2, <1>4, <2>2, <2>3 DEF PinClaim, Founding
  <2>5. PinIsAccountedFor' /\ (files'["state"] = << >> => audit' = << >>)
    BY <1>1, <1>2 DEF PinIsAccountedFor, PinInv
  <2>6. faults' \in faults..MaxFaults
    BY <1>4, Counters
  <2>7. files'["state"] \in Histories /\ Prefix(files["state"], files'["state"])
    BY <1>1, Lock, PrefixOrder
  <2> QED
    BY <1>1, <1>2, <2>1, <2>4, <2>5, <2>6, <2>7, PinSteps
<1> QED
  BY <1>3, <1>4 DEF PinConfiguration

\* A command begins to load when there is a State.
LEMMA StartLoadPins ==
    ASSUME Lone, IInv, PinInv, NEW p \in Procs, NEW command, StartLoad(p, command)
    PROVE  PinInv'
<1> DEFINE work == [[NoJob EXCEPT !.command = command] EXCEPT !.state = files["state"]]
<1>1. job' = [job EXCEPT ![p] = work] /\ pc' = [pc EXCEPT ![p] = "outputs"]
  BY DEF StartLoad, Begin, Goto
<1>2. ~Founding(p) /\ files["state"] # << >>
  BY DEF StartLoad, At, Founding
<1> HIDE DEF work
<1> QED
  BY <1>1, <1>2, PinReading DEF StartLoad

\* What a load reads does not touch the pin.
LEMMA LoadPins ==
    ASSUME Lone, IInv, PinInv, NEW p \in Procs,
           ReadOutputs(p) \/ LoadWorkflow(p) \/ ReadEvents(p)
    PROVE  PinInv'
<1>1. ~Founding(p) /\ pc[p] # "idle"
  BY DEF Founding, ReadOutputs, LoadWorkflow, ReadEvents, At
<1>2. files' = files /\ pin' = pin /\ audit' = audit /\ faults' = faults
  BY DEF ReadOutputs, LoadWorkflow, ReadEvents
<1>3. CASE Finish(p)
  BY <1>1, <1>2, <1>3, Counters, PinEnding
<1>4. ASSUME NEW label \in {"outputs", "workflow", "events", "report", "rebuild", "render"},
             NEW work, Goto(p, label), job' = [job EXCEPT ![p] = work]
      PROVE  PinInv'
  BY <1>1, <1>2, <1>4, PinReading DEF Goto
<1>5. CASE ReadOutputs(p) /\ ~Finish(p)
  <2>1. job' = [job EXCEPT ![p] = [job[p] EXCEPT !.outputs = files["outputs"]]]
    BY <1>5 DEF ReadOutputs
  <2> QED
    BY <1>4, <1>5, <2>1 DEF ReadOutputs
<1>6. CASE LoadWorkflow(p)
  <2>1. job' = [job EXCEPT ![p] = [job[p] EXCEPT !.snapshot = pin]]
    BY <1>6 DEF LoadWorkflow
  <2> QED
    BY <1>4, <1>6, <2>1 DEF LoadWorkflow
<1>7. CASE ReadEvents(p) /\ ~Finish(p)
  <2>1. /\ Goto(p, job[p].command) /\ job' = [job EXCEPT ![p] = job[p]]
        /\ job[p].command # "status" /\ pc[p] = "events"
    BY <1>7, Lock DEF ReadEvents, Continue, At
  <2>2. job[p].command \in {"report", "rebuild"}
    BY <2>1 DEF IInv, Claim
  <2> QED
    BY <1>4, <2>1, <2>2
<1> QED
  BY <1>3, <1>5, <1>6, <1>7

\* A report evaluates its Event on a State that it has read.
LEMMA EvaluatePins ==
    ASSUME Lone, IInv, PinInv, NEW p \in Procs, Evaluate(p)
    PROVE  PinInv'
<1>1. pc[p] = "report" /\ files' = files /\ pin' = pin /\ audit' = audit /\ faults' = faults
  BY DEF Evaluate, At
<1>2. PICK registers \in BOOLEAN :
         job' = [job EXCEPT ![p] = [job[p] EXCEPT !.event = NewEvent(job[p], registers)]]
  BY DEF Evaluate
<1> DEFINE work == [job[p] EXCEPT !.event = NewEvent(job[p], registers)]
<1>3. work.state = job[p].state
  BY JobTyped DEF Jobs
<1>4. pc' = [pc EXCEPT ![p] = "commit"] /\ pc'[p] = "commit" /\ job'[p] = work
  BY <1>2 DEF Evaluate, Goto, IInv, TypeInv
<1>5. job[p].state # << >>
  BY <1>1 DEF IInv, Claim
<1>6. files["state"] # << >>
  BY <1>1, <1>5, FounderReadsNothing
<1> HIDE DEF work
<1>7. PinClaim(p)'
  BY <1>1, <1>3, <1>4, <1>5, <1>6 DEF PinClaim, Founding
<1>8. faults' \in faults..MaxFaults
  BY <1>1, Counters
<1> QED
  BY <1>1, <1>2, <1>4, <1>7, <1>8, QuietPin DEF work

\* A rebuild writes the projection, which nobody reads back.
LEMMA RebuildPins ==
    ASSUME Lone, IInv, PinInv, NEW p \in Procs, RebuildRead(p) \/ RebuildWrite(p)
    PROVE  PinInv'
<1>1. pc[p] \in {"rebuild", "render"} /\ ~Founding(p) /\ pin' = pin /\ audit' = audit
  BY DEF RebuildRead, RebuildWrite, At, Founding
<1>2. CASE RebuildWrite(p)
  <2>1. files'["state"] = files["state"]
    BY <1>2, Lock, PathNames DEF RebuildWrite
  <2>2. faults' \in faults..MaxFaults /\ Finish(p)
    BY <1>2, Counters DEF RebuildWrite
  <2> QED
    BY <1>1, <2>1, <2>2, PinEnding
<1>3. CASE RebuildRead(p)
  <2>1. /\ job' = [job EXCEPT ![p] = [job[p] EXCEPT !.todo = files["events"]]]
        /\ pc' = [pc EXCEPT ![p] = "render"] /\ files' = files /\ faults' = faults
    BY <1>3 DEF RebuildRead, Goto
  <2> QED
    BY <1>1, <2>1, PinReading
<1> QED
  BY <1>2, <1>3

\* The pin that a commit validates against under the lock accepts the new Event.
LEMMA BeginCommitPins ==
    ASSUME Lone, IInv, PinInv, NEW p \in Procs, BeginCommit(p)
    PROVE  PinInv'
<1>1. /\ pc[p] = "commit" /\ PinClaim(p) /\ files' = files /\ pin' = pin /\ audit' = audit
      /\ faults' \in faults..MaxFaults
  BY Counters DEF BeginCommit, At, PinInv
<1>2. CASE Finish(p)
  BY <1>1, <1>2, PinEnding
<1>3. CASE /\ ValidateCommit(job[p].outputs, job[p].event, pin)
           /\ job' = [job EXCEPT ![p].before = files, ![p].todo = WriteOrder]
           /\ Goto(p, "write")
  <2>1. PICK work \in Jobs : work = [job[p] EXCEPT !.before = files, !.todo = WriteOrder]
    <3>1. [job[p] EXCEPT !.before = files, !.todo = WriteOrder] \in Jobs
      BY JobTyped, PathNames, WithTodo
    <3> QED
      BY <3>1, Zenon
  <2>2. job' = [job EXCEPT ![p] = work]
    BY <1>3, <2>1, JobTyped DEF Jobs
  <2>3. /\ pc' = [pc EXCEPT ![p] = "write"]
        /\ pc'[p] = "write" /\ job'[p] = work
    BY <1>3, <2>2 DEF IInv, TypeInv, Goto
  <2>4. work.state = job[p].state /\ work.event = job[p].event
    BY <2>1, JobTyped DEF Jobs
  <2>5. /\ job[p].state = files["state"] /\ files["events"] = files["state"]
    BY <1>1, <1>3, CommitStarts
  <2>6. Accepted(Append(files["events"], job[p].event), pin)
    BY <1>3 DEF ValidateCommit, ValidateHistory
  <2>7. Accepted(New(work), pin)
    BY <2>4, <2>5, <2>6 DEF New
  <2>8. PinClaim(p)'
    BY <1>1, <2>3, <2>4, <2>5, <2>7 DEF PinClaim, Founding
  <2> QED
    BY <1>1, <2>2, <2>3, <2>8, QuietPin
<1> QED
  BY <1>2, <1>3 DEF BeginCommit

\* The list of a commit gets shorter; with state.json its Event is committed.
LEMMA WritePins ==
    ASSUME Lone, IInv, PinInv, NEW p \in Procs, Write(p)
    PROVE  PinInv'
<1>1. /\ pc[p] = "write" /\ pc[p] \in Locked /\ PinClaim(p) /\ Committing(job[p]) /\ Writing(job[p])
      /\ pin' = pin /\ audit' = audit /\ pin \in Snapshots
      /\ faults' \in faults..MaxFaults
  BY Counters DEF Write, At, PinInv, IInv, Claim, Locked
<1>2. PICK n \in 1..4 :
        /\ n = Len(job[p].todo) /\ job[p].todo \in Seq(Paths) /\ 1 \in 1..n
        /\ \A i \in 1..n : job[p].todo[i] = WriteOrder[4 - n + i]
  <2>1. \A n \in 1..4 : 1 \in 1..n
    OBVIOUS
  <2> QED
    BY <1>1, <2>1 DEF Writing
<1>3. Head(job[p].todo) = WriteOrder[5 - n]
  <2>1. job[p].todo[1] = WriteOrder[4 - n + 1]
    BY <1>2
  <2>2. Head(job[p].todo) = job[p].todo[1] /\ 4 - n + 1 = 5 - n
    BY <1>2
  <2> QED
    BY <2>1, <2>2
<1>4. files \in [Paths -> Histories] /\ "state" \in Paths
  BY Lock, PathNames
<1>5. CASE n = 1
  <2>1. Finish(p) /\ Head(job[p].todo) = "state"
    BY <1>2, <1>3, <1>5, PathNames DEF Write, Proceed
  <2>2. files'["state"] = New(job[p]) /\ job[p].state = files["state"]
    BY <1>1, <1>4, <2>1 DEF Write, Content, Committing, New
  <2>3. PICK h \in Histories : h = job[p].state
    BY JobTyped DEF Jobs
  <2>4. PICK e \in Events : e = job[p].event
    BY <1>1 DEF IInv, Claim, Fresh
  <2>5. PICK new \in Histories : new = Append(h, e)
    BY AppendHistory
  <2>6. /\ new # << >> /\ Prefix(h, new) /\ Len(new) = Len(h) + 1 /\ new[Len(h) + 1] = e
        /\ \A i \in 1..Len(h) : new[i] = h[i]
    BY <2>5, AppendHistory
  <2>7. files'["state"] = new /\ files["state"] = h
    BY <2>2, <2>3, <2>4, <2>5 DEF New
  <2>8. AccountedBy(audit, pin, new[1].snapshot)
    <3>1. CASE h = << >>
      <4>1. Founding(p) /\ audit = << >>
        BY <1>1, <2>3, <2>7, <3>1 DEF Founding, PinInv
      <4>2. e.snapshot = pin
        BY <1>1, <2>4, <4>1 DEF PinClaim
      <4>3. new[1] = e
        BY <2>6, <3>1
      <4> QED
        BY <4>1, <4>2, <4>3 DEF AccountedBy
    <3>2. CASE h # << >>
      <4>1. new[1] = h[1]
        BY <2>6, <3>2 DEF Histories
      <4>2. AccountedBy(audit, pin, h[1].snapshot)
        BY <2>7, <3>2, PinInWords DEF PinInv
      <4> QED
        BY <4>1, <4>2
    <3> QED
      BY <3>1, <3>2
  <2>9. Accepted(new, pin)
    BY <1>1, <2>2, <2>7 DEF PinClaim
  <2>10. PinIsAccountedFor'
    <3>1. AccountedBy(audit', pin', files'["state"][1].snapshot)
      BY <1>1, <2>7, <2>8
    <3>2. pin' \in Snapshots /\ Accepted(files'["state"], pin')
      BY <1>1, <2>7, <2>9
    <3> QED
      BY <3>1, <3>2 DEF PinIsAccountedFor, AccountedBy
  <2>11. /\ pc' = [pc EXCEPT ![p] = "idle"] /\ job' = [job EXCEPT ![p] = NoJob]
         /\ pc'[p] = "idle"
    BY <2>1 DEF Finish, Goto, IInv, TypeInv
  <2>12. PinClaim(p)'
    BY <2>11 DEF PinClaim, Founding
  <2> QED
    BY <1>1, <2>6, <2>7, <2>10, <2>11, <2>12, PinSteps
<1>6. CASE n # 1
  <2>1. Head(job[p].todo) # "state"
    <3>1. n = 2 \/ n = 3 \/ n = 4
      BY <1>6
    <3> QED
      BY <1>3, <3>1, PathNames
  <2>2. files'["state"] = files["state"]
    BY <1>4, <2>1 DEF Write
  <2>3. PICK next \in Jobs :
          /\ next.state = job[p].state /\ next.event = job[p].event
          /\ pc' = [pc EXCEPT ![p] = pc[p]] /\ job' = [job EXCEPT ![p] = next]
          /\ pc'[p] = pc[p] /\ job'[p] = next
    BY <1>1, <1>2, <1>6, Proceeding DEF Write
  <2>4. New(next) = New(job[p])
    BY <2>3 DEF New
  <2>5. PinClaim(p)'
    BY <1>1, <2>2, <2>3, <2>4 DEF PinClaim, Founding
  <2> QED
    BY <1>1, <2>2, <2>3, <2>5, QuietPin
<1> QED
  BY <1>5, <1>6

\* A commit that fails, and what it puts back, leaves state.json as it was.
LEMMA WriteFailsPins ==
    ASSUME Lone, IInv, PinInv, NEW p \in Procs, WriteFails(p)
    PROVE  PinInv'
<1>1. /\ pc[p] = "write" /\ PinClaim(p) /\ files' = files /\ pin' = pin /\ audit' = audit
      /\ faults' \in faults..MaxFaults
  BY Counters DEF WriteFails, At, PinInv
<1>2. PICK work \in Jobs : work = [job[p] EXCEPT !.todo = WriteOrder]
  <2>1. [job[p] EXCEPT !.todo = WriteOrder] \in Jobs
    BY JobTyped, PathNames, WithTodo
  <2> QED
    BY <2>1, Zenon
<1>3. job' = [job EXCEPT ![p] = work] /\ pc' = [pc EXCEPT ![p] = "restore"]
  BY <1>2 DEF WriteFails, Goto
<1>4. pc'[p] = "restore" /\ job'[p] = work /\ work.state = job[p].state
  BY <1>2, <1>3, Lock DEF IInv, TypeInv, Jobs
<1>5. PinClaim(p)'
  BY <1>1, <1>4 DEF PinClaim, Founding
<1> QED
  BY <1>1, <1>3, <1>5, QuietPin

\* A restore leaves state.json as it was before the commit, and the pin alone.
LEMMA RestorePins ==
    ASSUME Lone, IInv, PinInv, NEW p \in Procs, Restore(p)
    PROVE  PinInv'
<1>1. /\ pc[p] = "restore" /\ pc[p] \in Locked /\ job[p].todo \in Seq(Paths)
      /\ Committing(job[p]) /\ PinClaim(p) /\ pin' = pin /\ audit' = audit
  BY DEF Restore, At, IInv, Claim, Restoring, Locked, PinInv
<1>2. PICK i \in 1..Len(job[p].todo) :
        /\ \/ files' = [files EXCEPT ![job[p].todo[i]] = job[p].before[job[p].todo[i]]]
              /\ UNCHANGED faults
           \/ Fault /\ UNCHANGED files
        /\ Proceed(p, i)
  BY <1>1 DEF Restore
<1>3. files'["state"] = files["state"]
  <2>1. files["state"] = job[p].before["state"]
    BY <1>1 DEF Committing
  <2>2. files \in [Paths -> Histories] /\ "state" \in Paths
    BY Lock, PathNames
  <2> QED
    BY <1>2, <2>1, <2>2
<1>4. faults' \in faults..MaxFaults
  BY <1>2, Counters
<1>5. CASE Finish(p)
  BY <1>1, <1>3, <1>4, <1>5, PinEnding
<1>6. CASE ~Finish(p)
  <2>1. PICK next \in Jobs :
          /\ next.state = job[p].state
          /\ pc' = [pc EXCEPT ![p] = pc[p]] /\ job' = [job EXCEPT ![p] = next]
          /\ pc'[p] = pc[p] /\ job'[p] = next
    BY <1>1, <1>2, <1>6, Proceeding
  <2>2. PinClaim(p)'
    BY <1>1, <1>3, <2>1 DEF PinClaim, Founding
  <2> QED
    BY <1>1, <1>3, <1>4, <2>1, <2>2, QuietPin
<1> QED
  BY <1>5, <1>6

\* A prepared record accounts for the pin on both sides of its move.
LEMMA PreparedAccounts ==
    ASSUME NEW work \in Jobs, work.snapshot \in Snapshots, work.pinned \in Snapshots, NEW first
    PROVE  /\ Prepared(work) \in Seq(Records)
           /\ AccountedBy(Prepared(work), work.pinned, first)
           /\ AccountedBy(Prepared(work), work.snapshot, first)
<1> DEFINE record == [phase |-> "prepared", previous |-> work.pinned, new |-> work.snapshot]
           records == Append(work.audited, record)
<1>1. work.audited \in Seq(Records) /\ record \in Records
  BY DEF Jobs, Records
<1>2. /\ records \in Seq(Records) /\ Len(records) = Len(work.audited) + 1
      /\ records[Len(records)] = record /\ records # << >>
  BY <1>1
<1>3. record.phase = "prepared" /\ record.previous = work.pinned /\ record.new = work.snapshot
  OBVIOUS
<1>4. Prepared(work) = records
  BY DEF Prepared
<1> HIDE DEF records, record
<1> QED
  BY <1>2, <1>3, <1>4 DEF AccountedBy

\* A step of a rebind accounts for the pin when it has come as far as its label says.
LEMMA RebindPins ==
    ASSUME Lone, IInv, PinInv, NEW p \in Procs,
           NEW label \in {"prepare", "move", "committed", "undo"}, NEW work \in Jobs,
           work.snapshot \in Snapshots, work.pinned \in Snapshots,
           pc' = [pc EXCEPT ![p] = label], job' = [job EXCEPT ![p] = work],
           files' = files, faults' \in faults..MaxFaults,
           pc[p] \in Locked \/ (pin' = pin /\ audit' = audit),
           files["state"] # << >>,
           Accepted(files["state"], work.snapshot), Accepted(files["state"], work.pinned),
           AccountedBy(work.audited, work.pinned, files["state"][1].snapshot),
           Rebound(label, work)'
    PROVE  PinInv'
<1>1. pc'[p] = label /\ job'[p] = work
  BY DEF IInv, TypeInv
<1>2. RebindClaim(pc[p], job[p])'
  <2>1. Rebound(pc[p], job[p])'
    BY <1>1 DEF Rebound
  <2>2. /\ files'["state"] # << >>
        /\ Accepted(files'["state"], job'[p].snapshot)
        /\ Accepted(files'["state"], job'[p].pinned)
        /\ AccountedBy(job'[p].audited, job'[p].pinned, files'["state"][1].snapshot)
    BY <1>1
  <2> QED
    BY <2>1, <2>2 DEF RebindClaim
<1>3. PinClaim(p)'
  BY <1>1, <1>2 DEF PinClaim, Founding
<1>4. \/ pin' = work.pinned /\ audit' = work.audited
      \/ pin' \in {work.pinned, work.snapshot} /\ audit' = Prepared(work)
  BY DEF Rebound
<1>5. AccountedBy(audit', pin', files["state"][1].snapshot)
  BY <1>4, PreparedAccounts
<1>6. PinIsAccountedFor'
  <2>1. AccountedBy(audit', pin', files'["state"][1].snapshot)
    BY <1>5
  <2>2. pin' \in Snapshots /\ Accepted(files'["state"], pin')
    BY <1>4
  <2> QED
    BY <2>1, <2>2 DEF PinIsAccountedFor, AccountedBy
<1>7. files'["state"] \in Histories /\ Prefix(files["state"], files'["state"])
  BY Lock, PrefixOrder
<1> QED
  BY <1>3, <1>6, <1>7, PinSteps

\* A rebind starts from a pin that is accounted for, and to one that accepts it all.
LEMMA BeginRebindPins ==
    ASSUME Lone, IInv, PinInv, NEW p \in Procs, NEW snapshot \in Snapshots,
           BeginRebind(p, snapshot)
    PROVE  PinInv'
<1>1. /\ files["state"] # << >> /\ files' = files /\ pin' = pin /\ audit' = audit
      /\ faults' \in faults..MaxFaults /\ lock = NoProc
      /\ ValidateHistory(files["events"], LastID(files["state"]),
                         Registry(files["outputs"]), snapshot)
  BY Counters DEF BeginRebind, Rebindable
<1>2. PICK work \in Jobs :
        work = [NoJob EXCEPT !.command = "rebind", !.snapshot = snapshot, !.audited = audit,
                             !.pinned = pin, !.state = files["state"]]
  BY NoJobTyped, Lock DEF Jobs, NoJob
<1>3. job' = [job EXCEPT ![p] = work] /\ pc' = [pc EXCEPT ![p] = "prepare"]
  BY <1>2 DEF BeginRebind, Begin, NoJob, Goto
<1>4. work.snapshot = snapshot /\ work.pinned = pin /\ work.audited = audit
  BY <1>2 DEF NoJob
<1>5. /\ pin \in Snapshots /\ Accepted(files["state"], pin)
      /\ AccountedBy(audit, pin, files["state"][1].snapshot)
  BY <1>1, PinInWords DEF PinInv
<1>6. files["events"] = files["state"]
  <2>1. PICK h \in Histories, g \in Histories : h = files["state"] /\ g = files["events"]
    BY Lock
  <2>2. Prefix(h, g) /\ Increasing(g)
    BY <2>1 DEF IInv, HistoryInv
  <2>3. LastID(h) = LastID(g)
    BY <1>1, <2>1 DEF ValidateHistory
  <2> QED
    BY <2>1, <2>2, <2>3, SameMoment
<1>7. Accepted(files["state"], snapshot)
  BY <1>1, <1>6 DEF ValidateHistory
<1>8. Rebound("prepare", work)'
  BY <1>1, <1>4 DEF Rebound
<1> QED
  BY <1>1, <1>3, <1>4, <1>5, <1>7, <1>8, RebindPins

\* What a rebind under way relies on.
LEMMA RebindKnows ==
    ASSUME IInv, PinInv, NEW p \in Procs, pc[p] \in {"prepare", "move", "committed", "undo"}
    PROVE  /\ job[p] \in Jobs /\ pc[p] \in Locked /\ pc[p] # "idle"
           /\ job[p].snapshot \in Snapshots /\ job[p].pinned \in Snapshots
           /\ RebindClaim(pc[p], job[p])
           /\ AuditRecord(p, "prepared") =
                 [phase |-> "prepared", previous |-> job[p].pinned, new |-> job[p].snapshot]
  BY RebindWork, Lock DEF PinInv, PinClaim, Locked, AuditRecord

\* A rebind that goes on with the same work.
LEMMA RebindGoesOn ==
    ASSUME Lone, IInv, PinInv, NEW p \in Procs,
           pc[p] \in {"prepare", "move", "committed", "undo"},
           NEW label \in {"prepare", "move", "committed", "undo"}, NEW work \in Jobs,
           work.snapshot = job[p].snapshot, work.pinned = job[p].pinned,
           work.audited = job[p].audited,
           pc' = [pc EXCEPT ![p] = label], job' = [job EXCEPT ![p] = work],
           files' = files, faults' \in faults..MaxFaults, Rebound(label, work)'
    PROVE  PinInv'
<1>1. /\ pc[p] \in Locked /\ work.snapshot \in Snapshots /\ work.pinned \in Snapshots
      /\ RebindClaim(pc[p], job[p])
  BY RebindKnows
<1>2. /\ files["state"] # << >>
      /\ Accepted(files["state"], work.snapshot) /\ Accepted(files["state"], work.pinned)
      /\ AccountedBy(work.audited, work.pinned, files["state"][1].snapshot)
  BY <1>1 DEF RebindClaim
<1> QED
  BY <1>1, <1>2, RebindPins

\* A rebind that ends leaves a pin and an audit that fit together.
LEMMA RebindEnds ==
    ASSUME Lone, IInv, PinInv, NEW p \in Procs,
           pc[p] \in {"prepare", "move", "committed", "undo"}, Finish(p),
           files' = files, faults' \in faults..MaxFaults,
           pin' \in {job[p].snapshot, job[p].pinned},
           AccountedBy(audit', pin', files["state"][1].snapshot)
    PROVE  PinInv'
<1>1. /\ pc[p] \in Locked /\ job[p].snapshot \in Snapshots /\ job[p].pinned \in Snapshots
      /\ files["state"] # << >> /\ Accepted(files["state"], job[p].snapshot)
      /\ Accepted(files["state"], job[p].pinned) /\ pc[p] # "idle"
  BY RebindKnows DEF RebindClaim
<1>2. /\ pc' = [pc EXCEPT ![p] = "idle"] /\ job' = [job EXCEPT ![p] = NoJob]
      /\ pc'[p] = "idle"
  BY DEF Finish, Goto, IInv, TypeInv
<1>3. PinClaim(p)'
  BY <1>2 DEF PinClaim, Founding
<1>4. PinIsAccountedFor'
  <2>1. AccountedBy(audit', pin', files'["state"][1].snapshot)
    BY <1>1
  <2>2. pin' \in Snapshots /\ Accepted(files'["state"], pin')
    BY <1>1
  <2> QED
    BY <2>1, <2>2 DEF PinIsAccountedFor, AccountedBy
<1>5. files'["state"] \in Histories /\ Prefix(files["state"], files'["state"])
  BY Lock, PrefixOrder
<1> QED
  BY <1>1, <1>2, <1>3, <1>4, <1>5, PinSteps

\* The prepared record comes before the pin moves.
LEMMA PreparePins ==
    ASSUME Lone, IInv, PinInv, NEW p \in Procs, Prepare(p)
    PROVE  PinInv'
<1>1. /\ pc[p] = "prepare" /\ files' = files /\ pin' = pin /\ faults' \in faults..MaxFaults
  BY Counters DEF Prepare, At
<1>2. job[p] \in Jobs /\ RebindClaim("prepare", job[p])
  BY <1>1, RebindKnows
<1>3. pin = job[p].pinned /\ audit = job[p].audited
  BY <1>2 DEF RebindClaim, Rebound
<1>4. CASE Finish(p) /\ UNCHANGED audit
  BY <1>1, <1>4, PinEnding
<1>5. CASE audit' = Append(audit, AuditRecord(p, "prepared")) /\ Continue(p, "move")
  <2>1. pc' = [pc EXCEPT ![p] = "move"] /\ job' = [job EXCEPT ![p] = job[p]]
    BY <1>5, Lock DEF Continue, Goto
  <2>2. audit' = Prepared(job[p])
    BY <1>1, <1>3, <1>5, RebindKnows DEF Prepared
  <2> DEFINE work == job[p]
  <2> HIDE DEF work
  <2>3. \A same \in Jobs : same = job[p] => Rebound("move", same)'
    BY <1>1, <1>3, <2>2 DEF Rebound
  <2>4. PICK same \in Jobs : same = job[p]
    BY <1>2
  <2> QED
    BY <1>1, <2>1, <2>3, <2>4, RebindGoesOn
<1> QED
  BY <1>4, <1>5 DEF Prepare

\* A rebind that fails knows whether it has moved the pin.
LEMMA RebindFailsPins ==
    ASSUME Lone, IInv, PinInv, NEW p \in Procs, pc[p] \in {"move", "committed"}, NEW order,
           order = IF pc[p] = "move" THEN <<"audit", "pin">> ELSE <<"pin", "audit">>,
           RebindFails(p, order), files' = files
    PROVE  PinInv'
<1>1. pin' = pin /\ audit' = audit /\ faults' \in faults..MaxFaults /\ faults' >= 1
  BY Counters DEF RebindFails
<1>2. order \in Seq({"audit", "pin"})
  <2>1. <<"audit", "pin">> \in Seq({"audit", "pin"}) /\ <<"pin", "audit">> \in Seq({"audit", "pin"})
    OBVIOUS
  <2> QED
    BY <2>1
<1>3. PICK work \in Jobs : work = [job[p] EXCEPT !.todo = order]
  <2>1. [job[p] EXCEPT !.todo = order] \in Jobs
    BY <1>2, JobTyped DEF Jobs
  <2> QED
    BY <2>1, Zenon
<1>4. /\ work.snapshot = job[p].snapshot /\ work.pinned = job[p].pinned
      /\ work.audited = job[p].audited /\ work.todo = order
  BY <1>3, JobTyped DEF Jobs
<1>5. job' = [job EXCEPT ![p] = work] /\ pc' = [pc EXCEPT ![p] = "undo"]
  BY <1>3 DEF RebindFails, Goto
<1>6. RebindClaim(pc[p], job[p])
  BY RebindKnows
<1>7. Prepared(work) = Prepared(job[p])
  BY <1>4 DEF Prepared
<1>8. CASE pc[p] = "move"
  <2>1. pin' = work.pinned /\ audit' = Prepared(work) /\ work.todo = <<"audit", "pin">>
    BY <1>1, <1>4, <1>6, <1>7, <1>8 DEF RebindClaim, Rebound
  <2>2. Rebound("undo", work)'
    BY <1>1, <2>1 DEF Rebound
  <2> QED
    BY <1>1, <1>4, <1>5, <2>2, RebindGoesOn
<1>9. CASE pc[p] = "committed"
  <2>1. pin' = work.snapshot /\ audit' = Prepared(work) /\ work.todo = <<"pin", "audit">>
    BY <1>1, <1>4, <1>6, <1>7, <1>9 DEF RebindClaim, Rebound
  <2>2. Rebound("undo", work)'
    BY <1>1, <2>1 DEF Rebound
  <2> QED
    BY <1>1, <1>4, <1>5, <2>2, RebindGoesOn
<1> QED
  BY <1>8, <1>9

\* The pin moves to the snapshot that the prepared record names.
LEMMA MovePinPins ==
    ASSUME Lone, IInv, PinInv, NEW p \in Procs, MovePin(p)
    PROVE  PinInv'
<1>1. pc[p] = "move" /\ files' = files
  BY DEF MovePin, At
<1>2. job[p] \in Jobs /\ RebindClaim("move", job[p])
  BY <1>1, RebindKnows
<1>3. CASE RebindFails(p, <<"audit", "pin">>)
  BY <1>1, <1>3, RebindFailsPins
<1>4. CASE pin' = job[p].snapshot /\ Continue(p, "committed") /\ UNCHANGED <<audit, lock, faults>>
  <2>1. pc' = [pc EXCEPT ![p] = "committed"] /\ job' = [job EXCEPT ![p] = job[p]]
    BY <1>4, Lock DEF Continue, Goto
  <2>2. audit' = Prepared(job[p])
    BY <1>2, <1>4 DEF RebindClaim, Rebound
  <2>3. PICK same \in Jobs : same = job[p]
    BY <1>2
  <2>4. Rebound("committed", same)'
    BY <1>4, <2>2, <2>3 DEF Rebound
  <2>5. faults' \in faults..MaxFaults
    BY <1>4, Counters
  <2> QED
    BY <1>1, <2>1, <2>3, <2>4, <2>5, RebindGoesOn
<1> QED
  BY <1>3, <1>4 DEF MovePin

\* The committed record says where the pin is.
LEMMA CommitAuditPins ==
    ASSUME Lone, IInv, PinInv, NEW p \in Procs, CommitAudit(p)
    PROVE  PinInv'
<1>1. pc[p] = "committed" /\ files' = files
  BY DEF CommitAudit, At
<1>2. job[p] \in Jobs /\ RebindClaim("committed", job[p])
  BY <1>1, RebindKnows
<1>3. CASE RebindFails(p, <<"pin", "audit">>)
  BY <1>1, <1>3, RebindFailsPins
<1>4. CASE /\ audit' = Append(audit, AuditRecord(p, "committed"))
           /\ Finish(p) /\ UNCHANGED <<pin, faults>>
  <2>1. pin' = job[p].snapshot /\ faults' \in faults..MaxFaults
    BY <1>2, <1>4, Counters DEF RebindClaim, Rebound
  <2>2. PICK record \in Records :
           record = AuditRecord(p, "committed") /\ record.new = job[p].snapshot
    <3>1. job[p].snapshot \in Snapshots /\ job[p].pinned \in Snapshots
      BY <1>1, RebindKnows
    <3>2. AuditRecord(p, "committed") \in Records
      BY <3>1 DEF AuditRecord, Records
    <3>3. AuditRecord(p, "committed").new = job[p].snapshot
      BY DEF AuditRecord
    <3> QED
      BY <3>2, <3>3
  <2>3. \A records \in Seq(Records) :
           /\ Append(records, record) # << >>
           /\ Append(records, record)[Len(Append(records, record))] = record
    OBVIOUS
  <2>5. audit' # << >> /\ audit'[Len(audit')] = record
    <3>1. audit \in Seq(Records) /\ audit' = Append(audit, record)
      BY <1>4, <2>2, Lock
    <3> QED
      BY <2>3, <3>1
  <2>4. AccountedBy(audit', pin', files["state"][1].snapshot)
    BY <2>1, <2>2, <2>5 DEF AccountedBy
  <2> QED
    BY <1>1, <1>4, <2>1, <2>4, RebindEnds
<1> QED
  BY <1>3, <1>4 DEF CommitAudit

\* After one failure both files are put back, in an order that leaves no pin
\* unaccounted for.
LEMMA UndoPins ==
    ASSUME Lone, IInv, PinInv, NEW p \in Procs, Undo(p)
    PROVE  PinInv'
<1>1. pc[p] = "undo" /\ files' = files /\ Proceed(p, 1) /\ pc[p] \in Locked
  BY DEF Undo, At, Locked
<1>2. /\ job[p] \in Jobs /\ RebindClaim("undo", job[p])
      /\ job[p].snapshot \in Snapshots /\ job[p].pinned \in Snapshots
      /\ job[p].todo \in Seq({"audit", "pin"})
  BY <1>1, RebindKnows DEF IInv, Claim
<1>3. faults >= 1 /\ ~Fault
  BY <1>2, Lock, StoreAssumption DEF RebindClaim, Rebound, Fault, Lone
<1>4. /\ pin' = IF Head(job[p].todo) = "pin" THEN job[p].pinned ELSE pin
      /\ audit' = IF Head(job[p].todo) = "audit" THEN job[p].audited ELSE audit
      /\ faults' = faults
  BY <1>3 DEF Undo
<1>5. faults' \in faults..MaxFaults /\ faults' >= 1
  BY <1>3, <1>4, Counters
<1>6. ASSUME NEW what \in {"audit", "pin"}, job[p].todo = <<what>>
      PROVE  PinInv'
  <2>1. Finish(p) /\ Head(job[p].todo) = what
    BY <1>1, <1>6 DEF Proceed
  <2>2. pin' = job[p].pinned /\ audit' = job[p].audited
    <3>1. CASE what = "audit"
      BY <1>2, <1>4, <1>6, <2>1, <3>1 DEF RebindClaim, Rebound
    <3>2. CASE what = "pin"
      BY <1>2, <1>4, <1>6, <2>1, <3>2 DEF RebindClaim, Rebound
    <3> QED
      BY <3>1, <3>2
  <2>3. AccountedBy(audit', pin', files["state"][1].snapshot)
    BY <1>2, <2>2 DEF RebindClaim
  <2> QED
    BY <1>1, <1>5, <2>1, <2>2, <2>3, RebindEnds
<1>7. ASSUME NEW first \in {"audit", "pin"}, NEW second \in {"audit", "pin"}, first # second,
             job[p].todo = <<first, second>>
      PROVE  PinInv'
  <2>1. /\ Head(job[p].todo) = first /\ Len(job[p].todo) = 2 /\ 1 \in 1..Len(job[p].todo)
        /\ RemoveAt(job[p].todo, 1) = <<second>>
    <3>1. /\ <<first, second>> \in Seq({"audit", "pin"}) /\ Len(<<first, second>>) = 2
          /\ <<first, second>>[2] = second /\ 1 \in 1..2
      OBVIOUS
    <3>2. PICK rest \in Seq({"audit", "pin"}) : rest = RemoveAt(job[p].todo, 1)
      BY <1>7, <3>1, Removed
    <3>3. Len(rest) = 1 /\ rest[1] = second
      <4> DEFINE pair == <<first, second>>
      <4>0. pair \in Seq({"audit", "pin"}) /\ Len(pair) = 2 /\ rest = RemoveAt(pair, 1)
        BY <1>7, <3>1, <3>2
      <4> HIDE DEF pair
      <4>a. 1 \in 1..Len(pair)
        BY <4>0
      <4>b. /\ Len(rest) = Len(pair) - 1
            /\ \A j \in 1..(Len(pair) - 1) :
                  rest[j] = IF j < 1 THEN pair[j] ELSE pair[j + 1]
        BY <4>0, <4>a, Removed, Zenon
      <4>1. /\ Len(rest) = 2 - 1
            /\ \A j \in 1..(2 - 1) : rest[j] = IF j < 1 THEN pair[j] ELSE pair[j + 1]
        BY <4>0, <4>b
      <4> USE DEF pair
      <4>2. 2 - 1 = 1 /\ 1 \in 1..1 /\ ~(1 < 1) /\ 1 + 1 = 2
        OBVIOUS
      <4> QED
        BY <3>1, <4>1, <4>2
    <3>4. rest = <<second>>
      BY <3>3
    <3> QED
      BY <1>7, <3>1, <3>2, <3>4
  <2>2. PICK next \in Jobs :
          /\ next = [job[p] EXCEPT !.todo = next.todo] /\ next.todo = <<second>>
          /\ next.snapshot = job[p].snapshot /\ next.pinned = job[p].pinned
          /\ pc' = [pc EXCEPT ![p] = pc[p]] /\ job' = [job EXCEPT ![p] = next]
    <3>1. PICK next \in Jobs :
            /\ next.todo = RemoveAt(job[p].todo, 1)
            /\ next = [job[p] EXCEPT !.todo = next.todo]
            /\ next.snapshot = job[p].snapshot /\ next.pinned = job[p].pinned
            /\ pc' = [pc EXCEPT ![p] = pc[p]] /\ job' = [job EXCEPT ![p] = next]
      <4>1. Len(job[p].todo) # 1 /\ 1 \in 1..Len(job[p].todo)
        BY <2>1
      <4>2. /\ pc[p] \in Locked /\ job[p].todo \in Seq({"audit", "pin"}) /\ Proceed(p, 1)
            /\ {"audit", "pin"} \in {Paths, {"audit", "pin"}}
        BY <1>1, <1>2
      <4> QED
        BY <4>1, <4>2, Proceeding
    <3> QED
      BY <2>1, <3>1
  <2>3. next.audited = job[p].audited
    BY <1>2, <2>2 DEF Jobs
  <2>4. Prepared(next) = Prepared(job[p])
    BY <2>2, <2>3 DEF Prepared
  <2>5. CASE first = "audit"
    <3>1. pin' = next.pinned /\ audit' = next.audited /\ next.todo = <<"pin">>
      BY <1>2, <1>4, <1>7, <2>1, <2>2, <2>3, <2>5 DEF RebindClaim, Rebound
    <3>2. Rebound("undo", next)'
      BY <1>5, <3>1 DEF Rebound
    <3> QED
      BY <1>1, <1>5, <2>2, <2>3, <3>2, RebindGoesOn
  <2>6. CASE first = "pin"
    <3>1. pin' = next.pinned /\ audit' = Prepared(next) /\ next.todo = <<"audit">>
      BY <1>2, <1>4, <1>7, <2>1, <2>2, <2>4, <2>6 DEF RebindClaim, Rebound
    <3>2. Rebound("undo", next)'
      BY <1>5, <3>1 DEF Rebound
    <3> QED
      BY <1>1, <1>5, <2>2, <2>3, <3>2, RebindGoesOn
  <2> QED
    BY <2>5, <2>6
<1>8. \/ job[p].todo = <<"audit", "pin">> \/ job[p].todo = <<"pin", "audit">>
      \/ job[p].todo = <<"audit">> \/ job[p].todo = <<"pin">>
  BY <1>2 DEF RebindClaim, Rebound
<1> QED
  BY <1>6, <1>7, <1>8

\* Before the first command there is neither State nor pin.
LEMMA PinInit == Lone /\ Init => PinInv
<1> SUFFICES ASSUME Init PROVE PinInv
  OBVIOUS
<1>1. files["state"] = << >>
  BY PathNames DEF Init
<1> QED
  BY <1>1 DEF Init, PinInv, PinIsAccountedFor, PinClaim, Founding

\* Every step keeps what is known of the pin.
LEMMA PinKept == Lone /\ IInv /\ PinInv /\ [Next]_vars => PinInv'
<1> SUFFICES ASSUME Lone, IInv, PinInv, [Next]_vars PROVE PinInv'
  OBVIOUS
<1>1. ASSUME NEW p \in Procs, Start(p) PROVE PinInv'
  BY <1>1, StartInitPins, BeginRebindPins, StartLoadPins DEF Start
<1>2. ASSUME NEW p \in Procs, Advance(p) PROVE PinInv'
  <2>1. CASE RefuseReport(p)
    <3>1. pc[p] # "idle" /\ Finish(p) /\ faults' \in faults..MaxFaults
      BY <2>1, Counters DEF RefuseReport, At
    <3> QED
      BY <2>1, <3>1, PinEnding DEF RefuseReport
  <2> QED
    BY <1>2, <2>1, PinConfigurationPins, LoadPins, EvaluatePins, RebuildPins, BeginCommitPins,
       WritePins, WriteFailsPins, RestorePins, PreparePins, MovePinPins, CommitAuditPins,
       UndoPins DEF Advance
<1>3. ASSUME NEW p \in Procs, Crash(p) PROVE PinInv'
  BY <1>3, Counters, PinEnding DEF Crash
<1>4. CASE UNCHANGED vars
  <2>1. /\ files' = files /\ pin' = pin /\ audit' = audit /\ pc' = pc /\ job' = job
        /\ faults' = faults
    BY <1>4 DEF vars
  <2>2. PinIsAccountedFor'
    BY <2>1 DEF PinInv, PinIsAccountedFor
  <2>3. ASSUME NEW p \in Procs PROVE PinClaim(p)'
    BY <2>1 DEF PinInv, PinClaim, Founding, RebindClaim, Rebound
  <2> QED
    BY <2>1, <2>2, <2>3 DEF PinInv
<1> QED
  BY <1>1, <1>2, <1>3, <1>4 DEF Next

\* With one initializer, and one write that fails, only an audited rebind moves the
\* pin, and the Workflow it names accepts the whole committed history.
THEOREM PinAccountedFor ==
    ASSUME Lone
    PROVE  Spec => []PinIsAccountedFor
<1>1. Init => PinInv
  BY PinInit
<1>2. IInv /\ PinInv /\ [Next]_vars => PinInv'
  BY PinKept
<1>3. PinInv => PinIsAccountedFor
  BY DEF PinInv
<1> QED
  BY <1>1, <1>2, <1>3, Invariant, PTL DEF Spec
=============================================================================
