------------------------- MODULE ConfigurationProofs -------------------------
(***************************************************************************)
(* For every number of processes, versions and faults: the types, that     *)
(* config/current is always a published snapshot that validated, and what  *)
(* each command does to the binding it found.                              *)
(***************************************************************************)
EXTENDS Configuration, TLAPS

\* What a process relies on that is about to publish, to activate or to
\* restore a snapshot.  An init fetches before it waits for the lock.
Claim(label, work, published) ==
    /\ \/ label = "publish"
       \/ label = "lock" /\ work.command = "init" /\ work.center = "git"
       => work.snapshot \in Snapshots \ Invalid
    /\ label = "activate" => work.snapshot \in published
    /\ work.previous # None => work.previous \in published

IInv ==
    /\ TypeOK
    /\ installed \cap Invalid = {}
    /\ current # None => current \in installed
    /\ \A p \in Procs : Claim(pc[p], op[p], installed)

Modes == {"none", "shared", "exclusive"}

\* What ConfigurationAssumption says of the values that are no snapshot, and of labels.
LEMMA Constants ==
    /\ None \notin Snapshots
    /\ NoOp \in Ops
    /\ {"idle", "failed"} \subseteq Labels
    /\ \A version \in 1..Newest["git"] : <<"git", version>> \in Snapshots
    /\ \A version \in 1..Newest["fornax"] : <<"fornax", version>> \in Snapshots
PROOF BY ConfigurationAssumption
  DEF None, Snapshots, Centers, NoOp, Ops, Labels, Ends, DriftStatuses

\* Nothing is published, bound or claimed at the start.
LEMMA InitInvariant == Init => IInv
PROOF BY Constants, ConfigurationAssumption
  DEF Init, IInv, Claim, TypeOK, NoReceipt, NoOp, Ops, Centers, At

\* A step of one process to another label: what it has to show for IInv'.
LEMMA Moves ==
    ASSUME IInv, NEW p \in Procs, NEW label \in Labels \ {"idle"}, NEW work \in Ops,
           Continue(p, label, work),
           \/ UNCHANGED holds
           \/ \E mode \in Modes : holds' = [holds EXCEPT ![p] = mode],
           remote' = remote, edited' = edited, faults' \in 0..MaxFaults,
           installed \subseteq installed', installed' \subseteq Snapshots \ Invalid,
           current' \in installed' \cup {None},
           receipt' \in [release: Nat, edited: BOOLEAN],
           seen' \in [Procs -> SUBSET (Snapshots \cup {None})],
           Claim(label, work, installed')
    PROVE  IInv'
<1>1. TypeOK'
  <2>1. pc' \in [Procs -> Labels] /\ op' \in [Procs -> Ops]
    BY DEF IInv, TypeOK, Continue
  <2>2. holds' \in [Procs -> Modes]
    BY DEF IInv, TypeOK, Modes
  <2>3. \A q \in Procs : pc'[q] = "idle" => op'[q] = NoOp /\ holds'[q] = "none"
    <3>1. TAKE q \in Procs
    <3>2. CASE q = p
      BY <3>2 DEF IInv, TypeOK, Continue
    <3>3. CASE q # p
      BY <3>3 DEF IInv, TypeOK, Continue, At, Modes
    <3>4. QED
      BY <3>2, <3>3
  <2>4. QED
    BY <2>1, <2>2, <2>3 DEF IInv, TypeOK, At, Modes
<1>2. /\ pc'[p] = label /\ op'[p] = work
      /\ \A q \in Procs \ {p} : pc'[q] = pc[q] /\ op'[q] = op[q]
  BY DEF IInv, TypeOK, Continue
<1>3. \A q \in Procs : Claim(pc[q], op[q], installed')
  BY DEF IInv, Claim
<1>4. \A q \in Procs : Claim(pc'[q], op'[q], installed')
  BY <1>2, <1>3
<1>5. QED
  BY <1>1, <1>4 DEF IInv, Claim

\* Most of them leave the disk alone.
LEMMA QuietMoves ==
    ASSUME IInv, NEW p \in Procs, NEW label \in Labels \ {"idle"}, NEW work \in Ops,
           Continue(p, label, work),
           \/ UNCHANGED holds
           \/ \E mode \in Modes : holds' = [holds EXCEPT ![p] = mode],
           UNCHANGED <<remote, disk, seen>>, Fault \/ NoFault,
           Claim(label, work, installed)
    PROVE  IInv'
<1>1. faults' \in 0..MaxFaults
  BY ConfigurationAssumption DEF IInv, TypeOK, Fault, NoFault
<1>2. QED
  BY <1>1, Moves DEF IInv, TypeOK, disk

\* A command that fails without touching a file leaves nothing behind to claim.
LEMMA QuietFail ==
    ASSUME IInv, NEW p \in Procs, Fail(p), Fault \/ NoFault, UNCHANGED <<remote, disk, seen>>
    PROVE  IInv'
<1>1. Claim("failed", op[p], installed)
  BY DEF IInv, Claim
<1>2. op[p] \in Ops
  BY DEF IInv, TypeOK
<1>3. QED
  BY <1>1, <1>2, Constants, QuietMoves DEF Fail

\* Neither does one that ends well without touching a file.
LEMMA Finished ==
    ASSUME IInv, NEW p \in Procs, Finish(p), Fault \/ NoFault, UNCHANGED <<remote, disk>>
    PROVE  IInv'
<1>1. TypeOK'
  BY Constants, ConfigurationAssumption
  DEF IInv, TypeOK, Finish, Continue, Unlock, At, disk, Fault, NoFault
<1>2. /\ pc'[p] = "idle" /\ op'[p] = NoOp
      /\ \A q \in Procs \ {p} : pc'[q] = pc[q] /\ op'[q] = op[q]
  BY DEF IInv, TypeOK, Finish, Continue
<1>3. Claim("idle", NoOp, installed)
  BY DEF Claim, NoOp
<1>4. QED
  BY <1>1, <1>2, <1>3 DEF IInv, disk

-----------------------------------------------------------------------------
(* The commands begin *)

\* A command that starts claims nothing yet.
LEMMA StartInvariant ==
    ASSUME IInv, NEW p \in Procs, Start(p)
    PROVE  IInv'
<1>1. ASSUME NEW label \in {"fetch", "readlink", "lock"}, NEW work \in Ops,
             label = "lock" => work.command # "init",
             work.previous = None,
             Begin(p, label, work)
      PROVE  IInv'
  <2>1. Claim(label, work, installed)
    BY <1>1 DEF Claim
  <2>2. seen' \in [Procs -> SUBSET (Snapshots \cup {None})] /\ faults' \in 0..MaxFaults
    BY <1>1 DEF Begin, IInv, TypeOK
  <2>3. label \in Labels \ {"idle"}
    BY DEF Labels
  <2>4. /\ Continue(p, label, work)
        /\ UNCHANGED <<remote, holds, installed, edited, current, receipt>>
    BY <1>1 DEF Begin, disk
  <2>5. /\ installed \subseteq Snapshots \ Invalid /\ current \in installed \cup {None}
        /\ receipt \in [release: Nat, edited: BOOLEAN]
    BY DEF IInv, TypeOK
  <2>6. Claim(label, work, installed')
    BY <2>1, <2>4
  <2>7. QED
    BY <2>2, <2>3, <2>4, <2>5, <2>6, Moves
<1>2. CASE InitBegin(p)
  <2> DEFINE work == [NoOp EXCEPT !.command = "init"]
             dry(d) == [work EXCEPT !.dryRun = d]
             fornax(d) == [work EXCEPT !.dryRun = d, !.center = "fornax"]
  <2>1. \A d \in BOOLEAN : /\ {work, dry(d), fornax(d)} \subseteq Ops
                           /\ \A w \in {work, dry(d), fornax(d)} : w.previous = None
    <3>0. NoOp \in Ops /\ NoOp.previous = None
      BY Constants DEF NoOp
    <3>1. work \in Ops /\ work.previous = None
      BY <3>0 DEF Ops
    <3>2. \A d \in BOOLEAN : dry(d) \in Ops /\ dry(d).previous = None
      BY <3>1 DEF Ops
    <3>3. "fornax" \in Centers
      BY DEF Centers
    <3>4. \A d \in BOOLEAN : fornax(d) \in Ops /\ fornax(d).previous = None
      BY <3>1, <3>3 DEF Ops
    <3> HIDE DEF work, dry, fornax
    <3>5. QED
      BY <3>1, <3>2, <3>4
  <2>2. \/ Begin(p, "readlink", work)
        \/ \E d \in BOOLEAN : Begin(p, "fetch", dry(d)) \/ Begin(p, "readlink", fornax(d))
    BY <1>2 DEF InitBegin
  <2>3. QED
    BY <1>1, <2>1, <2>2
<1>3. ASSUME NEW command \in {"sync", "install", "read", "drift", "rebind"},
             NEW center \in Centers,
             \/ Begin(p, "lock", [NoOp EXCEPT !.command = command, !.center = center])
             \/ Begin(p, "lock", [NoOp EXCEPT !.command = command])
      PROVE  IInv'
  <2>1. \A w \in {[NoOp EXCEPT !.command = command, !.center = center],
                  [NoOp EXCEPT !.command = command]} :
            w \in Ops /\ w.command # "init" /\ w.previous = None
    <3>1. NoOp \in Ops /\ NoOp.previous = None
      BY Constants DEF NoOp
    <3>2. QED
      BY <3>1 DEF Ops
  <2>2. QED
    BY <1>1, <1>3, <2>1
<1>4. "git" \in Centers
  BY DEF Centers
<1>5. QED
  BY <1>2, <1>3, <1>4
  DEF Start, SyncBegin, InstallBegin, ReadBegin, DriftBegin, RebindBegin

-----------------------------------------------------------------------------
(* What every command does under the lock *)

\* Taking the lock keeps what was validated before the wait.
LEMMA LockBindingInvariant ==
    ASSUME IInv, NEW p \in Procs, LockBinding(p)
    PROVE  IInv'
<1> DEFINE label == AfterLock(op[p])
           work == [op[p] EXCEPT
                       !.previous = IF Mode(op[p].command) = "exclusive" THEN current ELSE None,
                       !.floor = IF op[p].command \in {"sync", "drift"}
                                 THEN remote[op[p].center] ELSE 0]
<1>1. op[p] \in Ops /\ current \in Snapshots \cup {None}
  BY DEF IInv, TypeOK
<1>2. op[p].center \in Centers /\ remote[op[p].center] \in Nat
  BY <1>1, ConfigurationAssumption DEF IInv, TypeOK, Ops
<1>3. work \in Ops
  BY <1>1, <1>2 DEF Ops
<1>4. label \in Labels \ {"idle", "activate", "lock"}
  BY DEF AfterLock, Labels
<1>5. label = "publish" => op[p].command = "init" /\ op[p].center # "fornax"
  BY DEF AfterLock
<1>6. work.snapshot = op[p].snapshot /\ work.previous \in {current, None}
  BY <1>1 DEF Ops
<1>7. Claim(label, work, installed)
  BY <1>2, <1>4, <1>5, <1>6 DEF LockBinding, At, Claim, IInv, Centers
<1>8. \E mode \in Modes : holds' = [holds EXCEPT ![p] = mode]
  BY DEF LockBinding, Lock, Mode, Modes
<1>9. QED
  BY <1>3, <1>4, <1>7, <1>8, QuietMoves DEF LockBinding, NoFault

\* What is published was validated, so every published snapshot is valid.
LEMMA PublishInvariant ==
    ASSUME IInv, NEW p \in Procs, Publish(p)
    PROVE  IInv'
<1>1. op[p] \in Ops /\ op[p].snapshot \in Snapshots \ Invalid
  BY DEF IInv, TypeOK, Publish, Claim, At
<1>2. faults' \in 0..MaxFaults
  BY ConfigurationAssumption DEF IInv, TypeOK, Publish, Fault, NoFault
<1>3. CASE UNCHANGED installed /\ Fail(p)
  BY <1>3, QuietFail DEF Publish, disk
<1>4. CASE /\ installed' = installed \cup {op[p].snapshot}
           /\ Continue(p, AfterPublish(op[p]), op[p])
           /\ UNCHANGED holds
  <2>1. AfterPublish(op[p]) \in Labels \ {"idle"} /\ AfterPublish(op[p]) \in {"verify", "activate"}
    BY DEF AfterPublish, Labels
  <2>2. Claim(AfterPublish(op[p]), op[p], installed')
    BY <1>4, <2>1 DEF Claim, IInv
  <2>3. /\ installed' \subseteq Snapshots \ Invalid
        /\ current' \in installed' \cup {None}
    BY <1>1, <1>4 DEF IInv, TypeOK, Publish
  <2>4. QED
    BY <1>1, <1>2, <1>4, <2>1, <2>2, <2>3, Moves DEF Publish, IInv, TypeOK
<1>5. QED
  BY <1>3, <1>4 DEF Publish

\* What is bound is published, hence valid.
LEMMA ActivateInvariant ==
    ASSUME IInv, NEW p \in Procs, Activate(p)
    PROVE  IInv'
<1>1. op[p] \in Ops /\ op[p].snapshot \in installed
  BY DEF IInv, TypeOK, Activate, Claim, At
<1>2. faults' \in 0..MaxFaults
  BY ConfigurationAssumption DEF IInv, TypeOK, Activate, Fault, NoFault
<1>3. CASE KeepBinding /\ Fail(p)
  BY <1>3, QuietFail DEF Activate, disk, KeepBinding
<1>4. CASE /\ Rebind(op[p].snapshot)
           /\ Continue(p, AfterActivate(op[p]), op[p])
           /\ UNCHANGED holds
  <2>1. AfterActivate(op[p]) \in Labels \ {"idle", "lock", "publish", "activate"}
    BY DEF AfterActivate, Labels, Ends
  <2>2. Claim(AfterActivate(op[p]), op[p], installed)
    BY <2>1 DEF Claim, IInv
  <2>3. seen' \in [Procs -> SUBSET (Snapshots \cup {None})]
    BY <1>1, <1>4 DEF Rebind, IInv, TypeOK
  <2>4. QED
    BY <1>1, <1>2, <1>4, <2>1, <2>2, <2>3, Moves DEF Activate, Rebind, IInv, TypeOK
<1>5. QED
  BY <1>3, <1>4 DEF Activate

-----------------------------------------------------------------------------
(* The steps that read, and those that fetch *)

\* A label at which nothing is claimed but the snapshot to restore.
Neutral == Labels \ {"idle", "lock", "publish", "activate"}

\* A move between labels that claim no more than the previous binding keeps IInv.
LEMMA NeutralMoves ==
    ASSUME IInv, NEW p \in Procs, NEW label \in Neutral, NEW work \in Ops,
           Continue(p, label, work), work.previous = op[p].previous,
           UNCHANGED holds \/ Unlock(p),
           UNCHANGED <<remote, disk, seen>>, Fault \/ NoFault
    PROVE  IInv'
<1>1. Claim(label, work, installed)
  BY DEF Claim, IInv, Neutral
<1>2. QED
  BY <1>1, QuietMoves DEF Neutral, Unlock, Modes

\* A sync ends with the commit that is active or goes on to fetch; it claims nothing yet.
LEMMA SyncProbeInvariant ==
    ASSUME IInv, NEW p \in Procs, SyncProbe(p)
    PROVE  IInv'
<1>1. op[p] \in Ops /\ <<"git", remote.git>> \in Snapshots
  BY Constants DEF IInv, TypeOK, Centers
<1>2. CASE Fail(p) /\ Fault
  BY <1>2, QuietFail DEF SyncProbe
<1>3. {"return", "fetch"} \subseteq Neutral
  BY DEF Neutral, Labels, Ends
<1>4. CASE NoFault /\ UNCHANGED holds
           /\ Continue(p, "return", [op[p] EXCEPT !.snapshot = <<"git", remote.git>>])
  <2> DEFINE work == [op[p] EXCEPT !.snapshot = <<"git", remote.git>>]
  <2>1. work \in Ops /\ work.previous = op[p].previous
    BY <1>1 DEF Ops
  <2>2. QED
    BY <1>3, <1>4, <2>1, NeutralMoves DEF SyncProbe
<1>5. CASE NoFault /\ UNCHANGED holds /\ Continue(p, "fetch", op[p])
  BY <1>1, <1>3, <1>5, NeutralMoves DEF SyncProbe
<1>6. QED
  BY <1>2, <1>4, <1>5 DEF SyncProbe

\* What is fetched was validated, and an init claims that while it waits for the lock.
LEMMA FetchInvariant ==
    ASSUME IInv, NEW p \in Procs, Fetch(p)
    PROVE  IInv'
<1> DEFINE candidate == <<"git", remote.git>>
           fetched == [op[p] EXCEPT !.snapshot = candidate]
           offline == [op[p] EXCEPT !.dryRun = FALSE]
<1>1. op[p] \in Ops /\ candidate \in Snapshots
  BY Constants DEF IInv, TypeOK, Centers
<1>2. CASE Fail(p)
  BY <1>2, QuietFail DEF Fetch
<1>3. CASE /\ Fetched(candidate)
           /\ Continue(p, AfterFetch(op[p]), fetched)
           /\ UNCHANGED holds
           /\ NoFault
  <2>1. /\ fetched \in Ops /\ fetched.snapshot = candidate
        /\ fetched.previous = op[p].previous
    BY <1>1 DEF Ops
  <2>2. AfterFetch(op[p]) \in Labels \ {"idle", "activate"}
    BY DEF AfterFetch, Labels, Ends
  <2>3. Claim(AfterFetch(op[p]), fetched, installed)
    BY <1>1, <1>3, <2>1, <2>2 DEF Claim, IInv, Fetched
  <2>4. QED
    BY <1>3, <2>1, <2>2, <2>3, QuietMoves DEF Fetch
<1>4. CASE Continue(p, "readlink", offline) /\ UNCHANGED holds /\ Fault
  <2>1. offline \in Ops /\ offline.previous = op[p].previous
    BY <1>1 DEF Ops
  <2>2. "readlink" \in Neutral
    BY DEF Neutral, Labels
  <2>3. QED
    BY <1>4, <2>1, <2>2, NeutralMoves DEF Fetch
<1>5. QED
  BY <1>2, <1>3, <1>4 DEF Fetch

\* A release that is discovered and to be published was validated.
LEMMA DiscoverInvariant ==
    ASSUME IInv, NEW p \in Procs, Discover(p)
    PROVE  IInv'
<1> DEFINE candidate == <<"fornax", remote.fornax>>
           work == [op[p] EXCEPT !.snapshot = candidate]
<1>1. op[p] \in Ops /\ candidate \in Snapshots
  BY Constants DEF IInv, TypeOK, Centers
<1>2. /\ work \in Ops /\ work.snapshot = candidate
      /\ work.previous = op[p].previous
  BY <1>1 DEF Ops
<1>3. CASE Fail(p)
  BY <1>3, QuietFail DEF Discover
<1>4. CASE AfterFornaxSync(p, work) /\ NoFault
  <2>1. {"return", "relink"} \subseteq Neutral
    BY DEF Neutral, Labels, Ends
  <2>2. QED
    BY <1>2, <1>4, <2>1, NeutralMoves DEF Discover, AfterFornaxSync
<1>5. CASE Fetched(candidate) /\ Continue(p, "publish", work) /\ UNCHANGED holds /\ NoFault
  <2>1. Claim("publish", work, installed)
    BY <1>1, <1>2, <1>5 DEF Claim, IInv, Fetched
  <2>2. "publish" \in Labels \ {"idle"}
    BY DEF Labels
  <2>3. QED
    BY <1>2, <1>5, <2>1, <2>2, QuietMoves DEF Discover
<1>6. QED
  BY <1>3, <1>4, <1>5 DEF Discover

\* A commit that an installation imports was validated.
LEMMA SelectInvariant ==
    ASSUME IInv, NEW p \in Procs, SelectConfiguration(p)
    PROVE  IInv'
<1>1. op[p] \in Ops /\ current \in Snapshots \cup {None}
  BY DEF IInv, TypeOK
<1>2. CASE Fail(p)
  BY <1>2, QuietFail DEF SelectConfiguration, NoFault
<1>3. ASSUME NEW version \in 1..remote.git, Fetched(<<"git", version>>), UNCHANGED holds,
             Continue(p, "publish", [op[p] EXCEPT !.snapshot = <<"git", version>>])
      PROVE  IInv'
  <2> DEFINE work == [op[p] EXCEPT !.snapshot = <<"git", version>>]
  <2>1. version \in 1..Newest["git"]
    BY ConfigurationAssumption DEF IInv, TypeOK, Centers
  <2>2. <<"git", version>> \in Snapshots
    BY <2>1, Constants
  <2>3. /\ work \in Ops /\ work.snapshot = <<"git", version>>
        /\ work.previous = op[p].previous
    BY <1>1, <2>2 DEF Ops
  <2>4. Claim("publish", work, installed)
    BY <1>3, <2>2, <2>3 DEF Claim, IInv, Fetched
  <2>5. "publish" \in Labels \ {"idle"}
    BY DEF Labels
  <2>6. QED
    BY <1>3, <2>3, <2>4, <2>5, QuietMoves DEF SelectConfiguration, NoFault
<1>4. CASE /\ Continue(p, IF current = None THEN "release" ELSE "verify",
                       [op[p] EXCEPT !.snapshot = current])
           /\ UNCHANGED holds
  <2> DEFINE work == [op[p] EXCEPT !.snapshot = current]
  <2>1. work \in Ops /\ work.previous = op[p].previous
    BY <1>1 DEF Ops
  <2>2. {"release", "verify"} \subseteq Neutral
    BY DEF Neutral, Labels
  <2>3. QED
    BY <1>4, <2>1, <2>2, NeutralMoves DEF SelectConfiguration, NoFault
<1>5. QED
  BY <1>2, <1>3, <1>4 DEF SelectConfiguration

-----------------------------------------------------------------------------
(* The steps that put the binding back *)

\* What a command found under the lock is still there: nothing is unpublished.
LEMMA Restored ==
    ASSUME IInv, NEW p \in Procs, NEW orRemove \in BOOLEAN,
           Restore(op[p].previous, orRemove)
    PROVE  /\ current' \in installed \cup {None}
           /\ seen' \in [Procs -> SUBSET (Snapshots \cup {None})]
<1>1. op[p].previous \in installed \cup {None}
  BY DEF IInv, Claim
<1>2. installed \subseteq Snapshots /\ current \in installed \cup {None}
  BY DEF IInv, TypeOK
<1>3. seen \in [Procs -> SUBSET (Snapshots \cup {None})]
  BY DEF IInv, TypeOK
<1>4. CASE Rebind(op[p].previous)
  BY <1>1, <1>2, <1>3, <1>4 DEF Rebind
<1>5. CASE KeepBinding
  BY <1>2, <1>3, <1>5 DEF KeepBinding
<1>6. QED
  BY <1>4, <1>5 DEF Restore

\* A restore puts back a binding that was claimed, or removes the link.
LEMMA RestoredFail ==
    ASSUME IInv, NEW p \in Procs, NEW orRemove \in BOOLEAN,
           Restore(op[p].previous, orRemove), Fail(p), Fault,
           UNCHANGED <<remote, installed, edited, receipt>>
    PROVE  IInv'
<1>1. /\ current' \in installed \cup {None}
      /\ seen' \in [Procs -> SUBSET (Snapshots \cup {None})]
  BY Restored
<1>2. Claim("failed", op[p], installed) /\ op[p] \in Ops
  BY DEF IInv, TypeOK, Claim
<1>3. installed \subseteq Snapshots \ Invalid
  BY DEF IInv, TypeOK
<1>4. faults' \in 0..MaxFaults /\ receipt' \in [release: Nat, edited: BOOLEAN]
  BY ConfigurationAssumption DEF IInv, TypeOK, Fault
<1>5. QED
  BY <1>1, <1>2, <1>3, <1>4, Constants, Moves DEF Fail

\* The receipt is written or the binding restored; both bind a published snapshot.
LEMMA CommitReceiptInvariant ==
    ASSUME IInv, NEW p \in Procs, CommitReceipt(p)
    PROVE  IInv'
<1> DEFINE written == [release |-> op[p].snapshot[2], edited |-> op[p].snapshot \in edited]
<1>1. CASE Restore(op[p].previous, FALSE) /\ Fail(p) /\ Fault /\ UNCHANGED receipt
  BY <1>1, RestoredFail DEF CommitReceipt
<1>2. CASE receipt' = written /\ AfterFornaxSync(p, op[p]) /\ KeepBinding /\ NoFault
  <2>1. op[p] \in Ops
    BY DEF IInv, TypeOK
  <2>2. \A label \in {"relink", "return"} :
            label \in Labels \ {"idle"} /\ Claim(label, op[p], installed)
    BY DEF IInv, Claim, Labels, Ends
  <2>3. written \in [release: Nat, edited: BOOLEAN]
    <3>1. op[p].snapshot \in Snapshots \cup {None}
      BY <2>1 DEF Ops
    <3>2. op[p].snapshot[2] \in Nat
      BY <3>1, ConfigurationAssumption DEF Snapshots, Centers, None
    <3>3. QED
      BY <3>2
  <2>4. PICK label \in {"relink", "return"} :
            /\ Continue(p, label, op[p])
            /\ UNCHANGED holds \/ Unlock(p)
    BY <1>2 DEF AfterFornaxSync
  <2>5. UNCHANGED holds \/ \E mode \in Modes : holds' = [holds EXCEPT ![p] = mode]
    BY <2>4 DEF Unlock, Modes
  <2>6. /\ installed \subseteq Snapshots \ Invalid /\ current' \in installed \cup {None}
        /\ seen' \in [Procs -> SUBSET (Snapshots \cup {None})]
        /\ faults' \in 0..MaxFaults
    BY <1>2 DEF IInv, TypeOK, KeepBinding, NoFault
  <2>7. /\ UNCHANGED <<remote, installed, edited>>
        /\ receipt' \in [release: Nat, edited: BOOLEAN]
    BY <1>2, <2>3 DEF CommitReceipt
  <2>8. QED
    BY <2>1, <2>2, <2>4, <2>5, <2>6, <2>7, Moves
<1>3. QED
  BY <1>1, <1>2 DEF CommitReceipt

\* A release that cannot be switched puts back a binding that was published.
LEMMA SwitchReleaseInvariant ==
    ASSUME IInv, NEW p \in Procs, SwitchRelease(p)
    PROVE  IInv'
<1>1. CASE Restore(op[p].previous, TRUE) /\ Fail(p) /\ Fault
  BY <1>1, RestoredFail DEF SwitchRelease
<1>2. CASE Continue(p, "return", op[p]) /\ UNCHANGED holds /\ KeepBinding /\ NoFault
  <2>1. "return" \in Neutral /\ op[p] \in Ops
    BY DEF Neutral, Labels, Ends, IInv, TypeOK
  <2>2. QED
    BY <1>2, <2>1, NeutralMoves DEF SwitchRelease, KeepBinding, disk
<1>3. QED
  BY <1>1, <1>2 DEF SwitchRelease

-----------------------------------------------------------------------------
(* The steps of the readers *)

\* Reading config/current claims nothing.
LEMMA ReadLinkInvariant ==
    ASSUME IInv, NEW p \in Procs, ReadLink(p)
    PROVE  IInv'
<1>1. op[p] \in Ops /\ current \in Snapshots \cup {None}
  BY DEF IInv, TypeOK
<1>2. CASE \E target \in InstalledTargets :
               Continue(p, "share", [op[p] EXCEPT !.snapshot = target, !.dryRun = FALSE])
  <2>1. PICK target \in InstalledTargets :
            Continue(p, "share", [op[p] EXCEPT !.snapshot = target, !.dryRun = FALSE])
    BY <1>2
  <2> DEFINE work == [op[p] EXCEPT !.snapshot = target, !.dryRun = FALSE]
  <2>2. target \in Snapshots \cup {None}
    BY <1>1 DEF InstalledTargets
  <2>3. work \in Ops /\ work.previous = op[p].previous
    BY <1>1, <2>2 DEF Ops
  <2>4. "share" \in Neutral
    BY DEF Neutral, Labels
  <2>5. QED
    BY <2>1, <2>3, <2>4, NeutralMoves DEF ReadLink, NoFault
<1>3. CASE op[p].center = "fornax" /\ Continue(p, "lock", op[p])
  <2>1. Claim("lock", op[p], installed)
    BY <1>3 DEF Claim, IInv
  <2>2. "lock" \in Labels \ {"idle"}
    BY DEF Labels
  <2>3. QED
    BY <1>1, <1>3, <2>1, <2>2, QuietMoves DEF ReadLink, NoFault
<1>4. CASE Continue(p, "failed", op[p])
  BY <1>4, QuietFail DEF ReadLink, Fail, NoFault
<1>5. QED
  BY <1>2, <1>3, <1>4 DEF ReadLink

\* Nor does taking the lock shared.
LEMMA ShareBindingInvariant ==
    ASSUME IInv, NEW p \in Procs, ShareBinding(p)
    PROVE  IInv'
<1>1. op[p] \in Ops /\ "verify" \in Labels \ {"idle"}
  BY DEF IInv, TypeOK, Labels
<1>2. Claim("verify", op[p], installed)
  BY DEF Claim, IInv
<1>3. \E mode \in Modes : holds' = [holds EXCEPT ![p] = mode]
  BY DEF ShareBinding, Lock, Modes
<1>4. QED
  BY <1>1, <1>2, <1>3, QuietMoves DEF ShareBinding, NoFault

\* What is opened is what config/current names, so it is published.
LEMMA OpenInvariant ==
    ASSUME IInv, NEW p \in Procs, Open(p)
    PROVE  IInv'
<1>1. op[p] \in Ops /\ installed \cup {current} \subseteq Snapshots \cup {None}
  BY DEF IInv, TypeOK
<1>2. CASE Fail(p)
  BY <1>2, QuietFail DEF Open, NoFault
<1>3. ASSUME NEW target \in installed \cup {current}, UNCHANGED holds,
             Continue(p, "verify", [op[p] EXCEPT !.snapshot = target])
      PROVE  IInv'
  <2> DEFINE work == [op[p] EXCEPT !.snapshot = target]
  <2>1. work \in Ops /\ work.previous = op[p].previous
    BY <1>1 DEF Ops
  <2>2. "verify" \in Neutral
    BY DEF Neutral, Labels
  <2>3. QED
    BY <1>3, <2>1, <2>2, NeutralMoves DEF Open, NoFault
<1>4. QED
  BY <1>2, <1>3 DEF Open

\* An installation activates what it opened, which is published.
LEMMA VerifyInvariant ==
    ASSUME IInv, NEW p \in Procs, Verify(p)
    PROVE  IInv'
<1> DEFINE label == IF op[p].command = "install" THEN "activate" ELSE "consume"
<1>1. op[p] \in Ops
  BY DEF IInv, TypeOK
<1>2. CASE Fail(p)
  BY <1>2, QuietFail DEF Verify, NoFault
<1>3. CASE Readable(op[p].snapshot) /\ Continue(p, label, op[p]) /\ UNCHANGED holds
  <2>1. label \in Labels \ {"idle"}
    BY DEF Labels, Ends
  <2>2. Claim(label, op[p], installed)
    BY <1>3 DEF Claim, IInv, Readable
  <2>3. QED
    BY <1>1, <1>3, <2>1, <2>2, QuietMoves DEF Verify, NoFault
<1>4. QED
  BY <1>2, <1>3 DEF Verify

\* The probe of a drift reads the center only.
LEMMA DriftProbeInvariant ==
    ASSUME IInv, NEW p \in Procs, DriftProbe(p)
    PROVE  IInv'
<1> DEFINE work == [op[p] EXCEPT !.snapshot = <<"git", remote.git>>]
<1>1. op[p] \in Ops /\ <<"git", remote.git>> \in Snapshots
  BY Constants DEF IInv, TypeOK, Centers
<1>2. work \in Ops /\ work.previous = op[p].previous
  BY <1>1 DEF Ops
<1>3. "compare" \in Neutral
  BY DEF Neutral, Labels
<1>4. CASE Fail(p) /\ NoFault
  BY <1>4, QuietFail DEF DriftProbe
<1>5. CASE Continue(p, "compare", work) /\ UNCHANGED holds /\ NoFault
  BY <1>2, <1>3, <1>5, NeutralMoves DEF DriftProbe
<1>6. CASE Continue(p, "compare", op[p]) /\ UNCHANGED holds /\ Fault
  BY <1>1, <1>3, <1>6, NeutralMoves DEF DriftProbe
<1>7. QED
  BY <1>4, <1>5, <1>6 DEF DriftProbe

\* The comparison answers and changes nothing.
LEMMA CompareInvariant ==
    ASSUME IInv, NEW p \in Procs, Compare(p)
    PROVE  IInv'
<1>1. op[p] \in Ops
  BY DEF IInv, TypeOK
<1>2. DriftStatus(op[p].snapshot) \in DriftStatuses
  BY DEF DriftStatus, DriftStatuses
<1>3. DriftStatus(op[p].snapshot) \in Neutral
  BY <1>2 DEF Neutral, Labels, Ends, DriftStatuses
<1>4. QED
  BY <1>1, <1>3, NeutralMoves DEF Compare, NoFault

-----------------------------------------------------------------------------
(* Every step *)

\* Every step of a command keeps IInv.
LEMMA StepInvariant ==
    ASSUME IInv, NEW p \in Procs, Step(p)
    PROVE  IInv'
<1>1. CASE End(p)
  BY <1>1, Finished DEF End, NoFault
<1>2. QED
  BY <1>1, LockBindingInvariant, SyncProbeInvariant, FetchInvariant, PublishInvariant,
     ActivateInvariant, DiscoverInvariant, CommitReceiptInvariant, SelectInvariant,
     SwitchReleaseInvariant, ReadLinkInvariant, ShareBindingInvariant, OpenInvariant,
     VerifyInvariant, DriftProbeInvariant, CompareInvariant
  DEF Step

\* New versions of a center and edits by hand keep IInv.
LEMMA WorldInvariant ==
    ASSUME IInv, World
    PROVE  IInv'
<1>1. ASSUME NEW center \in Centers, PublishVersion(center)
      PROVE  IInv'
  <2>1. DOMAIN remote' = Centers /\ \A c \in Centers : remote'[c] \in 1..Newest[c]
    <3>1. /\ DOMAIN remote = Centers /\ \A c \in Centers : remote[c] \in 1..Newest[c]
          /\ remote[center] < Newest[center]
          /\ remote' = [remote EXCEPT ![center] = remote[center] + 1]
      BY <1>1 DEF PublishVersion, IInv, TypeOK
    <3>2. \A c \in Centers : remote[c] \in Nat /\ remote[c] > 0 /\ Newest[c] \in Nat
      <4>1. TAKE c \in Centers
      <4>2. Newest[c] \in Nat
        BY ConfigurationAssumption
      <4>3. remote[c] \in 1..Newest[c]
        BY <3>1
      <4>4. QED
        BY <4>2, <4>3
    <3>3. DOMAIN remote' = Centers
      BY <3>1
    <3>4. \A c \in Centers : remote'[c] = IF c = center THEN remote[c] + 1 ELSE remote[c]
      BY <3>1
    <3>5. \A c \in Centers : remote'[c] \in 1..Newest[c]
      BY <3>1, <3>2, <3>4
    <3>6. QED
      BY <3>3, <3>5
  <2>2. QED
    BY <1>1, <2>1 DEF PublishVersion, disk, IInv, TypeOK, At
<1>2. ASSUME NEW snapshot \in installed, EditByHand(snapshot)
      PROVE  IInv'
  BY <1>2, ConfigurationAssumption DEF EditByHand, IInv, TypeOK, At, Fault
<1>3. QED
  BY <1>1, <1>2 DEF World

\* IInv is inductive.
LEMMA NextInvariant == IInv /\ [Next]_vars => IInv'
<1> SUFFICES ASSUME IInv, [Next]_vars
             PROVE  IInv'
  OBVIOUS
<1>1. ASSUME NEW p \in Procs, Kill(p)
      PROVE  IInv'
  BY <1>1, Finished DEF Kill
<1>2. CASE UNCHANGED vars
  BY <1>2 DEF vars, disk, IInv, TypeOK, At
<1>3. QED
  BY <1>1, <1>2, StartInvariant, StepInvariant, WorldInvariant DEF Next

\* Every variable keeps its type, and a command that has returned or was
\* killed holds no lock, whatever fails (LockConfiguration and its deferred
\* unlock).
THEOREM ConfigurationTypes == Spec => []TypeOK
<1>1. IInv => TypeOK
  BY DEF IInv
<1>2. QED
  BY <1>1, InitInvariant, NextInvariant, PTL DEF Spec

\* config/current always links to a published snapshot whose packages
\* validated, through every interleaving of commands, failures and kills
\* (publish, Activate and the restores after it).
THEOREM BindingIsValid == Spec => []CurrentIsValid
<1>1. IInv => CurrentIsValid
  BY DEF IInv, CurrentIsValid
<1>2. QED
  BY <1>1, InitInvariant, NextInvariant, PTL DEF Spec

-----------------------------------------------------------------------------
(***************************************************************************)
(* The binding under the lock.  Whoever holds it exclusively is alone with *)
(* config/current, so what a process found there is there still; and what  *)
(* it has fetched is not newer than the center, which never goes back.     *)
(***************************************************************************)

Exclusion ==
    \A p, q \in Procs : p # q /\ holds[p] = "exclusive" => holds[q] = "none"

Reached(snapshot, newest) == snapshot # None => snapshot[2] <= newest[snapshot[1]]

\* How a command holds the lock at a label, and which command it is.
Holding(label, work, mode) ==
    /\ work.command \in {"drift", "install"} => work.center = "git"
    /\ label = "lock" => work.command # "none"
    /\ label \in {"lock", "readlink", "relink", "share"} => mode = "none"
    /\ label \in {"readlink", "relink", "share"} => work.command = "init"
    /\ label \in {"publish", "activate", "discover", "receipt", "select", "release", "return"} =>
          mode = "exclusive" /\ work.command \in {"init", "sync", "install"}
    /\ label = "fetch" => /\ work.command \in {"init", "sync"} /\ work.center = "git"
                          /\ mode = IF work.command = "sync" THEN "exclusive" ELSE "none"
    /\ label = "probe" => /\ work.command \in {"sync", "drift"} /\ work.center = "git"
                          /\ mode = IF work.command = "sync" THEN "exclusive" ELSE "shared"
    /\ label = "discover" => work.center = "fornax"
    /\ label = "receipt" => work.center = "fornax" /\ work.command # "install"
    /\ label \in {"select", "release"} => work.command = "install"
    /\ label = "open" => mode = "shared" /\ work.command \in {"read", "rebind"}
    /\ label = "verify" => /\ work.command \in {"init", "install", "read", "rebind"}
                           /\ mode = IF work.command = "install" THEN "exclusive" ELSE "shared"
    /\ label \in {"lock", "probe"} /\ work.command = "drift" => work.snapshot = None
    /\ label \in {"compare"} \cup DriftStatuses =>
          mode = "shared" /\ work.command = "drift"
    /\ label = "consume" => /\ work.command \in {"init", "read", "rebind"}
                            /\ mode = "exclusive" => work.command = "init"
                            /\ work.command # "init" => mode = "shared"

\* What config/current is, to a process that holds the lock.
Bound(label, work, mode, binding) ==
    /\ /\ label \in {"probe", "fetch", "publish", "activate", "discover", "select", "verify"}
       /\ mode = "exclusive"
       => binding = work.previous
    /\ label = "receipt" => binding = work.snapshot
    /\ label = "failed" /\ mode = "exclusive" =>
          binding = work.previous \/ (work.previous = None /\ work.center = "fornax")
    /\ label = "return" /\ work.command = "sync" => binding = work.snapshot
    /\ label = "verify" /\ work.command = "read" => binding = work.snapshot
    /\ label = "consume" /\ (work.command = "read" \/ mode = "exclusive") =>
          binding = work.snapshot
    /\ label = "in_sync" => binding = work.snapshot

\* How old it is.  A sync works on a version of its center from after the lock.
Recent(label, work, binding, newest) ==
    /\ work.floor <= newest[work.center]
    /\ Reached(work.snapshot, newest)
    /\ \/ label \in {"publish", "activate", "receipt", "return"} /\ work.command = "sync"
       \/ label = "in_sync"
       \/ label = "compare" /\ work.snapshot # None
       => work.snapshot # None /\ work.snapshot[1] = work.center /\ work.floor <= work.snapshot[2]
    /\ /\ label \in {"probe", "fetch", "publish", "activate", "discover"}
       /\ work.command = "sync" /\ binding # None /\ binding[1] = work.center
       => binding[2] <= work.floor

\* What an init has seen.
Witnessed(label, work, mode, binding, past) ==
    work.command = "init" =>
        /\ binding \in past
        /\ label \in {"share", "verify"} \/ (label = "consume" /\ mode # "none") =>
              work.snapshot \in past

Knows(label, work, mode, binding, newest, past) ==
    /\ Holding(label, work, mode)
    /\ Bound(label, work, mode, binding)
    /\ Recent(label, work, binding, newest)
    /\ Witnessed(label, work, mode, binding, past)

BInv ==
    /\ Exclusion
    /\ \A snapshot \in installed : Reached(snapshot, remote)
    /\ \A p \in Procs : Knows(pc[p], op[p], holds[p], current, remote, seen[p])

Invariants == IInv /\ BInv

\* An idle process claims nothing.
LEMMA IdleKnows ==
    ASSUME IInv, NEW binding \in Snapshots \cup {None}, NEW newest,
           \A center \in Centers : newest[center] \in Nat, NEW past
    PROVE  Knows("idle", NoOp, "none", binding, newest, past)
BY DEF Knows, Holding, Bound, Recent, Witnessed, Reached, NoOp, None, DriftStatuses, Centers

\* The steps of the others leave a process what it knows: the center never
\* goes back, and whoever moves the binding holds the lock alone.
LEMMA OthersKeep ==
    ASSUME Invariants, IInv', NEW q \in Procs,
           \A center \in Centers : remote[center] <= remote'[center],
           current' = current \/ holds[q] = "none",
           op[q].command = "init" => seen[q] \cup {current'} \subseteq seen'[q]
    PROVE  Knows(pc[q], op[q], holds[q], current', remote', seen'[q])
<1> DEFINE label == pc[q]
           work == op[q]
           mode == holds[q]
<1>1. /\ work \in Ops /\ label \in Labels
      /\ Knows(label, work, mode, current, remote, seen[q])
  BY DEF Invariants, IInv, BInv, TypeOK
<1>2. \A c \in Centers : remote[c] \in Nat /\ remote'[c] \in Nat
  BY ConfigurationAssumption DEF Invariants, IInv, TypeOK
<1>3. /\ work.floor \in Nat /\ work.center \in Centers
      /\ work.snapshot # None => work.snapshot[1] \in Centers /\ work.snapshot[2] \in Nat
  BY <1>1, ConfigurationAssumption DEF Ops, Snapshots, Centers
<1>4. Holding(label, work, mode) BY <1>1 DEF Knows
<1> HIDE DEF label, work, mode
<1>5. Bound(label, work, mode, current')
  <2>1. CASE current' = current BY <1>1, <2>1 DEF Knows
  <2>2. CASE mode = "none" BY <1>4, <2>2 DEF Bound, Holding, DriftStatuses
  <2> QED BY <2>1, <2>2 DEF mode
<1>6. Recent(label, work, current', remote')
  <2>1. work.floor <= remote'[work.center] BY <1>1, <1>2, <1>3 DEF Knows, Recent
  <2>2. Reached(work.snapshot, remote') BY <1>1, <1>2, <1>3 DEF Knows, Recent, Reached
  <2>3. CASE current' = current BY <1>1, <2>1, <2>2, <2>3 DEF Knows, Recent
  <2>4. CASE mode = "none"
    BY <1>1, <1>4, <2>1, <2>2, <2>4 DEF Knows, Recent, Holding, DriftStatuses
  <2> QED BY <2>3, <2>4 DEF mode
<1>7. Witnessed(label, work, mode, current', seen'[q])
  BY <1>1 DEF Knows, Witnessed, work
<1> QED BY <1>4, <1>5, <1>6, <1>7 DEF Knows, label, work, mode

\* A step of one process: what it has to show.
LEMMA Takes ==
    ASSUME Invariants, IInv', NEW p \in Procs, NEW label, NEW work, NEW mode \in Modes,
           Continue(p, label, work),
           holds' = [holds EXCEPT ![p] = mode],
           remote' = remote,
           current' = current \/ holds[p] = "exclusive",
           \A q \in Procs \ {p} :
              op[q].command = "init" => seen[q] \cup {current'} \subseteq seen'[q],
           mode = "exclusive" => \A q \in Procs \ {p} : holds[q] = "none",
           mode = "shared" => \A q \in Procs \ {p} : holds[q] # "exclusive",
           \A snapshot \in installed' : Reached(snapshot, remote),
           Knows(label, work, mode, current', remote, seen'[p])
    PROVE  Invariants'
<1>1. /\ pc'[p] = label /\ op'[p] = work /\ holds'[p] = mode
      /\ \A q \in Procs \ {p} : pc'[q] = pc[q] /\ op'[q] = op[q] /\ holds'[q] = holds[q]
  BY DEF Invariants, IInv, TypeOK, Continue
<1>2. Exclusion'
  BY <1>1 DEF Invariants, BInv, Exclusion, Modes
<1>3. \A center \in Centers : remote[center] <= remote'[center]
  BY ConfigurationAssumption DEF Invariants, IInv, TypeOK
<1>4. ASSUME NEW q \in Procs \ {p}
      PROVE  Knows(pc[q], op[q], holds[q], current', remote', seen'[q])
  BY <1>3, OthersKeep DEF Invariants, BInv, Exclusion
<1> QED BY <1>1, <1>2, <1>4 DEF Invariants, BInv

\* Most keep the lock as it is, and the files.
LEMMA QuietTakes ==
    ASSUME Invariants, IInv', NEW p \in Procs, NEW label, NEW work,
           Continue(p, label, work),
           UNCHANGED <<remote, installed, current, holds, seen>>,
           Knows(label, work, holds[p], current, remote, seen[p])
    PROVE  Invariants'
<1>1. /\ holds[p] \in Modes /\ holds' = [holds EXCEPT ![p] = holds[p]]
      /\ \A q \in Procs : holds[q] \in Modes
  BY DEF Invariants, IInv, TypeOK, Modes
<1>2. \A q \in Procs \ {p} :
          op[q].command = "init" => seen[q] \cup {current'} \subseteq seen'[q]
  BY DEF Invariants, BInv, Knows, Witnessed
<1>3. /\ holds[p] = "exclusive" => \A q \in Procs \ {p} : holds[q] = "none"
      /\ holds[p] = "shared" => \A q \in Procs \ {p} : holds[q] # "exclusive"
  BY DEF Invariants, BInv, Exclusion
<1>4. \A snapshot \in installed' : Reached(snapshot, remote)
  BY DEF Invariants, BInv
<1>5. Knows(label, work, holds[p], current', remote, seen'[p]) OBVIOUS
<1> QED BY <1>1, <1>2, <1>3, <1>4, <1>5, Takes

\* What BInv says of one process.
LEMMA Here ==
    ASSUME Invariants, NEW p \in Procs
    PROVE  /\ op[p] \in Ops /\ holds[p] \in Modes /\ current \in Snapshots \cup {None}
           /\ Knows(pc[p], op[p], holds[p], current, remote, seen[p])
           /\ op[p].center \in Centers
           /\ \A center \in Centers : remote[center] \in Nat
BY ConfigurationAssumption DEF Invariants, IInv, BInv, TypeOK, Modes, Ops

\* A command that fails leaves the binding alone, in this step.
LEMMA FailTakes ==
    ASSUME Invariants, IInv', NEW p \in Procs, Fail(p),
           UNCHANGED <<remote, installed, current, seen>>,
           holds[p] = "exclusive" =>
              pc[p] \in {"probe", "fetch", "publish", "activate", "discover", "select", "verify"}
    PROVE  Invariants'
<1>1. Knows(pc[p], op[p], holds[p], current, remote, seen[p]) BY Here
<1>2. Knows("failed", op[p], holds[p], current, remote, seen[p])
  BY <1>1 DEF Knows, Holding, Bound, Recent, Witnessed, DriftStatuses
<1> QED BY <1>2, QuietTakes DEF Fail

\* A command that ends knows nothing more and releases its lock.
LEMMA FinishTakes ==
    ASSUME Invariants, IInv', NEW p \in Procs, Finish(p), UNCHANGED <<remote, disk>>
    PROVE  Invariants'
<1>1. Knows("idle", NoOp, "none", current, remote, seen'[p])
  BY Here, IdleKnows DEF Invariants
<1>2. \A q \in Procs \ {p} :
          op[q].command = "init" => seen[q] \cup {current'} \subseteq seen'[q]
  BY Here DEF Finish, Invariants, IInv, TypeOK, Knows, Witnessed, disk
<1>3. \A snapshot \in installed' : Reached(snapshot, remote)
  BY DEF Invariants, BInv, disk
<1> QED
  BY <1>1, <1>2, <1>3, Takes DEF Finish, Unlock, disk, Modes

-----------------------------------------------------------------------------
(* The same, command by command *)

\* A command that starts holds no lock and knows nothing.
LEMMA StartTakes ==
    ASSUME Invariants, IInv', NEW p \in Procs, Start(p)
    PROVE  Invariants'
<1>1. ASSUME NEW label, NEW work,
             work.floor = 0, work.snapshot = None, work.center \in Centers,
             work.command \in {"drift", "install"} => work.center = "git",
             \/ work.command = "init" /\ label = "readlink"
             \/ work.command = "init" /\ label = "fetch" /\ work.center = "git"
             \/ work.command \notin {"none", "init"} /\ label = "lock",
             Begin(p, label, work)
      PROVE  Invariants'
  <2>1. holds[p] = "none" /\ UNCHANGED <<remote, disk, holds>>
    BY <1>1 DEF Begin, Invariants, IInv, TypeOK
  <2>2. seen'[p] = IF work.command = "init" THEN {current} ELSE {}
    BY <1>1 DEF Begin, Invariants, IInv, TypeOK
  <2>3. Knows(label, work, "none", current, remote, seen'[p])
    BY <1>1, <2>2, Here DEF Knows, Holding, Bound, Recent, Witnessed, Reached, DriftStatuses
  <2>4. \A q \in Procs \ {p} :
            op[q].command = "init" => seen[q] \cup {current'} \subseteq seen'[q]
    BY <1>1, <2>1, Here DEF Begin, Invariants, IInv, TypeOK, Knows, Witnessed, disk
  <2>5. holds' = [holds EXCEPT ![p] = "none"]
    BY <2>1 DEF Invariants, IInv, TypeOK
  <2>6. Continue(p, label, work) BY <1>1 DEF Begin
  <2>7. \A snapshot \in installed' : Reached(snapshot, remote)
    BY <2>1 DEF Invariants, BInv, disk
  <2>8. current' = current /\ remote' = remote BY <2>1 DEF disk
  <2> QED BY <2>3, <2>4, <2>5, <2>6, <2>7, <2>8, Takes DEF Modes
<1>2. CASE InitBegin(p)
  <2> DEFINE work == [NoOp EXCEPT !.command = "init"]
             dry(d) == [work EXCEPT !.dryRun = d]
             fornax(d) == [work EXCEPT !.dryRun = d, !.center = "fornax"]
  <2>1. \/ Begin(p, "readlink", work)
        \/ \E d \in BOOLEAN : Begin(p, "fetch", dry(d)) \/ Begin(p, "readlink", fornax(d))
    BY <1>2 DEF InitBegin
  <2>2. \A d \in BOOLEAN :
            /\ dry(d).center = "git"
            /\ \A w \in {work, dry(d), fornax(d)} :
                  /\ w.floor = 0 /\ w.snapshot = None
                  /\ w.center \in Centers /\ w.command = "init"
    BY DEF NoOp, Centers
  <2>3. CASE Begin(p, "readlink", work)
    <3>1. /\ work.floor = 0 /\ work.snapshot = None
          /\ work.center \in Centers /\ work.command = "init"
      BY DEF NoOp, Centers
    <3> HIDE DEF work
    <3> QED BY <1>1, <2>3, <3>1
  <2> HIDE DEF work, dry, fornax
  <2>4. ASSUME NEW d \in BOOLEAN, Begin(p, "fetch", dry(d)) \/ Begin(p, "readlink", fornax(d))
        PROVE  Invariants'
    BY <1>1, <2>2, <2>4
  <2> QED BY <2>1, <2>3, <2>4
<1>3. ASSUME NEW command \in {"install", "read", "drift", "rebind"}, NEW work,
             work = [NoOp EXCEPT !.command = command], Begin(p, "lock", work)
      PROVE  Invariants'
  <2>1. /\ work.floor = 0 /\ work.snapshot = None /\ work.center = "git"
        /\ work.command = command
    BY <1>3 DEF NoOp
  <2> QED BY <1>1, <1>3, <2>1 DEF Centers
<1>4. ASSUME NEW center \in Centers, NEW work,
             work = [NoOp EXCEPT !.command = "sync", !.center = center], Begin(p, "lock", work)
      PROVE  Invariants'
  <2>1. /\ work.floor = 0 /\ work.snapshot = None /\ work.center = center
        /\ work.command = "sync"
    BY <1>4 DEF NoOp
  <2> QED BY <1>1, <1>4, <2>1
<1> QED
  BY <1>2, <1>3, <1>4
  DEF Start, SyncBegin, InstallBegin, ReadBegin, DriftBegin, RebindBegin

\* Who takes the lock exclusively is alone from here on; the floor is the center as it is.
LEMMA LockTakes ==
    ASSUME Invariants, IInv', NEW p \in Procs, LockBinding(p)
    PROVE  Invariants'
<1> DEFINE label == AfterLock(op[p])
           mode == Mode(op[p].command)
           previous == IF mode = "exclusive" THEN current ELSE None
           floor == IF op[p].command \in {"sync", "drift"} THEN remote[op[p].center] ELSE 0
           work == [op[p] EXCEPT !.previous = previous, !.floor = floor]
<1>1. /\ op[p] \in Ops /\ op[p].center \in Centers /\ remote[op[p].center] \in Nat
      /\ Knows("lock", op[p], holds[p], current, remote, seen[p])
  BY Here DEF LockBinding, At
<1>2. /\ work.command = op[p].command /\ work.center = op[p].center
      /\ work.snapshot = op[p].snapshot /\ work.previous = previous /\ work.floor = floor
  BY <1>1 DEF Ops
<1>3. /\ op[p].command \in {"drift", "install"} => op[p].center = "git"
      /\ op[p].command \in {"init", "sync", "install", "read", "drift", "rebind"}
  BY <1>1 DEF Knows, Holding, Ops
<1>4. mode = IF op[p].command \in {"init", "sync", "install"} THEN "exclusive" ELSE "shared"
  BY DEF Mode
<1>5. label = IF op[p].command = "init"
                   THEN IF op[p].center = "fornax" THEN "discover" ELSE "publish"
              ELSE IF op[p].command = "sync"
                   THEN IF op[p].center = "fornax" THEN "discover" ELSE "probe"
              ELSE IF op[p].command = "drift" THEN "probe"
              ELSE IF op[p].command = "install" THEN "select"
              ELSE "open"
  BY <1>3 DEF AfterLock
<1>6. current # None => current[1] \in Centers /\ current[2] <= remote[current[1]]
  <2>1. current # None => current \in installed /\ current \in Snapshots
    BY DEF Invariants, IInv, TypeOK
  <2>2. \A s \in Snapshots : s[1] \in Centers BY DEF Snapshots
  <2> QED BY <2>1, <2>2 DEF Invariants, BInv, Reached
<1>7. Continue(p, label, work) /\ UNCHANGED <<remote, disk, seen>>
  BY DEF LockBinding, Mode
<1>8. /\ holds' = [holds EXCEPT ![p] = mode]
      /\ \A q \in Procs \ {p} : holds[q] = "none" \/ (mode = "shared" /\ holds[q] = "shared")
  BY DEF LockBinding, Lock
<1>9. Holding(label, work, mode)
  <2> HIDE DEF label, mode, work
  <2> QED BY <1>1, <1>2, <1>3, <1>4, <1>5 DEF Knows, Holding, DriftStatuses, Centers
<1>10. Bound(label, work, mode, current)
  <2>1. mode = "exclusive" => work.previous = current BY <1>2
  <2>2. label \in {"discover", "publish", "probe", "select", "open"} BY <1>5
  <2> HIDE DEF label, mode, work
  <2> QED BY <2>1, <2>2 DEF Bound, DriftStatuses
<1>11. Recent(label, work, current, remote)
  <2>1. floor \in Nat /\ floor <= remote[work.center] BY <1>1, <1>2
  <2>2. op[p].command = "sync" => floor = remote[work.center] /\ label # "publish"
    BY <1>2, <1>5
  <2>3. label \in {"discover", "publish", "probe", "select", "open"} BY <1>5
  <2> HIDE DEF label, floor, work
  <2> QED BY <1>1, <1>2, <1>6, <2>1, <2>2, <2>3 DEF Knows, Recent
<1>12. Witnessed(label, work, mode, current, seen[p])
  <2>1. label \in {"discover", "publish", "probe", "select", "open"} BY <1>5
  <2> HIDE DEF label, mode, work
  <2> QED BY <1>1, <1>2, <2>1 DEF Knows, Witnessed
<1>13. \A q \in Procs \ {p} :
           op[q].command = "init" => seen[q] \cup {current} \subseteq seen[q]
  BY DEF Invariants, BInv, Knows, Witnessed
<1> HIDE DEF label, mode, work
<1>14. Knows(label, work, mode, current, remote, seen[p])
  BY <1>9, <1>10, <1>11, <1>12 DEF Knows
<1>15. mode \in Modes BY <1>4 DEF Modes
<1>16. \A snapshot \in installed' : Reached(snapshot, remote)
  BY <1>7 DEF Invariants, BInv, disk
<1> QED BY <1>7, <1>8, <1>13, <1>14, <1>15, <1>16, Takes DEF disk

\* What is fetched from a center is its newest version.
LEMMA Candidates ==
    ASSUME Invariants, NEW center \in Centers
    PROVE  /\ <<center, remote[center]>> # None
           /\ <<center, remote[center]>>[1] = center
           /\ <<center, remote[center]>>[2] = remote[center]
           /\ Reached(<<center, remote[center]>>, remote)
           /\ center \in {"git", "fornax"}
<1>1. remote[center] \in Nat
  BY ConfigurationAssumption DEF Invariants, IInv, TypeOK
<1> QED BY <1>1 DEF None, Centers, Reached

\* A sync that finds its commit active answers with the binding.
LEMMA SyncProbeTakes ==
    ASSUME Invariants, IInv', NEW p \in Procs, SyncProbe(p)
    PROVE  Invariants'
<1> DEFINE head == <<"git", remote.git>>
           work == [op[p] EXCEPT !.snapshot = head]
<1>1. Knows("probe", op[p], holds[p], current, remote, seen[p]) /\ op[p] \in Ops
  BY Here DEF SyncProbe, At
<1>2. op[p].command = "sync" /\ op[p].center = "git" /\ holds[p] = "exclusive"
  BY <1>1 DEF SyncProbe, Knows, Holding
<1>3. CASE Fail(p)
  BY <1>3, FailTakes DEF SyncProbe, disk, At
<1>4. CASE IsActive(head) /\ Continue(p, "return", work) /\ UNCHANGED holds
  <2>1. /\ work.snapshot = head /\ work.command = "sync" /\ work.center = "git"
        /\ work.floor = op[p].floor
    BY <1>1, <1>2 DEF Ops
  <2>2. /\ head # None /\ head[1] = "git" /\ head[2] = remote["git"] /\ Reached(head, remote)
    BY Candidates DEF Centers
  <2>3. current = head BY <1>4 DEF IsActive
  <2> HIDE DEF work, head
  <2>4. Knows("return", work, holds[p], current, remote, seen[p])
    BY <1>1, <1>2, <2>1, <2>2, <2>3
    DEF Knows, Holding, Bound, Recent, Witnessed, DriftStatuses
  <2> QED BY <1>4, <2>4, QuietTakes DEF SyncProbe, disk
<1>5. CASE Continue(p, "fetch", op[p]) /\ UNCHANGED holds
  <2>1. Knows("fetch", op[p], holds[p], current, remote, seen[p])
    BY <1>1, <1>2 DEF Knows, Holding, Bound, Recent, Witnessed, DriftStatuses
  <2> QED BY <1>5, <2>1, QuietTakes DEF SyncProbe, disk
<1> QED BY <1>3, <1>4, <1>5 DEF SyncProbe

\* What is fetched under the lock is at least as new as the floor.
LEMMA FetchTakes ==
    ASSUME Invariants, IInv', NEW p \in Procs, Fetch(p)
    PROVE  Invariants'
<1> DEFINE candidate == <<"git", remote.git>>
           work == [op[p] EXCEPT !.snapshot = candidate]
           offline == [op[p] EXCEPT !.dryRun = FALSE]
           label == AfterFetch(op[p])
<1>1. Knows("fetch", op[p], holds[p], current, remote, seen[p]) /\ op[p] \in Ops
  BY Here DEF Fetch, At
<1>2. /\ op[p].command \in {"init", "sync"} /\ op[p].center = "git"
      /\ holds[p] = IF op[p].command = "sync" THEN "exclusive" ELSE "none"
  BY <1>1 DEF Knows, Holding
<1>3. CASE Fail(p)
  BY <1>3, FailTakes DEF Fetch, disk, At
<1>4. CASE Continue(p, label, work) /\ UNCHANGED holds
  <2>1. /\ work.snapshot = candidate /\ work.command = op[p].command /\ work.center = "git"
        /\ work.floor = op[p].floor /\ work.previous = op[p].previous
    BY <1>1, <1>2 DEF Ops
  <2>2. /\ candidate # None /\ candidate[1] = "git" /\ candidate[2] = remote["git"]
        /\ Reached(candidate, remote)
    BY Candidates DEF Centers
  <2>3. IF work.command = "sync" THEN label = "publish" ELSE label \in {"consume", "lock"}
    BY <2>1 DEF AfterFetch
  <2> HIDE DEF work, candidate, label
  <2>4. Knows(label, work, holds[p], current, remote, seen[p])
    BY <1>1, <1>2, <2>1, <2>2, <2>3
    DEF Knows, Holding, Bound, Recent, Witnessed, DriftStatuses
  <2> QED BY <1>4, <2>4, QuietTakes DEF Fetch, disk
<1>5. CASE Continue(p, "readlink", offline) /\ UNCHANGED holds /\ op[p].command = "init"
  <2>1. /\ offline.snapshot = op[p].snapshot /\ offline.command = op[p].command
        /\ offline.center = "git" /\ offline.floor = op[p].floor
        /\ offline.previous = op[p].previous
    BY <1>1, <1>2 DEF Ops
  <2> HIDE DEF offline
  <2>2. Knows("readlink", offline, holds[p], current, remote, seen[p])
    BY <1>1, <1>2, <1>5, <2>1
    DEF Knows, Holding, Bound, Recent, Witnessed, DriftStatuses
  <2> QED BY <1>5, <2>2, QuietTakes DEF Fetch, disk
<1> QED BY <1>3, <1>4, <1>5 DEF Fetch

\* Publishing keeps what is known of the binding and of the version fetched.
LEMMA PublishTakes ==
    ASSUME Invariants, IInv', NEW p \in Procs, Publish(p)
    PROVE  Invariants'
<1> DEFINE label == AfterPublish(op[p])
<1>1. Knows("publish", op[p], holds[p], current, remote, seen[p]) /\ op[p] \in Ops
  BY Here DEF Publish, At
<1>2. holds[p] = "exclusive" /\ op[p].command \in {"init", "sync", "install"}
  BY <1>1 DEF Knows, Holding
<1>3. CASE Fail(p) /\ UNCHANGED installed
  BY <1>3, FailTakes DEF Publish, At
<1>4. CASE /\ installed' = installed \cup {op[p].snapshot}
           /\ Continue(p, label, op[p]) /\ UNCHANGED holds
  <2>1. label = IF op[p].command = "install" THEN "verify" ELSE "activate"
    BY DEF AfterPublish
  <2>2. op[p].snapshot # None
    BY Constants DEF Invariants, IInv, Claim, Publish, At
  <2> HIDE DEF label
  <2>3. Knows(label, op[p], holds[p], current, remote, seen[p])
    BY <1>1, <1>2, <2>1 DEF Knows, Holding, Bound, Recent, Witnessed, DriftStatuses
  <2>4. \A snapshot \in installed' : Reached(snapshot, remote)
    BY <1>1, <1>4 DEF Invariants, BInv, Knows, Recent
  <2>5. /\ holds' = [holds EXCEPT ![p] = "exclusive"]
        /\ \A q \in Procs \ {p} : holds[q] = "none"
    BY <1>2, <1>4 DEF Invariants, IInv, TypeOK, BInv, Exclusion
  <2>6. \A q \in Procs \ {p} :
            op[q].command = "init" => seen[q] \cup {current} \subseteq seen[q]
    BY DEF Invariants, BInv, Knows, Witnessed
  <2> QED
    BY <1>2, <1>4, <2>3, <2>4, <2>5, <2>6, Takes DEF Publish, Modes
<1> QED BY <1>3, <1>4 DEF Publish

\* Whoever moves the binding holds the lock, and tells every init of it.
LEMMA RebindTakes ==
    ASSUME Invariants, IInv', NEW p \in Procs, NEW label, NEW snapshot,
           holds[p] = "exclusive", Rebind(snapshot),
           Continue(p, label, op[p]),
           UNCHANGED <<remote, installed, holds>>,
           Knows(label, op[p], "exclusive", snapshot, remote, seen'[p])
    PROVE  Invariants'
<1>1. current' = snapshot BY DEF Rebind
<1>2. \A q \in Procs \ {p} :
          op[q].command = "init" => seen[q] \cup {current'} \subseteq seen'[q]
  BY DEF Rebind
<1>3. /\ holds' = [holds EXCEPT ![p] = "exclusive"]
      /\ \A q \in Procs \ {p} : holds[q] = "none"
  BY DEF Invariants, IInv, TypeOK, BInv, Exclusion
<1>4. \A s \in installed' : Reached(s, remote) BY DEF Invariants, BInv
<1> QED BY <1>1, <1>2, <1>3, <1>4, Takes DEF Modes

\* The only process that holds the lock binds the version it has fetched.
LEMMA ActivateTakes ==
    ASSUME Invariants, IInv', NEW p \in Procs, Activate(p)
    PROVE  Invariants'
<1> DEFINE label == AfterActivate(op[p])
<1>1. Knows("activate", op[p], holds[p], current, remote, seen[p]) /\ op[p] \in Ops
  BY Here DEF Activate, At
<1>2. holds[p] = "exclusive" /\ op[p].command \in {"init", "sync", "install"}
  BY <1>1 DEF Knows, Holding
<1>3. CASE KeepBinding /\ Fail(p)
  BY <1>3, FailTakes DEF Activate, KeepBinding, At
<1>4. CASE /\ Rebind(op[p].snapshot) /\ Continue(p, label, op[p]) /\ UNCHANGED holds
  <2>1. op[p].command = "init" => seen'[p] = seen[p] \cup {op[p].snapshot}
    BY <1>4 DEF Rebind
  <2>2. label = IF op[p].center = "fornax" THEN "receipt"
                ELSE IF op[p].command = "install" THEN "release"
                ELSE IF op[p].command = "sync" THEN "return" ELSE "consume"
    BY DEF AfterActivate
  <2>3. op[p].command = "install" => op[p].center = "git"
    BY <1>1 DEF Knows, Holding
  <2> HIDE DEF label
  <2>4. Knows(label, op[p], "exclusive", op[p].snapshot, remote, seen'[p])
    BY <1>1, <1>2, <2>1, <2>2, <2>3
    DEF Knows, Holding, Bound, Recent, Witnessed, DriftStatuses
  <2> QED BY <1>2, <1>4, <2>4, RebindTakes DEF Activate
<1> QED BY <1>3, <1>4 DEF Activate

\* A release discovered under the lock is at least as new as the floor.
LEMMA DiscoverTakes ==
    ASSUME Invariants, IInv', NEW p \in Procs, Discover(p)
    PROVE  Invariants'
<1> DEFINE candidate == <<"fornax", remote.fornax>>
           work == [op[p] EXCEPT !.snapshot = candidate]
<1>1. Knows("discover", op[p], holds[p], current, remote, seen[p]) /\ op[p] \in Ops
  BY Here DEF Discover, At
<1>2. /\ op[p].command \in {"init", "sync", "install"} /\ op[p].center = "fornax"
      /\ holds[p] = "exclusive"
  BY <1>1 DEF Knows, Holding
<1>3. /\ work.snapshot = candidate /\ work.command = op[p].command /\ work.center = "fornax"
      /\ work.floor = op[p].floor /\ work.previous = op[p].previous
  BY <1>1, <1>2 DEF Ops
<1>4. /\ candidate # None /\ candidate[1] = "fornax" /\ candidate[2] = remote["fornax"]
      /\ Reached(candidate, remote)
  BY Candidates DEF Centers
<1>5. CASE Fail(p)
  BY <1>5, FailTakes DEF Discover, disk, At
<1>6. CASE AlreadyCurrent(remote.fornax) /\ AfterFornaxSync(p, work)
  <2>1. current = candidate BY <1>6 DEF AlreadyCurrent
  <2> HIDE DEF work, candidate
  <2>2. CASE op[p].command = "init"
    <3>1. Knows("relink", work, "none", current, remote, seen[p])
      BY <1>1, <1>2, <1>3, <1>4, <2>2
      DEF Knows, Holding, Bound, Recent, Witnessed, DriftStatuses
    <3>2. Continue(p, "relink", work) /\ Unlock(p)
      BY <1>3, <1>6, <2>2 DEF AfterFornaxSync
    <3>3. \A q \in Procs \ {p} :
              op[q].command = "init" => seen[q] \cup {current} \subseteq seen[q]
      BY DEF Invariants, BInv, Knows, Witnessed
    <3>4. \A snapshot \in installed' : Reached(snapshot, remote)
      BY DEF Invariants, BInv, Discover, disk
    <3> QED BY <3>1, <3>2, <3>3, <3>4, Takes DEF Discover, Unlock, disk, Modes
  <2>3. CASE op[p].command # "init"
    <3>1. Knows("return", work, holds[p], current, remote, seen[p])
      BY <1>1, <1>2, <1>3, <1>4, <2>1, <2>3
      DEF Knows, Holding, Bound, Recent, Witnessed, DriftStatuses
    <3> QED BY <1>3, <1>6, <2>3, <3>1, QuietTakes DEF Discover, AfterFornaxSync, disk
  <2> QED BY <2>2, <2>3
<1>7. CASE Continue(p, "publish", work) /\ UNCHANGED holds
  <2> HIDE DEF work, candidate
  <2>1. Knows("publish", work, holds[p], current, remote, seen[p])
    BY <1>1, <1>2, <1>3, <1>4
    DEF Knows, Holding, Bound, Recent, Witnessed, DriftStatuses
  <2> QED BY <1>7, <2>1, QuietTakes DEF Discover, disk
<1> QED BY <1>5, <1>6, <1>7 DEF Discover

\* A failed step after the activation puts the binding back.
LEMMA RestoreTakes ==
    ASSUME Invariants, IInv', NEW p \in Procs, NEW orRemove \in BOOLEAN,
           Restore(op[p].previous, orRemove), Fail(p),
           UNCHANGED <<remote, installed>>,
           holds[p] = "exclusive",
           ~orRemove => op[p].center = "fornax"
    PROVE  Invariants'
<1>1. Knows(pc[p], op[p], "exclusive", current, remote, seen[p]) /\ op[p] \in Ops
  BY Here
<1>2. CASE Rebind(op[p].previous)
  <2>1. op[p].command = "init" => seen'[p] = seen[p] \cup {op[p].previous}
    BY <1>2 DEF Rebind
  <2>2. Knows("failed", op[p], "exclusive", op[p].previous, remote, seen'[p])
    BY <1>1, <2>1 DEF Knows, Holding, Bound, Recent, Witnessed, DriftStatuses
  <2> QED BY <1>2, <2>2, RebindTakes DEF Fail
<1>3. CASE ~orRemove /\ op[p].previous = None /\ KeepBinding
  <2>1. Knows("failed", op[p], "exclusive", current, remote, seen[p])
    BY <1>1, <1>3 DEF Knows, Holding, Bound, Recent, Witnessed, DriftStatuses
  <2> QED BY <1>3, <2>1, QuietTakes DEF Fail, KeepBinding
<1> QED BY <1>2, <1>3 DEF Restore

\* With the receipt the command goes on with the new binding, without it the old one is back.
LEMMA CommitReceiptTakes ==
    ASSUME Invariants, IInv', NEW p \in Procs, CommitReceipt(p)
    PROVE  Invariants'
<1>1. Knows("receipt", op[p], holds[p], current, remote, seen[p]) /\ op[p] \in Ops
  BY Here DEF CommitReceipt, At
<1>2. /\ op[p].command \in {"init", "sync"} /\ op[p].center = "fornax"
      /\ holds[p] = "exclusive"
  BY <1>1 DEF Knows, Holding
<1>3. CASE Restore(op[p].previous, FALSE) /\ Fail(p)
  BY <1>2, <1>3, RestoreTakes DEF CommitReceipt
<1>4. CASE AfterFornaxSync(p, op[p]) /\ KeepBinding
  <2>1. CASE op[p].command = "init"
    <3>1. Knows("relink", op[p], "none", current, remote, seen[p])
      BY <1>1, <1>2, <2>1 DEF Knows, Holding, Bound, Recent, Witnessed, DriftStatuses
    <3>2. Continue(p, "relink", op[p]) /\ Unlock(p)
      BY <1>4, <2>1 DEF AfterFornaxSync
    <3>3. \A q \in Procs \ {p} :
              op[q].command = "init" => seen[q] \cup {current} \subseteq seen[q]
      BY DEF Invariants, BInv, Knows, Witnessed
    <3>4. \A snapshot \in installed' : Reached(snapshot, remote)
      BY DEF Invariants, BInv, CommitReceipt
    <3> QED
      BY <1>4, <3>1, <3>2, <3>3, <3>4, Takes DEF CommitReceipt, Unlock, KeepBinding, Modes
  <2>2. CASE op[p].command # "init"
    <3>1. Knows("return", op[p], holds[p], current, remote, seen[p])
      BY <1>1, <1>2, <2>2 DEF Knows, Holding, Bound, Recent, Witnessed, DriftStatuses
    <3> QED
      BY <1>4, <2>2, <3>1, QuietTakes DEF CommitReceipt, AfterFornaxSync, KeepBinding
  <2> QED BY <2>1, <2>2
<1> QED BY <1>3, <1>4 DEF CommitReceipt

\* An installation selects while it holds the binding.
LEMMA SelectTakes ==
    ASSUME Invariants, IInv', NEW p \in Procs, SelectConfiguration(p)
    PROVE  Invariants'
<1>1. Knows("select", op[p], holds[p], current, remote, seen[p]) /\ op[p] \in Ops
  BY Here DEF SelectConfiguration, At
<1>2. op[p].command = "install" /\ op[p].center = "git" /\ holds[p] = "exclusive"
  BY <1>1 DEF Knows, Holding
<1>3. CASE Fail(p)
  BY <1>3, FailTakes DEF SelectConfiguration, disk, At
<1>4. ASSUME NEW snapshot, snapshot = current \/ Reached(snapshot, remote),
             NEW label \in {"publish", "release", "verify"},
             NEW work, work = [op[p] EXCEPT !.snapshot = snapshot],
             Continue(p, label, work), UNCHANGED holds
      PROVE  Invariants'
  <2>1. /\ work.snapshot = snapshot /\ work.command = "install" /\ work.center = "git"
        /\ work.floor = op[p].floor /\ work.previous = op[p].previous
    BY <1>1, <1>2, <1>4 DEF Ops
  <2>2. Reached(current, remote)
    BY DEF Invariants, IInv, BInv, Reached
  <2>3. Knows(label, work, holds[p], current, remote, seen[p])
    BY <1>1, <1>2, <1>4, <2>1, <2>2
    DEF Knows, Holding, Bound, Recent, Witnessed, DriftStatuses
  <2> QED BY <1>4, <2>3, QuietTakes DEF SelectConfiguration, disk
<1>5. ASSUME NEW version \in 1..remote.git
      PROVE  Reached(<<"git", version>>, remote)
  <2>1. remote["git"] \in Nat BY Here DEF Centers
  <2> QED BY <2>1 DEF Reached
<1> QED BY <1>3, <1>4, <1>5 DEF SelectConfiguration

\* A release that cannot be switched puts the binding back as it was.
LEMMA SwitchReleaseTakes ==
    ASSUME Invariants, IInv', NEW p \in Procs, SwitchRelease(p)
    PROVE  Invariants'
<1>1. Knows("release", op[p], holds[p], current, remote, seen[p]) /\ op[p] \in Ops
  BY Here DEF SwitchRelease, At
<1>2. op[p].command = "install" /\ holds[p] = "exclusive"
  BY <1>1 DEF Knows, Holding
<1>3. CASE Restore(op[p].previous, TRUE) /\ Fail(p)
  BY <1>2, <1>3, RestoreTakes DEF SwitchRelease
<1>4. CASE Continue(p, "return", op[p]) /\ UNCHANGED holds /\ KeepBinding
  <2>1. Knows("return", op[p], holds[p], current, remote, seen[p])
    BY <1>1, <1>2 DEF Knows, Holding, Bound, Recent, Witnessed, DriftStatuses
  <2> QED BY <1>4, <2>1, QuietTakes DEF SwitchRelease, KeepBinding
<1> QED BY <1>3, <1>4 DEF SwitchRelease

-----------------------------------------------------------------------------
(* The readers *)

\* An init reads the link without a lock: it has seen that binding at one moment.
LEMMA ReadLinkTakes ==
    ASSUME Invariants, IInv', NEW p \in Procs, ReadLink(p)
    PROVE  Invariants'
<1>1. Knows(pc[p], op[p], holds[p], current, remote, seen[p]) /\ op[p] \in Ops
  BY Here
<1>2. pc[p] \in {"readlink", "relink"} /\ holds[p] = "none" /\ op[p].command = "init"
  BY <1>1 DEF ReadLink, Knows, Holding
<1>3. ASSUME NEW target \in InstalledTargets, NEW work,
             work = [op[p] EXCEPT !.snapshot = target, !.dryRun = FALSE],
             Continue(p, "share", work)
      PROVE  Invariants'
  <2>1. /\ work.snapshot = current /\ work.command = "init" /\ work.center = op[p].center
        /\ work.floor = op[p].floor /\ work.previous = op[p].previous
    BY <1>1, <1>2, <1>3 DEF Ops, InstalledTargets
  <2>2. Reached(current, remote)
    BY DEF Invariants, IInv, BInv, Reached
  <2>3. Knows("share", work, holds[p], current, remote, seen[p])
    BY <1>1, <1>2, <2>1, <2>2
    DEF Knows, Holding, Bound, Recent, Witnessed, DriftStatuses
  <2> QED BY <1>3, <2>3, QuietTakes DEF ReadLink, disk
<1>4. ASSUME NEW label \in {"lock", "failed"}, Continue(p, label, op[p])
      PROVE  Invariants'
  <2>1. Knows(label, op[p], holds[p], current, remote, seen[p])
    BY <1>1, <1>2 DEF Knows, Holding, Bound, Recent, Witnessed, DriftStatuses
  <2> QED BY <1>4, <2>1, QuietTakes DEF ReadLink, disk
<1> QED BY <1>3, <1>4 DEF ReadLink

\* Waiting for the shared lock, what was read stays what was seen.
LEMMA ShareTakes ==
    ASSUME Invariants, IInv', NEW p \in Procs, ShareBinding(p)
    PROVE  Invariants'
<1>1. Knows("share", op[p], holds[p], current, remote, seen[p]) /\ op[p] \in Ops
  BY Here DEF ShareBinding, At
<1>2. Knows("verify", op[p], "shared", current, remote, seen[p])
  BY <1>1 DEF Knows, Holding, Bound, Recent, Witnessed, DriftStatuses
<1>3. /\ holds' = [holds EXCEPT ![p] = "shared"]
      /\ \A q \in Procs \ {p} : holds[q] # "exclusive"
  BY DEF ShareBinding, Lock
<1>4. /\ \A q \in Procs \ {p} :
             op[q].command = "init" => seen[q] \cup {current} \subseteq seen[q]
      /\ \A snapshot \in installed' : Reached(snapshot, remote)
  BY DEF Invariants, BInv, Knows, Witnessed, ShareBinding, disk
<1> QED BY <1>2, <1>3, <1>4, Takes DEF ShareBinding, disk, Modes

\* What a reader opens under the lock is the binding.
LEMMA OpenTakes ==
    ASSUME Invariants, IInv', NEW p \in Procs, Open(p)
    PROVE  Invariants'
<1>1. Knows("open", op[p], holds[p], current, remote, seen[p]) /\ op[p] \in Ops
  BY Here DEF Open, At
<1>2. op[p].command \in {"read", "rebind"} /\ holds[p] = "shared"
  BY <1>1 DEF Knows, Holding
<1>3. CASE Fail(p)
  BY <1>2, <1>3, FailTakes DEF Open, disk
<1>4. ASSUME NEW target \in installed \cup {current},
             target = current \/ op[p].command = "rebind",
             NEW work, work = [op[p] EXCEPT !.snapshot = target],
             Continue(p, "verify", work), UNCHANGED holds
      PROVE  Invariants'
  <2>1. /\ work.snapshot = target /\ work.command = op[p].command
        /\ work.center = op[p].center
        /\ work.floor = op[p].floor /\ work.previous = op[p].previous
    BY <1>1, <1>4 DEF Ops
  <2>2. Reached(target, remote)
    BY <1>4 DEF Invariants, IInv, BInv, Reached
  <2>3. Knows("verify", work, holds[p], current, remote, seen[p])
    BY <1>1, <1>2, <1>4, <2>1, <2>2
    DEF Knows, Holding, Bound, Recent, Witnessed, DriftStatuses
  <2> QED BY <1>4, <2>3, QuietTakes DEF Open, disk
<1> QED BY <1>3, <1>4 DEF Open

\* What was verified under the lock is what is used.
LEMMA VerifyTakes ==
    ASSUME Invariants, IInv', NEW p \in Procs, Verify(p)
    PROVE  Invariants'
<1> DEFINE label == IF op[p].command = "install" THEN "activate" ELSE "consume"
<1>1. Knows("verify", op[p], holds[p], current, remote, seen[p]) /\ op[p] \in Ops
  BY Here DEF Verify, At
<1>2. CASE Fail(p)
  BY <1>1, <1>2, FailTakes DEF Verify, disk, At
<1>3. CASE Continue(p, label, op[p]) /\ UNCHANGED holds
  <2>1. Knows(label, op[p], holds[p], current, remote, seen[p])
    BY <1>1 DEF Knows, Holding, Bound, Recent, Witnessed, DriftStatuses
  <2> QED BY <1>3, <2>1, QuietTakes DEF Verify, disk
<1> QED BY <1>2, <1>3 DEF Verify

\* The commit that a drift asks for is at least as new as its center was at the lock.
LEMMA DriftProbeTakes ==
    ASSUME Invariants, IInv', NEW p \in Procs, DriftProbe(p)
    PROVE  Invariants'
<1> DEFINE head == <<"git", remote.git>>
           work == [op[p] EXCEPT !.snapshot = head]
<1>1. Knows("probe", op[p], holds[p], current, remote, seen[p]) /\ op[p] \in Ops
  BY Here DEF DriftProbe, At
<1>2. op[p].command = "drift" /\ op[p].center = "git" /\ holds[p] = "shared"
  BY <1>1 DEF DriftProbe, Knows, Holding
<1>3. CASE Fail(p)
  BY <1>2, <1>3, FailTakes DEF DriftProbe, disk
<1>4. CASE Continue(p, "compare", work) /\ UNCHANGED holds
  <2>1. /\ work.snapshot = head /\ work.command = "drift" /\ work.center = "git"
        /\ work.floor = op[p].floor
    BY <1>1, <1>2 DEF Ops
  <2>2. /\ head # None /\ head[1] = "git" /\ head[2] = remote["git"] /\ Reached(head, remote)
    BY Candidates DEF Centers
  <2> HIDE DEF work, head
  <2>3. Knows("compare", work, holds[p], current, remote, seen[p])
    BY <1>1, <1>2, <2>1, <2>2
    DEF Knows, Holding, Bound, Recent, Witnessed, DriftStatuses
  <2> QED BY <1>4, <2>3, QuietTakes DEF DriftProbe, disk
<1>5. CASE Continue(p, "compare", op[p]) /\ UNCHANGED holds
  <2>1. op[p].snapshot = None BY <1>1, <1>2 DEF Knows, Holding
  <2>2. Knows("compare", op[p], holds[p], current, remote, seen[p])
    BY <1>1, <1>2, <2>1 DEF Knows, Holding, Bound, Recent, Witnessed, DriftStatuses
  <2> QED BY <1>5, <2>2, QuietTakes DEF DriftProbe, disk
<1> QED BY <1>3, <1>4, <1>5 DEF DriftProbe

\* A drift that answers in_sync found the binding to be that commit.
LEMMA CompareTakes ==
    ASSUME Invariants, IInv', NEW p \in Procs, Compare(p)
    PROVE  Invariants'
<1> DEFINE label == DriftStatus(op[p].snapshot)
<1>1. Knows("compare", op[p], holds[p], current, remote, seen[p]) /\ op[p] \in Ops
  BY Here DEF Compare, At
<1>2. op[p].command = "drift" /\ op[p].center = "git" /\ holds[p] = "shared"
  BY <1>1 DEF Knows, Holding
<1>3. /\ label \in DriftStatuses
      /\ label = "in_sync" => op[p].snapshot # None /\ current = op[p].snapshot
  BY DEF DriftStatus, DriftStatuses
<1> HIDE DEF label
<1>4. Knows(label, op[p], holds[p], current, remote, seen[p])
  BY <1>1, <1>2, <1>3 DEF Knows, Holding, Bound, Recent, Witnessed, DriftStatuses
<1> QED BY <1>4, QuietTakes DEF Compare, disk, label

-----------------------------------------------------------------------------
(* Every step *)

\* What happens outside the commands takes no knowledge from them.
LEMMA WorldTakes ==
    ASSUME Invariants, IInv', World
    PROVE  Invariants'
<1>1. /\ UNCHANGED <<installed, current, holds, pc, op, seen>>
      /\ \A center \in Centers : remote[center] <= remote'[center]
  <2>1. \A center \in Centers : remote[center] \in Nat BY ConfigurationAssumption DEF Invariants, IInv, TypeOK
  <2>2. ASSUME NEW c \in Centers, PublishVersion(c)
        PROVE  /\ UNCHANGED <<installed, current, holds, pc, op, seen>>
               /\ \A center \in Centers : remote[center] <= remote'[center]
    BY <2>1, <2>2 DEF PublishVersion, disk, Invariants, IInv, TypeOK
  <2>3. ASSUME NEW snapshot \in installed, EditByHand(snapshot)
        PROVE  /\ UNCHANGED <<installed, current, holds, pc, op, seen>>
               /\ \A center \in Centers : remote[center] <= remote'[center]
    BY <2>1, <2>3 DEF EditByHand
  <2> QED BY <2>2, <2>3 DEF World
<1>2. ASSUME NEW q \in Procs
      PROVE  Knows(pc[q], op[q], holds[q], current', remote', seen'[q])
  <2>1. op[q].command = "init" => seen[q] \cup {current'} \subseteq seen'[q]
    BY <1>1, Here DEF Knows, Witnessed
  <2> QED BY <1>1, <2>1, OthersKeep
<1>3. \A s \in installed' : Reached(s, remote')
  <2>1. \A s \in Snapshots : s # None => s[1] \in Centers /\ s[2] \in Nat
    BY ConfigurationAssumption DEF Snapshots, Centers
  <2>2. \A center \in Centers : remote[center] \in Nat /\ remote'[center] \in Nat
    BY ConfigurationAssumption DEF Invariants, IInv, TypeOK
  <2>3. installed \subseteq Snapshots /\ \A s \in installed : Reached(s, remote)
    BY DEF Invariants, IInv, TypeOK, BInv
  <2> QED BY <1>1, <2>1, <2>2, <2>3 DEF Reached
<1>4. Exclusion' BY <1>1 DEF Exclusion, Invariants, BInv
<1>5. \A q \in Procs : Knows(pc'[q], op'[q], holds'[q], current', remote', seen'[q])
  BY <1>1, <1>2
<1> QED BY <1>3, <1>4, <1>5 DEF Invariants, BInv

\* All invariants together are inductive.
LEMMA InvariantsStep == Invariants /\ [Next]_vars => Invariants'
<1> SUFFICES ASSUME Invariants, [Next]_vars
             PROVE  Invariants'
  OBVIOUS
<1>1. IInv' BY NextInvariant DEF Invariants
<1>2. ASSUME NEW p \in Procs, Step(p)
      PROVE  Invariants'
  <2>1. CASE End(p) BY <1>1, <2>1, FinishTakes DEF End
  <2> QED
    BY <1>1, <1>2, <2>1, LockTakes, SyncProbeTakes, FetchTakes, PublishTakes, ActivateTakes,
       DiscoverTakes, CommitReceiptTakes, SelectTakes, SwitchReleaseTakes, ReadLinkTakes,
       ShareTakes, OpenTakes, VerifyTakes, DriftProbeTakes, CompareTakes
    DEF Step
<1>3. ASSUME NEW p \in Procs, Kill(p)
      PROVE  Invariants'
  BY <1>1, <1>3, FinishTakes DEF Kill
<1>4. CASE UNCHANGED vars
  BY <1>1, <1>4 DEF vars, Invariants, BInv, Exclusion
<1> QED BY <1>1, <1>2, <1>3, <1>4, StartTakes, WorldTakes DEF Next

\* They hold at the start.
LEMMA InvariantsInit == Init => Invariants
<1> SUFFICES ASSUME Init
             PROVE  Invariants
  OBVIOUS
<1>1. IInv BY InitInvariant
<1>2. \A p \in Procs : Knows(pc[p], op[p], holds[p], current, remote, seen[p])
  BY <1>1, ConfigurationAssumption, IdleKnows DEF Init
<1> QED BY <1>1, <1>2 DEF Init, Invariants, BInv, Exclusion

\* They hold always.
LEMMA Established == Spec => []Invariants
BY InvariantsInit, InvariantsStep, PTL DEF Spec

\* A command that reads the configuration, or has just activated it, uses what
\* config/current is as long as it holds the lock; and an init pins a snapshot
\* that was active while it ran (Prepare, PrepareCurrent, installedSnapshot).
THEOREM OneBindingHeld == Spec => []OneBinding
<1>1. Invariants => OneBinding
  BY DEF Invariants, BInv, Knows, Holding, Bound, Witnessed, OneBinding, At
<1> QED BY <1>1, Established, PTL

\* A sync that returns and a drift of in_sync speak of the active snapshot, and
\* of a version their center had when the lock was taken, or later.
THEOREM ReportsTrue == Spec => []ReportsTheActiveVersion
<1>1. Invariants => ReportsTheActiveVersion
  <2> SUFFICES ASSUME Invariants, NEW p \in Procs,
                      (At(p, "return") /\ op[p].command = "sync") \/ At(p, "in_sync")
               PROVE  /\ current = op[p].snapshot
                      /\ current[1] = op[p].center
                      /\ current[2] >= op[p].floor
    BY DEF ReportsTheActiveVersion
  <2>1. /\ current = op[p].snapshot /\ current[1] = op[p].center
        /\ op[p].floor <= current[2]
    BY DEF Invariants, BInv, Knows, Bound, Recent, At
  <2>2. op[p].floor \in Nat /\ current[2] \in Nat
    <3>1. current \in Snapshots \cup {None} /\ op[p] \in Ops BY Here
    <3> QED BY <3>1, ConfigurationAssumption DEF Snapshots, Centers, None, Ops
  <2> QED BY <2>1, <2>2
<1> QED BY <1>1, Established, PTL

\* A command that fails under the lock, at whatever step, has left or put back
\* the binding it found, but for a Fornax sync that found none, and if the
\* restore itself succeeds (Restore always does; the code ignores its error).
THEOREM FailureKeepsBinding == Spec => []FailureKeepsTheBinding
<1>1. Invariants => FailureKeepsTheBinding
  BY DEF Invariants, BInv, Knows, Bound, FailureKeepsTheBinding, At
<1> QED BY <1>1, Established, PTL

\* A step of one process moves no other.
LEMMA OneMoves ==
    ASSUME TypeOK, NEW q \in Procs, Start(q) \/ Step(q) \/ Kill(q), NEW p \in Procs \ {q}
    PROVE  pc'[p] = pc[p]
<1>1. ASSUME NEW label, NEW work, Continue(q, label, work)
      PROVE  pc'[p] = pc[p]
  BY <1>1 DEF Continue, TypeOK
<1>2. CASE Start(q)
  BY <1>1, <1>2
  DEF Start, InitBegin, SyncBegin, InstallBegin, ReadBegin, DriftBegin, RebindBegin, Begin
<1>3. ASSUME Fail(q) \/ Finish(q) \/ \E work : AfterFornaxSync(q, work)
      PROVE  pc'[p] = pc[p]
  BY <1>1, <1>3 DEF Fail, Finish, AfterFornaxSync
<1>4. CASE Step(q)
  <2>1. CASE LockBinding(q) \/ SyncProbe(q) \/ Fetch(q) \/ Publish(q) \/ Activate(q)
    BY <1>1, <1>3, <2>1 DEF LockBinding, SyncProbe, Fetch, Publish, Activate
  <2>2. CASE Discover(q) \/ CommitReceipt(q) \/ SelectConfiguration(q) \/ SwitchRelease(q)
    BY <1>1, <1>3, <2>2 DEF Discover, CommitReceipt, SelectConfiguration, SwitchRelease
  <2>3. CASE ReadLink(q) \/ ShareBinding(q) \/ Open(q) \/ Verify(q)
    BY <1>1, <1>3, <2>3 DEF ReadLink, ShareBinding, Open, Verify
  <2>4. CASE DriftProbe(q) \/ Compare(q) \/ End(q)
    BY <1>1, <1>3, <2>4 DEF DriftProbe, Compare, End
  <2> QED BY <1>4, <2>1, <2>2, <2>3, <2>4 DEF Step
<1>5. CASE Kill(q) BY <1>3, <1>5 DEF Kill
<1> QED BY <1>2, <1>4, <1>5

\* Whoever is about to activate, and moves on, has activated, failed or was killed.
LEMMA MovesOn ==
    ASSUME TypeOK, Next, NEW p \in Procs, At(p, "activate"), pc'[p] # "activate"
    PROVE  Activate(p) \/ Kill(p)
<1>1. CASE World BY <1>1 DEF World, PublishVersion, EditByHand, At
<1>2. ASSUME NEW q \in Procs \ {p}, Start(q) \/ Step(q) \/ Kill(q)
      PROVE  FALSE
  BY <1>2, OneMoves DEF At
<1>3. ~Start(p)
  BY DEF Start, InitBegin, SyncBegin, InstallBegin, ReadBegin, DriftBegin, RebindBegin, Begin, At
<1>4. Step(p) => Activate(p)
  BY DEF Step, LockBinding, SyncProbe, Fetch, Publish, Discover, CommitReceipt,
         SelectConfiguration, SwitchRelease, ReadLink, ShareBinding, Open, Verify,
         DriftProbe, Compare, End, Ends, DriftStatuses, At
<1> QED BY <1>1, <1>2, <1>3, <1>4 DEF Next

\* No sync activates an older version than the active one of its center.
THEOREM SyncGoesForward == Spec => SyncNeverGoesBack
<1> DEFINE Forward ==
      \A p \in Procs :
          /\ At(p, "activate") /\ pc'[p] # "activate"
          /\ op[p].command = "sync" /\ current # current'
          /\ current[1] = current'[1]
          => current[2] <= current'[2]
<1>1. Invariants /\ [Next]_vars => [Forward]_vars
  <2> SUFFICES ASSUME Invariants, Next, NEW p \in Procs,
                      At(p, "activate"), pc'[p] # "activate",
                      op[p].command = "sync", current # current', current[1] = current'[1]
               PROVE  current[2] <= current'[2]
    OBVIOUS
  <2>1. Knows("activate", op[p], holds[p], current, remote, seen[p]) /\ op[p] \in Ops
    BY Here DEF At
  <2>2. Activate(p) \/ Kill(p) BY MovesOn DEF Invariants, IInv
  <2>3. current' = op[p].snapshot
    BY <2>2 DEF Activate, KeepBinding, Rebind, Kill, disk
  <2>4. /\ current'[1] = op[p].center /\ op[p].floor <= current'[2]
        /\ current # None => current[2] <= op[p].floor
    BY <2>1, <2>3 DEF Knows, Recent
  <2>5. /\ op[p].floor \in Nat /\ current[2] \in Nat /\ op[p].snapshot[2] \in Nat
        /\ op[p].center \in Centers
    <3>1. current \in Snapshots \cup {None} /\ op[p].snapshot \in Snapshots \cup {None}
      BY <2>1, Here DEF Ops
    <3> QED BY <2>1, <3>1, ConfigurationAssumption DEF Snapshots, Centers, None, Ops
  <2>6. current # None BY <2>4, <2>5 DEF None, Centers
  <2> QED BY <2>3, <2>4, <2>5, <2>6
<1> QED BY <1>1, Established, PTL DEF Spec, SyncNeverGoesBack
=============================================================================
