---------------------------- MODULE MirrorProofs ----------------------------
(***************************************************************************)
(* For any processes, Skills, sources, packages, releases, page size and   *)
(* faults: the types, what a sync makes active and what it leaves, and     *)
(* what a drift says.                                                      *)
(***************************************************************************)
EXTENDS Mirror, FiniteSetTheorems, WellFoundedInduction, TLAPS

-----------------------------------------------------------------------------
(* The inductive invariant                                                 *)

Releases == [skill : Skills, version : Versions]

PackageClaims == [id : Ids, skill : Skills, version : Versions]

Reports == UNION {[ids -> Drifts] : ids \in SUBSET Ids}

Jobs ==
    [command : {"none", "sync", "check"}, source : Nat \ {0}, page : Nat \ {0}, total : Nat,
     seen : Nat, skills : SUBSET Skills, found : SUBSET Releases,
     claims : SUBSET PackageClaims, base : SUBSET PackageClaims, same : SUBSET Ids,
     report : Reports, status : SyncResults \cup Drifts \cup {"none"}]

Seen == [lists : SUBSET SUBSET Skills, latest : [Skills -> SUBSET SUBSET Versions]]

UsedTypes == [publishes : Nat, listings : Nat, edits : Nat, faults : Nat]

CenterTypes ==
    /\ listed \in SUBSET Skills
    /\ released \in [Skills -> SUBSET [version : Versions, at : Nat]]
    /\ \A k \in Skills : IsFiniteSet(released[k])
    /\ used \in UsedTypes

DiskTypes ==
    /\ installed \in SUBSET SUBSET PackageClaims
    /\ current \in SUBSET PackageClaims
    /\ receipt \in [discovered : SUBSET Releases, snapshot : SUBSET PackageClaims,
                    edits : SUBSET Ids]

ProcessTypes ==
    /\ lock \in Procs \cup {NoProc}
    /\ pc \in [Procs -> Labels] /\ job \in [Procs -> Jobs]
    /\ since \in [Procs -> Seen]

Types == CenterTypes /\ DiskTypes /\ ProcessTypes

\* One package to a Workflow.
Single(claims) == \A c, d \in claims : c.id = d.id => c = d

\* Of what was found, a snapshot can be made.
Chosen(found) == Claims(found) # {} /\ Selectable(Claims(found))

Whole(snapshot) == snapshot # NoSnapshot /\ IsFiniteSet(snapshot) /\ Single(snapshot)

Snapshots ==
    /\ \A s, t \in installed : Digest(s) = Digest(t) => s = t
    /\ \A s \in installed : Whole(s)
    /\ \A e \in edited : e[1] \in installed /\ e[2] \in IdsOf(e[1])
    /\ current \in installed \cup {NoSnapshot}
    /\ receipt.snapshot \in installed \cup {NoSnapshot}

\* The receipt is of an unedited snapshot, made of what it says was discovered.
Receipts ==
    receipt # NoReceipt =>
        /\ receipt.edits = {} /\ Selectable(Claims(receipt.discovered))
        /\ receipt.snapshot = Selected(Claims(receipt.discovered))

\* Every release found was offered by a Skill on a list.
Offered(seen, found) ==
    /\ IsFiniteSet(found)
    /\ \A r \in found : /\ {r.version} \in seen.latest[r.skill]
                        /\ \E list \in seen.lists : r.skill \in list

Has(found, k) == \E r \in found : r.skill = k

\* The pages of a list that was told by its length are all of one list.
Paged(work, seen) ==
    /\ work.page = 1 => work.skills = {}
    /\ work.page > 1 /\ Told(seen.lists, work.source) =>
          \E list \in seen.lists : /\ work.skills \subseteq On(list, work.source)
                                   /\ work.total = Cardinality(On(list, work.source))

Known == {"found", "publish", "activate", "receipt", "restore", "judge"}

Exploring == {"list", "release"} \cup Known

\* What a command knows of the center, at a label.
Discovering(label, work, seen) ==
    /\ label \in Exploring => Offered(seen, work.found)
    /\ label \in {"list", "release"} =>
          \A k \in work.skills : \E list \in seen.lists : k \in list
    /\ label = "list" =>
          /\ Paged(work, seen)
          /\ \A k \in Skills :
                Lasting(seen, k) /\ SourceOf[k] < work.source => Has(work.found, k)
    /\ label = "release" =>
          /\ work.skills # {}
          /\ \A k \in Skills :
                Lasting(seen, k) /\ SourceOf[k] <= work.source =>
                    k \in work.skills \/ Has(work.found, k)
    /\ label \in Known => \A k \in Skills : Lasting(seen, k) => Has(work.found, k)

\* What it chose.
Choosing(label, work) ==
    /\ label \in {"publish", "activate", "receipt", "restore"} => Chosen(work.found)
    /\ label = "judge" => Selectable(Claims(work.found))
    /\ label \in {"publish", "activate", "receipt", "restore", "judge"} =>
          work.claims = Selected(Claims(work.found))

\* Which command is at a label, and what it answers.
Working(label, work) ==
    /\ label = "idle" <=> work.command = "none"
    /\ label \in {"publish", "activate", "receipt", "restore"} => work.command = "sync"
    /\ label = "judge" => work.command = "check"
    /\ label = "return" /\ work.command = "sync" => work.status \in SyncResults
    /\ label = "return" /\ work.command = "check" => work.status \in Drifts
    /\ label # "return" => work.status = "none"

Watching(p) ==
    pc[p] # "idle" => /\ listed \in since[p].lists
                      /\ \A k \in Skills : Latest(k) \in since[p].latest[k]

\* What is active is what the sync has found there, or a whole set.
Before(p) == current = job[p].base
New(p) == Readable(current) /\ Complete(since[p], current)

\* What a failed sync leaves.
Failed(p) ==
    /\ job[p].status = "error" => Before(p) \/ (job[p].base = NoSnapshot /\ New(p))
    /\ job[p].status = "unrestored" => Before(p) \/ New(p)

\* What a sync, which holds the lock, knows of the binding.
Binding(p) ==
    job[p].command = "sync" =>
        /\ pc[p] \in {"list", "release", "found", "publish", "activate"} => current = job[p].base
        /\ pc[p] \in {"activate", "receipt", "restore"} => Readable(job[p].claims)
        /\ pc[p] = "receipt" => current = job[p].claims
        /\ pc[p] = "restore" => current \in {job[p].base, job[p].claims}
        /\ pc[p] = "return" => Failed(p)
        /\ pc[p] = "return" /\ job[p].status \in {"updated", "unchanged"} =>
              Readable(current) /\ Complete(since[p], current)

\* What a drift knows of the snapshot it compares.
Drifting(p) ==
    /\ job[p].base \in installed \cup {NoSnapshot}
    /\ pc[p] = "judge" =>
          LET common == IdsOf(job[p].claims \cap job[p].base) IN
          job[p].same \subseteq common /\ common \subseteq job[p].same \cup Edits(job[p].base)

OfProcess(p) ==
    /\ lock = p <=> job[p].command = "sync"
    /\ Working(pc[p], job[p])
    /\ Discovering(pc[p], job[p], since[p])
    /\ Choosing(pc[p], job[p])
    /\ Watching(p)
    /\ Binding(p)
    /\ Drifting(p)

IInv == Types /\ Snapshots /\ Receipts /\ \A p \in Procs : OfProcess(p)

-----------------------------------------------------------------------------
(* Skills and their lists                                                  *)

\* There are finitely many Skills, each at one place of the order.
LEMMA OrderOfSkills ==
    /\ IsFiniteSet(Skills)
    /\ \A k \in Skills : Position(k) \in Nat /\ Order[Position(k)] = k
<1>1. Order \in Seq(Skills) BY MirrorAssumption
<1>2. /\ Len(Order) \in Nat /\ DOMAIN Order = 1..Len(Order)
      /\ Order \in [1..Len(Order) -> Skills]
  BY <1>1
<1>3. Order \in Surjection(1..Len(Order), Skills) BY <1>2 DEF Surjection, Skills
<1>4. IsFiniteSet(1..Len(Order)) BY <1>2, FS_Interval
<1>5. IsFiniteSet(Skills) BY <1>3, <1>4, FS_Surjection
<1>6. ASSUME NEW k \in Skills PROVE Position(k) \in Nat /\ Order[Position(k)] = k
  <2>1. \E i \in DOMAIN Order : Order[i] = k BY DEF Skills
  <2>2. Position(k) \in DOMAIN Order /\ Order[Position(k)] = k BY <2>1 DEF Position
  <2> QED BY <1>2, <2>2
<1> QED BY <1>5, <1>6

\* Of some Skills one comes first.
LEMMA FirstOf ==
    ASSUME NEW some \in SUBSET Skills, some # {}
    PROVE  \E k \in some : \A l \in some : Position(k) <= Position(l)
<1> DEFINE places == {Position(k) : k \in some}
<1>1. \A k \in some : Position(k) \in Nat BY OrderOfSkills
<1>2. places \subseteq Nat /\ places # {} BY <1>1
<1>3. \E x \in places : \A y \in places : ~(<<y, x>> \in OpToRel(<, Nat))
  BY <1>2, NatLessThanWellFounded, WFMin
<1>4. \A x, y \in Nat : ~(<<y, x>> \in OpToRel(<, Nat)) => x <= y BY DEF OpToRel
<1> QED BY <1>1, <1>2, <1>3, <1>4

\* A part of the list of a source that is as long as the list is the list.
LEMMA WholeList ==
    ASSUME NEW list \in SUBSET Skills, NEW source, NEW part \in SUBSET On(list, source),
           Cardinality(part) = Cardinality(On(list, source))
    PROVE  part = On(list, source)
<1>1. On(list, source) \subseteq Skills BY DEF On
<1>2. IsFiniteSet(On(list, source)) BY <1>1, OrderOfSkills, FS_Subset
<1> QED BY <1>2, FS_Subset

\* The length of a list, and of a part of it, is a number.
LEMMA LengthOf ==
    ASSUME NEW list \in SUBSET Skills
    PROVE  IsFiniteSet(list) /\ Cardinality(list) \in Nat
BY OrderOfSkills, FS_Subset, FS_CardinalityType

\* Of a Skill with one release at most that is the latest, one is found.
LEMMA OneLatest ==
    ASSUME CenterTypes, NEW k \in Skills,
           ~(Cardinality({[skill |-> k, version |-> v] : v \in Latest(k)}) > 1)
    PROVE  \A v \in Latest(k) : Latest(k) = {v}
<1> DEFINE latest == {r \in released[k] : \A other \in released[k] : other.at <= r.at}
           found == {[skill |-> k, version |-> v] : v \in Latest(k)}
           name == [r \in latest |-> [skill |-> k, version |-> r.version]]
<1>1. IsFiniteSet(released[k]) BY DEF CenterTypes
<1>2. IsFiniteSet(latest) BY <1>1, FS_Subset
<1>3. Latest(k) = {r.version : r \in latest} BY DEF Latest, Newest
<1>4. name \in Surjection(latest, found) BY <1>3 DEF Surjection
<1>5. IsFiniteSet(found) BY <1>2, <1>4, FS_Surjection
<1>6. Cardinality(found) \in Nat BY <1>5, FS_CardinalityType
<1>7. ASSUME NEW v \in Latest(k) PROVE Latest(k) = {v}
  <2>1. found # {} BY <1>7
  <2>2. Cardinality(found) = 1 BY <1>5, <1>6, <2>1, FS_EmptySet
  <2>3. PICK x : found = {x} BY <1>5, <2>2, FS_Singleton
  <2>4. \A w \in Latest(k) : [skill |-> k, version |-> w] = [skill |-> k, version |-> v]
    BY <1>7, <2>3
  <2>5. \A w \in Latest(k) : w = v BY <2>4
  <2> QED BY <1>7, <2>5
<1> QED BY <1>7

-----------------------------------------------------------------------------
(* Claims and snapshots                                                    *)

\* Finitely many releases make finitely many claims.
LEMMA ClaimsOf ==
    ASSUME NEW found \in SUBSET Releases
    PROVE  /\ Claims(found) \in SUBSET PackageClaims
           /\ IsFiniteSet(found) => IsFiniteSet(Claims(found))
<1> DEFINE good == {r \in found : Acceptable(r.skill, r.version)}
           claim == [r \in good |-> Claim(r)]
<1>1. Claims(found) = {Claim(r) : r \in good} BY DEF Claims
<1>2. \A r \in Releases : Claim(r) \in PackageClaims
  BY DEF Releases, PackageClaims, Claim, Ids
<1>3. claim \in Surjection(good, Claims(found)) BY <1>1 DEF Surjection
<1>4. IsFiniteSet(found) => IsFiniteSet(good) BY FS_Subset
<1>5. IsFiniteSet(good) => IsFiniteSet(Claims(found)) BY <1>3, FS_Surjection
<1> QED BY <1>1, <1>2, <1>4, <1>5

\* Of every Workflow that is claimed one claim is selected, and it is that of
\* the source that may be written.
LEMMA SelectsEach ==
    ASSUME NEW claims \in SUBSET PackageClaims, IsFiniteSet(claims), Selectable(claims),
           NEW c \in claims
    PROVE  /\ \E d \in Selected(claims) : d.id = c.id
           /\ Writable(c.skill) => c \in Selected(claims)
<1> DEFINE rivals == Of(claims, c.id)
           writable == {d \in rivals : Writable(d.skill)}
<1>1. c.id \in IdsOf(claims) /\ c \in rivals BY DEF IdsOf, Of
<1>2. rivals \subseteq claims /\ writable \subseteq claims BY DEF Of
<1>3. IsFiniteSet(rivals) /\ IsFiniteSet(writable) BY <1>2, FS_Subset
<1>4. CASE Cardinality(rivals) = 1
  <2>1. PICK x : rivals = {x} BY <1>3, <1>4, FS_Singleton
  <2>2. Of(claims, c.id) = {c} BY <1>1, <2>1
  <2> QED BY <2>2 DEF Selected
<1>5. CASE Cardinality(writable) = 1
  <2>1. PICK x : writable = {x} BY <1>3, <1>5, FS_Singleton
  <2>2. x \in claims /\ x.id = c.id /\ Writable(x.skill) BY <2>1 DEF Of
  <2> QED BY <2>2 DEF Selected
<1>6. Cardinality(rivals) = 1 \/ Cardinality(writable) = 1 BY <1>1 DEF Selectable
<1> QED BY <1>4, <1>5, <1>6

\* What is selected has one claim of a Workflow.
LEMMA SelectsOne ==
    ASSUME NEW claims \in SUBSET PackageClaims, IsFiniteSet(claims), Selectable(claims)
    PROVE  Single(Selected(claims))
<1> SUFFICES ASSUME NEW c \in Selected(claims), NEW d \in Selected(claims), c.id = d.id
             PROVE  c = d
  BY DEF Single
<1> DEFINE rivals == Of(claims, c.id)
           writable == {e \in rivals : Writable(e.skill)}
<1>1. /\ c \in claims /\ d \in claims /\ c \in rivals /\ d \in rivals /\ c.id \in IdsOf(claims)
      /\ rivals = {c} \/ Writable(c.skill)
      /\ rivals = {d} \/ Writable(d.skill)
  BY DEF Selected, Of, IdsOf
<1>2. IsFiniteSet(rivals) /\ IsFiniteSet(writable) BY FS_Subset DEF Of
<1>3. CASE Cardinality(rivals) = 1 BY <1>1, <1>2, <1>3, FS_Singleton
<1>4. CASE Cardinality(writable) = 1
  <2>1. PICK x : writable = {x} BY <1>2, <1>4, FS_Singleton
  <2> QED BY <1>1, <2>1
<1>5. Cardinality(rivals) = 1 \/ Cardinality(writable) = 1 BY <1>1 DEF Selectable
<1> QED BY <1>3, <1>4, <1>5

\* What is selected of the claims of what was found is a snapshot.
LEMMA SelectsWhole ==
    ASSUME NEW found \in SUBSET Releases, IsFiniteSet(found), Selectable(Claims(found))
    PROVE  /\ Selected(Claims(found)) \in SUBSET PackageClaims
           /\ Single(Selected(Claims(found)))
           /\ Chosen(found) => Whole(Selected(Claims(found)))
<1>1. Claims(found) \in SUBSET PackageClaims /\ IsFiniteSet(Claims(found)) BY ClaimsOf
<1>2. Selected(Claims(found)) \subseteq Claims(found) BY DEF Selected
<1>3. IsFiniteSet(Selected(Claims(found))) BY <1>1, <1>2, FS_Subset
<1>4. Single(Selected(Claims(found))) BY <1>1, SelectsOne
<1>5. ASSUME Chosen(found) PROVE Selected(Claims(found)) # {}
  <2>1. PICK c \in Claims(found) : TRUE BY <1>5 DEF Chosen
  <2> QED BY <1>1, <2>1, SelectsEach
<1> QED BY <1>1, <1>2, <1>3, <1>4, <1>5 DEF Whole, NoSnapshot

\* The types say of a snapshot what the invariant does: one package to a Workflow.
LEMMA OnePackageEach ==
    ASSUME NEW snapshot, IsFiniteSet(snapshot), Single(snapshot)
    PROVE  Cardinality(IdsOf(snapshot)) = Cardinality(snapshot)
<1> DEFINE name == [c \in snapshot |-> c.id]
<1>1. name \in Surjection(snapshot, IdsOf(snapshot)) BY DEF Surjection, IdsOf
<1>2. name \in Injection(snapshot, IdsOf(snapshot))
  BY <1>1 DEF Single, Injection, IsInjective, Surjection
<1> QED BY <1>1, <1>2, FS_Surjection

\* What was found, of all that lasted, makes a complete snapshot.
LEMMA FoundIsComplete ==
    ASSUME NEW seen \in Seen, NEW found \in SUBSET Releases, Offered(seen, found),
           \A k \in Skills : Lasting(seen, k) => Has(found, k),
           Selectable(Claims(found))
    PROVE  Complete(seen, Selected(Claims(found)))
<1>1. IsFiniteSet(found) BY DEF Offered
<1>2. Claims(found) \in SUBSET PackageClaims /\ IsFiniteSet(Claims(found)) BY <1>1, ClaimsOf
<1>3. ASSUME NEW c \in Selected(Claims(found))
      PROVE  {c.version} \in seen.latest[c.skill] /\ Acceptable(c.skill, c.version)
  <2>1. PICK r \in found : Acceptable(r.skill, r.version) /\ c = Claim(r)
    BY <1>3 DEF Selected, Claims
  <2>2. c.skill = r.skill /\ c.version = r.version BY <2>1 DEF Claim
  <2> QED BY <2>1, <2>2 DEF Offered
<1>4. ASSUME NEW k \in Skills, Lasting(seen, k),
             \A v \in UNION seen.latest[k] : Acceptable(k, v)
      PROVE  \E v \in UNION seen.latest[k], c \in Selected(Claims(found)) :
                c.id = Package[k][v].id /\ (c.skill = k \/ ~Writable(k))
  <2>1. PICK r \in found : r.skill = k BY <1>4 DEF Has
  <2>2. {r.version} \in seen.latest[k] BY <2>1 DEF Offered
  <2>3. r.version \in UNION seen.latest[k] BY <2>2
  <2>4. Acceptable(k, r.version) BY <1>4, <2>3
  <2>5. Claim(r) \in Claims(found) BY <2>1, <2>4 DEF Claims
  <2>6. Claim(r).id = Package[k][r.version].id /\ Claim(r).skill = k BY <2>1 DEF Claim
  <2>7. CASE Writable(k)
    <3>1. Claim(r) \in Selected(Claims(found)) BY <1>2, <2>5, <2>6, <2>7, SelectsEach
    <3> QED BY <2>3, <2>6, <3>1
  <2>8. CASE ~Writable(k)
    <3>1. PICK d \in Selected(Claims(found)) : d.id = Claim(r).id
      BY <1>2, <2>5, SelectsEach
    <3> QED BY <2>3, <2>6, <2>8, <3>1
  <2> QED BY <2>7, <2>8
<1> QED BY <1>3, <1>4 DEF Complete

-----------------------------------------------------------------------------
(* What was seen only grows                                                *)

\* What a look at the center adds.
LEMMA SeeingAdds ==
    ASSUME NEW seen \in Seen, NEW list \in SUBSET Skills,
           NEW releases \in [Skills -> SUBSET [version : Versions, at : Nat]]
    PROVE  /\ Seeing(seen, list, releases) \in Seen
           /\ Seeing(seen, list, releases).lists = seen.lists \cup {list}
           /\ \A k \in Skills : Seeing(seen, list, releases).latest[k]
                                = seen.latest[k] \cup {Newest(releases[k])}
<1>1. \A k \in Skills : Newest(releases[k]) \in SUBSET Versions BY DEF Newest
<1> QED BY <1>1 DEF Seeing, Seen

\* Before it looks it has seen nothing.
LEMMA NothingAtFirst ==
    /\ NothingSeen \in Seen /\ NothingSeen.lists = {}
    /\ \A k \in Skills : NothingSeen.latest[k] = {}
BY DEF NothingSeen, Seen

Within(seen, more) ==
    /\ seen.lists \subseteq more.lists
    /\ \A k \in Skills : seen.latest[k] \subseteq more.latest[k]

\* What lasted through more has lasted through less.
LEMMA LastingShrinks ==
    ASSUME NEW seen, NEW more, Within(seen, more)
    PROVE  /\ \A source : Told(more.lists, source) => Told(seen.lists, source)
           /\ \A k \in Skills : Lasting(more, k) => Lasting(seen, k)
<1>1. \A source : Told(more.lists, source) => Told(seen.lists, source) BY DEF Within, Told
<1> QED BY <1>1 DEF Within, Lasting

\* What a command knows stays true of what it has seen since.
LEMMA KnowledgeLasts ==
    ASSUME NEW seen, NEW more, Within(seen, more), NEW label, NEW work \in Jobs,
           Discovering(label, work, seen)
    PROVE  Discovering(label, work, more)
<1>1. Offered(seen, work.found) => Offered(more, work.found)
  BY DEF Offered, Within, Jobs, Releases
<1>2. Paged(work, seen) => Paged(work, more) BY LastingShrinks DEF Paged, Within
<1>3. \A k \in work.skills : (\E list \in seen.lists : k \in list)
                              => \E list \in more.lists : k \in list
  BY DEF Within
<1>4. \A k \in Skills : Lasting(more, k) => Lasting(seen, k) BY LastingShrinks
<1> QED BY <1>1, <1>2, <1>3, <1>4 DEF Discovering

\* So does the completeness of a snapshot.
LEMMA CompleteLasts ==
    ASSUME NEW seen \in Seen, NEW more \in Seen, Within(seen, more),
           NEW snapshot \in SUBSET PackageClaims, Complete(seen, snapshot)
    PROVE  Complete(more, snapshot)
<1>1. \A c \in snapshot : {c.version} \in more.latest[c.skill] /\ Acceptable(c.skill, c.version)
  BY DEF Complete, Within, PackageClaims
<1>2. ASSUME NEW k \in Skills, Lasting(more, k),
             \A v \in UNION more.latest[k] : Acceptable(k, v)
      PROVE  \E v \in UNION more.latest[k], c \in snapshot :
                c.id = Package[k][v].id /\ (c.skill = k \/ ~Writable(k))
  <2>1. Lasting(seen, k) BY <1>2, LastingShrinks
  <2>2. UNION seen.latest[k] \subseteq UNION more.latest[k] BY DEF Within
  <2>3. \A v \in UNION seen.latest[k] : Acceptable(k, v) BY <1>2, <2>2
  <2>4. \E v \in UNION seen.latest[k], c \in snapshot :
           c.id = Package[k][v].id /\ (c.skill = k \/ ~Writable(k))
    BY <2>1, <2>3 DEF Complete
  <2> QED BY <2>2, <2>4
<1> QED BY <1>1, <1>2 DEF Complete

-----------------------------------------------------------------------------
(* Discovery                                                               *)

\* A command that has found what there is of its sources so far goes on to the
\* next Skill, to the next source, or has found everything.
LEMMA NextIsAsked ==
    ASSUME NEW p, NEW seen, NEW next \in Jobs, AskNext(p, next),
           Offered(seen, next.found),
           \A k \in next.skills : \E list \in seen.lists : k \in list,
           \A k \in Skills :
               Lasting(seen, k) /\ SourceOf[k] <= next.source =>
                   k \in next.skills \/ Has(next.found, k)
    PROVE  \E label \in {"list", "release", "found"}, work \in Jobs :
               /\ Goto(p, label, work)
               /\ Discovering(label, work, seen)
               /\ work.command = next.command /\ work.base = next.base
               /\ work.status = next.status
<1>1. next.source \in Nat \ {0} BY DEF Jobs
<1>2. \A k \in Skills : SourceOf[k] \in Sources /\ SourceOf[k] \in Nat
  BY MirrorAssumption DEF Sources
<1>3. CASE next.skills # {}
  <2>1. Goto(p, "release", next) BY <1>3 DEF AskNext
  <2>2. Discovering("release", next, seen) BY <1>3 DEF Discovering, Exploring, Known
  <2> QED BY <2>1, <2>2
<1>4. CASE next.skills = {} /\ next.source + 1 \in Sources
  <2> DEFINE work == [next EXCEPT !.source = next.source + 1, !.page = 1, !.total = 0]
  <2>1. Goto(p, "list", work) BY <1>4 DEF AskNext
  <2>2. work \in Jobs
    <3>1. next.source + 1 \in Nat \ {0} /\ 1 \in Nat \ {0} /\ 0 \in Nat BY <1>1
    <3> QED BY <3>1 DEF Jobs
  <2>3. /\ work.command = next.command /\ work.base = next.base /\ work.status = next.status
        /\ work.source = next.source + 1 /\ work.page = 1 /\ work.skills = {}
        /\ work.found = next.found
    BY <1>4 DEF Jobs
  <2> HIDE DEF work
  <2>4. \A k \in Skills : SourceOf[k] < work.source => SourceOf[k] <= next.source
    BY <1>1, <1>2, <2>3
  <2>5. Paged(work, seen) BY <2>3 DEF Paged
  <2>6. Discovering("list", work, seen)
    BY <1>4, <2>3, <2>4, <2>5 DEF Discovering, Exploring, Known
  <2> QED BY <2>1, <2>2, <2>3, <2>6
<1>5. CASE next.skills = {} /\ next.source + 1 \notin Sources
  <2>1. Goto(p, "found", next) BY <1>5 DEF AskNext
  <2>2. \A k \in Skills : SourceOf[k] <= next.source
    BY <1>1, <1>2, <1>5, MirrorAssumption DEF Sources
  <2>3. Discovering("found", next, seen)
    BY <1>5, <2>2 DEF Discovering, Exploring, Known
  <2> QED BY <2>1, <2>3
<1> QED BY <1>3, <1>4, <1>5

\* A page is part of the list as it is, and a page number and its size are numbers.
LEMMA PageOf ==
    ASSUME CenterTypes, NEW source, NEW number
    PROVE  /\ Page(source, number) \subseteq Listing(source)
           /\ Listing(source) \subseteq listed
           /\ Cardinality(Page(source, number)) \in Nat
           /\ Cardinality(Listing(source)) \in Nat
<1>1. Page(source, number) \subseteq Listing(source) BY DEF Page
<1>2. Listing(source) \subseteq listed BY DEF Listing, On
<1> QED BY <1>1, <1>2, LengthOf DEF CenterTypes

\* The pages read so far, with the next, are of one list if its length told it.
LEMMA PagesOfOneList ==
    ASSUME NEW list \in SUBSET Skills, NEW seen, list \in seen.lists, NEW work \in Jobs,
           Paged(work, seen), Told(seen.lists, work.source),
           NEW page \in SUBSET On(list, work.source),
           work.page > 1 => Cardinality(On(list, work.source)) = work.total
    PROVE  work.skills \cup page \subseteq On(list, work.source)
<1>1. work.page \in Nat \ {0} BY DEF Jobs
<1>2. CASE work.page = 1 BY <1>2 DEF Paged
<1>3. CASE work.page > 1
  <2>1. PICK other \in seen.lists : /\ work.skills \subseteq On(other, work.source)
                                    /\ work.total = Cardinality(On(other, work.source))
    BY <1>3 DEF Paged
  <2>2. On(list, work.source) = On(other, work.source) BY <1>3, <2>1 DEF Told
  <2> QED BY <2>1, <2>2
<1> QED BY <1>1, <1>2, <1>3

\* What a process does when a page is answered.
LEMMA PageIsRead ==
    ASSUME CenterTypes, ProcessTypes, NEW p \in Procs, At(p, "list"), Watching(p),
           Discovering(pc[p], job[p], since[p]),
           NEW page, page = Page(job[p].source, job[p].page),
           NEW total, total = Cardinality(Listing(job[p].source)),
           job[p].page > 1 => total = job[p].total
    PROVE  /\ \A k \in job[p].skills \cup page :
                  k \in Skills /\ \E list \in since[p].lists : k \in list
           /\ Told(since[p].lists, job[p].source) =>
                  job[p].skills \cup page \subseteq Listing(job[p].source)
           /\ Offered(since[p], job[p].found)
           /\ \A k \in Skills : Lasting(since[p], k) /\ SourceOf[k] < job[p].source =>
                  Has(job[p].found, k)
<1>1. job[p] \in Jobs /\ pc[p] = "list" BY DEF ProcessTypes, At
<1>2. listed \in since[p].lists /\ listed \in SUBSET Skills
  BY <1>1 DEF Watching, CenterTypes
<1>3. page \subseteq Listing(job[p].source) /\ Listing(job[p].source) \subseteq listed
  BY PageOf
<1>4. Paged(job[p], since[p]) BY <1>1 DEF Discovering
<1>5. \A k \in job[p].skills \cup page :
         k \in Skills /\ \E list \in since[p].lists : k \in list
  BY <1>1, <1>2, <1>3 DEF Discovering, Jobs
<1>6. Told(since[p].lists, job[p].source) =>
         job[p].skills \cup page \subseteq Listing(job[p].source)
  BY <1>1, <1>2, <1>3, <1>4, PagesOfOneList DEF Listing
<1> QED BY <1>1, <1>5, <1>6 DEF Discovering, Exploring

-----------------------------------------------------------------------------
(* A step of a process, and what the others make of it                     *)

\* What a step of p leaves to the others.
Guarantee(p) ==
    /\ \A q \in Procs \ {p} : pc'[q] = pc[q] /\ job'[q] = job[q] /\ since'[q] = since[q]
    /\ lock' = lock \/ (lock \in {p, NoProc} /\ lock' \in {p, NoProc})
    /\ UNCHANGED <<listed, released, edited>>
    /\ installed \subseteq installed'
    /\ current' = current \/ lock = p

\* The result of Goto, process by process.
LEMMA GotoSets ==
    ASSUME ProcessTypes, NEW p \in Procs, NEW label, NEW work, Goto(p, label, work)
    PROVE  /\ pc'[p] = label /\ job'[p] = work
           /\ \A q \in Procs \ {p} : pc'[q] = pc[q] /\ job'[q] = job[q]
           /\ label \in Labels /\ work \in Jobs =>
                 pc' \in [Procs -> Labels] /\ job' \in [Procs -> Jobs]
BY DEF ProcessTypes, Goto

\* A use of a bound is counted.
LEMMA UseCounts ==
    ASSUME CenterTypes, NEW bound \in {"publishes", "listings", "edits", "faults"},
           NEW most, Use(bound, most)
    PROVE  used' \in UsedTypes
BY DEF CenterTypes, UsedTypes, Use

\* The invariant, of one process.
LEMMA OfStep ==
    ASSUME IInv, NEW p \in Procs
    PROVE  /\ CenterTypes /\ DiskTypes /\ ProcessTypes /\ Snapshots /\ Receipts
           /\ p # NoProc
           /\ pc[p] \in Labels /\ job[p] \in Jobs /\ since[p] \in Seen
           /\ lock = p <=> job[p].command = "sync"
           /\ Working(pc[p], job[p]) /\ Discovering(pc[p], job[p], since[p])
           /\ Choosing(pc[p], job[p]) /\ Watching(p) /\ Binding(p) /\ Drifting(p)
BY MirrorAssumption DEF IInv, Types, ProcessTypes, OfProcess

\* The other processes keep what they know.
LEMMA OthersKeep ==
    ASSUME IInv, NEW p \in Procs, Guarantee(p), NEW q \in Procs, q # p
    PROVE  OfProcess(q)'
<1>1. pc'[q] = pc[q] /\ job'[q] = job[q] /\ since'[q] = since[q] BY DEF Guarantee
<1>2. /\ lock = q <=> job[q].command = "sync"
      /\ Working(pc[q], job[q]) /\ Discovering(pc[q], job[q], since[q])
      /\ Choosing(pc[q], job[q]) /\ Watching(q) /\ Binding(q) /\ Drifting(q) /\ q # NoProc
  BY OfStep
<1>3. lock' = q <=> lock = q BY <1>2 DEF Guarantee
<1>4. Watching(q)' BY <1>1, <1>2 DEF Watching, Latest, Guarantee
<1>5. \A s : Readable(s) => Readable(s)' BY DEF Readable, Edits, Guarantee
<1>6. Binding(q)'
  <2>1. CASE job[q].command # "sync" BY <1>1, <2>1 DEF Binding
  <2>2. CASE job[q].command = "sync"
    <3>1. current' = current BY <1>2, <2>2 DEF Guarantee
    <3>2. Readable(job[q].claims) => Readable(job[q].claims)' BY <1>1, <1>5 DEF Readable, Edits
    <3>3. Readable(current) => Readable(current)' BY <1>5, <3>1 DEF Readable, Edits
    <3>4. Failed(q) => Failed(q)' BY <1>1, <3>1, <3>3 DEF Failed, Before, New
    <3> QED BY <1>1, <1>2, <3>1, <3>2, <3>3, <3>4 DEF Binding
  <2> QED BY <2>1, <2>2
<1>7. Drifting(q)' BY <1>1, <1>2 DEF Drifting, Edits, Guarantee
<1>8. Discovering(pc[q], job[q], since[q])' BY <1>1, <1>2
<1> QED BY <1>1, <1>2, <1>3, <1>4, <1>6, <1>7 DEF OfProcess

\* The invariant after a step of p, from what p says of itself.
LEMMA Keeping ==
    ASSUME IInv, NEW p \in Procs, Guarantee(p), Types', Snapshots', Receipts', OfProcess(p)'
    PROVE  IInv'
BY OthersKeep DEF IInv

\* A step that changes neither the disk nor who holds the lock.
Quiet == UNCHANGED <<center, disk, lock, since>> /\ used' \in UsedTypes

\* Such a step keeps the invariant.
LEMMA QuietKeeps ==
    ASSUME IInv, NEW p \in Procs, NEW label \in Labels, NEW work \in Jobs,
           Goto(p, label, work), Quiet, OfProcess(p)'
    PROVE  IInv'
<1>1. Types /\ ProcessTypes /\ Snapshots /\ Receipts BY DEF IInv, Types
<1>2. Types'
  BY <1>1, GotoSets DEF Types, CenterTypes, DiskTypes, ProcessTypes, Quiet, center, disk, UsedTypes
<1>3. Guarantee(p) BY <1>1, GotoSets DEF Guarantee, Quiet, center, disk
<1>4. Snapshots' BY <1>1 DEF Snapshots, Quiet, disk
<1>5. Receipts' BY <1>1 DEF Receipts, Quiet, disk
<1> QED BY <1>2, <1>3, <1>4, <1>5, Keeping

\* The work of who does nothing.
LEMMA NoJobIsAJob ==
    /\ NoJob \in Jobs
    /\ NoJob.command = "none" /\ NoJob.source = 1 /\ NoJob.page = 1 /\ NoJob.skills = {}
    /\ NoJob.found = {} /\ NoJob.claims = {} /\ NoJob.base = {} /\ NoJob.same = {}
    /\ NoJob.status = "none"
<1>1. << >> \in Reports
  <2>1. << >> \in [{} -> Drifts] OBVIOUS
  <2> QED BY <2>1 DEF Reports
<1> QED BY <1>1 DEF NoJob, Jobs, NoSnapshot

\* What is left of a job that is answered.
LEMMA Returned ==
    ASSUME ProcessTypes, NEW p \in Procs, NEW status \in SyncResults \cup Drifts,
           Return(p, status)
    PROVE  /\ Goto(p, "return", job'[p]) /\ "return" \in Labels /\ job'[p] \in Jobs
           /\ pc'[p] = "return" /\ job'[p].command = job[p].command
           /\ job'[p].base = job[p].base /\ job'[p].status = status
<1> DEFINE work == [NoJob EXCEPT !.command = job[p].command, !.base = job[p].base,
                                 !.status = status]
<1>1. Goto(p, "return", work) BY DEF Return
<1>2. pc'[p] = "return" /\ job'[p] = work BY <1>1, GotoSets
<1>3. job[p] \in Jobs BY DEF ProcessTypes
<1>4. work \in Jobs /\ work.command = job[p].command /\ work.base = job[p].base
      /\ work.status = status
  BY <1>3, NoJobIsAJob DEF Jobs
<1> HIDE DEF work
<1> QED BY <1>1, <1>2, <1>4 DEF Labels

\* A command that fails: of a sync is known what it leaves active.
LEMMA Fails ==
    ASSUME IInv, NEW p \in Procs, pc[p] \in Exploring,
           NEW status \in {"error", "unrestored", "unavailable"}, Return(p, status),
           status = "unavailable" <=> job[p].command # "sync",
           UNCHANGED <<center, installed, edited, receipt, lock, since>>, used' \in UsedTypes,
           current' \in installed \cup {NoSnapshot},
           current' = current \/ lock = p,
           job[p].command = "sync" =>
               \/ current' = job[p].base
               \/ /\ status = "error" => job[p].base = NoSnapshot
                  /\ Readable(current') /\ Complete(since[p], current')
    PROVE  IInv'
<1>1. /\ Types /\ CenterTypes /\ DiskTypes /\ ProcessTypes /\ Snapshots /\ Receipts
      /\ lock = p <=> job[p].command = "sync"
      /\ job[p] \in Jobs /\ Working(pc[p], job[p]) /\ Watching(p) /\ Drifting(p)
  BY OfStep DEF IInv
<1>2. Return(p, status) OBVIOUS
<1>3. status \in SyncResults \cup Drifts BY DEF SyncResults, Drifts
<1>4. /\ Goto(p, "return", job'[p]) /\ "return" \in Labels /\ job'[p] \in Jobs
      /\ pc'[p] = "return" /\ job'[p].command = job[p].command
      /\ job'[p].base = job[p].base /\ job'[p].status = status
  BY <1>1, <1>2, <1>3, Returned
<1>5. Types'
  BY <1>1, <1>4, GotoSets
  DEF Types, CenterTypes, DiskTypes, ProcessTypes, center, UsedTypes, NoSnapshot
<1>6. Guarantee(p) BY <1>1, <1>4, GotoSets DEF Guarantee, center
<1>7. Snapshots' BY <1>1 DEF Snapshots
<1>8. Receipts' BY <1>1 DEF Receipts
<1>9. job[p].command \in {"sync", "check"} /\ pc[p] # "idle"
  BY <1>1 DEF Working, Jobs, Exploring, Known
<1>10. Working(pc[p], job[p])' BY <1>4, <1>9 DEF Working, SyncResults, Drifts
<1>11. Discovering(pc[p], job[p], since[p])' BY <1>4 DEF Discovering, Exploring, Known
<1>12. Choosing(pc[p], job[p])' BY <1>4 DEF Choosing
<1>13. Watching(p)' BY <1>1, <1>9 DEF Watching, Latest, center
<1>14. Binding(p)'
  <2>1. Readable(current') => Readable(current)' BY DEF Readable, Edits
  <2>2. since' = since OBVIOUS
  <2>3. job[p].command = "sync" => Failed(p)'
    BY <1>4, <2>1, <2>2 DEF Failed, Before, New
  <2> QED BY <1>4, <2>3 DEF Binding
<1>15. Drifting(p)' BY <1>1, <1>4 DEF Drifting
<1>16. OfProcess(p)'
  BY <1>1, <1>4, <1>10, <1>11, <1>12, <1>13, <1>14, <1>15 DEF OfProcess
<1> QED BY <1>5, <1>6, <1>7, <1>8, <1>16, Keeping

\* A call that fails before anything is made active.
LEMMA FaultKeeps ==
    ASSUME IInv, NEW p \in Procs, pc[p] \in {"list", "release", "found", "publish"},
           GiveUp(p), Quiet
    PROVE  IInv'
<1>1. Binding(p) /\ Snapshots /\ pc[p] \in Exploring
  BY OfStep DEF Exploring, Known
<1>2. job[p].command = "sync" => current = job[p].base BY <1>1 DEF Binding
<1> DEFINE status == IF job[p].command = "sync" THEN "error" ELSE "unavailable"
<1>3. /\ status \in {"error", "unrestored", "unavailable"} /\ Return(p, status)
      /\ status = "unavailable" <=> job[p].command # "sync"
  BY DEF GiveUp
<1>4. /\ UNCHANGED <<center, installed, edited, receipt, lock, since>> /\ used' \in UsedTypes
      /\ current' = current /\ current' \in installed \cup {NoSnapshot}
  BY <1>1 DEF Quiet, disk, Snapshots
<1> HIDE DEF status
<1> QED BY <1>1, <1>2, <1>3, <1>4, Fails

\* A fault is counted.
LEMMA FaultCounts == ASSUME IInv, Fault PROVE used' \in UsedTypes
BY UseCounts DEF Fault, IInv, Types

-----------------------------------------------------------------------------
(* The steps of the discovery                                              *)

\* A command that goes on exploring the center keeps the invariant.
LEMMA Explores ==
    ASSUME IInv, NEW p \in Procs, pc[p] \in {"list", "release"}, Quiet,
           NEW label \in {"list", "release", "found"}, NEW work \in Jobs,
           Goto(p, label, work), Discovering(label, work, since[p]),
           work.command = job[p].command, work.base = job[p].base,
           work.status = job[p].status
    PROVE  IInv'
<1>1. /\ ProcessTypes
      /\ lock = p <=> job[p].command = "sync"
      /\ Working(pc[p], job[p]) /\ Watching(p) /\ Binding(p) /\ Drifting(p)
  BY OfStep
<1>2. label \in Labels BY DEF Labels
<1>3. pc'[p] = label /\ job'[p] = work BY <1>1 DEF ProcessTypes, Goto
<1>4. lock' = lock /\ since' = since /\ UNCHANGED <<center, disk>> BY DEF Quiet
<1>5. Working(pc[p], job[p])' BY <1>1, <1>3 DEF Working
<1>6. Discovering(pc[p], job[p], since[p])' BY <1>3, <1>4
<1>7. Choosing(pc[p], job[p])' BY <1>3 DEF Choosing
<1>8. Watching(p)' BY <1>1, <1>4 DEF Watching, Latest, center
<1>9. Binding(p)' BY <1>1, <1>3, <1>4 DEF Binding, disk
<1>10. Drifting(p)' BY <1>1, <1>3, <1>4 DEF Drifting, disk
<1>11. OfProcess(p)'
  BY <1>1, <1>3, <1>4, <1>5, <1>6, <1>7, <1>8, <1>9, <1>10 DEF OfProcess
<1> QED BY <1>2, <1>11, QuietKeeps

\* A page of a list is read, or the listing fails.
LEMMA ListPageKeeps == ASSUME IInv, NEW p \in Procs, ListPage(p) PROVE IInv'
<1> DEFINE source == job[p].source
           page == Page(source, job[p].page)
           total == Cardinality(Listing(source))
           seen == job[p].seen + Cardinality(page)
           skills == job[p].skills \cup page
<1>1. /\ CenterTypes /\ ProcessTypes /\ job[p] \in Jobs /\ Watching(p) /\ pc[p] = "list"
      /\ Discovering(pc[p], job[p], since[p]) /\ Working(pc[p], job[p])
  BY OfStep DEF ListPage, At
<1>2. UNCHANGED <<center, disk, lock, since>> BY DEF ListPage
<1>3. UNCHANGED used => Quiet BY <1>1, <1>2 DEF Quiet, CenterTypes, UsedTypes
<1>4. CASE GiveUp(p)
  <2>1. Quiet BY <1>2, <1>3, <1>4, FaultCounts DEF ListPage, Quiet
  <2> QED BY <1>1, <1>4, <2>1, FaultKeeps
<1>5. /\ total \in Nat /\ seen \in Nat
      /\ page \subseteq Listing(source) /\ Listing(source) \subseteq listed
      /\ job[p].page \in Nat \ {0}
  BY <1>1, PageOf DEF Jobs
<1>6. ASSUME UNCHANGED used, job[p].page > 1 => total = job[p].total, seen < total,
             Goto(p, "list", [job[p] EXCEPT !.page = job[p].page + 1, !.total = total,
                                            !.seen = seen, !.skills = skills])
      PROVE  IInv'
  <2> DEFINE work == [job[p] EXCEPT !.page = job[p].page + 1, !.total = total,
                                    !.seen = seen, !.skills = skills]
  <2>1. /\ \A k \in skills : k \in Skills /\ \E list \in since[p].lists : k \in list
        /\ Told(since[p].lists, source) => skills \subseteq Listing(source)
        /\ Offered(since[p], job[p].found)
        /\ \A k \in Skills : Lasting(since[p], k) /\ SourceOf[k] < source =>
               Has(job[p].found, k)
    BY <1>1, <1>6, PageIsRead DEF At
  <2>2. job[p].page + 1 \in Nat \ {0} /\ skills \in SUBSET Skills BY <1>5, <2>1
  <2>3. work \in Jobs BY <1>1, <1>5, <2>2 DEF Jobs
  <2>4. /\ work.command = job[p].command /\ work.base = job[p].base
        /\ work.status = job[p].status /\ work.found = job[p].found
        /\ work.source = source /\ work.page = job[p].page + 1
        /\ work.skills = skills /\ work.total = total
    BY <1>1 DEF Jobs
  <2>5. Goto(p, "list", work) BY <1>6
  <2> HIDE DEF work
  <2>6. listed \in since[p].lists BY <1>1 DEF Watching
  <2>7. Paged(work, since[p])
    BY <1>5, <2>1, <2>4, <2>6 DEF Paged, Listing
  <2>8. Discovering("list", work, since[p])
    BY <2>1, <2>4, <2>7 DEF Discovering, Exploring, Known
  <2> QED BY <1>1, <1>3, <1>6, <2>3, <2>4, <2>5, <2>8, Explores
<1>7. ASSUME UNCHANGED used, job[p].page > 1 => total = job[p].total,
             Cardinality(skills) = total,
             AskNext(p, [job[p] EXCEPT !.seen = 0, !.skills = skills])
      PROVE  IInv'
  <2> DEFINE next == [job[p] EXCEPT !.seen = 0, !.skills = skills]
  <2>1. /\ \A k \in skills : k \in Skills /\ \E list \in since[p].lists : k \in list
        /\ Told(since[p].lists, source) => skills \subseteq Listing(source)
        /\ Offered(since[p], job[p].found)
        /\ \A k \in Skills : Lasting(since[p], k) /\ SourceOf[k] < source =>
               Has(job[p].found, k)
    BY <1>1, <1>7, PageIsRead DEF At
  <2>2. skills \in SUBSET Skills BY <2>1
  <2>3. next \in Jobs BY <1>1, <2>2 DEF Jobs
  <2>4. /\ next.command = job[p].command /\ next.base = job[p].base
        /\ next.status = job[p].status /\ next.found = job[p].found
        /\ next.source = source /\ next.skills = skills
    BY <1>1 DEF Jobs
  <2>5. AskNext(p, next) BY <1>7
  <2> HIDE DEF next
  <2>6. listed \in since[p].lists /\ listed \in SUBSET Skills
    BY <1>1 DEF Watching, CenterTypes
  <2>7. Told(since[p].lists, source) => skills = Listing(source)
    BY <1>7, <2>1, <2>6, WholeList DEF Listing
  <2>8. source \in Nat /\ \A k \in Skills : SourceOf[k] \in Nat
    BY <1>1, MirrorAssumption DEF Sources, Jobs
  <2>9. \A k \in Skills : Lasting(since[p], k) /\ SourceOf[k] <= source =>
           k \in skills \/ Has(job[p].found, k)
    <3>1. SUFFICES ASSUME NEW k \in Skills, Lasting(since[p], k), SourceOf[k] = source
                   PROVE  k \in skills
      BY <2>1, <2>8
    <3>2. Told(since[p].lists, source) /\ k \in listed BY <2>6, <3>1 DEF Lasting
    <3> QED BY <2>7, <3>1, <3>2 DEF Listing, On
  <2>10. PICK label \in {"list", "release", "found"}, work \in Jobs :
             /\ Goto(p, label, work)
             /\ Discovering(label, work, since[p])
             /\ work.command = next.command /\ work.base = next.base
             /\ work.status = next.status
    BY <2>1, <2>3, <2>4, <2>5, <2>9, NextIsAsked
  <2> QED BY <1>1, <1>3, <1>7, <2>4, <2>10, Explores
<1>8. CASE ~GiveUp(p)
  <2>1. UNCHANGED used BY <1>8 DEF ListPage
  <2>2. job[p].page > 1 => total = job[p].total BY <1>8 DEF ListPage
  <2>3. CASE seen < total
    BY <1>6, <1>8, <2>1, <2>2, <2>3 DEF ListPage
  <2>4. CASE ~(seen < total)
    BY <1>7, <1>8, <2>1, <2>2, <2>4 DEF ListPage
  <2> QED BY <2>3, <2>4
<1> QED BY <1>4, <1>8

\* The releases of the first Skill that was not asked for yet.
LEMMA AskReleaseKeeps == ASSUME IInv, NEW p \in Procs, AskRelease(p) PROVE IInv'
<1> DEFINE k == CHOOSE k \in job[p].skills :
                    \A l \in job[p].skills : Position(k) <= Position(l)
           found == {[skill |-> k, version |-> v] : v \in Latest(k)}
           next == [job[p] EXCEPT !.skills = job[p].skills \ {k},
                                  !.found = job[p].found \cup found]
<1>1. /\ CenterTypes /\ ProcessTypes /\ job[p] \in Jobs /\ Watching(p) /\ pc[p] = "release"
      /\ Discovering(pc[p], job[p], since[p]) /\ Working(pc[p], job[p])
  BY OfStep DEF AskRelease, At
<1>2. UNCHANGED <<center, disk, lock, since>> BY DEF AskRelease
<1>3. UNCHANGED used => Quiet BY <1>1, <1>2 DEF Quiet, CenterTypes, UsedTypes
<1>4. CASE GiveUp(p)
  <2>1. Quiet BY <1>2, <1>3, <1>4, FaultCounts DEF AskRelease, Quiet
  <2> QED BY <1>1, <1>4, <2>1, FaultKeeps
<1>5. CASE ~GiveUp(p)
  <2>1. /\ UNCHANGED used /\ AskNext(p, next) /\ ~(Cardinality(found) > 1)
    BY <1>5 DEF AskRelease
  <2>2. job[p].skills \in SUBSET Skills /\ job[p].skills # {}
    BY <1>1 DEF Jobs, Discovering
  <2>3. k \in job[p].skills /\ k \in Skills BY <2>2, FirstOf
  <2> HIDE DEF k
  <2>4. \A v \in Latest(k) : Latest(k) = {v} BY <1>1, <2>1, <2>3, OneLatest
  <2>5. Latest(k) \in SUBSET Versions /\ IsFiniteSet(Latest(k))
    <3>1. Latest(k) \subseteq Versions BY <1>1, <2>3 DEF Latest, Newest, CenterTypes
    <3>2. CASE Latest(k) = {} BY <3>1, <3>2, FS_EmptySet
    <3>3. ASSUME NEW v \in Latest(k) PROVE IsFiniteSet(Latest(k))
      BY <2>4, <3>3, FS_Singleton
    <3> QED BY <3>1, <3>2, <3>3
  <2>6. found \in SUBSET Releases BY <2>3, <2>5 DEF Releases
  <2>7. IsFiniteSet(found)
    <3>1. CASE Latest(k) = {} BY <3>1, FS_EmptySet
    <3>2. ASSUME NEW v \in Latest(k) PROVE IsFiniteSet(found)
      <4>1. found = {[skill |-> k, version |-> v]} BY <2>4, <3>2
      <4> QED BY <4>1, FS_Singleton
    <3> QED BY <3>1, <3>2
  <2>8. next \in Jobs BY <1>1, <2>6 DEF Jobs
  <2>9. /\ next.command = job[p].command /\ next.base = job[p].base
        /\ next.status = job[p].status /\ next.source = job[p].source
        /\ next.found = job[p].found \cup found /\ next.skills = job[p].skills \ {k}
    BY <1>1 DEF Jobs
  <2>10. \A r \in found : r.skill = k /\ r.version \in Latest(k) OBVIOUS
  <2>11. \A v \in Latest(k) : [skill |-> k, version |-> v] \in found
                             /\ [skill |-> k, version |-> v].skill = k
    OBVIOUS
  <2> HIDE DEF next, found
  <2>12. Latest(k) \in since[p].latest[k] BY <1>1, <2>3 DEF Watching
  <2>13. Offered(since[p], next.found)
    <3>1. Offered(since[p], job[p].found) BY <1>1 DEF Discovering, Exploring
    <3>2. IsFiniteSet(job[p].found) BY <3>1 DEF Offered
    <3>5. IsFiniteSet(job[p].found \cup found) BY <2>7, <3>2, FS_Union
    <3>3. \E list \in since[p].lists : k \in list BY <1>1, <2>3 DEF Discovering
    <3>4. \A r \in found : {r.version} \in since[p].latest[r.skill]
      BY <2>4, <2>10, <2>12
    <3> QED BY <2>9, <2>10, <3>1, <3>3, <3>4, <3>5 DEF Offered
  <2>14. Lasting(since[p], k) => Has(next.found, k)
    BY <2>9, <2>11, <2>12 DEF Lasting, Has
  <2>15. \A l \in Skills : Lasting(since[p], l) /\ SourceOf[l] <= next.source =>
            l \in next.skills \/ Has(next.found, l)
    BY <1>1, <2>9, <2>14 DEF Discovering, Has
  <2>16. \A l \in next.skills : \E list \in since[p].lists : l \in list
    BY <1>1, <2>9 DEF Discovering
  <2>17. PICK label \in {"list", "release", "found"}, work \in Jobs :
             /\ Goto(p, label, work)
             /\ Discovering(label, work, since[p])
             /\ work.command = next.command /\ work.base = next.base
             /\ work.status = next.status
    BY <2>1, <2>8, <2>13, <2>15, <2>16, NextIsAsked
  <2> QED BY <1>1, <1>3, <2>1, <2>9, <2>17, Explores
<1> QED BY <1>4, <1>5

-----------------------------------------------------------------------------
(* The steps of a sync                                                     *)

\* A command that begins has seen the center as it is.
LEMMA WatchBegins ==
    ASSUME CenterTypes, ProcessTypes, NEW p \in Procs, Watch(p)
    PROVE  /\ since'[p] \in Seen /\ since'[p].lists = {listed}
           /\ \A k \in Skills : since'[p].latest[k] = {Latest(k)}
           /\ since' \in [Procs -> Seen]
           /\ \A q \in Procs \ {p} : since'[q] = since[q]
<1> DEFINE look == Seeing(NothingSeen, listed, released)
<1>1. /\ look \in Seen
      /\ look.lists = NothingSeen.lists \cup {listed}
      /\ \A k \in Skills : look.latest[k] = NothingSeen.latest[k] \cup {Newest(released[k])}
  <2>1. /\ listed \in SUBSET Skills
        /\ released \in [Skills -> SUBSET [version : Versions, at : Nat]]
    BY DEF CenterTypes
  <2>2. NothingSeen \in Seen BY NothingAtFirst
  <2>3. look \in Seen /\ look.lists = NothingSeen.lists \cup {listed}
    BY <2>1, <2>2, SeeingAdds
  <2>4. ASSUME NEW k \in Skills
        PROVE  look.latest[k] = NothingSeen.latest[k] \cup {Newest(released[k])}
    BY DEF Seeing
  <2> QED BY <2>3, <2>4
<1>2. since' = [since EXCEPT ![p] = look] BY DEF Watch
<1> HIDE DEF look
<1>3. /\ since'[p] = look /\ since' \in [Procs -> Seen]
      /\ \A q \in Procs \ {p} : since'[q] = since[q]
  BY <1>1, <1>2 DEF ProcessTypes
<1> QED BY <1>1, <1>3, NothingAtFirst DEF Latest

\* A sync takes the lock and remembers what is active.
LEMMA SyncBeginKeeps == ASSUME IInv, NEW p \in Procs, SyncBegin(p) PROVE IInv'
<1> DEFINE work == [NoJob EXCEPT !.command = "sync", !.base = current]
<1>1. /\ Types /\ CenterTypes /\ DiskTypes /\ ProcessTypes /\ Snapshots /\ Receipts
      /\ p # NoProc
  BY OfStep DEF IInv
<1>2. /\ lock = NoProc /\ lock' = p /\ Goto(p, "list", work)
      /\ Watch(p) /\ UNCHANGED <<center, disk, used>>
  BY DEF SyncBegin
<1>3. work \in Jobs BY <1>1, NoJobIsAJob DEF Jobs, DiskTypes
<1>4. /\ work.command = "sync" /\ work.base = current /\ work.source = 1 /\ work.page = 1
      /\ work.skills = {} /\ work.found = {} /\ work.status = "none"
  BY NoJobIsAJob DEF Jobs
<1> HIDE DEF work
<1>5. /\ since'[p] \in Seen /\ since'[p].lists = {listed}
      /\ \A k \in Skills : since'[p].latest[k] = {Latest(k)}
      /\ since' \in [Procs -> Seen]
      /\ \A q \in Procs \ {p} : since'[q] = since[q]
  BY <1>1, <1>2, WatchBegins
<1>6. pc'[p] = "list" /\ job'[p] = work BY <1>1, <1>2, GotoSets
<1>7. Types'
  BY <1>1, <1>2, <1>3, <1>5, GotoSets
  DEF Types, CenterTypes, DiskTypes, ProcessTypes, center, disk, Labels
<1>8. Guarantee(p) BY <1>1, <1>2, <1>5, GotoSets DEF Guarantee, center, disk
<1>9. Snapshots' /\ Receipts' BY <1>1, <1>2 DEF Snapshots, Receipts, disk
<1>10. Discovering("list", work, since'[p])
  <2>1. Offered(since'[p], {}) BY FS_EmptySet DEF Offered
  <2>2. Paged(work, since'[p]) BY <1>4 DEF Paged
  <2>3. \A k \in Skills : ~(SourceOf[k] < 1) BY MirrorAssumption DEF Sources
  <2> QED BY <1>4, <2>1, <2>2, <2>3 DEF Discovering, Exploring, Known
<1>11. Discovering(pc[p], job[p], since[p])' BY <1>6, <1>10
<1>12. Working(pc[p], job[p])' BY <1>4, <1>6 DEF Working
<1>13. Choosing(pc[p], job[p])' BY <1>6 DEF Choosing
<1>14. Watching(p)' BY <1>2, <1>5 DEF Watching, Latest, center
<1>15. Binding(p)' BY <1>2, <1>4, <1>6 DEF Binding, disk
<1>16. Drifting(p)' BY <1>1, <1>2, <1>4, <1>6 DEF Drifting, Snapshots, disk
<1>17. OfProcess(p)'
  BY <1>2, <1>4, <1>6, <1>11, <1>12, <1>13, <1>14, <1>15, <1>16 DEF OfProcess
<1> QED BY <1>7, <1>8, <1>9, <1>17, Keeping

\* A sync whose discovery is that of the receipt, and whose snapshot is that of
\* the receipt, has nothing to do.
LEMMA UnchangedIsComplete ==
    ASSUME IInv, NEW p \in Procs, pc[p] = "found", AlreadyCurrent(job[p].found)
    PROVE  Readable(current) /\ Complete(since[p], current)
<1>1. /\ DiskTypes /\ Snapshots /\ Receipts
      /\ job[p] \in Jobs /\ since[p] \in Seen
      /\ Discovering(pc[p], job[p], since[p])
  BY OfStep
<1>2. /\ receipt # NoReceipt /\ receipt.discovered = job[p].found
      /\ current # NoSnapshot /\ receipt.snapshot = current /\ receipt.edits = Edits(current)
  BY DEF AlreadyCurrent, MatchesReceipt
<1>3. Readable(current) BY <1>1, <1>2 DEF Readable, Snapshots, Receipts
<1>4. /\ Selectable(Claims(job[p].found)) /\ current = Selected(Claims(job[p].found))
  BY <1>1, <1>2 DEF Receipts
<1>5. /\ Offered(since[p], job[p].found) /\ job[p].found \in SUBSET Releases
      /\ \A k \in Skills : Lasting(since[p], k) => Has(job[p].found, k)
  BY <1>1 DEF Discovering, Exploring, Known, Jobs
<1> QED BY <1>1, <1>3, <1>4, <1>5, FoundIsComplete

\* A sync accepts what it found, or finds that it is active already.
LEMMA AcceptKeeps == ASSUME IInv, NEW p \in Procs, Accept(p) PROVE IInv'
<1> DEFINE found == job[p].found
           work == [job[p] EXCEPT !.claims = Selected(Claims(found))]
<1>1. /\ CenterTypes /\ ProcessTypes /\ job[p] \in Jobs /\ pc[p] = "found"
      /\ job[p].command = "sync"
      /\ lock = p <=> job[p].command = "sync"
      /\ Working(pc[p], job[p]) /\ Discovering(pc[p], job[p], since[p])
      /\ Watching(p) /\ Binding(p) /\ Drifting(p) /\ since[p] \in Seen
  BY OfStep DEF Accept, At
<1>2. UNCHANGED <<center, disk, lock, since>> BY DEF Accept
<1>3. UNCHANGED used => Quiet BY <1>1, <1>2 DEF Quiet, CenterTypes, UsedTypes
<1>4. CASE GiveUp(p)
  <2>1. Quiet BY <1>2, <1>3, <1>4, FaultCounts DEF Accept, Quiet
  <2> QED BY <1>1, <1>4, <2>1, FaultKeeps
<1>5. Watching(p)' \/ pc'[p] = "idle" BY <1>1, <1>2 DEF Watching, Latest, center
<1>6. ASSUME UNCHANGED used, AlreadyCurrent(found), Return(p, "unchanged") PROVE IInv'
  <2>1. Readable(current) /\ Complete(since[p], current)
    BY <1>1, <1>6, UnchangedIsComplete
  <2>2. /\ Goto(p, "return", job'[p]) /\ "return" \in Labels /\ job'[p] \in Jobs
        /\ pc'[p] = "return" /\ job'[p].command = "sync"
        /\ job'[p].base = job[p].base /\ job'[p].status = "unchanged"
    BY <1>1, <1>6, Returned DEF SyncResults
  <2>3. Working(pc[p], job[p])' BY <2>2 DEF Working, SyncResults
  <2>4. Discovering(pc[p], job[p], since[p])' BY <2>2 DEF Discovering, Exploring, Known
  <2>5. Choosing(pc[p], job[p])' BY <2>2 DEF Choosing
  <2>6. Readable(current)' BY <1>2, <2>1 DEF Readable, Edits, disk
  <2>7. current' = current /\ since' = since BY <1>2 DEF disk
  <2>8. Binding(p)' BY <2>1, <2>2, <2>6, <2>7 DEF Binding, Failed
  <2>9. Drifting(p)' BY <1>1, <1>2, <2>2 DEF Drifting, disk
  <2>10. OfProcess(p)'
    BY <1>1, <1>2, <1>5, <2>2, <2>3, <2>4, <2>5, <2>8, <2>9 DEF OfProcess
  <2> QED BY <1>3, <1>6, <2>2, <2>10, QuietKeeps
<1>7. ASSUME UNCHANGED used, Chosen(found), Goto(p, "publish", work) PROVE IInv'
  <2>1. Offered(since[p], found) /\ found \in SUBSET Releases
    BY <1>1 DEF Discovering, Exploring, Known, Jobs
  <2>2. Selected(Claims(found)) \in SUBSET PackageClaims
    BY <1>7, <2>1, SelectsWhole DEF Offered, Chosen
  <2>3. work \in Jobs BY <1>1, <2>2 DEF Jobs
  <2>4. /\ work.command = "sync" /\ work.base = job[p].base /\ work.status = job[p].status
        /\ work.found = found /\ work.claims = Selected(Claims(found))
        /\ work.skills = job[p].skills
    BY <1>1 DEF Jobs
  <2> HIDE DEF work
  <2>5. pc'[p] = "publish" /\ job'[p] = work BY <1>1, <1>7, GotoSets
  <2>6. Working(pc[p], job[p])' BY <1>1, <2>4, <2>5 DEF Working
  <2>7. Discovering("publish", work, since[p])
    BY <1>1, <2>4 DEF Discovering, Exploring, Known
  <2>8. Discovering(pc[p], job[p], since[p])' BY <1>2, <2>5, <2>7
  <2>9. Choosing(pc[p], job[p])' BY <1>7, <2>4, <2>5 DEF Choosing
  <2>10. Binding(p)' BY <1>1, <1>2, <2>4, <2>5 DEF Binding, disk
  <2>11. Drifting(p)' BY <1>1, <1>2, <2>4, <2>5 DEF Drifting, disk
  <2>12. OfProcess(p)'
    BY <1>1, <1>2, <1>5, <2>4, <2>5, <2>6, <2>8, <2>9, <2>10, <2>11 DEF OfProcess
  <2>13. "publish" \in Labels BY DEF Labels
  <2> QED BY <1>3, <1>7, <2>3, <2>12, <2>13, QuietKeeps
<1>8. CASE ~GiveUp(p)
  <2>1. UNCHANGED used BY <1>8 DEF Accept
  <2>2. CASE AlreadyCurrent(found) BY <1>6, <1>8, <2>1, <2>2 DEF Accept
  <2>3. CASE ~AlreadyCurrent(found)
    <3>1. Chosen(found) /\ Goto(p, "publish", work) BY <1>8, <2>3 DEF Accept, Chosen
    <3> QED BY <1>7, <2>1, <3>1
  <2> QED BY <2>2, <2>3
<1> QED BY <1>4, <1>8

\* The snapshot is installed, unless another has its name.
LEMMA PublishKeeps == ASSUME IInv, NEW p \in Procs, Publish(p) PROVE IInv'
<1> DEFINE claims == job[p].claims
<1>1. /\ Types /\ CenterTypes /\ DiskTypes /\ ProcessTypes /\ Snapshots /\ Receipts
      /\ job[p] \in Jobs /\ pc[p] = "publish" /\ job[p].command = "sync"
      /\ lock = p <=> job[p].command = "sync"
      /\ Working(pc[p], job[p]) /\ Discovering(pc[p], job[p], since[p])
      /\ Choosing(pc[p], job[p]) /\ Watching(p) /\ Binding(p) /\ Drifting(p)
  BY OfStep DEF Publish, At, Working, IInv
<1>2. UNCHANGED <<center, edited, current, receipt, lock, since>> BY DEF Publish
<1>3. CASE GiveUp(p)
  <2>1. CASE UNCHANGED installed
    <3>1. UNCHANGED <<center, disk, lock, since>> BY <1>2, <2>1 DEF disk
    <3>2. used' \in UsedTypes
      BY <1>1, FaultCounts DEF Publish, CenterTypes, UsedTypes
    <3> QED BY <1>1, <1>3, <3>1, <3>2, FaultKeeps DEF Quiet
  <2>2. CASE Goto(p, "activate", job[p])
    <3>1. pc'[p] = "activate" BY <1>1, <2>2, GotoSets
    <3>2. Return(p, "error") BY <1>1, <1>3 DEF GiveUp
    <3>3. pc'[p] = "return" BY <1>1, <3>2, Returned DEF SyncResults
    <3> QED BY <3>1, <3>3
  <2> QED BY <2>1, <2>2 DEF Publish
<1>4. CASE ~GiveUp(p)
  <2>1. /\ Publishable(claims) /\ installed' = installed \cup {claims}
        /\ Goto(p, "activate", job[p]) /\ UNCHANGED used
    BY <1>4 DEF Publish
  <2>2. pc'[p] = "activate" /\ job'[p] = job[p] BY <1>1, <2>1, GotoSets
  <2>3. IsFiniteSet(job[p].found) /\ Chosen(job[p].found) /\ job[p].found \in SUBSET Releases
        /\ claims = Selected(Claims(job[p].found))
    BY <1>1 DEF Discovering, Exploring, Known, Offered, Choosing, Jobs
  <2>4. Whole(claims) /\ claims \in SUBSET PackageClaims
    BY <2>3, SelectsWhole DEF Chosen
  <2>5. Types'
    BY <1>1, <1>2, <2>1, <2>4, GotoSets
    DEF Types, CenterTypes, DiskTypes, ProcessTypes, center, Labels
  <2>6. Guarantee(p) BY <1>1, <1>2, <2>1, GotoSets DEF Guarantee, center
  <2>7. Snapshots'
    BY <1>1, <1>2, <2>1, <2>4 DEF Snapshots, Publishable
  <2>8. Receipts' BY <1>1, <1>2 DEF Receipts
  <2>9. Readable(claims)'
    <3>1. CASE claims \in installed
      <4>1. Readable(claims) BY <2>1, <3>1 DEF Publishable
      <4> QED BY <1>2, <2>1, <2>2, <4>1 DEF Readable, Edits
    <3>2. CASE claims \notin installed
      <4>1. \A id \in Ids : <<claims, id>> \notin edited
        <5>1. ASSUME NEW id \in Ids, <<claims, id>> \in edited PROVE FALSE
          <6>1. <<claims, id>>[1] \in installed BY <1>1, <5>1 DEF Snapshots
          <6> QED BY <3>2, <6>1
        <5> QED BY <5>1
      <4> QED BY <1>2, <2>1, <2>2, <4>1 DEF Readable, Edits
    <3> QED BY <3>1, <3>2
  <2>10. Working(pc[p], job[p])' BY <1>1, <2>2 DEF Working
  <2>11. Discovering("activate", job[p], since[p])
    BY <1>1 DEF Discovering, Exploring, Known
  <2>12. Discovering(pc[p], job[p], since[p])' BY <1>2, <2>2, <2>11
  <2>13. Choosing(pc[p], job[p])' BY <1>1, <2>2 DEF Choosing
  <2>14. Watching(p)' BY <1>1, <1>2, <2>2 DEF Watching, Latest, center
  <2>15. Binding(p)' BY <1>1, <1>2, <2>2, <2>9 DEF Binding
  <2>16. Drifting(p)' BY <1>1, <2>1, <2>2 DEF Drifting
  <2>17. OfProcess(p)'
    BY <1>1, <1>2, <2>2, <2>10, <2>12, <2>13, <2>14, <2>15, <2>16 DEF OfProcess
  <2> QED BY <2>5, <2>6, <2>7, <2>8, <2>17, Keeping
<1> QED BY <1>3, <1>4

\* A failure after the publication: what was active is to be put back.
LEMMA RestoreBegins ==
    ASSUME IInv, NEW p \in Procs, pc[p] \in {"activate", "receipt"}, Fault,
           Goto(p, "restore", job[p]), UNCHANGED <<center, disk, lock, since>>
    PROVE  IInv'
<1>1. /\ ProcessTypes /\ job[p] \in Jobs
      /\ lock = p <=> job[p].command = "sync"
      /\ Working(pc[p], job[p]) /\ Discovering(pc[p], job[p], since[p])
      /\ Choosing(pc[p], job[p]) /\ Watching(p) /\ Binding(p) /\ Drifting(p)
  BY OfStep
<1>2. pc'[p] = "restore" /\ job'[p] = job[p] /\ "restore" \in Labels
  BY <1>1, GotoSets DEF Labels
<1>3. Quiet BY FaultCounts DEF Quiet
<1>4. since' = since /\ lock' = lock /\ UNCHANGED <<listed, released, installed, edited, current>>
  BY DEF center, disk
<1>5. job[p].command = "sync" BY <1>1 DEF Working
<1>6. Working(pc[p], job[p])' BY <1>1, <1>2 DEF Working
<1>7. Discovering("restore", job[p], since[p]) BY <1>1 DEF Discovering, Exploring, Known
<1>8. Discovering(pc[p], job[p], since[p])' BY <1>2, <1>4, <1>7
<1>9. Choosing(pc[p], job[p])' BY <1>1, <1>2 DEF Choosing
<1>10. Watching(p)' BY <1>1, <1>2, <1>4 DEF Watching, Latest
<1>11. Readable(job[p].claims)' BY <1>1, <1>2, <1>4, <1>5 DEF Binding, Readable, Edits
<1>12. Binding(p)' BY <1>1, <1>2, <1>4, <1>5, <1>11 DEF Binding
<1>13. Drifting(p)' BY <1>1, <1>2, <1>4 DEF Drifting
<1>14. OfProcess(p)'
  BY <1>1, <1>2, <1>4, <1>6, <1>8, <1>9, <1>10, <1>12, <1>13 DEF OfProcess
<1> QED BY <1>1, <1>2, <1>3, <1>14, QuietKeeps

\* The snapshot is made active, or what was active is to be put back.
LEMMA ActivateKeeps == ASSUME IInv, NEW p \in Procs, Activate(p) PROVE IInv'
<1>1. /\ Types /\ CenterTypes /\ DiskTypes /\ ProcessTypes /\ Snapshots /\ Receipts
      /\ job[p] \in Jobs /\ pc[p] = "activate" /\ job[p].command = "sync"
      /\ lock = p <=> job[p].command = "sync"
      /\ Working(pc[p], job[p]) /\ Discovering(pc[p], job[p], since[p])
      /\ Choosing(pc[p], job[p]) /\ Watching(p) /\ Binding(p) /\ Drifting(p)
  BY OfStep DEF Activate, At, Working, IInv
<1>2. UNCHANGED <<center, installed, edited, receipt, lock, since>> BY DEF Activate
<1>3. current = job[p].base /\ Readable(job[p].claims) BY <1>1 DEF Binding
<1>4. CASE Fault /\ Goto(p, "restore", job[p]) /\ UNCHANGED current
  BY <1>1, <1>2, <1>4, RestoreBegins DEF disk
<1>5. CASE current' = job[p].claims /\ Goto(p, "receipt", job[p]) /\ UNCHANGED used
  <2>1. pc'[p] = "receipt" /\ job'[p] = job[p] BY <1>1, <1>5, GotoSets
  <2>2. job[p].claims \in installed BY <1>3 DEF Readable
  <2>3. Types'
    BY <1>1, <1>2, <1>5, <2>2, GotoSets
    DEF Types, CenterTypes, DiskTypes, ProcessTypes, center, Labels
  <2>4. Guarantee(p) BY <1>1, <1>2, <1>5, GotoSets DEF Guarantee, center
  <2>5. Snapshots' BY <1>1, <1>2, <1>5, <2>2 DEF Snapshots
  <2>6. Receipts' BY <1>1, <1>2 DEF Receipts
  <2>7. Working(pc[p], job[p])' BY <1>1, <2>1 DEF Working
  <2>8. Discovering("receipt", job[p], since[p])
    BY <1>1 DEF Discovering, Exploring, Known
  <2>9. Discovering(pc[p], job[p], since[p])' BY <1>2, <2>1, <2>8
  <2>10. Choosing(pc[p], job[p])' BY <1>1, <2>1 DEF Choosing
  <2>11. Watching(p)' BY <1>1, <1>2, <2>1 DEF Watching, Latest, center
  <2>12. Readable(job[p].claims)' BY <1>2, <1>3, <2>1 DEF Readable, Edits
  <2>13. Binding(p)' BY <1>1, <1>5, <2>1, <2>12 DEF Binding
  <2>14. Drifting(p)' BY <1>1, <1>2, <2>1 DEF Drifting
  <2>15. OfProcess(p)'
    BY <1>1, <1>2, <2>1, <2>7, <2>9, <2>10, <2>11, <2>13, <2>14 DEF OfProcess
  <2> QED BY <2>3, <2>4, <2>5, <2>6, <2>15, Keeping
<1> QED BY <1>4, <1>5 DEF Activate

\* The receipt is written, or what was active is to be put back.
LEMMA WriteReceiptKeeps == ASSUME IInv, NEW p \in Procs, WriteReceipt(p) PROVE IInv'
<1> DEFINE written == [discovered |-> job[p].found, snapshot |-> job[p].claims,
                       edits |-> Edits(job[p].claims)]
<1>1. /\ Types /\ CenterTypes /\ DiskTypes /\ ProcessTypes /\ Snapshots /\ Receipts
      /\ job[p] \in Jobs /\ since[p] \in Seen /\ pc[p] = "receipt" /\ job[p].command = "sync"
      /\ lock = p <=> job[p].command = "sync"
      /\ Working(pc[p], job[p]) /\ Discovering(pc[p], job[p], since[p])
      /\ Choosing(pc[p], job[p]) /\ Watching(p) /\ Binding(p) /\ Drifting(p)
  BY OfStep DEF WriteReceipt, At, Working, IInv
<1>2. UNCHANGED <<center, installed, edited, current, lock, since>> BY DEF WriteReceipt
<1>3. current = job[p].claims /\ Readable(job[p].claims) BY <1>1 DEF Binding
<1>4. CASE Fault /\ Goto(p, "restore", job[p]) /\ UNCHANGED receipt
  BY <1>1, <1>2, <1>4, RestoreBegins DEF disk
<1>5. CASE receipt' = written /\ Return(p, "updated") /\ UNCHANGED used
  <2>1. /\ Goto(p, "return", job'[p]) /\ "return" \in Labels /\ job'[p] \in Jobs
        /\ pc'[p] = "return" /\ job'[p].command = "sync"
        /\ job'[p].base = job[p].base /\ job'[p].status = "updated"
    BY <1>1, <1>5, Returned DEF SyncResults
  <2>2. /\ Offered(since[p], job[p].found) /\ job[p].found \in SUBSET Releases
        /\ \A k \in Skills : Lasting(since[p], k) => Has(job[p].found, k)
    BY <1>1 DEF Discovering, Exploring, Known, Jobs
  <2>3. /\ Selectable(Claims(job[p].found))
        /\ job[p].claims = Selected(Claims(job[p].found))
    BY <1>1 DEF Choosing, Chosen
  <2>4. Complete(since[p], current)
    BY <1>1, <1>3, <2>2, <2>3, FoundIsComplete
  <2>5. written.edits = {} /\ written.snapshot = job[p].claims
        /\ written.discovered = job[p].found /\ Edits(job[p].claims) \in SUBSET Ids
    BY <1>3 DEF Readable, Edits
  <2>6. written \in [discovered : SUBSET Releases, snapshot : SUBSET PackageClaims,
                     edits : SUBSET Ids]
    BY <1>1, <2>5 DEF Jobs
  <2> HIDE DEF written
  <2>7. Types'
    BY <1>1, <1>2, <1>5, <2>1, <2>6, GotoSets
    DEF Types, CenterTypes, DiskTypes, ProcessTypes, center
  <2>8. Guarantee(p) BY <1>1, <1>2, <1>5, <2>1, GotoSets DEF Guarantee, center
  <2>9. Snapshots' BY <1>1, <1>2, <1>3, <1>5, <2>5 DEF Snapshots, Readable
  <2>10. Receipts' BY <1>5, <2>3, <2>5 DEF Receipts
  <2>11. Working(pc[p], job[p])' BY <2>1 DEF Working, SyncResults
  <2>12. Discovering(pc[p], job[p], since[p])' BY <2>1 DEF Discovering, Exploring, Known
  <2>13. Choosing(pc[p], job[p])' BY <2>1 DEF Choosing
  <2>14. Watching(p)' BY <1>1, <1>2, <2>1 DEF Watching, Latest, center
  <2>15. Readable(current)' BY <1>2, <1>3, <1>5 DEF Readable, Edits
  <2>16. current' = current /\ since' = since BY <1>2, <1>5
  <2>17. Binding(p)' BY <2>1, <2>4, <2>15, <2>16 DEF Binding, Failed
  <2>18. Drifting(p)' BY <1>1, <1>2, <2>1 DEF Drifting
  <2>19. OfProcess(p)'
    BY <1>1, <1>2, <2>1, <2>11, <2>12, <2>13, <2>14, <2>17, <2>18 DEF OfProcess
  <2> QED BY <2>7, <2>8, <2>9, <2>10, <2>19, Keeping
<1> QED BY <1>4, <1>5 DEF WriteReceipt

\* What was active is put back, or stays what the sync has left there.
LEMMA PutBackKeeps == ASSUME IInv, NEW p \in Procs, PutBack(p) PROVE IInv'
<1>1. /\ Snapshots /\ pc[p] = "restore" /\ job[p].command = "sync" /\ pc[p] \in Exploring
      /\ lock = p /\ job[p] \in Jobs /\ since[p] \in Seen
      /\ Discovering(pc[p], job[p], since[p]) /\ Choosing(pc[p], job[p])
      /\ Binding(p) /\ Drifting(p)
  BY OfStep DEF PutBack, At, Working, Exploring, Known
<1>2. UNCHANGED <<center, installed, edited, receipt, lock, since>> BY DEF PutBack
<1>3. /\ current \in {job[p].base, job[p].claims} /\ Readable(job[p].claims)
      /\ current \in installed \cup {NoSnapshot} /\ job[p].base \in installed \cup {NoSnapshot}
  BY <1>1 DEF Binding, Drifting, Snapshots
<1>4. Complete(since[p], job[p].claims)
  <2>1. /\ Offered(since[p], job[p].found) /\ job[p].found \in SUBSET Releases
        /\ \A k \in Skills : Lasting(since[p], k) => Has(job[p].found, k)
    BY <1>1 DEF Discovering, Exploring, Known, Jobs
  <2>2. /\ Selectable(Claims(job[p].found))
        /\ job[p].claims = Selected(Claims(job[p].found))
    BY <1>1 DEF Choosing, Chosen
  <2> QED BY <1>1, <2>1, <2>2, FoundIsComplete
<1>5. CASE /\ current' = IF job[p].base = NoSnapshot THEN current ELSE job[p].base
           /\ GiveUp(p) /\ UNCHANGED used
  <2>1. Return(p, "error") BY <1>1, <1>5 DEF GiveUp
  <2>2. used' \in UsedTypes BY <1>5 DEF IInv, Types, CenterTypes
  <2>3. current' \in installed \cup {NoSnapshot} BY <1>3, <1>5
  <2>4. \/ current' = job[p].base
        \/ /\ job[p].base = NoSnapshot
           /\ Readable(current') /\ Complete(since[p], current')
    BY <1>3, <1>4, <1>5
  <2> QED BY <1>1, <1>2, <2>1, <2>2, <2>3, <2>4, Fails
<1>6. CASE Fault /\ Return(p, "unrestored") /\ UNCHANGED current
  <2>1. used' \in UsedTypes BY <1>6, FaultCounts
  <2>2. current' = job[p].base \/ (Readable(current') /\ Complete(since[p], current'))
    BY <1>3, <1>4, <1>6
  <2> QED BY <1>1, <1>2, <1>3, <1>6, <2>1, <2>2, Fails
<1> QED BY <1>5, <1>6 DEF PutBack

-----------------------------------------------------------------------------
(* The steps of a drift                                                    *)

\* A drift resolves the active snapshot.
LEMMA CheckBeginKeeps == ASSUME IInv, NEW p \in Procs, CheckBegin(p) PROVE IInv'
<1> DEFINE work == [NoJob EXCEPT !.command = "check", !.base = current]
<1>1. /\ Types /\ CenterTypes /\ DiskTypes /\ ProcessTypes /\ Snapshots /\ Receipts
      /\ p # NoProc
  BY OfStep DEF IInv
<1>2. /\ lock = NoProc /\ Goto(p, "list", work)
      /\ Watch(p) /\ UNCHANGED <<center, disk, lock, used>>
  BY DEF CheckBegin
<1>3. work \in Jobs BY <1>1, NoJobIsAJob DEF Jobs, DiskTypes
<1>4. /\ work.command = "check" /\ work.base = current /\ work.source = 1 /\ work.page = 1
      /\ work.skills = {} /\ work.found = {} /\ work.status = "none"
  BY NoJobIsAJob DEF Jobs
<1> HIDE DEF work
<1>5. /\ since'[p] \in Seen /\ since'[p].lists = {listed}
      /\ \A k \in Skills : since'[p].latest[k] = {Latest(k)}
      /\ since' \in [Procs -> Seen]
      /\ \A q \in Procs \ {p} : since'[q] = since[q]
  BY <1>1, <1>2, WatchBegins
<1>6. pc'[p] = "list" /\ job'[p] = work BY <1>1, <1>2, GotoSets
<1>7. Types'
  BY <1>1, <1>2, <1>3, <1>5, GotoSets
  DEF Types, CenterTypes, DiskTypes, ProcessTypes, center, disk, Labels
<1>8. Guarantee(p) BY <1>1, <1>2, <1>5, GotoSets DEF Guarantee, center, disk
<1>9. Snapshots' /\ Receipts' BY <1>1, <1>2 DEF Snapshots, Receipts, disk
<1>10. Discovering("list", work, since'[p])
  <2>1. Offered(since'[p], {}) BY FS_EmptySet DEF Offered
  <2>2. Paged(work, since'[p]) BY <1>4 DEF Paged
  <2>3. \A k \in Skills : ~(SourceOf[k] < 1) BY MirrorAssumption DEF Sources
  <2> QED BY <1>4, <2>1, <2>2, <2>3 DEF Discovering, Exploring, Known
<1>11. Discovering(pc[p], job[p], since[p])' BY <1>6, <1>10
<1>12. Working(pc[p], job[p])' BY <1>4, <1>6 DEF Working
<1>13. Choosing(pc[p], job[p])' BY <1>6 DEF Choosing
<1>14. Watching(p)' BY <1>2, <1>5 DEF Watching, Latest, center
<1>15. Binding(p)' BY <1>4, <1>6 DEF Binding
<1>16. Drifting(p)' BY <1>1, <1>2, <1>4, <1>6 DEF Drifting, Snapshots, disk
<1>17. OfProcess(p)'
  BY <1>1, <1>2, <1>4, <1>6, <1>11, <1>12, <1>13, <1>14, <1>15, <1>16 DEF OfProcess
<1> QED BY <1>7, <1>8, <1>9, <1>17, Keeping

\* A drift compares the trees, while the disk may change.
LEMMA CompareTreesKeeps == ASSUME IInv, NEW p \in Procs, CompareTrees(p) PROVE IInv'
<1> DEFINE found == job[p].found
           chosen == Selected(Claims(found))
           same == {c.id : c \in chosen \cap job[p].base} \ Edits(job[p].base)
           work == [job[p] EXCEPT !.claims = chosen, !.same = same]
<1>1. /\ CenterTypes /\ ProcessTypes /\ job[p] \in Jobs /\ pc[p] = "found"
      /\ job[p].command = "check"
      /\ lock = p <=> job[p].command = "sync"
      /\ Working(pc[p], job[p]) /\ Discovering(pc[p], job[p], since[p])
      /\ Watching(p) /\ Drifting(p)
  BY OfStep DEF CompareTrees, At
<1>2. UNCHANGED <<center, disk, lock, since, used>> BY DEF CompareTrees
<1>3. Quiet BY <1>1, <1>2 DEF Quiet, CenterTypes, UsedTypes
<1>4. CASE ~Selectable(Claims(found))
  <2>1. GiveUp(p) BY <1>4 DEF CompareTrees
  <2> QED BY <1>1, <1>3, <2>1, FaultKeeps
<1>5. CASE Selectable(Claims(found))
  <2>1. Goto(p, "judge", work) BY <1>5 DEF CompareTrees
  <2>2. Offered(since[p], found) /\ found \in SUBSET Releases
    BY <1>1 DEF Discovering, Exploring, Known, Jobs
  <2>3. chosen \in SUBSET PackageClaims BY <1>5, <2>2, SelectsWhole DEF Offered
  <2>4. same \in SUBSET Ids BY <2>3 DEF PackageClaims
  <2>5. work \in Jobs BY <1>1, <2>3, <2>4 DEF Jobs
  <2>6. /\ work.command = "check" /\ work.base = job[p].base /\ work.status = job[p].status
        /\ work.found = found /\ work.claims = chosen /\ work.same = same
        /\ work.skills = job[p].skills
    BY <1>1 DEF Jobs
  <2>7. /\ same \subseteq IdsOf(chosen \cap job[p].base)
        /\ IdsOf(chosen \cap job[p].base) \subseteq same \cup Edits(job[p].base)
    BY DEF IdsOf
  <2> HIDE DEF work, same
  <2>8. pc'[p] = "judge" /\ job'[p] = work BY <1>1, <2>1, GotoSets
  <2>9. Working(pc[p], job[p])' BY <1>1, <2>6, <2>8 DEF Working
  <2>10. Discovering("judge", work, since[p])
    BY <1>1, <2>6 DEF Discovering, Exploring, Known
  <2>11. Discovering(pc[p], job[p], since[p])' BY <1>2, <2>8, <2>10
  <2>12. Choosing(pc[p], job[p])' BY <1>5, <2>6, <2>8 DEF Choosing
  <2>13. Watching(p)' BY <1>1, <1>2, <2>8 DEF Watching, Latest, center
  <2>14. Binding(p)' BY <2>6, <2>8 DEF Binding
  <2>15. Drifting(p)' BY <1>1, <1>2, <2>6, <2>7, <2>8 DEF Drifting, Edits, disk
  <2>16. OfProcess(p)'
    BY <1>1, <1>2, <2>6, <2>8, <2>9, <2>11, <2>12, <2>13, <2>14, <2>15 DEF OfProcess
  <2>17. "judge" \in Labels BY DEF Labels
  <2> QED BY <1>3, <2>1, <2>5, <2>16, <2>17, QuietKeeps
<1> QED BY <1>4, <1>5

\* The report of a drift, and its summary, are of the kinds that there are.
LEMMA ReportOf ==
    ASSUME NEW p, job[p] \in Jobs
    PROVE  LET report == [id \in IdsOf(job[p].base \cup job[p].claims) |-> Status(p, id)] IN
           report \in Reports /\ Summary(report) \in Drifts
<1> DEFINE ids == IdsOf(job[p].base \cup job[p].claims)
           report == [id \in ids |-> Status(p, id)]
<1>1. ids \in SUBSET Ids BY DEF IdsOf, Jobs, PackageClaims
<1>2. \A id \in ids : Status(p, id) \in Drifts BY DEF Status, Drifts
<1>3. report \in [ids -> Drifts] BY <1>2
<1>4. report \in Reports BY <1>1, <1>3 DEF Reports
<1>5. Summary(report) \in Drifts BY DEF Summary, Drifts
<1> QED BY <1>4, <1>5

\* A drift answers.
LEMMA JudgeKeeps == ASSUME IInv, NEW p \in Procs, Judge(p) PROVE IInv'
<1> DEFINE report == [id \in IdsOf(job[p].base \cup job[p].claims) |-> Status(p, id)]
           work == [NoJob EXCEPT !.command = "check", !.report = report,
                                 !.status = Summary(report)]
<1>1. /\ CenterTypes /\ ProcessTypes /\ job[p] \in Jobs /\ pc[p] = "judge"
      /\ job[p].command = "check"
      /\ lock = p <=> job[p].command = "sync"
      /\ Watching(p) /\ Drifting(p)
  BY OfStep DEF Judge, At, Working
<1>2. UNCHANGED <<center, disk, lock, since, used>> BY DEF Judge
<1>3. Quiet BY <1>1, <1>2 DEF Quiet, CenterTypes, UsedTypes
<1>4. Goto(p, "return", work) BY DEF Judge
<1>5. report \in Reports /\ Summary(report) \in Drifts BY <1>1, ReportOf
<1> HIDE DEF report
<1>6. work \in Jobs /\ work.command = "check" /\ work.base = {} /\ work.status = Summary(report)
  BY <1>5, NoJobIsAJob DEF Jobs
<1> HIDE DEF work
<1>7. pc'[p] = "return" /\ job'[p] = work BY <1>1, <1>4, GotoSets
<1>8. Working(pc[p], job[p])' BY <1>5, <1>6, <1>7 DEF Working
<1>9. Discovering(pc[p], job[p], since[p])' BY <1>7 DEF Discovering, Exploring, Known
<1>10. Choosing(pc[p], job[p])' BY <1>7 DEF Choosing
<1>11. Watching(p)' BY <1>1, <1>2, <1>7 DEF Watching, Latest, center
<1>12. Binding(p)' BY <1>6, <1>7 DEF Binding
<1>13. Drifting(p)' BY <1>6, <1>7 DEF Drifting, NoSnapshot
<1>14. OfProcess(p)'
  BY <1>1, <1>2, <1>6, <1>7, <1>8, <1>9, <1>10, <1>11, <1>12, <1>13 DEF OfProcess
<1>15. "return" \in Labels BY DEF Labels
<1> QED BY <1>3, <1>4, <1>6, <1>14, <1>15, QuietKeeps

-----------------------------------------------------------------------------
(* The end of a command, and the world                                     *)

\* A command ends or is killed, and its lock is free.
LEMMA LeaveKeeps ==
    ASSUME IInv, NEW p \in Procs, Leave(p), used' \in UsedTypes
    PROVE  IInv'
<1>1. /\ Types /\ CenterTypes /\ DiskTypes /\ ProcessTypes /\ Snapshots /\ Receipts
      /\ p # NoProc
      /\ lock = p <=> job[p].command = "sync"
  BY OfStep DEF IInv
<1>2. /\ Goto(p, "idle", NoJob) /\ lock' = IF lock = p THEN NoProc ELSE lock
      /\ since' = [since EXCEPT ![p] = NothingSeen]
      /\ UNCHANGED <<center, disk>>
  BY DEF Leave
<1>3. pc'[p] = "idle" /\ job'[p] = NoJob BY <1>1, <1>2, GotoSets
<1>4. Types'
  BY <1>1, <1>2, GotoSets, NoJobIsAJob, NothingAtFirst
  DEF Types, CenterTypes, DiskTypes, ProcessTypes, center, disk, Labels, UsedTypes
<1>5. Guarantee(p) BY <1>1, <1>2, GotoSets DEF Guarantee, center, disk, ProcessTypes
<1>6. Snapshots' /\ Receipts' BY <1>1, <1>2 DEF Snapshots, Receipts, disk
<1>7. Working(pc[p], job[p])' BY <1>3, NoJobIsAJob DEF Working
<1>8. Discovering(pc[p], job[p], since[p])' BY <1>3 DEF Discovering, Exploring, Known
<1>9. Choosing(pc[p], job[p])' BY <1>3 DEF Choosing
<1>10. Watching(p)' BY <1>3 DEF Watching
<1>11. Binding(p)' BY <1>3, NoJobIsAJob DEF Binding
<1>12. Drifting(p)' BY <1>3, NoJobIsAJob DEF Drifting, NoSnapshot
<1>13. OfProcess(p)'
  BY <1>1, <1>2, <1>3, <1>7, <1>8, <1>9, <1>10, <1>11, <1>12, NoJobIsAJob DEF OfProcess
<1> QED BY <1>4, <1>5, <1>6, <1>13, Keeping

\* The center changes while processes run: each of them may see it.
LEMMA CenterMoves ==
    ASSUME IInv, CenterTypes', Observed, UNCHANGED <<disk, lock, pc, job>>
    PROVE  IInv'
<1>1. /\ Types /\ CenterTypes /\ DiskTypes /\ ProcessTypes /\ Snapshots /\ Receipts
  BY DEF IInv, Types
<1>2. ASSUME NEW q \in Procs
      PROVE  /\ since'[q] \in Seen /\ Within(since[q], since'[q])
             /\ pc[q] # "idle" => /\ listed' \in since'[q].lists
                                  /\ \A k \in Skills : Latest(k)' \in since'[q].latest[k]
  <2>1. CASE pc[q] = "idle"
    <3>1. since'[q] = since[q] BY <2>1 DEF Observed, At
    <3> QED BY <1>1, <2>1, <3>1 DEF Within, ProcessTypes
  <2>2. CASE pc[q] # "idle"
    <3> DEFINE look == Seeing(since[q], listed', released')
    <3>1. since'[q] = look BY <2>2 DEF Observed, At
    <3>2. since[q] \in Seen /\ listed' \in SUBSET Skills
          /\ released' \in [Skills -> SUBSET [version : Versions, at : Nat]]
      BY <1>1 DEF CenterTypes, ProcessTypes
    <3>3. look \in Seen /\ look.lists = since[q].lists \cup {listed'}
      BY <3>2, SeeingAdds
    <3>4. ASSUME NEW k \in Skills
          PROVE  look.latest[k] = since[q].latest[k] \cup {Latest(k)'}
      BY DEF Seeing, Latest
    <3> HIDE DEF look
    <3> QED BY <3>1, <3>3, <3>4 DEF Within
  <2> QED BY <2>1, <2>2
<1>3. since' \in [Procs -> Seen]
  <2>1. since' = [q \in Procs |-> since'[q]] BY DEF Observed
  <2> QED BY <1>2, <2>1
<1>4. Types' BY <1>1, <1>3 DEF Types, DiskTypes, ProcessTypes, disk
<1>5. Snapshots' /\ Receipts' BY <1>1 DEF Snapshots, Receipts, disk
<1>6. ASSUME NEW q \in Procs PROVE OfProcess(q)'
  <2>1. /\ lock = q <=> job[q].command = "sync"
        /\ Working(pc[q], job[q]) /\ Discovering(pc[q], job[q], since[q])
        /\ Choosing(pc[q], job[q]) /\ Binding(q) /\ Drifting(q) /\ job[q] \in Jobs
        /\ since[q] \in Seen
    BY OfStep
  <2>2. pc' = pc /\ job' = job /\ lock' = lock /\ current' = current BY DEF disk
  <2>3. Discovering(pc[q], job[q], since'[q]) BY <1>2, <2>1, KnowledgeLasts
  <2>4. Discovering(pc[q], job[q], since[q])' BY <2>2, <2>3
  <2>5. Watching(q)' BY <1>2, <2>2 DEF Watching
  <2>6. Complete(since[q], current) => Complete(since'[q], current)
    BY <1>1, <1>2, <2>1, CompleteLasts DEF DiskTypes
  <2>7. Complete(since[q], current)' <=> Complete(since'[q], current) BY <2>2
  <2>8. Readable(current)' <=> Readable(current) BY DEF Readable, Edits, disk
  <2>9. Readable(job[q].claims)' <=> Readable(job[q].claims) BY DEF Readable, Edits, disk
  <2>10. Failed(q) => Failed(q)' BY <2>2, <2>6, <2>7, <2>8 DEF Failed, Before, New
  <2>11. Binding(q)' BY <2>1, <2>2, <2>6, <2>7, <2>8, <2>9, <2>10 DEF Binding
  <2>12. Drifting(q)' BY <2>1, <2>2 DEF Drifting, Edits, disk
  <2> QED BY <2>1, <2>2, <2>4, <2>5, <2>11, <2>12 DEF OfProcess
<1> QED BY <1>4, <1>5, <1>6 DEF IInv

\* A release is published, or moved to the front.
LEMMA PublishReleaseKeeps ==
    ASSUME IInv, NEW k \in Skills, NEW v \in Versions, PublishRelease(k, v)
    PROVE  IInv'
<1>1. CenterTypes BY DEF IInv, Types
<1>2. PICK at \in {used.publishes + 1, used.publishes + 2} :
          released' = [released EXCEPT ![k] = {r \in @ : r.version # v}
                                                 \cup {[version |-> v, at |-> at]}]
  BY DEF PublishRelease
<1>3. at \in Nat BY <1>1, <1>2 DEF CenterTypes, UsedTypes
<1>4. used' \in UsedTypes BY <1>1, UseCounts DEF PublishRelease
<1> DEFINE kept == {r \in released[k] : r.version # v}
<1>5. IsFiniteSet(released[k]) BY <1>1 DEF CenterTypes
<1>6. IsFiniteSet(kept) BY <1>5, FS_Subset
<1>7. IsFiniteSet(kept \cup {[version |-> v, at |-> at]}) BY <1>6, FS_AddElement
<1>8. released'[k] = kept \cup {[version |-> v, at |-> at]} BY <1>1, <1>2 DEF CenterTypes
<1>9. \A l \in Skills : l # k => released'[l] = released[l] BY <1>1, <1>2 DEF CenterTypes
<1>10. \A l \in Skills : IsFiniteSet(released'[l]) BY <1>1, <1>7, <1>8, <1>9 DEF CenterTypes
<1>11. released' \in [Skills -> SUBSET [version : Versions, at : Nat]]
  BY <1>1, <1>2, <1>3 DEF CenterTypes
<1>12. listed' = listed BY DEF PublishRelease
<1>13. CenterTypes' BY <1>1, <1>4, <1>10, <1>11, <1>12 DEF CenterTypes, UsedTypes
<1> QED BY <1>13, CenterMoves DEF PublishRelease

\* A Skill is listed, or is no more.
LEMMA ListSkillKeeps == ASSUME IInv, NEW k \in Skills, ListSkill(k) PROVE IInv'
<1>1. CenterTypes BY DEF IInv, Types
<1>2. used' \in UsedTypes BY <1>1, UseCounts DEF ListSkill
<1>3. CenterTypes' BY <1>1, <1>2 DEF CenterTypes, UsedTypes, ListSkill
<1> QED BY <1>3, CenterMoves DEF ListSkill

\* A snapshot is edited, while no sync runs.
LEMMA EditKeeps ==
    ASSUME IInv, NEW snapshot \in installed, NEW id \in IdsOf(snapshot), Edit(snapshot, id)
    PROVE  IInv'
<1>1. /\ Types /\ CenterTypes /\ DiskTypes /\ ProcessTypes /\ Snapshots /\ Receipts
  BY DEF IInv, Types
<1>2. used' \in UsedTypes BY <1>1, UseCounts DEF Edit
<1>3. /\ lock = NoProc /\ edited' = edited \cup {<<snapshot, id>>}
      /\ UNCHANGED <<center, installed, current, receipt, lock, pc, job, since>>
  BY DEF Edit
<1>4. Types'
  BY <1>1, <1>2, <1>3 DEF Types, CenterTypes, DiskTypes, ProcessTypes, center, UsedTypes
<1>5. Snapshots' BY <1>1, <1>3 DEF Snapshots
<1>6. Receipts' BY <1>1, <1>3 DEF Receipts
<1>7. ASSUME NEW q \in Procs PROVE OfProcess(q)'
  <2>1. /\ lock = q <=> job[q].command = "sync"
        /\ Working(pc[q], job[q]) /\ Discovering(pc[q], job[q], since[q])
        /\ Choosing(pc[q], job[q]) /\ Watching(q) /\ Drifting(q) /\ q # NoProc
    BY OfStep
  <2>2. job[q].command # "sync" BY <1>3, <2>1
  <2>3. Binding(q)' BY <1>3, <2>2 DEF Binding
  <2>4. Watching(q)' BY <1>3, <2>1 DEF Watching, Latest, center
  <2>5. Edits(job[q].base) \subseteq Edits(job[q].base)' BY <1>3 DEF Edits
  <2>6. Drifting(q)' BY <1>3, <2>1, <2>5 DEF Drifting
  <2>7. Discovering(pc[q], job[q], since[q])' BY <1>3, <2>1
  <2> QED BY <1>3, <2>1, <2>3, <2>4, <2>6, <2>7 DEF OfProcess
<1> QED BY <1>4, <1>5, <1>6, <1>7 DEF IInv

-----------------------------------------------------------------------------
(* The invariant of the specification                                      *)

\* It holds at first.
LEMMA Initially == Init => IInv
<1> SUFFICES ASSUME Init PROVE IInv OBVIOUS
<1>1. PICK start \in Starts :
          released = [k \in Skills |-> {[version |-> v, at |-> v] : v \in 1..start[k]}]
  BY DEF Init
<1>2. ASSUME NEW k \in Skills
      PROVE  /\ released[k] \in SUBSET [version : Versions, at : Nat]
             /\ IsFiniteSet(released[k])
  <2>1. start[k] \in Nat /\ 1..start[k] \subseteq Versions BY MirrorAssumption
  <2> DEFINE release == [v \in 1..start[k] |-> [version |-> v, at |-> v]]
  <2>2. released[k] = {[version |-> v, at |-> v] : v \in 1..start[k]} BY <1>1
  <2>3. release \in Surjection(1..start[k], released[k]) BY <2>2 DEF Surjection
  <2>4. IsFiniteSet(1..start[k]) BY <2>1, FS_Interval
  <2>5. IsFiniteSet(released[k]) BY <2>3, <2>4, FS_Surjection
  <2> QED BY <2>1, <2>2, <2>5
<1>3. CenterTypes BY <1>1, <1>2 DEF CenterTypes, UsedTypes, Init
<1>4. DiskTypes BY DEF DiskTypes, Init, NoReceipt, NoSnapshot
<1>5. ProcessTypes BY NoJobIsAJob, NothingAtFirst DEF ProcessTypes, Init, Labels
<1>6. Snapshots BY DEF Snapshots, Init, NoReceipt, NoSnapshot
<1>7. Receipts BY DEF Receipts, Init
<1>8. ASSUME NEW p \in Procs PROVE OfProcess(p)
  <2>1. pc[p] = "idle" /\ job[p] = NoJob /\ lock = NoProc /\ p # NoProc
    BY MirrorAssumption DEF Init
  <2>2. Working(pc[p], job[p]) /\ Choosing(pc[p], job[p]) /\ Watching(p) /\ Binding(p)
    BY <2>1, NoJobIsAJob DEF Working, Choosing, Watching, Binding
  <2>3. Discovering(pc[p], job[p], since[p]) BY <2>1 DEF Discovering, Exploring, Known
  <2>4. Drifting(p) BY <2>1, NoJobIsAJob DEF Drifting, NoSnapshot
  <2> QED BY <2>1, <2>2, <2>3, <2>4, NoJobIsAJob DEF OfProcess
<1> QED BY <1>3, <1>4, <1>5, <1>6, <1>7, <1>8 DEF IInv, Types

\* Every step keeps it.
LEMMA StepKeeps == IInv /\ [Next]_vars => IInv'
<1> SUFFICES ASSUME IInv, [Next]_vars PROVE IInv' OBVIOUS
<1>1. ASSUME NEW p \in Procs, Sync(p) PROVE IInv'
  BY <1>1, SyncBeginKeeps, AcceptKeeps, PublishKeeps, ActivateKeeps, WriteReceiptKeeps,
     PutBackKeeps
  DEF Sync
<1>2. ASSUME NEW p \in Procs, Check(p) PROVE IInv'
  BY <1>2, CheckBeginKeeps, CompareTreesKeeps, JudgeKeeps DEF Check
<1>3. ASSUME NEW p \in Procs, ListPage(p) \/ AskRelease(p) PROVE IInv'
  BY <1>3, ListPageKeeps, AskReleaseKeeps
<1>4. ASSUME NEW p \in Procs, End(p) \/ Kill(p) PROVE IInv'
  <2>1. used' \in UsedTypes
    BY <1>4, FaultCounts DEF End, Kill, IInv, Types, CenterTypes, UsedTypes
  <2> QED BY <1>4, <2>1, LeaveKeeps DEF End, Kill
<1>5. CASE World
  BY <1>5, PublishReleaseKeeps, ListSkillKeeps, EditKeeps DEF World
<1>6. CASE UNCHANGED vars
  <2>1. UNCHANGED <<listed, released, installed, edited, current, receipt, lock, pc, job,
                    since, used>>
    BY <1>6 DEF vars, center, disk
  <2>2. Types' BY <2>1 DEF IInv, Types, CenterTypes, DiskTypes, ProcessTypes
  <2>3. Snapshots' /\ Receipts' BY <2>1 DEF IInv, Snapshots, Receipts
  <2>4. ASSUME NEW q \in Procs PROVE OfProcess(q)'
    <3>1. OfProcess(q) BY DEF IInv
    <3>2. \A k \in Skills : Latest(k)' = Latest(k) BY <2>1 DEF Latest
    <3>3. \A s : Edits(s)' = Edits(s) BY <2>1 DEF Edits
    <3>4. \A s : Readable(s) => Readable(s)' BY <2>1, <3>3 DEF Readable
    <3>5. Watching(q)' BY <2>1, <3>1, <3>2 DEF OfProcess, Watching
    <3>6. Binding(q)' BY <2>1, <3>1, <3>4 DEF OfProcess, Binding, Failed, Before, New
    <3>7. Drifting(q)' BY <2>1, <3>1, <3>3 DEF OfProcess, Drifting
    <3> QED BY <2>1, <3>1, <3>5, <3>6, <3>7 DEF OfProcess
  <2> QED BY <2>2, <2>3, <2>4 DEF IInv
<1> QED BY <1>1, <1>2, <1>3, <1>4, <1>5, <1>6 DEF Next

\* The inductive invariant holds of every behaviour.
THEOREM Invariance == Spec => []IInv
BY Initially, StepKeeps, PTL DEF Spec

-----------------------------------------------------------------------------
(* What it says                                                            *)

\* Whatever the packages, the releases and the order of the steps: two
\* snapshots have not one name, a snapshot has one package to a Workflow, what
\* config/current and the receipt name is installed, and .workflows.lock is
\* held by who syncs and by nobody else.
THEOREM TypeCorrect == Spec => []TypeOK
<1>1. IInv => TypeOK
  <2> SUFFICES ASSUME IInv PROVE TypeOK OBVIOUS
  <2>1. CenterTypes /\ Snapshots BY DEF IInv, Types
  <2>2. \A s \in installed : Cardinality(IdsOf(s)) = Cardinality(s)
    BY <2>1, OnePackageEach DEF Snapshots, Whole
  <2>3. ASSUME NEW p \in Procs
        PROVE  /\ pc[p] \in Labels
               /\ lock = p <=> job[p].command = "sync"
               /\ job[p].status \in SyncResults \cup Drifts \cup {"none"}
    BY OfStep DEF Jobs
  <2> QED BY <2>1, <2>2, <2>3 DEF TypeOK, CenterTypes, Snapshots, Whole
<1> QED BY <1>1, Invariance, PTL

\* Whatever others do meanwhile, a sync that answers has made active, unedited,
\* the latest acceptable releases of all Skills that were listed while it ran and
\* that the lengths of the lists told from others (Told: a change of a list that
\* keeps its length may hide a Skill), but for a read_only one that gave way to
\* another of its Workflow; one that fails has left what was active before it, or,
\* if there was nothing or the restore has failed too, such a new set.
THEOREM SyncIsWhole == Spec => []SyncIsAllOrNothing
<1>1. IInv => SyncIsAllOrNothing
  <2> SUFFICES ASSUME IInv, NEW p \in Procs, pc[p] = "return", job[p].command = "sync"
               PROVE  /\ Failed(p)
                      /\ job[p].status \in {"updated", "unchanged"} =>
                            Readable(current) /\ Complete(since[p], current)
    BY DEF SyncIsAllOrNothing, At, Failed, Before, New
  <2>1. Binding(p) BY OfStep
  <2> QED BY <2>1 DEF Binding
<1> QED BY <1>1, Invariance, PTL

\* What a drift found is what there is, if nothing changed since it began.
LEMMA FoundIsDiscoverable ==
    ASSUME CenterTypes, NEW seen, seen = Seeing(NothingSeen, listed, released),
           NEW found \in SUBSET Releases, Offered(seen, found),
           \A k \in Skills : Lasting(seen, k) => Has(found, k)
    PROVE  found = Discoverable
<1>1. /\ listed \in SUBSET Skills
      /\ released \in [Skills -> SUBSET [version : Versions, at : Nat]]
  BY DEF CenterTypes
<1>2. seen.lists = {listed}
  BY NothingAtFirst DEF Seeing
<1>3. ASSUME NEW k \in Skills PROVE seen.latest[k] = {Latest(k)}
  BY NothingAtFirst DEF Seeing, Latest
<1>4. ASSUME NEW r \in found PROVE r \in Discoverable
  <2>1. r.skill \in listed /\ {r.version} \in seen.latest[r.skill]
    BY <1>2 DEF Offered
  <2>2. Latest(r.skill) = {r.version} BY <1>1, <1>3, <2>1
  <2>3. r = [skill |-> r.skill, version |-> r.version] BY DEF Releases
  <2> QED BY <2>1, <2>2, <2>3 DEF Discoverable
<1>5. ASSUME NEW x \in Discoverable PROVE x \in found
  <2>1. PICK k \in listed : \E v \in Latest(k) : x = [skill |-> k, version |-> v]
    BY DEF Discoverable
  <2>2. PICK v \in Latest(k) : x = [skill |-> k, version |-> v] BY <2>1
  <2>3. k \in Skills BY <1>1
  <2>4. {} \notin seen.latest[k] BY <1>3, <2>2, <2>3
  <2>5. Lasting(seen, k) BY <1>2, <2>4 DEF Lasting, Told
  <2>6. PICK r \in found : r.skill = k BY <2>3, <2>5 DEF Has
  <2>7. {r.version} \in seen.latest[k] BY <2>6 DEF Offered
  <2>8. r.version = v BY <1>3, <2>2, <2>3, <2>7
  <2>9. r = [skill |-> r.skill, version |-> r.version] BY DEF Releases
  <2> QED BY <2>2, <2>6, <2>8, <2>9
<1> QED BY <1>4, <1>5

\* What a drift that judges knows of its snapshot and of what it was offered.
LEMMA Judging ==
    ASSUME IInv, NEW p \in Procs, pc[p] = "judge"
    PROVE  /\ Single(job[p].base) /\ Single(job[p].claims)
           /\ \A o \in job[p].claims :
                 [skill |-> o.skill, version |-> o.version] \in OfferedOf(since[p], o.id)
           /\ since[p] = Seeing(NothingSeen, listed, released) =>
                 job[p].claims = Selected(Claims(Discoverable))
<1> DEFINE found == job[p].found
<1>1. /\ CenterTypes /\ Snapshots /\ Drifting(p) /\ job[p] \in Jobs
      /\ Discovering(pc[p], job[p], since[p]) /\ Choosing(pc[p], job[p])
  BY OfStep
<1>2. /\ Offered(since[p], found) /\ found \in SUBSET Releases
      /\ \A k \in Skills : Lasting(since[p], k) => Has(found, k)
  BY <1>1 DEF Discovering, Exploring, Known, Jobs
<1>3. Selectable(Claims(found)) /\ job[p].claims = Selected(Claims(found))
  BY <1>1 DEF Choosing
<1>4. Single(job[p].base)
  BY <1>1 DEF Drifting, Snapshots, Whole, NoSnapshot, Single
<1>5. Single(job[p].claims) BY <1>2, <1>3, SelectsWhole DEF Offered
<1>6. ASSUME NEW o \in job[p].claims
      PROVE  [skill |-> o.skill, version |-> o.version] \in OfferedOf(since[p], o.id)
  <2>1. PICK r \in found : o = Claim(r) BY <1>3 DEF Selected, Claims
  <2>2. /\ o.skill = r.skill /\ o.version = r.version
        /\ o.id = Package[r.skill][r.version].id
    BY <2>1 DEF Claim
  <2>3. {r.version} \in since[p].latest[r.skill] BY <1>2 DEF Offered
  <2>4. r.skill \in Skills /\ r.version \in Versions BY <1>2 DEF Releases
  <2> QED BY <2>2, <2>3, <2>4 DEF OfferedOf
<1>7. since[p] = Seeing(NothingSeen, listed, released) => found = Discoverable
  BY <1>1, <1>2, FoundIsDiscoverable
<1> QED BY <1>3, <1>4, <1>5, <1>6, <1>7

\* What the report says of each package of the snapshot that is compared.
LEMMA ReportIsTrue ==
    ASSUME IInv, NEW p \in Procs, pc[p] = "judge", NEW r \in job[p].base
    PROVE  /\ Status(p, r.id) = "local_behind" =>
                 /\ \E o \in OfferedOf(since[p], r.id) : r.version < o.version
                 /\ receipt = NoReceipt \/ MatchesReceipt(job[p].base)
           /\ Status(p, r.id) = "local_modified" =>
                 \/ <<job[p].base, r.id>> \in edited
                 \/ \E o \in OfferedOf(since[p], r.id) :
                       /\ o.version <= r.version
                       /\ o.version # r.version \/ o.skill # r.skill
                 \/ receipt # NoReceipt /\ ~MatchesReceipt(job[p].base)
<1> DEFINE recorded == Of(job[p].base, r.id)
           offered == Of(job[p].claims, r.id)
           kept == receipt = NoReceipt \/ MatchesReceipt(job[p].base)
<1>1. Drifting(p) /\ job[p] \in Jobs BY OfStep
<1>2. /\ Single(job[p].base)
      /\ \A o \in job[p].claims :
            [skill |-> o.skill, version |-> o.version] \in OfferedOf(since[p], o.id)
  BY Judging
<1>3. r \in recorded BY DEF Of
<1>4. \A o \in offered : o \in job[p].claims /\ o.id = r.id BY DEF Of
<1>5. /\ r \in PackageClaims /\ \A o \in offered : o \in PackageClaims
      /\ \A o \in PackageClaims : o.version \in Nat
  BY <1>1, <1>4, MirrorAssumption DEF Jobs, PackageClaims
<1>6. \A o \in offered :
         LET release == [skill |-> o.skill, version |-> o.version] IN
         /\ release \in OfferedOf(since[p], r.id)
         /\ release.skill = o.skill /\ release.version = o.version
  BY <1>2, <1>4
<1>7. ASSUME Status(p, r.id) = "local_behind"
      PROVE  (\E o \in OfferedOf(since[p], r.id) : r.version < o.version) /\ kept
  <2>1. /\ offered # {} /\ \A x \in recorded, o \in offered : x.version < o.version
        /\ kept
    BY <1>3, <1>7 DEF Status
  <2>2. PICK o \in offered : r.version < o.version BY <1>3, <2>1
  <2> QED BY <1>6, <2>1, <2>2
<1>8. ASSUME Status(p, r.id) = "local_modified", kept
      PROVE  \/ <<job[p].base, r.id>> \in edited
             \/ \E o \in OfferedOf(since[p], r.id) :
                   /\ o.version <= r.version
                   /\ o.version # r.version \/ o.skill # r.skill
  <2>1. /\ r.id \notin job[p].same
        /\ \E x \in recorded, o \in offered : ~(x.version < o.version)
    BY <1>8 DEF Status
  <2>2. PICK x \in recorded, o \in offered : ~(x.version < o.version) BY <2>1
  <2>3. x = r BY <1>2 DEF Of, Single
  <2>4. o.version <= r.version BY <1>5, <2>2, <2>3
  <2>5. CASE o.version # r.version \/ o.skill # r.skill BY <1>6, <2>4, <2>5
  <2>6. CASE o.version = r.version /\ o.skill = r.skill
    <3>1. o = r BY <1>4, <1>5, <2>6 DEF PackageClaims
    <3>2. r \in job[p].claims \cap job[p].base BY <1>4, <3>1
    <3>3. r.id \in IdsOf(job[p].claims \cap job[p].base) BY <3>2 DEF IdsOf
    <3>4. r.id \in Edits(job[p].base) BY <1>1, <2>1, <3>3 DEF Drifting
    <3> QED BY <3>4 DEF Edits
  <2> QED BY <2>5, <2>6
<1> QED BY <1>7, <1>8

\* A drift that finds everything in sync compared two equal snapshots.
LEMMA InSyncIsEqual ==
    ASSUME IInv, NEW p \in Procs, pc[p] = "judge",
           \A id \in IdsOf(job[p].base \cup job[p].claims) : Status(p, id) = "in_sync"
    PROVE  job[p].base = job[p].claims
<1> DEFINE base == job[p].base
           claims == job[p].claims
<1>1. Drifting(p) BY OfStep
<1>2. Single(base) /\ Single(claims) BY Judging
<1>3. job[p].same \subseteq IdsOf(claims \cap base) BY <1>1 DEF Drifting
<1>4. ASSUME NEW c \in base \cup claims PROVE \E d \in claims \cap base : d.id = c.id
  <2>1. c.id \in IdsOf(base \cup claims) BY DEF IdsOf
  <2>2. Status(p, c.id) = "in_sync" BY <2>1
  <2>3. c.id \in job[p].same BY <2>2 DEF Status
  <2> QED BY <1>3, <2>3 DEF IdsOf
<1>5. \A c \in base : c \in claims BY <1>2, <1>4 DEF Single
<1>6. \A c \in claims : c \in base BY <1>2, <1>4 DEF Single
<1> QED BY <1>5, <1>6

\* A process moves no other.
LEMMA MovesAlone ==
    ASSUME ProcessTypes, NEW q \in Procs, NEW p \in Procs, q # p,
           Sync(q) \/ Check(q) \/ ListPage(q) \/ AskRelease(q) \/ End(q) \/ Kill(q)
    PROVE  pc'[p] = pc[p]
<1>1. \A label, work : Goto(q, label, work) => pc'[p] = pc[p] BY GotoSets
<1>2. GiveUp(q) => pc'[p] = pc[p] BY <1>1 DEF GiveUp, Return
<1>3. \A next : AskNext(q, next) => pc'[p] = pc[p] BY <1>1 DEF AskNext
<1>4. SyncBegin(q) => pc'[p] = pc[p] BY <1>1 DEF SyncBegin
<1>5. Accept(q) => pc'[p] = pc[p] BY <1>1, <1>2 DEF Accept, Return
<1>6. Publish(q) => pc'[p] = pc[p] BY <1>1, <1>2 DEF Publish
<1>7. Activate(q) => pc'[p] = pc[p] BY <1>1, <1>2 DEF Activate
<1>8. WriteReceipt(q) => pc'[p] = pc[p] BY <1>1, <1>2 DEF WriteReceipt, Return
<1>9. CheckBegin(q) => pc'[p] = pc[p] BY <1>1 DEF CheckBegin
<1>10. CompareTrees(q) => pc'[p] = pc[p] BY <1>1, <1>2 DEF CompareTrees
<1>11. Judge(q) => pc'[p] = pc[p] BY <1>1 DEF Judge
<1>12. ListPage(q) => pc'[p] = pc[p] BY <1>1, <1>2, <1>3 DEF ListPage
<1>13. AskRelease(q) => pc'[p] = pc[p] BY <1>1, <1>2, <1>3 DEF AskRelease
<1>14. End(q) \/ Kill(q) => pc'[p] = pc[p] BY <1>1 DEF End, Kill, Leave
<1>15. PutBack(q) => pc'[p] = pc[p] BY <1>1, <1>2 DEF PutBack, Return
<1> QED
  BY <1>4, <1>5, <1>6, <1>7, <1>8, <1>9, <1>10, <1>11, <1>12, <1>13, <1>14, <1>15
  DEF Sync, Check

\* Only its judgement answers a drift that has compared the trees.
LEMMA OnlyJudged ==
    ASSUME ProcessTypes, [Next]_vars, NEW p \in Procs, At(p, "judge"), pc'[p] = "return"
    PROVE  Judge(p)
<1>1. pc[p] = "judge" BY DEF At
<1>2. ASSUME NEW q \in Procs,
             Sync(q) \/ Check(q) \/ ListPage(q) \/ AskRelease(q) \/ End(q) \/ Kill(q)
      PROVE  Judge(p)
  <2>1. q = p BY <1>1, <1>2, MovesAlone
  <2>2. ~Sync(p)
    BY <1>1 DEF Sync, SyncBegin, Accept, Publish, Activate, WriteReceipt, PutBack, At
  <2>3. ~CheckBegin(p) /\ ~CompareTrees(p) BY <1>1 DEF CheckBegin, CompareTrees, At
  <2>4. ~ListPage(p) /\ ~AskRelease(p) /\ ~End(p) BY <1>1 DEF ListPage, AskRelease, End, At
  <2>5. ~Kill(p)
    <3>1. SUFFICES ASSUME Leave(p) PROVE FALSE BY DEF Kill
    <3>2. pc'[p] = "idle" BY <3>1, GotoSets DEF Leave
    <3> QED BY <3>2
  <2> QED BY <1>2, <2>1, <2>2, <2>3, <2>4, <2>5 DEF Check
<1>3. pc' # pc BY <1>1
<1>4. ~World BY <1>3 DEF World, PublishRelease, ListSkill, Edit
<1>5. ~UNCHANGED vars BY <1>3 DEF vars
<1> QED BY <1>2, <1>4, <1>5 DEF Next

\* What the judgement says is true of what was compared.
LEMMA JudgesTruly ==
    ASSUME IInv, NEW p \in Procs, Judge(p)
    PROVE  SpeaksTruly(p)
<1> DEFINE ids == IdsOf(job[p].base \cup job[p].claims)
           report == [id \in ids |-> Status(p, id)]
           work == [NoJob EXCEPT !.command = "check", !.report = report,
                                 !.status = Summary(report)]
<1>1. ProcessTypes /\ pc[p] = "judge" /\ job[p] \in Jobs BY OfStep DEF Judge, At
<1>2. Goto(p, "return", work) BY DEF Judge
<1>3. job'[p] = work BY <1>1, <1>2, GotoSets
<1>4. work.report = report /\ work.status = Summary(report) BY NoJobIsAJob DEF Jobs
<1>5. \A r \in job[p].base : r.id \in ids /\ report[r.id] = Status(p, r.id)
  BY DEF IdsOf
<1>6. Summary(report) = "in_sync" => \A id \in ids : Status(p, id) = "in_sync"
  BY DEF Summary, Status
<1> HIDE DEF work, report
<1>7. job'[p].report = report /\ job'[p].status = Summary(report) BY <1>3, <1>4
<1>8. job'[p].status = "in_sync" /\ since[p] = Seeing(NothingSeen, listed, released) =>
          job[p].base = Selected(Claims(Discoverable))
  BY <1>1, <1>6, <1>7, InSyncIsEqual, Judging
<1>9. \A r \in job[p].base : job'[p].report[r.id] = Status(p, r.id) BY <1>5, <1>7
<1> QED BY <1>1, <1>8, <1>9, ReportIsTrue DEF SpeaksTruly

\* Whatever is published, listed, edited and synced meanwhile: a drift says
\* in_sync only of what a sync would activate, if the center did not change since
\* it began; behind only of what is older and, if there is a receipt, as that
\* says; and modified only of what was edited, of a release that is not older
\* than the one offered, or when the receipt is that of another tree.
THEOREM DriftSpeaksTrue == Spec => DriftIsTrue
<1>1. IInv => ProcessTypes BY DEF IInv, Types
<1>2. ASSUME IInv, [Next]_vars, NEW p \in Procs, At(p, "judge"), pc'[p] = "return"
      PROVE  Judge(p)
  BY <1>1, <1>2, OnlyJudged
<1>3. IInv /\ [Next]_vars =>
         [\A p \in Procs : At(p, "judge") /\ pc'[p] = "return" => SpeaksTruly(p)]_vars
  BY <1>2, JudgesTruly
<1> QED BY <1>3, Invariance, PTL DEF Spec, DriftIsTrue

=============================================================================
