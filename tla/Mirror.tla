------------------------------- MODULE Mirror -------------------------------
(***************************************************************************)
(* The Fornax center: which released packages a configuration sync finds,  *)
(* accepts and activates, and what `config drift` says of the active       *)
(* snapshot, while releases are published and Skills are listed.           *)
(*   internal/fornaxmirror                                                 *)
(*                                                                         *)
(* A snapshot is the set of the claims it was made of; its directory is    *)
(* named by its digest.  No two releases hold the same files, the package  *)
(* of a release never changes, nobody edits a snapshot while a sync runs,  *)
(* and the Git center of module Configuration is not used.                 *)
(***************************************************************************)
EXTENDS Naturals, Sequences, FiniteSets

CONSTANTS
    Procs, NoProc,
    Order,              \* the Skills, as the center lists them
    SourceOf, Name,     \* the source of fornax.json that finds a Skill, and its key
    Access,             \* of each source: read_write or read_only
    Package,            \* what was packed for each Skill and version
    Versions,           \* bound: of each Skill
    PageSize,
    MaxPublishes,       \* bound: releases published while commands run
    MaxListings,        \* bound: Skills listed or removed while commands run
    MaxEdits,           \* bound: edits of a snapshot by hand
    MaxFaults,          \* bound: calls and writes that fail, and kills
    MaxEvents,          \* bound: of all these together
    Starts              \* how many versions of each Skill are released at first

Skills == {Order[i] : i \in DOMAIN Order}
Sources == DOMAIN Access
Ids == {Package[k][v].id : k \in Skills, v \in Versions}

ASSUME MirrorAssumption ==
    /\ NoProc \notin Procs
    /\ Order \in Seq(Skills)
    /\ \A i, j \in DOMAIN Order : Order[i] = Order[j] => i = j
    /\ Versions \subseteq Nat \ {0} /\ PageSize \in Nat \ {0}
    /\ Access \in Seq({"read_write", "read_only"}) /\ SourceOf \in [Skills -> Sources]
    /\ {MaxPublishes, MaxListings, MaxEdits, MaxFaults, MaxEvents} \subseteq Nat
    /\ \A start \in Starts : \A k \in Skills : start[k] \in Nat /\ 1..start[k] \subseteq Versions

VARIABLES
    listed,             \* the Skills the center lists
    released,           \* of each Skill: versions and when they were updated
    installed, edited,  \* the snapshots, and what was edited in them
    current,            \* config/current
    receipt,            \* cache/fornax-workflows.json
    lock,               \* who holds .workflows.lock exclusively
    pc, job,
    since,              \* what the center offered since a command began
    used                \* of the bounds

center == <<listed, released>>
disk == <<installed, edited, current, receipt>>
vars == <<center, disk, lock, pc, job, since, used>>

NoSnapshot == {}
NoReceipt == [discovered |-> {}, snapshot |-> NoSnapshot, edits |-> {}]

\* page, total, seen: of the list of a source; skills: on it and still to be asked for;
\* found: discovered releases; claims: accepted ones; base: the snapshot that was
\* current; same: its Workflows that are as released.
NoJob == [command |-> "none", source |-> 1, page |-> 1, total |-> 0, seen |-> 0,
          skills |-> {}, found |-> {}, claims |-> {}, base |-> NoSnapshot, same |-> {},
          report |-> << >>, status |-> "none"]

-----------------------------------------------------------------------------
(* Releases, packages, claims and snapshots *)

\* latestRelease: the newest by time of update; several are ambiguous.
Newest(releases) ==
    {r.version : r \in {r \in releases : \A other \in releases : other.at <= r.at}}

Latest(k) == Newest(released[k])

\* What a discovery would find now.
Discoverable == UNION {{[skill |-> k, version |-> v] : v \in Latest(k)} : k \in listed}

\* MaterializePackage: the directory, workflow.yaml, the wrapper and its metadata
\* agree.
Acceptable(k, v) ==
    LET package == Package[k][v] IN
    /\ package.sound
    /\ package.directory = package.id
    /\ package.name = package.id
    /\ package.metadata \in {"", package.id}

Writable(k) == Access[SourceOf[k]] = "read_write"

Claim(r) == [id |-> Package[r.skill][r.version].id, skill |-> r.skill, version |-> r.version]

Claims(found) == {Claim(r) : r \in {r \in found : Acceptable(r.skill, r.version)}}

Of(claims, id) == {c \in claims : c.id = id}
IdsOf(claims) == {c.id : c \in claims}

\* SelectClaims rejects two claims in one source, or a tie across sources ...
Selectable(claims) ==
    \A id \in IdsOf(claims) :
        /\ \A c, d \in Of(claims, id) : SourceOf[c.skill] = SourceOf[d.skill] => c = d
        /\ \/ Cardinality(Of(claims, id)) = 1
           \/ Cardinality({c \in Of(claims, id) : Writable(c.skill)}) = 1

\* ... and keeps one of each Workflow: a read_write source wins.
Selected(claims) == {c \in claims : Of(claims, c.id) = {c} \/ Writable(c.skill)}

\* ReleaseSetDigest: the keys and versions, but not the sources.
Digest(claims) == {<<Name[c.skill], c.version>> : c \in claims}

Edits(snapshot) == {id \in Ids : <<snapshot, id>> \in edited}

\* configuration.Read: the files are those of the manifest.
Readable(snapshot) == snapshot \in installed /\ Edits(snapshot) = {}

\* treeIdentity of a snapshot is that of the receipt.
MatchesReceipt(snapshot) ==
    receipt.snapshot = snapshot /\ receipt.edits = Edits(snapshot)

AlreadyCurrent_ByName(found) ==
    /\ receipt # NoReceipt /\ receipt.discovered = found
    /\ current # NoSnapshot /\ Digest(current) = Digest(receipt.snapshot)

\* The receipt is of this discovery, and of the active tree.
AlreadyCurrent(found) ==
    /\ receipt # NoReceipt /\ receipt.discovered = found
    /\ current # NoSnapshot /\ Digest(current) = Digest(receipt.snapshot)
    /\ MatchesReceipt(current)

-----------------------------------------------------------------------------
(* Steps of a process *)

At(p, label) == pc[p] = label

Goto(p, label, next) ==
    /\ pc' = [pc EXCEPT ![p] = label]
    /\ job' = [job EXCEPT ![p] = next]

Return(p, status) ==
    Goto(p, "return", [NoJob EXCEPT !.command = job[p].command, !.base = job[p].base,
                                    !.status = status])

Use(bound, most) ==
    /\ used[bound] < most
    /\ used.publishes + used.listings + used.edits + used.faults < MaxEvents
    /\ used' = [used EXCEPT ![bound] = @ + 1]

Fault == Use("faults", MaxFaults)

\* A sync fails; a check reports every Workflow as unavailable.
GiveUp(p) == Return(p, IF job[p].command = "sync" THEN "error" ELSE "unavailable")

\* The lists of Skills, and of each the latest releases, that a command may have seen.
NothingSeen == [lists |-> {}, latest |-> [k \in Skills |-> {}]]

Seeing(seen, list, releases) ==
    [lists |-> seen.lists \cup {list},
     latest |-> [k \in Skills |-> seen.latest[k] \cup {Newest(releases[k])}]]

Watch(p) == since' = [since EXCEPT ![p] = Seeing(NothingSeen, listed, released)]

SyncBegin(p) ==
    /\ At(p, "idle") /\ lock = NoProc
    /\ lock' = p
    /\ Goto(p, "list", [NoJob EXCEPT !.command = "sync", !.base = current])
    /\ Watch(p)
    /\ UNCHANGED <<center, disk, used>>

\* resolveSnapshot: the active snapshot, read under the lock, which is not kept.
CheckBegin(p) ==
    /\ At(p, "idle") /\ lock = NoProc
    /\ Readable(current)
    /\ Goto(p, "list", [NoJob EXCEPT !.command = "check", !.base = current])
    /\ Watch(p)
    /\ UNCHANGED <<center, disk, lock, used>>

-----------------------------------------------------------------------------
(* Discovery *)

\* What of a list is found by a source.
On(list, source) == {k \in list : SourceOf[k] = source}

Listing(source) == On(listed, source)

Position(k) == CHOOSE i \in DOMAIN Order : Order[i] = k

Page(source, number) ==
    LET upTo(k) == Cardinality({l \in Listing(source) : Position(l) <= Position(k)}) IN
    {k \in Listing(source) : upTo(k) \in ((number - 1) * PageSize + 1)..(number * PageSize)}

\* After the last Skill of a source comes the next source.
AskNext(p, next) ==
    IF next.skills # {} THEN Goto(p, "release", next)
    ELSE IF next.source + 1 \in Sources
         THEN Goto(p, "list", [next EXCEPT !.source = next.source + 1, !.page = 1, !.total = 0])
         ELSE Goto(p, "found", next)

\* One page of allSkills: the total must stay as it was, the pages add up to it,
\* and no Skill is on two of them.
ListPage(p) ==
    LET source == job[p].source
        page == Page(source, job[p].page)
        total == Cardinality(Listing(source))
        seen == job[p].seen + Cardinality(page)
        skills == job[p].skills \cup page
    IN
    /\ At(p, "list")
    /\ \/ /\ IF \/ job[p].page > 1 /\ total # job[p].total
                \/ seen > total
             THEN GiveUp(p)
             ELSE IF seen < total
             THEN IF page = {} THEN GiveUp(p)
                  ELSE Goto(p, "list", [job[p] EXCEPT !.page = job[p].page + 1, !.total = total,
                                                      !.seen = seen, !.skills = skills])
             ELSE IF Cardinality(skills) # total THEN GiveUp(p)
             ELSE AskNext(p, [job[p] EXCEPT !.seen = 0, !.skills = skills])
          /\ UNCHANGED used
       \/ Fault /\ GiveUp(p)
    /\ UNCHANGED <<center, disk, lock, since>>

\* The releases of the next Skill.  A check fetches and unpacks the package
\* at once, a sync when it knows all of them.
AskRelease(p) ==
    LET k == CHOOSE k \in job[p].skills :
                 \A l \in job[p].skills : Position(k) <= Position(l)
        found == {[skill |-> k, version |-> v] : v \in Latest(k)}
        rest == [job[p] EXCEPT !.skills = job[p].skills \ {k}, !.found = job[p].found \cup found]
    IN
    /\ At(p, "release")
    /\ \/ /\ IF \/ Cardinality(found) > 1
                \/ /\ job[p].command = "check" /\ Writable(k)
                   /\ \E r \in found : ~Acceptable(k, r.version)
             THEN GiveUp(p) ELSE AskNext(p, rest)
          /\ UNCHANGED used
       \/ Fault /\ GiveUp(p)
    /\ UNCHANGED <<center, disk, lock, since>>

-----------------------------------------------------------------------------
(* Sync *)

\* Every package is fetched and accepted before anything is published; a
\* read_only one may be skipped.
Accept(p) ==
    LET found == job[p].found
        claims == Claims(found)
    IN
    /\ At(p, "found") /\ job[p].command = "sync"
    /\ \/ /\ IF found = {} THEN GiveUp(p)
             ELSE IF AlreadyCurrent(found) THEN Return(p, "unchanged")
             ELSE IF \/ \E r \in found : Writable(r.skill) /\ ~Acceptable(r.skill, r.version)
                     \/ claims = {} \/ ~Selectable(claims)
             THEN GiveUp(p)
             ELSE Goto(p, "publish", [job[p] EXCEPT !.claims = Selected(claims)])
          /\ UNCHANGED used
       \/ Fault /\ GiveUp(p)
    /\ UNCHANGED <<center, disk, lock, since>>

Publishable_ByName(claims) ==
    \A s \in installed : Digest(s) = Digest(claims) => Readable(s)

\* A snapshot of that name must hold the same files.
Publishable(claims) ==
    \A s \in installed : Digest(s) = Digest(claims) => s = claims /\ Readable(s)

Publish(p) ==
    LET claims == job[p].claims IN
    /\ At(p, "publish")
    /\ \/ /\ Publishable(claims)
          /\ installed' = installed \cup {claims}
          /\ Goto(p, "activate", job[p])
          /\ UNCHANGED used
       \/ /\ IF Publishable(claims) THEN Fault ELSE UNCHANGED used
          /\ GiveUp(p)
          /\ UNCHANGED installed
    /\ UNCHANGED <<center, edited, current, receipt, lock, since>>

Activate(p) ==
    /\ At(p, "activate")
    /\ \/ current' = job[p].claims /\ Goto(p, "receipt", job[p]) /\ UNCHANGED used
       \/ Fault /\ Goto(p, "restore", job[p]) /\ UNCHANGED current
    /\ UNCHANGED <<center, installed, edited, receipt, lock, since>>

WriteReceipt(p) ==
    /\ At(p, "receipt")
    /\ \/ /\ receipt' = [discovered |-> job[p].found, snapshot |-> job[p].claims,
                         edits |-> Edits(job[p].claims)]
          /\ Return(p, "updated")
          /\ UNCHANGED used
       \/ Fault /\ Goto(p, "restore", job[p]) /\ UNCHANGED receipt
    /\ UNCHANGED <<center, installed, edited, current, lock, since>>

PutBack_Forgotten(p) ==
    At(p, "restore") /\ GiveUp(p) /\ UNCHANGED <<center, disk, lock, since, used>>

\* After an error the previous binding is put back, if there was one.  That this
\* fails too is ignored: "unrestored" is answered as any other error is.
PutBack(p) ==
    /\ At(p, "restore")
    /\ \/ /\ current' = IF job[p].base = NoSnapshot THEN current ELSE job[p].base
          /\ GiveUp(p)
          /\ UNCHANGED used
       \/ /\ job[p].base # NoSnapshot
          /\ Fault /\ Return(p, "unrestored")
          /\ UNCHANGED current
    /\ UNCHANGED <<center, installed, edited, receipt, lock, since>>

-----------------------------------------------------------------------------
(* Drift *)

\* The files of the resolved snapshot and of the released packages, without a lock.
CompareTrees(p) ==
    LET claims == Claims(job[p].found)
        base == job[p].base
    IN
    /\ At(p, "found") /\ job[p].command = "check"
    /\ IF ~Selectable(claims) THEN GiveUp(p)
       ELSE Goto(p, "judge",
                 [job[p] EXCEPT !.claims = Selected(claims),
                                !.same = {c.id : c \in Selected(claims) \cap base} \ Edits(base)])
    /\ UNCHANGED <<center, disk, lock, since, used>>

Status_WithoutReceipt(p, id) ==
    LET recorded == Of(job[p].base, id)
        offered == Of(job[p].claims, id)
    IN
    IF recorded = {} THEN "local_behind"
    ELSE IF offered = {} THEN "unavailable"
    ELSE IF id \in job[p].same THEN "in_sync"
    ELSE IF \A r \in recorded, o \in offered : r.version < o.version THEN "local_behind"
    ELSE "local_modified"

\* checkInstalled: behind is only what is older and as its receipt says, if there
\* is a receipt.
Status(p, id) ==
    LET recorded == Of(job[p].base, id)
        offered == Of(job[p].claims, id)
    IN
    IF recorded = {} THEN "local_behind"
    ELSE IF offered = {} THEN "unavailable"
    ELSE IF id \in job[p].same THEN "in_sync"
    ELSE IF /\ \A r \in recorded, o \in offered : r.version < o.version
            /\ receipt = NoReceipt \/ MatchesReceipt(job[p].base)
    THEN "local_behind"
    ELSE "local_modified"

\* summarizeDrift: the worst of them.
Summary(report) ==
    LET some(status) == \E id \in DOMAIN report : report[id] = status IN
    IF some("unavailable") THEN "unavailable"
    ELSE IF some("local_modified") THEN "local_modified"
    ELSE IF some("local_behind") THEN "local_behind" ELSE "in_sync"

Judge(p) ==
    LET report == [id \in IdsOf(job[p].base \cup job[p].claims) |-> Status(p, id)] IN
    /\ At(p, "judge")
    /\ Goto(p, "return", [NoJob EXCEPT !.command = "check", !.report = report,
                                       !.status = Summary(report)])
    /\ UNCHANGED <<center, disk, lock, since, used>>

-----------------------------------------------------------------------------

\* A command ends, or is killed: the lock is released with its process.
Leave(p) ==
    /\ Goto(p, "idle", NoJob)
    /\ lock' = IF lock = p THEN NoProc ELSE lock
    /\ since' = [since EXCEPT ![p] = NothingSeen]
    /\ UNCHANGED <<center, disk>>

End(p) == At(p, "return") /\ Leave(p) /\ UNCHANGED used
Kill(p) == ~At(p, "idle") /\ ~At(p, "return") /\ Fault /\ Leave(p)

\* Whoever runs may see what the center offers from now on.
Observed ==
    since' = [p \in Procs |-> IF At(p, "idle") THEN since[p]
                              ELSE Seeing(since[p], listed', released')]

\* A new version, or one that is moved to the front again, at the time of another or later.
PublishRelease(k, v) ==
    /\ Use("publishes", MaxPublishes)
    /\ \E at \in {used.publishes + 1, used.publishes + 2} :
          released' = [released EXCEPT ![k] = {r \in @ : r.version # v}
                                                 \cup {[version |-> v, at |-> at]}]
    /\ UNCHANGED <<listed, disk, lock, pc, job>>
    /\ Observed

ListSkill(k) ==
    /\ Use("listings", MaxListings)
    /\ listed' = IF k \in listed THEN listed \ {k} ELSE listed \cup {k}
    /\ UNCHANGED <<released, disk, lock, pc, job>>
    /\ Observed

Edit(snapshot, id) ==
    /\ Use("edits", MaxEdits)
    /\ lock = NoProc
    /\ edited' = edited \cup {<<snapshot, id>>}
    /\ UNCHANGED <<center, installed, current, receipt, lock, pc, job, since>>

Init ==
    /\ listed = Skills
    /\ \E start \in Starts :
          released = [k \in Skills |-> {[version |-> v, at |-> v] : v \in 1..start[k]}]
    /\ installed = {} /\ edited = {} /\ current = NoSnapshot /\ receipt = NoReceipt
    /\ lock = NoProc
    /\ pc = [p \in Procs |-> "idle"]
    /\ job = [p \in Procs |-> NoJob]
    /\ since = [p \in Procs |-> NothingSeen]
    /\ used = [publishes |-> 0, listings |-> 0, edits |-> 0, faults |-> 0]

Sync(p) ==
    \/ SyncBegin(p) \/ Accept(p) \/ Publish(p)
    \/ Activate(p) \/ WriteReceipt(p) \/ PutBack(p)
Check(p) == CheckBegin(p) \/ CompareTrees(p) \/ Judge(p)

World ==
    \/ \E k \in Skills, v \in Versions : PublishRelease(k, v)
    \/ \E k \in Skills : ListSkill(k)
    \/ \E snapshot \in installed : \E id \in IdsOf(snapshot) : Edit(snapshot, id)

Next ==
    \/ \E p \in Procs : \/ Sync(p) \/ Check(p) \/ ListPage(p) \/ AskRelease(p)
                        \/ End(p) \/ Kill(p)
    \/ World

Spec == Init /\ [][Next]_vars

-----------------------------------------------------------------------------
(* Properties *)

Labels == {"idle", "list", "release", "found", "publish", "activate", "receipt", "restore",
           "judge", "return"}

SyncResults == {"updated", "unchanged", "error", "unrestored"}
Drifts == {"in_sync", "local_behind", "local_modified", "unavailable"}

\* The type invariant: one snapshot to a name, one package to a Workflow, and
\* the lock is held by who syncs and by nobody else.
TypeOK ==
    /\ listed \subseteq Skills
    /\ \A k \in Skills : released[k] \subseteq [version : Versions, at : Nat]
    /\ \A s, t \in installed : Digest(s) = Digest(t) => s = t
    /\ \A s \in installed : s # NoSnapshot /\ Cardinality(IdsOf(s)) = Cardinality(s)
    /\ \A e \in edited : e[1] \in installed /\ e[2] \in IdsOf(e[1])
    /\ current \in installed \cup {NoSnapshot}
    /\ receipt.snapshot \in installed \cup {NoSnapshot}
    /\ \A p \in Procs :
          /\ pc[p] \in Labels
          /\ lock = p <=> job[p].command = "sync"
          /\ job[p].status \in SyncResults \cup Drifts \cup {"none"}

\* The length of the list of a source tells which list it was: all that a listing
\* page by page compares is the total.
Told(lists, source) ==
    \A list, other \in lists :
        Cardinality(On(list, source)) = Cardinality(On(other, source))
        => On(list, source) = On(other, source)

\* A Skill that was listed, with a release, whenever the command might look, and
\* that no page missed.
Lasting(seen, k) ==
    /\ \A list \in seen.lists : k \in list
    /\ {} \notin seen.latest[k]
    /\ Told(seen.lists, SourceOf[k])

\* What a sync owes, of what the center offered since it began.
Complete(seen, snapshot) ==
    /\ \A c \in snapshot : {c.version} \in seen.latest[c.skill] /\ Acceptable(c.skill, c.version)
    /\ \A k \in Skills :
          LET versions == UNION seen.latest[k] IN
          /\ Lasting(seen, k) /\ \A v \in versions : Acceptable(k, v)
          => \E v \in versions, c \in snapshot :
                c.id = Package[k][v].id /\ (c.skill = k \/ ~Writable(k))

\* A sync that answers has made active, whole and unedited, what the center
\* offered while it held the lock: every package was the latest of its Skill
\* at some time since, and no Skill that was listed all the time, with an
\* acceptable package, is left out, or superseded if its source may be written
\* - unless another Skill was listed for one that was removed, which keeps the
\* total and moves the pages.  One that fails leaves what was active before it,
\* or, if there was nothing or the restore fails as well, the new set as whole
\* as an answered one (ADR 0137: the latest release of each key, a read_write
\* source wins, the whole set or nothing).
SyncIsAllOrNothing ==
    \A p \in Procs :
        LET status == job[p].status
            asBefore == current = job[p].base
            whole == Readable(current) /\ Complete(since[p], current)
        IN
        At(p, "return") /\ job[p].command = "sync" =>
            /\ status \in {"updated", "unchanged"} => whole
            /\ status = "error" => asBefore \/ (job[p].base = NoSnapshot /\ whole)
            /\ status = "unrestored" => asBefore \/ whole

\* The releases of a Workflow that were each the latest of its Skill.
OfferedOf(seen, id) ==
    {r \in [skill : Skills, version : Versions] :
        Package[r.skill][r.version].id = id /\ {r.version} \in seen.latest[r.skill]}

\* What a drift answers, of the snapshot it has compared.
SpeaksTruly(p) ==
    LET base == job[p].base
        report == job'[p].report
        stable == since[p] = Seeing(NothingSeen, listed, released)
    IN
    /\ job'[p].status = "in_sync" /\ stable => base = Selected(Claims(Discoverable))
    /\ \A r \in base :
          /\ report[r.id] = "local_behind" =>
                /\ \E o \in OfferedOf(since[p], r.id) : r.version < o.version
                /\ receipt = NoReceipt \/ MatchesReceipt(base)
          /\ report[r.id] = "local_modified" =>
                \/ <<base, r.id>> \in edited
                \/ \E o \in OfferedOf(since[p], r.id) :
                      /\ o.version <= r.version
                      /\ o.version # r.version \/ o.skill # r.skill
                \/ receipt # NoReceipt /\ ~MatchesReceipt(base)

\* A drift of in_sync means that a sync would activate what is active, unless
\* the center changed meanwhile; local_behind means that a newer release was
\* offered and, if there is a receipt, that it is of the tree compared; and
\* local_modified is said of a tree that was edited, of another release that is
\* not older than the one offered, or when the receipt is that of another tree.
DriftIsTrue ==
    [][\A p \in Procs : At(p, "judge") /\ pc'[p] = "return" => SpeaksTruly(p)]_vars
=============================================================================
