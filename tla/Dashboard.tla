------------------------------ MODULE Dashboard ------------------------------
(***************************************************************************)
(* `fanloop dashboard` with FANLOOP_CONFIG_SOURCE (internal/dashboard):    *)
(* editable Dashboards, each with one browser page (static/app.js), over   *)
(* the same package tree, beside commands that load that tree and hand     *)
(* editors that take no lock.                                              *)
(*                                                                         *)
(* A content stands for its SHA-256.  The files are YAML files of the      *)
(* packages, whose set does not change; the SKILL.md files, which have only *)
(* not to be empty, symbolic links, a replaced root and the drawing of the *)
(* topology are left out, and so is the switch to another Workflow, which  *)
(* loads a file after a request of its own.                                *)
(*                                                                         *)
(* loadGeneration of app.js: only the answer to the newest load counts, so *)
(* a page has at most one load, and whoever advances the generation drops  *)
(* it.  An operator named X_Y stands before X and is X with the fault Y.   *)
(***************************************************************************)
EXTENDS Naturals, FiniteSets

CONSTANTS
    Pages, Readers, None,
    Files, First,             \* First: the file a page opens with
    Contents, Typed, ByHand,  \* Typed, ByHand: what pages and hands may write
    Consistent,               \* the trees that workflow.ListFrom accepts
    MaxEvents                 \* bound on saves, hand edits and kills together

Trees == [Files -> Contents]

Loads == [file : Files, force : BOOLEAN, over : Contents, read : Contents]
Asked == {"sent", "compared", "validated", "temporary"}
Answers == {"saved", "stale_file", "refused"}   \* refused: any other error
Saves == [file : Files, text : Contents, expects : Contents,
          at : Asked \cup Answers, unseen : SUBSET Files]

ASSUME DashboardAssumption ==
    /\ First \in Files
    /\ Typed \cup ByHand \subseteq Contents
    /\ Consistent \subseteq Trees
    /\ None \notin Pages \cup Contents \cup Loads \cup Saves
    /\ MaxEvents \in Nat

VARIABLES
    source,      \* the package tree
    temporary,   \* the Dashboards whose .dashboard-* file lies in a package
    writer,      \* who holds LockSource exclusively
    page,        \* the variables of app.js, the load and the save under way
    reader,      \* the commands that load the tree under the shared lock
    events       \* bounded by MaxEvents

vars == <<source, temporary, writer, page, reader, events>>

Page == [up : BOOLEAN, selected : Files, editor : Contents, saved : Contents,
         stale : BOOLEAN, load : Loads \cup {None}, save : Saves \cup {None}]
Reader == [loading : BOOLEAN, view : UNION {[S -> Contents] : S \in SUBSET Files},
           unseen : SUBSET Files, refused : BOOLEAN]
Idle == [loading |-> FALSE, view |-> [f \in {} |-> None], unseen |-> {}, refused |-> FALSE]

TypeOK ==
    /\ source \in Trees
    /\ temporary \subseteq Pages
    /\ writer \in Pages \cup {None}
    /\ page \in [Pages -> Page]
    /\ reader \in [Readers -> Reader]
    /\ events \in 0..MaxEvents
    /\ \A p \in Pages :
          writer = p <=> page[p].save # None /\ page[p].save.at \in Asked \ {"sent"}

Shared == {r \in Readers : reader[r].loading}

\* workflow.ListFrom: a valid tree without a file that is no Bundle file
\* (requireExactBundleFiles refuses the temporary one).
Loadable == source \in Consistent /\ temporary = {}

Fresh == [up |-> TRUE, selected |-> First, editor |-> source[First],
          saved |-> source[First], stale |-> FALSE, load |-> None, save |-> None]

Init ==
    /\ source \in Consistent \cap [Files -> Typed]   \* what earlier pages wrote
    /\ temporary = {}
    /\ writer = None
    /\ page = [p \in Pages |-> Fresh]
    /\ reader = [r \in Readers |-> Idle]
    /\ events = 0

Event == events < MaxEvents /\ events' = events + 1

-----------------------------------------------------------------------------
(* The page *)

Dirty(p) == page[p].editor # page[p].saved
Saving(p) == page[p].save # None

\* GET /api/file: resolve and ReadFile under the shared lock.  A tree that does
\* not load does not prevent it: allowedPaths remembers the files.  A request is
\* served as soon as it is sent; one that waits only shows what one sent later
\* shows, and whatever would drop it drops it all the same.
Load(p, file, force) ==
    /\ writer = None
    /\ page' = [page EXCEPT ![p].load = [file |-> file, force |-> force,
                                         over |-> page[p].editor, read |-> source[file]]]

\* A file, a fragment or Refresh was clicked, or Discard; of unsaved text the
\* user has agreed to the loss.  Not even a save under way prevents it.
Open(p, file) ==
    /\ page[p].up
    /\ Load(p, file, TRUE)
    /\ UNCHANGED <<source, temporary, writer, reader, events>>

\* The timer: every two seconds, unless a save is under way.
Poll(p) ==
    /\ page[p].up /\ ~Saving(p)
    /\ Load(p, page[p].selected, FALSE)
    /\ UNCHANGED <<source, temporary, writer, reader, events>>

Input_KeepsTheLoad(p, text) ==
    /\ page[p].up
    /\ text # page[p].editor
    /\ page' = [page EXCEPT ![p].editor = text]
    /\ UNCHANGED <<source, temporary, writer, reader, events>>

Input(p, text) ==
    /\ page[p].up
    /\ text # page[p].editor
    /\ page' = [page EXCEPT ![p].editor = text, ![p].load = None]
    /\ UNCHANGED <<source, temporary, writer, reader, events>>

\* The answer to the newest load: unsaved text is only marked stale and what is
\* shown already stays, unless the load was forced.
Receive(p) ==
    LET l == page[p].load
        here == ~l.force /\ page[p].selected = l.file
    IN  /\ l # None
        /\ page' = [page EXCEPT ![p] =
              IF here /\ Dirty(p)
              THEN [@ EXCEPT !.load = None, !.stale = page[p].stale \/ l.read # page[p].saved]
              ELSE IF here /\ l.read = page[p].saved
              THEN [@ EXCEPT !.load = None]
              ELSE [@ EXCEPT !.load = None, !.selected = l.file, !.editor = l.read,
                             !.saved = l.read, !.stale = FALSE]]
        /\ UNCHANGED <<source, temporary, writer, reader, events>>

\* The Save button sends the text with the SHA-256 observed last.
Save(p) ==
    /\ page[p].up /\ ~Saving(p) /\ ~page[p].stale /\ Dirty(p)
    /\ Event
    /\ page' = [page EXCEPT
          ![p].load = None,
          ![p].save = [file |-> page[p].selected, text |-> page[p].editor,
                       expects |-> page[p].saved, at |-> "sent", unseen |-> {}]]
    /\ UNCHANGED <<source, temporary, writer, reader>>

\* The answer to a save concerns the page only while its file is selected.  It
\* leaves the editor alone: what was typed meanwhile is unsaved text.
Answered(p) ==
    LET s == page[p].save
        here == page[p].selected = s.file
    IN  /\ s # None /\ s.at \in Answers
        /\ page' = [page EXCEPT ![p] =
              [@ EXCEPT !.save = None,
                        !.saved = IF here /\ s.at = "saved" THEN s.text ELSE page[p].saved,
                        !.stale = IF here /\ s.at = "saved" THEN FALSE
                                  ELSE page[p].stale \/ (here /\ s.at = "stale_file")]]
        /\ UNCHANGED <<source, temporary, writer, reader, events>>

-----------------------------------------------------------------------------
(* POST /api/file: a save, under the exclusive lock until it is answered *)

At(p, step) == page[p].save # None /\ page[p].save.at = step

Proceed(p, step, unseen) ==
    /\ page' = [page EXCEPT ![p].save.at = step, ![p].save.unseen = unseen]
    /\ writer' = p

Answer(p, answer) ==
    /\ page' = [page EXCEPT ![p].save.at = answer]
    /\ writer' = None

LockExclusive_Shares(p) == writer = None

\* workflow.LockSource waits for a writer and for every reader.
LockExclusive(p) == writer = None /\ Shared = {}

SaveCompare(p) ==
    LET s == page[p].save IN
    /\ At(p, "sent")
    /\ LockExclusive(p)
    /\ IF source[s.file] = s.expects
       THEN Proceed(p, "compared", {})
       ELSE page' = [page EXCEPT ![p].save.at = "stale_file"] /\ UNCHANGED writer
    /\ UNCHANGED <<source, temporary, reader, events>>

\* validateCandidate: a copy of the whole tree with the text in its place.
Candidate(p) == [source EXCEPT ![page[p].save.file] = page[p].save.text]

SaveValidate(p) ==
    /\ At(p, "compared")
    /\ IF Candidate(p) \in Consistent /\ temporary = {}
       THEN Proceed(p, "validated", {})
       ELSE Answer(p, "refused")
    /\ UNCHANGED <<source, temporary, reader, events>>

\* The second reading, and the temporary file beside the one to replace.
SaveRecheck_Trusts(p) ==
    LET s == page[p].save IN
    /\ At(p, "validated")
    /\ Proceed(p, "temporary", s.unseen \ {s.file})
    /\ temporary' = temporary \cup {p}
    /\ UNCHANGED <<source, reader, events>>

SaveRecheck(p) ==
    LET s == page[p].save IN
    /\ At(p, "validated")
    /\ IF source[s.file] = s.expects
       THEN /\ Proceed(p, "temporary", s.unseen \ {s.file})
            /\ temporary' = temporary \cup {p}
       ELSE Answer(p, "stale_file") /\ UNCHANGED temporary
    /\ UNCHANGED <<source, reader, events>>

\* atomicWriteAt removes the temporary file unless it became the file; the
\* directory may fail to be synced after that.
SaveReplace(p) ==
    LET s == page[p].save IN
    /\ At(p, "temporary")
    /\ temporary' = temporary \ {p}
    /\ \/ source' = [source EXCEPT ![s.file] = s.text] /\ Answer(p, "saved")
       \/ source' = [source EXCEPT ![s.file] = s.text] /\ Answer(p, "refused")
       \/ UNCHANGED source /\ Answer(p, "refused")
    /\ UNCHANGED <<reader, events>>

-----------------------------------------------------------------------------
(* Who else touches the tree *)

\* A file is edited by hand, at any time.
HandEdit(file, text) ==
    /\ text # source[file]
    /\ Event
    /\ source' = [source EXCEPT ![file] = text]
    /\ page' = [p \in Pages |->
          IF page[p].save # None
          THEN [page[p] EXCEPT !.save.unseen = @ \cup {file}] ELSE page[p]]
    /\ reader' = [r \in Readers |->
          IF reader[r].loading
          THEN [reader[r] EXCEPT !.unseen = @ \cup {file}] ELSE reader[r]]
    /\ UNCHANGED <<temporary, writer>>

\* The process ends; its lock with it, its temporary file not.
Kill(p) ==
    /\ page[p].up
    /\ Event
    /\ page' = [page EXCEPT ![p].up = FALSE, ![p].load = None, ![p].save = None]
    /\ writer' = IF writer = p THEN None ELSE writer
    /\ UNCHANGED <<source, temporary, reader>>

\* NewHandler starts on nothing but a tree that loads.
Restart(p) ==
    /\ ~page[p].up
    /\ writer = None
    /\ Loadable
    /\ page' = [page EXCEPT ![p] = Fresh]
    /\ UNCHANGED <<source, temporary, writer, reader, events>>

\* Nothing but a hand removes what a killed Dashboard left.
CleanUp(p) ==
    /\ p \in temporary /\ ~At(p, "temporary")
    /\ temporary' = temporary \ {p}
    /\ UNCHANGED <<source, writer, page, reader, events>>

\* A command or another Dashboard loads the tree: under the shared lock the
\* directories are listed, then the files are read one by one.
Begin(r) ==
    /\ ~reader[r].loading
    /\ writer = None
    /\ reader' = [reader EXCEPT ![r] = [Idle EXCEPT !.loading = TRUE,
                                                    !.refused = temporary # {}]]
    /\ UNCHANGED <<source, temporary, writer, page, events>>

Read(r, file) ==
    LET view == reader[r].view IN
    /\ reader[r].loading /\ ~reader[r].refused
    /\ file \notin DOMAIN view
    /\ reader' = [reader EXCEPT ![r].view =
          [f \in DOMAIN view \cup {file} |-> IF f = file THEN source[f] ELSE view[f]]]
    /\ UNCHANGED <<source, temporary, writer, page, events>>

Loaded(r) == reader[r].loading /\ DOMAIN reader[r].view = Files

End(r) ==
    /\ Loaded(r) \/ reader[r].refused
    /\ reader' = [reader EXCEPT ![r] = Idle]
    /\ UNCHANGED <<source, temporary, writer, page, events>>

Next ==
    \/ \E p \in Pages :
          \/ \E f \in Files : Open(p, f)
          \/ Poll(p)
          \/ \E t \in Typed : Input(p, t)
          \/ Receive(p) \/ Save(p) \/ Answered(p)
          \/ SaveCompare(p) \/ SaveValidate(p) \/ SaveRecheck(p) \/ SaveReplace(p)
          \/ Kill(p) \/ Restart(p) \/ CleanUp(p)
    \/ \E f \in Files, t \in ByHand : HandEdit(f, t)
    \/ \E r \in Readers : Begin(r) \/ End(r) \/ \E f \in Files : Read(r, f)

Spec == Init /\ [][Next]_vars

-----------------------------------------------------------------------------
(* Properties *)

Replaces(p) == At(p, "temporary") /\ ~At(p, "temporary")' /\ source' # source

\* No edit is lost.  On disk: a save replaces exactly the content that its page
\* had seen, whatever other pages, processes and hands did meanwhile, but for
\* an edit by hand after the second reading, which nothing excludes.  On the
\* page: unsaved text gives way only to a file asked for after it was typed
\* (ADR 0108: a dirty editor is only marked stale).
NoEditIsLost ==
    [][\A p \in Pages :
          LET s == page[p].save
              l == page[p].load
          IN  /\ Replaces(p) =>
                    source[s.file] = s.expects \/ s.file \in s.unseen
              /\ Receive(p) /\ Dirty(p) /\ page'[p].editor # page[p].editor =>
                    l.force /\ l.over = page[p].editor]_vars

\* Saves of files that depend on each other leave a tree that loads as a whole,
\* and whoever has loaded it under the lock has a tree of one moment, and
\* does not see the temporary file of a save under way; edits by hand excepted.
OneValidTree ==
    [][/\ \A p \in Pages :
             Replaces(p) /\ page[p].save.unseen = {} => source' \in Consistent
       /\ \A r \in Readers :
             /\ Loaded(r) /\ reader[r].unseen = {} => reader[r].view = source
             /\ Begin(r) => \A p \in temporary : ~At(p, "temporary")]_vars
=============================================================================
