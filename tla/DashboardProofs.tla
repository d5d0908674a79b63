--------------------------- MODULE DashboardProofs ---------------------------
(***************************************************************************)
(* For any number of pages, readers, files and events: the types with the  *)
(* exclusion of the lock, that no edit is lost, and that the tree stays    *)
(* one valid tree.                                                         *)
(***************************************************************************)
EXTENDS Dashboard, TLAPS

\* What the lock and the two readings give a save.
SaveInv(p) ==
    page[p].save # None =>
        LET s == page[p].save IN
        /\ s.at = "temporary" => source[s.file] = s.expects \/ s.file \in s.unseen
        /\ s.at \in {"validated", "temporary"} /\ s.unseen \subseteq {s.file} =>
              Candidate(p) \in Consistent

\* Whatever changes the editor or the selection drops the load.
LoadInv(p) ==
    LET l == page[p].load IN
    l # None => l.over = page[p].editor /\ (~l.force => l.file = page[p].selected)

\* A reader that has the lock has read what is there.
ReaderInv(r) ==
    reader[r].loading =>
        /\ writer = None
        /\ reader[r].unseen = {} =>
              \A f \in DOMAIN reader[r].view : reader[r].view[f] = source[f]

IInv ==
    /\ TypeOK
    /\ \A p \in Pages : SaveInv(p) /\ LoadInv(p)
    /\ \A r \in Readers : ReaderInv(r)

\* A page that changes but for its save: the lock stays where it is.
LEMMA PageStep ==
    ASSUME TypeOK, NEW p \in Pages, NEW new \in Page,
           page' = [page EXCEPT ![p] = new], new.save = page[p].save,
           temporary' \subseteq Pages, source' \in Trees, events' \in 0..MaxEvents,
           UNCHANGED <<writer, reader>>
    PROVE  TypeOK'
<1>1. page' \in [Pages -> Page]
  BY DEF TypeOK
<1>2. \A q \in Pages : page'[q].save = page[q].save
  BY DEF TypeOK
<1>3. \A q \in Pages :
        writer' = q <=> page'[q].save # None /\ page'[q].save.at \in Asked \ {"sent"}
  BY <1>2 DEF TypeOK
<1>4. QED
  BY <1>1, <1>3 DEF TypeOK

\* A load that begins, of any page, leaves the types as they are.
LEMMA LoadTyped ==
    ASSUME TypeOK, NEW p \in Pages, NEW f \in Files, NEW force \in BOOLEAN, Load(p, f, force),
           UNCHANGED <<source, temporary, writer, reader, events>>
    PROVE  TypeOK'
<1> DEFINE load == [file |-> f, force |-> force, over |-> page[p].editor, read |-> source[f]]
           new  == [page[p] EXCEPT !.load = load]
<1>1. page[p] \in Page /\ load \in Loads
  BY DEF TypeOK, Page, Loads, Trees
<1>2. new \in Page /\ new.save = page[p].save
  BY <1>1 DEF Page
<1>3. page' = [page EXCEPT ![p] = new]
  BY DEF Load
<1> HIDE DEF new
<1>4. QED
  BY <1>2, <1>3, PageStep DEF TypeOK

\* The answer to a load touches but the text, the marks and the load itself.
LEMMA Received ==
    ASSUME TypeOK, NEW p \in Pages, Receive(p)
    PROVE  \E new \in Page : /\ page' = [page EXCEPT ![p] = new]
                             /\ new.load = None /\ new.save = page[p].save
<1> DEFINE l == page[p].load
           here == ~l.force /\ page[p].selected = l.file
           marked == [page[p] EXCEPT !.load = None, !.stale = page[p].stale \/ l.read # page[p].saved]
           kept == [page[p] EXCEPT !.load = None]
           shown == [page[p] EXCEPT !.load = None, !.selected = l.file, !.editor = l.read,
                                    !.saved = l.read, !.stale = FALSE]
<1>1. l \in Loads /\ page[p] \in Page
  BY DEF TypeOK, Page, Receive
<1>2. \A new \in {marked, kept, shown} : new \in Page /\ new.load = None /\ new.save = page[p].save
  <2>1. /\ l.file \in Files /\ l.read \in Contents
        /\ (page[p].stale \/ l.read # page[p].saved) \in BOOLEAN
    BY <1>1 DEF Page, Loads
  <2> HIDE DEF l
  <2>2. marked \in Page /\ marked.load = None /\ marked.save = page[p].save
    BY <1>1, <2>1 DEF Page
  <2>3. kept \in Page /\ kept.load = None /\ kept.save = page[p].save
    BY <1>1 DEF Page
  <2>4. shown \in Page /\ shown.load = None /\ shown.save = page[p].save
    BY <1>1, <2>1 DEF Page
  <2> HIDE DEF marked, kept, shown
  <2>5. QED
    BY <2>2, <2>3, <2>4
<1>3. \E new \in {marked, kept, shown} : page' = [page EXCEPT ![p] = new]
  <2>1. CASE here /\ Dirty(p)
    <3>1. page' = [page EXCEPT ![p] = marked]
      BY <2>1 DEF Receive
    <3>2. QED
      BY <3>1
  <2>2. CASE ~(here /\ Dirty(p)) /\ here /\ l.read = page[p].saved
    <3>1. page' = [page EXCEPT ![p] = kept]
      BY <2>2 DEF Receive
    <3>2. QED
      BY <3>1
  <2>3. CASE ~(here /\ Dirty(p)) /\ ~(here /\ l.read = page[p].saved)
    <3>1. page' = [page EXCEPT ![p] = shown]
      BY <2>3 DEF Receive
    <3>2. QED
      BY <3>1
  <2>4. QED
    BY <2>1, <2>2, <2>3
<1> HIDE DEF marked, kept, shown
<1>4. QED
  BY <1>2, <1>3

\* A reader between two loads has its type.
LEMMA IdleTyped == Idle \in Reader
<1>1. [f \in {} |-> None] \in [{} -> Contents]
  OBVIOUS
<1>2. [f \in {} |-> None] \in UNION {[S -> Contents] : S \in SUBSET Files}
  BY <1>1
<1>3. QED
  BY <1>2 DEF Idle, Reader

\* Every step keeps the types.
LEMMA TypeStep == TypeOK /\ [Next]_vars => TypeOK'
<1> SUFFICES ASSUME TypeOK, [Next]_vars PROVE TypeOK'
  OBVIOUS
<1>0. \A q \in Pages : page[q] \in Page
  BY DEF TypeOK
<1>1. ASSUME NEW p \in Pages, NEW f \in Files, Open(p, f) PROVE TypeOK'
  BY <1>1, LoadTyped DEF Open
<1>2. ASSUME NEW p \in Pages, Poll(p) PROVE TypeOK'
  BY <1>2, LoadTyped DEF Poll, TypeOK, Page
<1>3. ASSUME NEW p \in Pages, NEW t \in Typed, Input(p, t) PROVE TypeOK'
  <2> DEFINE new == [page[p] EXCEPT !.editor = t, !.load = None]
  <2>0. t \in Contents
    BY DashboardAssumption
  <2>1. new \in Page /\ new.save = page[p].save
    BY <1>0, <2>0 DEF Page
  <2>2. page' = [page EXCEPT ![p] = new]
    BY <1>3 DEF Input
  <2> HIDE DEF new
  <2>3. QED
    BY <1>3, <2>1, <2>2, PageStep DEF TypeOK, Input
<1>4. ASSUME NEW p \in Pages, Receive(p) PROVE TypeOK'
  <2>1. PICK new \in Page : page' = [page EXCEPT ![p] = new] /\ new.save = page[p].save
    BY <1>4, Received
  <2>2. /\ temporary' \subseteq Pages /\ source' \in Trees /\ events' \in 0..MaxEvents
        /\ UNCHANGED <<writer, reader>>
    BY <1>4 DEF TypeOK, Receive
  <2>3. QED
    BY <2>1, <2>2, PageStep
<1>5. ASSUME NEW p \in Pages, Save(p) PROVE TypeOK'
  BY <1>5, DashboardAssumption
  DEF TypeOK, Save, Page, Saves, Saving, Dirty, Event, Asked, Answers
<1>6. ASSUME NEW p \in Pages, Answered(p) PROVE TypeOK'
  <2> DEFINE s == page[p].save
             here == page[p].selected = s.file
             new == [page[p] EXCEPT !.save = None,
                        !.saved = IF here /\ s.at = "saved" THEN s.text ELSE page[p].saved,
                        !.stale = IF here /\ s.at = "saved" THEN FALSE
                                  ELSE page[p].stale \/ (here /\ s.at = "stale_file")]
  <2>1. page' = [page EXCEPT ![p] = new] /\ UNCHANGED <<source, temporary, writer, reader, events>>
    BY <1>6 DEF Answered
  <2>2. s \in Saves /\ s.at \in Answers
    BY <1>0, <1>6 DEF Page, Answered
  <2>3. new \in Page /\ new.save = None
    BY <1>0, <2>2 DEF Page, Saves
  <2>4. writer # p
    BY <2>2 DEF TypeOK, Asked, Answers
  <2> HIDE DEF new
  <2>5. page' \in [Pages -> Page] /\ page'[p].save = None
        /\ \A q \in Pages \ {p} : page'[q] = page[q]
    BY <2>1, <2>3 DEF TypeOK
  <2>6. QED
    BY <2>1, <2>4, <2>5 DEF TypeOK
<1>7. ASSUME NEW p \in Pages, SaveCompare(p) PROVE TypeOK'
  <2>1. page[p].save \in Saves /\ page[p].save.at = "sent" /\ writer = None
    BY <1>0, <1>7 DEF SaveCompare, At, LockExclusive, Page
  <2>2. CASE source[page[p].save.file] = page[p].save.expects
    BY <1>7, <2>1, <2>2, DashboardAssumption
    DEF TypeOK, SaveCompare, Page, Saves, Asked, Answers, Proceed
  <2>3. CASE source[page[p].save.file] # page[p].save.expects
    BY <1>7, <2>1, <2>3, DashboardAssumption
    DEF TypeOK, SaveCompare, Page, Saves, Asked, Answers
  <2>4. QED
    BY <2>2, <2>3
<1>8. ASSUME NEW p \in Pages, SaveValidate(p) PROVE TypeOK'
  BY <1>8, DashboardAssumption
  DEF TypeOK, SaveValidate, Page, Saves, Asked, Answers, At, Proceed, Answer
<1>9. ASSUME NEW p \in Pages, SaveRecheck(p) PROVE TypeOK'
  BY <1>9, DashboardAssumption
  DEF TypeOK, SaveRecheck, Page, Saves, Asked, Answers, At, Proceed, Answer
<1>10. ASSUME NEW p \in Pages, SaveReplace(p) PROVE TypeOK'
  BY <1>10, DashboardAssumption
  DEF TypeOK, SaveReplace, Page, Saves, Asked, Answers, At, Proceed, Answer, Trees
<1>11. ASSUME NEW p \in Pages, Kill(p) PROVE TypeOK'
  <2> DEFINE new == [page[p] EXCEPT !.up = FALSE, !.load = None, !.save = None]
  <2>1. page' = [page EXCEPT ![p] = new]
    BY <1>11 DEF Kill
  <2>2. new \in Page /\ new.save = None
    BY <1>0 DEF Page
  <2> HIDE DEF new
  <2>3. writer' \in Pages \cup {None} /\ writer' # p /\ \A q \in Pages \ {p} : writer' = q <=> writer = q
    BY <1>11, DashboardAssumption DEF Kill, TypeOK
  <2>4. page' \in [Pages -> Page] /\ page'[p].save = None
        /\ \A q \in Pages \ {p} : page'[q] = page[q]
    BY <2>1, <2>2 DEF TypeOK
  <2>5. events' \in 0..MaxEvents
    BY <1>11, DashboardAssumption DEF Kill, Event, TypeOK
  <2>6. QED
    BY <1>11, <2>3, <2>4, <2>5 DEF TypeOK, Kill
<1>12. ASSUME NEW p \in Pages, Restart(p) PROVE TypeOK'
  BY <1>12, DashboardAssumption DEF TypeOK, Restart, Page, Fresh, Trees
<1>13. ASSUME NEW p \in Pages, CleanUp(p) PROVE TypeOK'
  BY <1>13 DEF TypeOK, CleanUp
<1>14. ASSUME NEW f \in Files, NEW t \in ByHand, HandEdit(f, t) PROVE TypeOK'
  <2>1. source' \in Trees /\ events' \in 0..MaxEvents
    BY <1>14, DashboardAssumption DEF TypeOK, HandEdit, Event, Trees
  <2>2. \A s \in Saves : [s EXCEPT !.unseen = @ \cup {f}] \in Saves
                        /\ [s EXCEPT !.unseen = @ \cup {f}].at = s.at
    BY DEF Saves
  <2>3. \A g \in Page : g.save # None =>
          /\ [g EXCEPT !.save.unseen = @ \cup {f}] \in Page
          /\ [g EXCEPT !.save.unseen = @ \cup {f}].save \in Saves
          /\ [g EXCEPT !.save.unseen = @ \cup {f}].save.at = g.save.at
    BY <2>2 DEF Page
  <2>4. page' \in [Pages -> Page]
        /\ \A q \in Pages : /\ page'[q].save # None <=> page[q].save # None
                            /\ page[q].save # None => page'[q].save.at = page[q].save.at
    BY <1>0, <1>14, <2>3, DashboardAssumption DEF HandEdit
  <2>5. \A v \in Reader : [v EXCEPT !.unseen = @ \cup {f}] \in Reader
    BY DEF Reader
  <2>6. reader' \in [Readers -> Reader]
    BY <1>14, <2>5 DEF HandEdit, TypeOK
  <2>7. QED
    BY <1>14, <2>1, <2>4, <2>6 DEF TypeOK, HandEdit
<1>15. ASSUME NEW r \in Readers, Begin(r) PROVE TypeOK'
  <2>1. [Idle EXCEPT !.loading = TRUE, !.refused = temporary # {}] \in Reader
    BY IdleTyped DEF Reader
  <2>2. QED
    BY <1>15, <2>1 DEF TypeOK, Begin
<1>16. ASSUME NEW r \in Readers, End(r) PROVE TypeOK'
  BY <1>16, IdleTyped DEF TypeOK, End
<1>17. ASSUME NEW r \in Readers, NEW f \in Files, Read(r, f) PROVE TypeOK'
  <2> DEFINE view == reader[r].view
             read == [g \in DOMAIN view \cup {f} |-> IF g = f THEN source[f] ELSE view[g]]
  <2>1. reader[r] \in Reader /\ source \in [Files -> Contents]
    BY DEF TypeOK, Trees
  <2>2. PICK S \in SUBSET Files : view \in [S -> Contents]
    BY <2>1 DEF Reader
  <2>3. read \in [S \cup {f} -> Contents]
    BY <2>1, <2>2
  <2>4. read \in UNION {[T -> Contents] : T \in SUBSET Files}
    BY <2>3
  <2> HIDE DEF read
  <2>5. [reader[r] EXCEPT !.view = read] \in Reader
    BY <2>1, <2>4 DEF Reader
  <2>6. reader' = [reader EXCEPT ![r] = [reader[r] EXCEPT !.view = read]]
    BY <1>17 DEF Read, read
  <2>7. QED
    BY <1>17, <2>5, <2>6 DEF TypeOK, Read
<1>18. CASE UNCHANGED vars
  BY <1>18 DEF TypeOK, vars
<1>19. QED
  BY <1>1, <1>2, <1>3, <1>4, <1>5, <1>6, <1>7, <1>8, <1>9, <1>10, <1>11, <1>12, <1>13,
     <1>14, <1>15, <1>16, <1>17, <1>18 DEF Next

-----------------------------------------------------------------------------
(* The rest of the invariant *)

\* A page other than those of the step, on a tree that has not changed.
LEMMA Untouched ==
    ASSUME NEW p \in Pages, SaveInv(p), LoadInv(p), page'[p] = page[p], source' = source
    PROVE  SaveInv(p)' /\ LoadInv(p)'
BY DEF SaveInv, LoadInv, Candidate

\* A step of one page that leaves the tree alone.
LEMMA OwnStep ==
    ASSUME IInv, TypeOK', NEW p \in Pages, SaveInv(p)', LoadInv(p)',
           source' = source, \A q \in Pages \ {p} : page'[q] = page[q],
           reader' = reader, writer' \in {writer, None} \/ Shared = {}
    PROVE  IInv'
<1>1. \A q \in Pages : SaveInv(q)' /\ LoadInv(q)'
  BY Untouched DEF IInv
<1>2. \A r \in Readers : ReaderInv(r)'
  BY DEF IInv, ReaderInv, Shared
<1>3. QED
  BY <1>1, <1>2 DEF IInv

\* Only who holds the lock has a save past its first step.
LEMMA Exclusive ==
    ASSUME TypeOK, NEW p \in Pages, page[p].save # None,
           page[p].save.at \in {"compared", "validated", "temporary"}
    PROVE  /\ writer = p
           /\ \A q \in Pages \ {p} : page[q].save # None =>
                 page[q].save.at \notin {"compared", "validated", "temporary"}
BY DEF TypeOK, Asked

\* A load asked for a page keeps the invariant: it is for the text that the editor holds.
LEMMA LoadKept ==
    ASSUME IInv, TypeOK', NEW p \in Pages, NEW f \in Files, NEW force \in BOOLEAN,
           Load(p, f, force), force \/ f = page[p].selected,
           UNCHANGED <<source, temporary, writer, reader, events>>
    PROVE  IInv'
<1>1. page[p] \in Page
  BY DEF IInv, TypeOK
<1>2. /\ page'[p].save = page[p].save /\ page'[p].editor = page[p].editor
      /\ page'[p].selected = page[p].selected
      /\ page'[p].load = [file |-> f, force |-> force, over |-> page[p].editor, read |-> source[f]]
      /\ \A q \in Pages \ {p} : page'[q] = page[q]
  BY <1>1 DEF Load, IInv, TypeOK, Page
<1>3. SaveInv(p)'
  BY <1>2 DEF IInv, SaveInv, Candidate
<1>4. LoadInv(p)'
  BY <1>2 DEF LoadInv
<1>5. QED
  BY <1>2, <1>3, <1>4, OwnStep

\* The steps of a page outside a save: its load goes, its save stays.
LEMMA LoadDropped ==
    ASSUME IInv, TypeOK', NEW p \in Pages, NEW new \in Page, page' = [page EXCEPT ![p] = new],
           new.load = None, new.save = page[p].save, UNCHANGED <<source, temporary, writer, reader>>
    PROVE  IInv'
<1>1. page'[p] = new /\ \A q \in Pages \ {p} : page'[q] = page[q]
  BY DEF IInv, TypeOK
<1>2. SaveInv(p)'
  BY <1>1 DEF IInv, SaveInv, Candidate
<1>3. LoadInv(p)'
  BY <1>1 DEF LoadInv
<1>4. QED
  BY <1>1, <1>2, <1>3, OwnStep

\* Every step keeps the invariant.
LEMMA Invariant == IInv /\ [Next]_vars => IInv'
<1> SUFFICES ASSUME IInv, [Next]_vars PROVE IInv'
  OBVIOUS
<1>0. /\ TypeOK /\ TypeOK' /\ page \in [Pages -> Page] /\ \A q \in Pages : page[q] \in Page
      /\ source \in [Files -> Contents] /\ reader \in [Readers -> Reader]
  BY TypeStep DEF IInv, TypeOK, Trees
<1>1. ASSUME NEW p \in Pages, NEW f \in Files, Open(p, f) PROVE IInv'
  BY <1>0, <1>1, LoadKept DEF Open
<1>2. ASSUME NEW p \in Pages, Poll(p) PROVE IInv'
  BY <1>0, <1>2, LoadKept DEF Poll, Page
<1>3. ASSUME NEW p \in Pages, NEW t \in Typed, Input(p, t) PROVE IInv'
  <2> DEFINE new == [page[p] EXCEPT !.editor = t, !.load = None]
  <2>1. new \in Page /\ new.save = page[p].save /\ new.load = None
    <3>1. t \in Contents
      BY DashboardAssumption
    <3>2. QED
      BY <1>0, <3>1 DEF Page
  <2>2. page' = [page EXCEPT ![p] = new]
    BY <1>3 DEF Input
  <2> HIDE DEF new
  <2>3. QED
    BY <1>0, <1>3, <2>1, <2>2, LoadDropped DEF Input
<1>4. ASSUME NEW p \in Pages, Receive(p) PROVE IInv'
  <2>1. PICK new \in Page : /\ page' = [page EXCEPT ![p] = new]
                            /\ new.load = None /\ new.save = page[p].save
    BY <1>0, <1>4, Received
  <2>2. UNCHANGED <<source, temporary, writer, reader>>
    BY <1>4 DEF Receive
  <2>3. QED
    BY <1>0, <2>1, <2>2, LoadDropped
<1>5. ASSUME NEW p \in Pages, Save(p) PROVE IInv'
  <2>1. /\ page'[p].load = None /\ page'[p].save.at = "sent"
        /\ \A q \in Pages \ {p} : page'[q] = page[q]
    <3>1. page \in [Pages -> Page] /\ page[p] \in Page
      BY <1>0 DEF TypeOK
    <3>2. QED
      BY <1>5, <3>1 DEF Save, Page
  <2>2. SaveInv(p)' /\ LoadInv(p)'
    BY <2>1 DEF SaveInv, LoadInv
  <2>3. source' = source /\ reader' = reader /\ writer' = writer
    BY <1>5 DEF Save
  <2>4. QED
    BY <1>0, <2>1, <2>2, <2>3, OwnStep
<1>6. ASSUME NEW p \in Pages, Answered(p) PROVE IInv'
  <2>1. /\ page'[p].save = None /\ page'[p].load = page[p].load
        /\ page'[p].editor = page[p].editor /\ page'[p].selected = page[p].selected
        /\ \A q \in Pages \ {p} : page'[q] = page[q]
    BY <1>0, <1>6 DEF Answered, Page
  <2>2. SaveInv(p)' /\ LoadInv(p)'
    BY <2>1 DEF IInv, SaveInv, LoadInv
  <2>3. source' = source /\ reader' = reader /\ writer' = writer
    BY <1>6 DEF Answered
  <2>4. QED
    BY <1>0, <2>1, <2>2, <2>3, OwnStep
<1>7. ASSUME NEW p \in Pages, SaveCompare(p) PROVE IInv'
  <2>1. page[p].save \in Saves
    BY <1>0, <1>7 DEF SaveCompare, At, Page
  <2>2. /\ page'[p].save.at \in {"compared", "stale_file"} /\ page'[p].load = page[p].load
        /\ page'[p].editor = page[p].editor /\ page'[p].selected = page[p].selected
        /\ \A q \in Pages \ {p} : page'[q] = page[q]
    BY <1>0, <1>7, <2>1 DEF SaveCompare, Proceed, Page, Saves
  <2>3. SaveInv(p)' /\ LoadInv(p)'
    BY <2>2 DEF IInv, SaveInv, LoadInv
  <2>4. source' = source /\ reader' = reader /\ (writer' = writer \/ Shared = {})
    BY <1>7 DEF SaveCompare, LockExclusive
  <2>5. QED
    BY <1>0, <2>2, <2>3, <2>4, OwnStep
<1>8. ASSUME NEW p \in Pages, SaveValidate(p) PROVE IInv'
  <2>1. page[p].save \in Saves /\ page[p].save.at = "compared" /\ page[p].save # None
    BY <1>0, <1>8 DEF SaveValidate, At, Page
  <2>2. /\ page'[p].load = page[p].load /\ page'[p].editor = page[p].editor
        /\ page'[p].selected = page[p].selected
        /\ \A q \in Pages \ {p} : page'[q] = page[q]
        /\ page'[p].save.file = page[p].save.file /\ page'[p].save.text = page[p].save.text
        /\ \/ page'[p].save.at = "validated" /\ Candidate(p) \in Consistent
           \/ page'[p].save.at = "refused"
    BY <1>0, <1>8, <2>1 DEF SaveValidate, Proceed, Answer, Page, Saves
  <2>3. SaveInv(p)' /\ LoadInv(p)'
    BY <1>8, <2>2 DEF IInv, SaveInv, LoadInv, Candidate, SaveValidate
  <2>4. writer = p
    BY <1>0, <2>1, Exclusive
  <2>5. writer' \in {writer, None}
    BY <1>8, <2>4 DEF SaveValidate, Proceed, Answer
  <2>6. QED
    BY <1>0, <1>8, <2>2, <2>3, <2>5, OwnStep DEF SaveValidate
<1>9. ASSUME NEW p \in Pages, SaveRecheck(p) PROVE IInv'
  <2> DEFINE s == page[p].save
  <2>1. s \in Saves /\ s.at = "validated" /\ s # None
    BY <1>0, <1>9 DEF SaveRecheck, At, Page
  <2>2. /\ page'[p].load = page[p].load /\ page'[p].editor = page[p].editor
        /\ page'[p].selected = page[p].selected
        /\ \A q \in Pages \ {p} : page'[q] = page[q]
        /\ page'[p].save.file = s.file /\ page'[p].save.text = s.text
        /\ page'[p].save.expects = s.expects
        /\ \/ /\ page'[p].save.at = "temporary" /\ source[s.file] = s.expects
              /\ page'[p].save.unseen = s.unseen \ {s.file}
           \/ page'[p].save.at = "stale_file"
    BY <1>0, <1>9, <2>1 DEF SaveRecheck, Proceed, Answer, Page, Saves
  <2>3. source' = source
    BY <1>9 DEF SaveRecheck
  <2>4. Candidate(p)' = Candidate(p)
    BY <2>2, <2>3 DEF Candidate
  <2>5. SaveInv(p)
    BY DEF IInv
  <2>6. SaveInv(p)'
    BY <2>1, <2>2, <2>3, <2>4, <2>5 DEF SaveInv
  <2>7. LoadInv(p)'
    BY <2>2 DEF IInv, LoadInv
  <2>8. writer = p
    BY <1>0, <2>1, Exclusive
  <2>9. writer' \in {writer, None}
    BY <1>9, <2>8 DEF SaveRecheck, Proceed, Answer
  <2>10. QED
    BY <1>0, <1>9, <2>2, <2>3, <2>6, <2>7, <2>9, OwnStep DEF SaveRecheck
<1>10. ASSUME NEW p \in Pages, SaveReplace(p) PROVE IInv'
  <2>1. page[p].save \in Saves /\ page[p].save.at = "temporary" /\ page[p].save # None
    BY <1>0, <1>10 DEF SaveReplace, At, Page
  <2>2. /\ page'[p].load = page[p].load /\ page'[p].editor = page[p].editor
        /\ page'[p].selected = page[p].selected
        /\ \A q \in Pages \ {p} : page'[q] = page[q]
        /\ page'[p].save.at \in {"saved", "refused"}
    BY <1>0, <1>10, <2>1 DEF SaveReplace, Answer, Page, Saves
  <2>3. SaveInv(p)' /\ \A q \in Pages : LoadInv(q)'
    BY <2>2 DEF IInv, SaveInv, LoadInv
  <2>4. \A q \in Pages \ {p} : SaveInv(q)'
    BY <1>0, <2>1, <2>2, Exclusive DEF SaveInv
  <2>5. \A r \in Readers : ~reader[r].loading
    BY <1>0, <2>1, Exclusive, DashboardAssumption DEF IInv, ReaderInv
  <2>6. \A r \in Readers : ReaderInv(r)'
    BY <1>10, <2>5 DEF ReaderInv, SaveReplace
  <2>7. QED
    BY <1>0, <2>3, <2>4, <2>6 DEF IInv
<1>11. ASSUME NEW p \in Pages, Kill(p) PROVE IInv'
  <2>1. /\ page'[p].save = None /\ page'[p].load = None
        /\ \A q \in Pages \ {p} : page'[q] = page[q]
    BY <1>0, <1>11 DEF Kill, Page
  <2>2. SaveInv(p)' /\ LoadInv(p)'
    BY <2>1 DEF SaveInv, LoadInv
  <2>3. QED
    BY <1>0, <1>11, <2>1, <2>2, OwnStep DEF Kill
<1>12. ASSUME NEW p \in Pages, Restart(p) PROVE IInv'
  <2>1. /\ page'[p].save = None /\ page'[p].load = None
        /\ \A q \in Pages \ {p} : page'[q] = page[q]
    BY <1>0, <1>12 DEF Restart, Fresh
  <2>2. SaveInv(p)' /\ LoadInv(p)'
    BY <2>1 DEF SaveInv, LoadInv
  <2>3. QED
    BY <1>0, <1>12, <2>1, <2>2, OwnStep DEF Restart
<1>13. ASSUME NEW p \in Pages, CleanUp(p) PROVE IInv'
  <2>1. SaveInv(p)' /\ LoadInv(p)'
    BY <1>13, Untouched DEF IInv, CleanUp
  <2>2. QED
    BY <1>0, <1>13, <2>1, OwnStep DEF CleanUp
<1>14. ASSUME NEW f \in Files, NEW t \in ByHand, HandEdit(f, t) PROVE IInv'
  <2>1. source' = [source EXCEPT ![f] = t] /\ source \in [Files -> Contents]
    BY <1>0, <1>14 DEF HandEdit, Trees
  <2>2. ASSUME NEW q \in Pages PROVE SaveInv(q)' /\ LoadInv(q)'
    <3>1. CASE page[q].save = None
      <4>1. page'[q] = page[q]
        BY <1>14, <3>1 DEF HandEdit
      <4>2. QED
        BY <3>1, <4>1 DEF IInv, SaveInv, LoadInv
    <3>2. CASE page[q].save # None
      <4> DEFINE s == page[q].save
      <4>1. s \in Saves
        BY <1>0, <3>2 DEF Page
      <4>2. page'[q] = [page[q] EXCEPT !.save.unseen = @ \cup {f}]
        BY <1>14, <3>2 DEF HandEdit
      <4>3. /\ page'[q].load = page[q].load /\ page'[q].editor = page[q].editor
            /\ page'[q].selected = page[q].selected
            /\ page'[q].save.at = s.at /\ page'[q].save.file = s.file
            /\ page'[q].save.text = s.text /\ page'[q].save.expects = s.expects
            /\ page'[q].save.unseen = s.unseen \cup {f}
        BY <1>0, <4>1, <4>2 DEF Page, Saves
      <4>4. SaveInv(q) /\ LoadInv(q)
        BY DEF IInv
      <4>5. s.at = "temporary" => source'[s.file] = s.expects \/ s.file \in s.unseen \cup {f}
        BY <2>1, <3>2, <4>1, <4>4 DEF SaveInv, Saves
      <4>6. s.unseen \cup {f} \subseteq {s.file} => Candidate(q)' = Candidate(q)
        BY <2>1, <4>1, <4>3 DEF Candidate, Saves
      <4>7. SaveInv(q)'
        BY <3>2, <4>3, <4>4, <4>5, <4>6 DEF SaveInv
      <4>8. LoadInv(q)'
        BY <4>3, <4>4 DEF LoadInv
      <4>9. QED
        BY <4>7, <4>8
    <3>3. QED
      BY <3>1, <3>2
  <2>3. ASSUME NEW r \in Readers PROVE ReaderInv(r)'
    <3>1. CASE reader[r].loading
      <4>1. reader'[r] = [reader[r] EXCEPT !.unseen = @ \cup {f}] /\ reader[r] \in Reader
        BY <1>0, <1>14, <3>1 DEF HandEdit
      <4>2. reader'[r].unseen # {}
        BY <4>1 DEF Reader
      <4>3. QED
        BY <1>14, <3>1, <4>2 DEF IInv, ReaderInv, HandEdit
    <3>2. CASE ~reader[r].loading
      BY <1>14, <3>2 DEF ReaderInv, HandEdit
    <3>3. QED
      BY <3>1, <3>2
  <2>4. QED
    BY <1>0, <2>2, <2>3 DEF IInv
<1>15. ASSUME NEW r \in Readers, Begin(r) PROVE IInv'
  <2>1. \A q \in Pages : SaveInv(q)' /\ LoadInv(q)'
    BY <1>15, Untouched DEF IInv, Begin
  <2>2. \A o \in Readers \ {r} : ReaderInv(o)'
    BY <1>0, <1>15 DEF IInv, ReaderInv, Begin
  <2>3. DOMAIN reader'[r].view = {} /\ writer' = None
    BY <1>0, <1>15 DEF Begin, Idle
  <2>4. ReaderInv(r)'
    BY <2>3 DEF ReaderInv
  <2>5. QED
    BY <1>0, <2>1, <2>2, <2>4 DEF IInv
<1>16. ASSUME NEW r \in Readers, End(r) PROVE IInv'
  <2>1. \A q \in Pages : SaveInv(q)' /\ LoadInv(q)'
    BY <1>16, Untouched DEF IInv, End
  <2>2. \A o \in Readers : ReaderInv(o)'
    BY <1>0, <1>16 DEF IInv, ReaderInv, End, Idle
  <2>3. QED
    BY <1>0, <2>1, <2>2 DEF IInv
<1>17. ASSUME NEW r \in Readers, NEW f \in Files, Read(r, f) PROVE IInv'
  <2>1. \A q \in Pages : SaveInv(q)' /\ LoadInv(q)'
    BY <1>17, Untouched DEF IInv, Read
  <2>2. \A o \in Readers \ {r} : ReaderInv(o)'
    BY <1>0, <1>17 DEF IInv, ReaderInv, Read
  <2>3. reader[r] \in Reader
    BY <1>0 DEF TypeOK
  <2>4. /\ reader'[r].loading = reader[r].loading /\ reader'[r].unseen = reader[r].unseen
        /\ reader'[r].view = [g \in DOMAIN reader[r].view \cup {f} |->
                                IF g = f THEN source[f] ELSE reader[r].view[g]]
    BY <1>0, <1>17, <2>3 DEF Read, Reader
  <2>5. ReaderInv(r) /\ source' = source /\ writer' = writer
    BY <1>17 DEF IInv, Read
  <2>6. ReaderInv(r)'
    BY <2>4, <2>5 DEF ReaderInv
  <2>7. QED
    BY <1>0, <2>1, <2>2, <2>6 DEF IInv
<1>18. CASE UNCHANGED vars
  BY <1>0, <1>18 DEF vars, IInv, SaveInv, LoadInv, ReaderInv, Candidate
<1>19. QED
  BY <1>1, <1>2, <1>3, <1>4, <1>5, <1>6, <1>7, <1>8, <1>9, <1>10, <1>11, <1>12, <1>13,
     <1>14, <1>15, <1>16, <1>17, <1>18 DEF Next

\* The first state satisfies the invariant.
LEMMA InitInvariant == Init => IInv
<1> SUFFICES ASSUME Init PROVE IInv
  OBVIOUS
<1>1. TypeOK
  BY DashboardAssumption, IdleTyped DEF Init, TypeOK, Fresh, Page, Trees
<1>2. QED
  BY <1>1 DEF Init, IInv, SaveInv, LoadInv, ReaderInv, Fresh, Idle

\* Every reachable state satisfies the invariant.
LEMMA InvariantHolds == Spec => []IInv
BY InitInvariant, Invariant, PTL DEF Spec

-----------------------------------------------------------------------------
(* Theorems *)

\* The types, and that the lock (workflow.LockSource) belongs to exactly the
\* Dashboard whose save is between its first reading and its answer.
THEOREM TypeCorrect == Spec => []TypeOK
BY InvariantHolds, PTL DEF IInv

\* A step replaces a file or a text of the editor as NoEditIsLost asks.
LEMMA NoEditStep ==
    ASSUME IInv, NEW p \in Pages
    PROVE  /\ Replaces(p) => \/ source[page[p].save.file] = page[p].save.expects
                            \/ page[p].save.file \in page[p].save.unseen
           /\ Receive(p) /\ Dirty(p) /\ page'[p].editor # page[p].editor =>
                 page[p].load.force /\ page[p].load.over = page[p].editor
<1>1. SaveInv(p) /\ LoadInv(p) /\ page[p] \in Page
  BY DEF IInv, TypeOK
<1>2. Replaces(p) => page[p].save # None /\ page[p].save.at = "temporary"
  BY DEF Replaces, At
<1>3. ASSUME Receive(p), Dirty(p), ~page[p].load.force PROVE page'[p].editor = page[p].editor
  <2> DEFINE l == page[p].load
             marked == [page[p] EXCEPT !.load = None, !.stale = page[p].stale \/ l.read # page[p].saved]
  <2>1. l # None
    BY <1>3 DEF Receive
  <2>2. page[p].selected = l.file
    BY <1>1, <1>3, <2>1 DEF LoadInv
  <2>3. page' = [page EXCEPT ![p] = marked]
    BY <1>3, <2>2 DEF Receive
  <2>4. page'[p] = marked /\ marked.editor = page[p].editor
    BY <1>1, <2>3 DEF Page, IInv, TypeOK
  <2>5. QED
    BY <2>4
<1>4. Receive(p) => page[p].load # None
  BY DEF Receive
<1>5. QED
  BY <1>1, <1>2, <1>3, <1>4 DEF SaveInv, LoadInv

\* handleSave: a save that replaces its file found what its page had seen, or it
\* was edited by hand after the second reading.  loadFile of app.js: an answer takes the place of unsaved
\* text only if it was forced when the editor held that text.
THEOREM NoEditLost == Spec => NoEditIsLost
<1>1. IInv => [\A p \in Pages :
          LET s == page[p].save
              l == page[p].load
          IN  /\ Replaces(p) =>
                    source[s.file] = s.expects \/ s.file \in s.unseen
              /\ Receive(p) /\ Dirty(p) /\ page'[p].editor # page[p].editor =>
                    l.force /\ l.over = page[p].editor]_vars
  BY NoEditStep
<1>2. QED
  BY <1>1, InvariantHolds, PTL DEF NoEditIsLost

\* Who replaces a file replaces it with the candidate it has validated: nobody
\* else was between its two readings, but for a hand.
LEMMA ReplacedByCandidate ==
    ASSUME IInv, [Next]_vars, NEW p \in Pages, Replaces(p)
    PROVE  source' = Candidate(p)
<1>1. /\ page[p].save # None /\ page[p].save.at = "temporary" /\ source' # source
      /\ ~At(p, "temporary")' /\ page[p] \in Page
  BY DEF Replaces, At, IInv, TypeOK
<1>2. ASSUME NEW q \in Pages, SaveReplace(q) PROVE source' = Candidate(p)
  <2>1. page[q].save # None /\ page[q].save.at = "temporary"
    BY <1>2 DEF SaveReplace, At
  <2>2. q = p
    BY <1>1, <2>1, Exclusive DEF IInv
  <2>3. QED
    BY <1>1, <1>2, <2>2 DEF SaveReplace, Candidate
<1>3. ASSUME NEW f \in Files, NEW t \in ByHand, HandEdit(f, t) PROVE FALSE
  <2>1. page'[p] = [page[p] EXCEPT !.save.unseen = @ \cup {f}] /\ page[p].save \in Saves
    BY <1>1, <1>3 DEF HandEdit, Page
  <2>2. page'[p].save = [page[p].save EXCEPT !.unseen = @ \cup {f}]
    BY <1>1, <2>1 DEF Page
  <2>3. page'[p].save \in Saves /\ page'[p].save.at = "temporary"
    BY <1>1, <1>3, <2>1, <2>2 DEF Saves, HandEdit, Page
  <2>4. QED
    BY <1>1, <2>3, DashboardAssumption DEF At
<1>4. QED
  BY <1>1, <1>2, <1>3
  DEF Next, vars, Open, Poll, Load, Input, Receive, Save, Answered, SaveCompare, SaveValidate,
      SaveRecheck, Kill, Restart, CleanUp, Begin, End, Read

\* A step replaces a file, ends a load or begins one as OneValidTree asks.
LEMMA OneTreeStep ==
    ASSUME IInv, [Next]_vars
    PROVE  /\ \A p \in Pages :
                 Replaces(p) /\ page[p].save.unseen = {} => source' \in Consistent
           /\ \A r \in Readers :
                 /\ Loaded(r) /\ reader[r].unseen = {} => reader[r].view = source
                 /\ Begin(r) => \A p \in temporary : ~At(p, "temporary")
<1>1. ASSUME NEW p \in Pages, Replaces(p), page[p].save.unseen = {} PROVE source' \in Consistent
  <2>1. Candidate(p) \in Consistent
    BY <1>1 DEF IInv, SaveInv, Replaces, At
  <2>2. QED
    BY <1>1, <2>1, ReplacedByCandidate
<1>2. ASSUME NEW r \in Readers, Loaded(r), reader[r].unseen = {} PROVE reader[r].view = source
  <2>1. DOMAIN reader[r].view = Files /\ \A f \in Files : reader[r].view[f] = source[f]
    BY <1>2 DEF IInv, ReaderInv, Loaded
  <2>2. source \in [Files -> Contents] /\ reader[r] \in Reader
    BY DEF IInv, TypeOK, Trees
  <2>3. PICK S \in SUBSET Files : reader[r].view \in [S -> Contents]
    BY <2>2 DEF Reader
  <2>4. QED
    BY <2>1, <2>2, <2>3
<1>3. ASSUME NEW r \in Readers, Begin(r), NEW p \in temporary PROVE ~At(p, "temporary")
  <2>1. p \in Pages /\ writer = None
    BY <1>3 DEF IInv, TypeOK, Begin
  <2>2. QED
    BY <2>1, Exclusive, DashboardAssumption DEF IInv, At
<1>4. QED
  BY <1>1, <1>2, <1>3

\* A Dashboard that replaces a file leaves a tree that ValidateBundle accepts, and
\* a command that has loaded all files under the shared lock holds the tree as it
\* is then, without the temporary file of a save under way: but for edits by hand
\* meanwhile.  (A file that a killed Dashboard has left is another matter: the tree
\* is refused, not loaded.)
THEOREM OneTree == Spec => OneValidTree
<1>1. IInv /\ [Next]_vars =>
        [/\ \A p \in Pages :
               Replaces(p) /\ page[p].save.unseen = {} => source' \in Consistent
         /\ \A r \in Readers :
               /\ Loaded(r) /\ reader[r].unseen = {} => reader[r].view = source
               /\ Begin(r) => \A p \in temporary : ~At(p, "temporary")]_vars
  BY OneTreeStep
<1>2. QED
  BY <1>1, InvariantHolds, PTL DEF OneValidTree, Spec
=============================================================================
