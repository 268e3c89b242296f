-------------------------- MODULE FileProtocolsProofs --------------------------
(***************************************************************************)
(* Proofs about the file protocols beside the memory writer.  The registry  *)
(* of projects (ProjectRegistry) always loads, the personal memory          *)
(* (PersonalMemory) keeps and numbers its entries, and the commands and     *)
(* sessions that create and change a project's directories (CloseSession,   *)
(* WorkspaceCreation) lose no entry and no blocker, and leave a project     *)
(* unreadable only through the gaps that are known.  The two writers of a   *)
(* workspace in lots (LotWorkspace) keep its integrity and complete a lot   *)
(* only on evidence.                                                        *)
(***************************************************************************)
EXTENDS CloseSession, LotWorkspace, PersonalMemory, ProjectRegistry, FiniteSetTheorems,
        SequenceTheorems, TLAPS

-----------------------------------------------------------------------------
(* The registry of projects. *)

\* A list that createProjectRegistry accepts.
Loadable(entries) == IsFiniteSet(entries) /\ validateEntries(entries)

\* The file on disk loads, and so did the list a process edited and will publish.
RegistryInv ==
    /\ tool \in [Tool -> {NotRunning}
                   \cup [at : {"editing", "published"},
                         before : {e \in SUBSET [id : ProjectId, root : Root] : Loadable(e)},
                         after : {e \in SUBSET [id : ProjectId, root : Root] : Loadable(e)}]]
    /\ projects \subseteq [id : ProjectId, root : Root]
    /\ Loadable(projects)

\* removeProject: what is left of a list that loads, loads.
LEMMA SmallerLoads ==
  ASSUME NEW entries, Loadable(entries), NEW e \in entries
  PROVE  Loadable(entries \ {e})
  <1>1. Cardinality(entries \ {e}) \in Nat /\ Cardinality(entries \ {e}) = Cardinality(entries) - 1
    BY FS_RemoveElement, FS_CardinalityType DEF Loadable
  <1>2. Cardinality(entries) \in Nat /\ IsFiniteSet(entries \ {e})
    BY FS_RemoveElement, FS_CardinalityType DEF Loadable
  <1>3. Cardinality(entries \ {e}) <= MaxProjects
    BY <1>1, <1>2, RegistryAssumption DEF Loadable, validateEntries
  <1> QED
    BY <1>2, <1>3 DEF Loadable, validateEntries

\* RegistryInv holds at first and every step keeps it.
LEMMA RegistryInductive ==
  /\ RegistryInit => RegistryInv
  /\ RegistryInv /\ [RegistryNext]_registryVars => RegistryInv'
  <1> DEFINE Lists == {e \in SUBSET [id : ProjectId, root : Root] : Loadable(e)}
  <1>1. ASSUME RegistryInit PROVE RegistryInv
    <2>1. Loadable({})
      BY FS_EmptySet, RegistryAssumption DEF Loadable, validateEntries
    <2> QED
      BY <1>1, <2>1 DEF RegistryInit, RegistryInv
  <1>2. ASSUME RegistryInv, [RegistryNext]_registryVars PROVE RegistryInv'
    <2>1. ASSUME NEW t \in Tool, AddProject(t) PROVE RegistryInv'
      <3> PICK id \in ProjectId, r \in Root :
            /\ validateEntries(projects \cup {[id |-> id, root |-> r]})
            /\ Publishing(t, projects, projects \cup {[id |-> id, root |-> r]})
        BY <2>1 DEF AddProject
      <3>1. projects \cup {[id |-> id, root |-> r]} \in Lists
        <4>1. IsFiniteSet(projects \cup {[id |-> id, root |-> r]})
          BY <1>2, FS_AddElement DEF RegistryInv, Loadable
        <4>2. projects \cup {[id |-> id, root |-> r]} \subseteq [id : ProjectId, root : Root]
          BY <1>2 DEF RegistryInv
        <4> QED
          BY <4>1, <4>2 DEF Loadable
      <3>2. projects \in Lists
        BY <1>2 DEF RegistryInv
      <3> HIDE DEF Lists
      <3>3. tool' \in [Tool -> {NotRunning} \cup [at : {"editing", "published"}, before : Lists, after : Lists]]
        BY <1>2, <2>1, <3>1, <3>2 DEF RegistryInv, Publishing, Lists
      <3> QED
        BY <1>2, <2>1, <3>3 DEF RegistryInv, AddProject, Lists
    <2>2. ASSUME NEW t \in Tool, RemoveProject(t) PROVE RegistryInv'
      <3> PICK e \in projects : Publishing(t, projects, projects \ {e})
        BY <2>2 DEF RemoveProject
      <3>1. projects \ {e} \in Lists
        BY <1>2, SmallerLoads DEF RegistryInv
      <3> QED
        BY <1>2, <2>2, <3>1 DEF RegistryInv, RemoveProject, Publishing
    <2>3. ASSUME NEW t \in Tool, PublishRegistry(t) PROVE RegistryInv'
      <3>1. tool[t].after \in Lists /\ [tool[t] EXCEPT !.at = "published"] \in
               [at : {"editing", "published"}, before : Lists, after : Lists]
        BY <1>2, <2>3 DEF RegistryInv, PublishRegistry, NotRunning
      <3> QED
        BY <1>2, <2>3, <3>1 DEF RegistryInv, PublishRegistry
    <2>4. ASSUME NEW t \in Tool, VerifyRegistry(t) \/ AbandonRegistry(t) PROVE RegistryInv'
      BY <1>2, <2>4 DEF RegistryInv, VerifyRegistry, AbandonRegistry
    <2>5. CASE UNCHANGED registryVars
      BY <1>2, <2>5 DEF RegistryInv, registryVars
    <2> QED
      BY <1>2, <2>1, <2>2, <2>3, <2>4, <2>5 DEF RegistryNext
  <1> QED
    BY <1>1, <1>2

\* Whatever registry commands run, in whatever order, and wherever one stops,
\* the file they leave is one that loadProjectRegistry accepts.
THEOREM RegistryLoads == RegistrySpec => []RegistryStaysLoadable
  <1>1. RegistryInv => RegistryStaysLoadable
    BY DEF RegistryInv, Loadable, validateEntries, RegistryStaysLoadable
  <1> QED
    BY <1>1, RegistryInductive, PTL DEF RegistrySpec

-----------------------------------------------------------------------------
(* The personal memory. *)

\* An entry of a category file.
Note == [number : Nat, checkpoint : Digest \cup {NoDigest}]

\* A file of a category: its entries are numbered from 1, and cite a checkpoint
\* in the journal only.
Numbered(c, entries) ==
    /\ entries \in Seq(Note) /\ Len(entries) <= MaxEntries
    /\ \A i \in 1..Len(entries) :
          /\ entries[i].number = i
          /\ (c = "journal") <=> (entries[i].checkpoint # NoDigest)

\* The personal memory, once it exists.
NotebookOK ==
    notebook # NoDigest =>
        /\ notebook \in [Category -> Seq(Note)]
        /\ \A c \in Category : Numbered(c, notebook[c])

\* The labels of a process that appends an entry.
AtWork == {"prepared", "locked", "checked", "closing"}

\* An entry to append: one more than the file it was prepared on.
Prepared ==
    {x \in [at : AtWork, category : Category, before : Seq(Note), after : Seq(Note)] :
        /\ \E n \in Note : x.after = Append(x.before, n)
        /\ Numbered(x.category, x.after)}

\* What a process holds was prepared; only an existing memory is appended to.
KeeperOK ==
    /\ keeper \in [Notekeeper -> {Resting, [at |-> "initial"]} \cup Prepared]
    /\ \A k \in Notekeeper : keeper[k] \in Prepared => notebook # NoDigest

\* Process k created the lock and has not removed it.
HasNotebookLock(k) == keeper[k].at \in {"locked", "checked", "closing"}

\* One process at a time has the lock.
NotebookLocked ==
    \A j, k \in Notekeeper :
        /\ HasNotebookLock(k) => notebookLock
        /\ HasNotebookLock(j) /\ HasNotebookLock(k) => j = k

\* Once compared under the lock, the file stays what the entry was prepared on:
\* this, and not the typing, is why the step that publishes loses nothing.
CheckedIsCurrent ==
    \A k \in Notekeeper : keeper[k].at = "checked" => BeforeUnchanged(k)

\* The inductive invariant.
PersonalInv == NotebookOK /\ KeeperOK /\ NotebookLocked /\ CheckedIsCurrent

\* nextEntryId of a numbered file is one more than its length.
LEMMA NextEntryId ==
  ASSUME NEW c, NEW entries, Numbered(c, entries)
  PROVE  nextEntryId(entries) = Len(entries) + 1
  <1> DEFINE Numbers == {entries[i].number : i \in DOMAIN entries}
             Top(n) == n \in Numbers /\ \A i \in DOMAIN entries : entries[i].number <= n
  <1>1. /\ entries \in Seq(Note) /\ DOMAIN entries = 1..Len(entries) /\ Len(entries) \in Nat
        /\ \A i \in 1..Len(entries) : entries[i].number = i
    BY DEF Numbered
  <1>2. CASE entries = <<>>
    BY <1>2 DEF nextEntryId
  <1>3. CASE entries # <<>>
    <2>1. Len(entries) \in 1..Len(entries)
      BY <1>1, <1>3
    <2>2. Top(Len(entries))
      BY <1>1, <2>1
    <2>3. \A n : Top(n) => n = Len(entries)
      BY <1>1, <2>1
    <2>4. (CHOOSE n \in Numbers : \A i \in DOMAIN entries : entries[i].number <= n) = Len(entries)
      BY <2>2, <2>3
    <2>5. nextEntryId(entries) = 1 + Len(entries)
      BY <1>3, <2>4, Zenon DEF nextEntryId
    <2> QED
      BY <1>1, <2>5
  <1> QED
    BY <1>2, <1>3

\* A step of an append moves its label only.
LEMMA Relabelled ==
  ASSUME NEW x \in Prepared, NEW label \in AtWork
  PROVE  /\ [x EXCEPT !.at = label] \in Prepared
         /\ [x EXCEPT !.at = label].at = label
         /\ [x EXCEPT !.at = label].category = x.category
         /\ [x EXCEPT !.at = label].before = x.before
  BY DEF Prepared

\* A process at a label of an append holds a prepared entry.
LEMMA KeeperTyping ==
  ASSUME KeeperOK, NEW k \in Notekeeper, keeper[k].at \in AtWork
  PROVE  keeper[k] \in Prepared /\ notebook # NoDigest
  <1>1. keeper[k] \in {Resting, [at |-> "initial"]} \cup Prepared
    BY DEF KeeperOK
  <1> QED
    BY <1>1 DEF Resting, AtWork, KeeperOK

\* Process k is now doing y, and every other one what it did.
Becomes(k, y) == keeper' = [keeper EXCEPT ![k] = y]

\* What such a change keeps.
LEMMA KeeperChange ==
  ASSUME KeeperOK, NEW k \in Notekeeper, NEW y, Becomes(k, y),
         y \in {Resting, [at |-> "initial"]} \/ (y \in Prepared /\ notebook' # NoDigest),
         notebook # NoDigest => notebook' # NoDigest
  PROVE  /\ KeeperOK'
         /\ keeper'[k] = y
         /\ \A j \in Notekeeper : j # k => keeper'[j] = keeper[j]
  <1>1. \A x \in {Resting, [at |-> "initial"]} : x \notin Prepared
    BY DEF Prepared, Resting, AtWork
  <1> QED
    BY <1>1 DEF KeeperOK, Becomes

\* PersonalInv holds at first.
LEMMA PersonalInitial == PersonalInit => PersonalInv
  BY DEF PersonalInit, PersonalInv, NotebookOK, KeeperOK, NotebookLocked, CheckedIsCurrent,
         HasNotebookLock, Resting, Prepared, AtWork

\* Every step keeps PersonalInv.
LEMMA PersonalStep ==
  ASSUME PersonalInv, [PersonalNext]_personalVars PROVE PersonalInv'
  <1> USE DEF HasNotebookLock, Resting, AtStep, AtWork
  <1>0. NotebookOK /\ KeeperOK /\ NotebookLocked /\ CheckedIsCurrent
    BY DEF PersonalInv
  \* A step that leaves the notebook alone and moves one process to a label with
  \* no lock, giving the lock back if it had it.
  <1>1. ASSUME NEW k \in Notekeeper, NEW y, keeper' = [keeper EXCEPT ![k] = y],
               \/ y \in {Resting, [at |-> "initial"]}
               \/ y \in Prepared /\ notebook # NoDigest /\ y.at = "prepared",
               notebook' = notebook,
               notebookLock' = notebookLock \/ HasNotebookLock(k)
        PROVE  PersonalInv'
    <2>1. KeeperOK' /\ keeper'[k] = y /\ \A j \in Notekeeper : j # k => keeper'[j] = keeper[j]
      <3>1. Becomes(k, y)
        BY <1>1 DEF Becomes
      <3>2. y \in {Resting, [at |-> "initial"]} \/ (y \in Prepared /\ notebook' # NoDigest)
        BY <1>1
      <3>3. notebook # NoDigest => notebook' # NoDigest
        BY <1>1
      <3> QED
        BY <1>0, <3>1, <3>2, <3>3, KeeperChange
    <2>2. NotebookLocked'
      BY <1>0, <1>1, <2>1 DEF NotebookLocked
    <2>3. CheckedIsCurrent'
      BY <1>0, <1>1, <2>1 DEF CheckedIsCurrent, BeforeUnchanged
    <2> QED
      BY <1>0, <1>1, <2>1, <2>2, <2>3 DEF PersonalInv, NotebookOK
  \* A step of the process that has the lock, and keeps it.
  <1>2. ASSUME NEW k \in Notekeeper, NEW label \in {"checked", "closing"}, HasNotebookLock(k),
               keeper' = [keeper EXCEPT ![k].at = label],
               NotebookOK', notebook # NoDigest => notebook' # NoDigest, notebookLock' = notebookLock,
               label = "checked" => notebook' = notebook /\ BeforeUnchanged(k)
        PROVE  PersonalInv'
    <2>1. keeper[k] \in Prepared /\ notebook # NoDigest
      BY <1>0, <1>2, KeeperTyping
    <2> DEFINE y == [keeper[k] EXCEPT !.at = label]
    <2>2. y \in Prepared /\ y.at = label /\ y.category = keeper[k].category /\ y.before = keeper[k].before
      <3>1. label \in AtWork
        OBVIOUS
      <3> QED
        BY <2>1, <3>1, Relabelled
    <2>3. Becomes(k, y)
      BY <1>2 DEF Becomes
    <2> HIDE DEF y
    <2>4. KeeperOK' /\ keeper'[k] = y /\ \A j \in Notekeeper : j # k => keeper'[j] = keeper[j]
      BY <1>0, <1>2, <2>1, <2>2, <2>3, KeeperChange
    <2>5. \A j \in Notekeeper : j # k => ~HasNotebookLock(j)
      BY <1>0, <1>2 DEF NotebookLocked
    <2>6. NotebookLocked'
      BY <1>0, <1>2, <2>4, <2>5 DEF NotebookLocked
    <2>7. CheckedIsCurrent'
      BY <1>2, <2>2, <2>4, <2>5 DEF CheckedIsCurrent, BeforeUnchanged
    <2> QED
      BY <1>2, <2>4, <2>6, <2>7 DEF PersonalInv
  <1>3. ASSUME NEW k \in Notekeeper, PrepareNotebook(k) \/ CancelNotebook(k) PROVE PersonalInv'
    BY <1>3, <1>1 DEF PrepareNotebook, CancelNotebook
  <1>4. ASSUME NEW k \in Notekeeper, CreateNotebook(k) PROVE PersonalInv'
    <2>1. \A c \in Category : Numbered(c, <<>>)
      BY PersonalAssumption DEF Numbered
    <2>2. NewNotebook \in [Category -> Seq(Note)]
      BY DEF NewNotebook
    <2>3. NewNotebook # NoDigest
      BY <2>2, PersonalAssumption DEF Note
    <2>4. NotebookOK'
      BY <1>4, <2>1, <2>2 DEF CreateNotebook, NotebookOK, NewNotebook
    <2>5. \A j \in Notekeeper : keeper[j].at \notin AtWork
      BY <1>4, <1>0, KeeperTyping DEF CreateNotebook
    <2>6. /\ KeeperOK' /\ keeper'[k] = Resting
          /\ \A j \in Notekeeper : j # k => keeper'[j] = keeper[j]
      <3>1. Becomes(k, Resting)
        BY <1>4 DEF Becomes, CreateNotebook
      <3> QED
        BY <1>0, <1>4, <2>3, <3>1, KeeperChange DEF CreateNotebook
    <2>7. NotebookLocked' /\ CheckedIsCurrent'
      BY <2>5, <2>6 DEF NotebookLocked, CheckedIsCurrent
    <2> QED
      BY <2>4, <2>6, <2>7 DEF PersonalInv
  <1>5. ASSUME NEW k \in Notekeeper, PrepareEntry(k) PROVE PersonalInv'
    <2> PICK c \in Category, d \in Digest \cup {NoDigest} :
          /\ (c = "journal") <=> (d # NoDigest)
          /\ nextEntryId(notebook[c]) <= MaxEntries
          /\ keeper' = [keeper EXCEPT ![k] =
               [at |-> "prepared", category |-> c, before |-> notebook[c],
                after |-> Append(notebook[c],
                            [number |-> nextEntryId(notebook[c]), checkpoint |-> d])]]
      BY <1>5 DEF PrepareEntry
    <2> DEFINE n == [number |-> nextEntryId(notebook[c]), checkpoint |-> d]
               after == Append(notebook[c], n)
               y == [at |-> "prepared", category |-> c, before |-> notebook[c], after |-> after]
    <2>1. Numbered(c, notebook[c]) /\ notebook # NoDigest /\ notebook[c] \in Seq(Note)
      BY <1>0, <1>5 DEF PrepareEntry, NotebookOK
    <2>2. nextEntryId(notebook[c]) = Len(notebook[c]) + 1
      BY <2>1, NextEntryId
    <2>3. n \in Note
      BY <2>1, <2>2 DEF Note
    <2>4. Numbered(c, after)
      <3>1. after \in Seq(Note) /\ Len(after) = Len(notebook[c]) + 1
        BY <2>1, <2>3
      <3>2. \A i \in 1..Len(after) : after[i] = IF i = Len(notebook[c]) + 1 THEN n ELSE notebook[c][i]
        BY <2>1, <2>3
      <3> QED
        BY <2>1, <2>2, <3>1, <3>2 DEF Numbered
    <2>5. keeper' = [keeper EXCEPT ![k] = y] /\ y.at = "prepared"
      OBVIOUS
    <2>6. after \in Seq(Note) /\ after = Append(notebook[c], n)
      BY <2>4 DEF Numbered
    <2> HIDE DEF n, after
    <2>7. y \in Prepared
      BY <2>1, <2>3, <2>4, <2>6 DEF Prepared
    <2> HIDE DEF y
    <2> QED
      BY <1>1, <1>5, <2>1, <2>5, <2>7 DEF PrepareEntry
  <1>6. ASSUME NEW k \in Notekeeper, LockNotebook(k) PROVE PersonalInv'
    <2>1. CASE notebookLock
      BY <1>1, <1>6, <2>1 DEF LockNotebook
    <2>2. CASE ~notebookLock
      <3>1. keeper[k] \in Prepared /\ notebook # NoDigest
        BY <1>0, <1>6, KeeperTyping DEF LockNotebook
      <3> DEFINE y == [keeper[k] EXCEPT !.at = "locked"]
      <3>2. y \in Prepared /\ y.at = "locked"
        BY <3>1, Relabelled
      <3>3. Becomes(k, y) /\ notebookLock' /\ notebook' = notebook
        BY <1>6, <2>2 DEF LockNotebook, Becomes
      <3> HIDE DEF y
      <3>4. KeeperOK' /\ keeper'[k] = y /\ \A j \in Notekeeper : j # k => keeper'[j] = keeper[j]
        BY <1>0, <3>1, <3>2, <3>3, KeeperChange
      <3>5. \A j \in Notekeeper : ~HasNotebookLock(j)
        BY <1>0, <2>2 DEF NotebookLocked
      <3>6. NotebookLocked' /\ CheckedIsCurrent'
        BY <3>2, <3>3, <3>4, <3>5 DEF NotebookLocked, CheckedIsCurrent
      <3> QED
        BY <1>0, <3>3, <3>4, <3>6 DEF PersonalInv, NotebookOK
    <2> QED
      BY <2>1, <2>2
  <1>7. ASSUME NEW k \in Notekeeper, CompareNotebook(k) PROVE PersonalInv'
    BY <1>0, <1>2, <1>7 DEF CompareNotebook, NotebookOK
  <1>8. ASSUME NEW k \in Notekeeper, AppendEntry(k) PROVE PersonalInv'
    <2>1. keeper[k] \in Prepared /\ notebook # NoDigest
      BY <1>0, <1>8, KeeperTyping DEF AppendEntry
    <2>2. /\ keeper[k].category \in Category /\ keeper[k].after \in Seq(Note)
          /\ Numbered(keeper[k].category, keeper[k].after)
      BY <2>1 DEF Prepared
    <2>3. notebook' \in [Category -> Seq(Note)]
      BY <1>0, <1>8, <2>1, <2>2 DEF AppendEntry, NotebookOK
    <2>4. notebook' # NoDigest
      BY <2>3, PersonalAssumption DEF Note
    <2>5. NotebookOK'
      BY <1>0, <1>8, <2>1, <2>2, <2>3 DEF AppendEntry, NotebookOK
    <2> QED
      BY <1>2, <1>8, <2>4, <2>5 DEF AppendEntry
  <1>9. ASSUME NEW k \in Notekeeper, AbandonEntry(k) PROVE PersonalInv'
    <2>1. CASE keeper[k].at = "prepared"
      BY <1>1, <1>9, <2>1 DEF AbandonEntry
    <2>2. CASE keeper[k].at # "prepared"
      BY <1>0, <1>2, <1>9, <2>2 DEF AbandonEntry, NotebookOK
    <2> QED
      BY <2>1, <2>2
  <1>10. ASSUME NEW k \in Notekeeper, UnlockNotebook(k) \/ CrashKeeper(k) PROVE PersonalInv'
    <2>1. /\ keeper' = [keeper EXCEPT ![k] = Resting] /\ notebook' = notebook
          /\ notebookLock' = notebookLock \/ HasNotebookLock(k)
      BY <1>10 DEF UnlockNotebook, CrashKeeper
    <2> QED
      BY <1>1, <2>1
  <1>11. CASE UNCHANGED personalVars
    BY <1>0, <1>11 DEF personalVars, PersonalInv, NotebookOK, KeeperOK, NotebookLocked,
                       CheckedIsCurrent, BeforeUnchanged
  <1> QED
    BY <1>3, <1>4, <1>5, <1>6, <1>7, <1>8, <1>9, <1>10, <1>11 DEF PersonalNext

\* Appends of any number of processes, with crashes between any two steps, lose no
\* entry and number them without a gap, in every category.
THEOREM EntriesKept == PersonalSpec => EntriesKeptAndNumbered
  <1> DEFINE Kept ==
        notebook # NoDigest =>
          /\ notebook' # NoDigest
          /\ \A c \in Category :
               /\ Len(notebook[c]) <= Len(notebook'[c])
               /\ SubSeq(notebook'[c], 1, Len(notebook[c])) = notebook[c]
               /\ \A i \in DOMAIN notebook'[c] :
                    /\ notebook'[c][i].number = i
                    /\ (c = "journal") <=> (notebook'[c][i].checkpoint # NoDigest)
  <1>1. ASSUME PersonalInv, PersonalInv', [PersonalNext]_personalVars PROVE Kept
    <2> SUFFICES ASSUME notebook # NoDigest PROVE Kept
      OBVIOUS
    <2>1. \A c \in Category : notebook[c] \in Seq(Note)
      BY <1>1 DEF PersonalInv, NotebookOK
    <2>2. CASE notebook' = notebook
      BY <1>1, <2>1, <2>2 DEF PersonalInv, NotebookOK, Numbered
    <2>3. ASSUME NEW k \in Notekeeper, AppendEntry(k) PROVE Kept
      <3>0. keeper[k] \in Prepared
        BY <1>1, <2>3, KeeperTyping DEF PersonalInv, AppendEntry, AtWork
      <3>1. keeper[k].category \in Category /\ notebook[keeper[k].category] = keeper[k].before
        BY <1>1, <2>3, <3>0 DEF AppendEntry, PersonalInv, CheckedIsCurrent, BeforeUnchanged, Prepared
      <3> PICK n \in Note : keeper[k].after = Append(keeper[k].before, n)
        BY <3>0 DEF Prepared
      <3>2. notebook' = [notebook EXCEPT ![keeper[k].category] = keeper[k].after]
        BY <2>3 DEF AppendEntry
      <3>3. notebook' # NoDigest
        <4>1. notebook' \in [Category -> Seq(Note)]
          BY <1>1, <3>0, <3>2 DEF PersonalInv, NotebookOK, Prepared
        <4> QED
          BY <4>1, PersonalAssumption DEF Note
      <3>4. \A c \in Category : notebook'[c] \in Seq(Note) /\ Numbered(c, notebook'[c])
        BY <1>1, <3>3 DEF PersonalInv, NotebookOK
      <3>5. ASSUME NEW c \in Category
            PROVE  /\ Len(notebook[c]) <= Len(notebook'[c])
                   /\ SubSeq(notebook'[c], 1, Len(notebook[c])) = notebook[c]
        <4>1. notebook'[c] = IF c = keeper[k].category THEN Append(notebook[c], n) ELSE notebook[c]
          BY <1>1, <3>1, <3>2 DEF PersonalInv, NotebookOK
        <4> QED
          BY <2>1, <4>1
      <3> QED
        BY <3>3, <3>4, <3>5 DEF Numbered
    <2>4. ASSUME NEW k \in Notekeeper, PrepareNotebook(k) \/ CancelNotebook(k) \/ PrepareEntry(k)
                   \/ LockNotebook(k) \/ CompareNotebook(k) \/ AbandonEntry(k) \/ UnlockNotebook(k)
                   \/ CrashKeeper(k) \/ CreateNotebook(k)
          PROVE  notebook' = notebook
      BY <2>4 DEF PrepareNotebook, CancelNotebook, PrepareEntry, LockNotebook, CompareNotebook,
                  AbandonEntry, UnlockNotebook, CrashKeeper, CreateNotebook
    <2> QED
      BY <1>1, <2>2, <2>3, <2>4 DEF PersonalNext, personalVars
  <1>2. PersonalInv /\ PersonalInv' /\ [PersonalNext]_personalVars => [Kept]_personalVars
    BY <1>1
  <1> QED
    BY <1>2, PersonalInitial, PersonalStep, PTL DEF PersonalSpec, EntriesKeptAndNumbered

\* A file has at most MaxEntries entries, however many processes prepared an entry
\* for the last place: each wrote what it had counted from the file it compared.
\* The lock and what creations leave behind have their types.
THEOREM PersonalTyped == PersonalSpec => []PersonalTypeOK
  <1> DEFINE Files == notebookLock \in BOOLEAN /\ staged \subseteq Notekeeper
  <1>1. PersonalInit => Files
    BY DEF PersonalInit
  <1>2. Files /\ [PersonalNext]_personalVars => Files'
    BY DEF PersonalNext, PrepareNotebook, CreateNotebook, CancelNotebook, PrepareEntry, LockNotebook,
           CompareNotebook, AppendEntry, AbandonEntry, UnlockNotebook, CrashKeeper, personalVars
  <1>3. PersonalInv /\ Files => PersonalTypeOK
    BY DEF PersonalInv, NotebookOK, Numbered, PersonalTypeOK
  <1>4. PersonalInv /\ [PersonalNext]_personalVars => PersonalInv'
    BY PersonalStep
  <1> QED
    BY <1>1, <1>2, <1>3, <1>4, PersonalInitial, PTL DEF PersonalSpec

-----------------------------------------------------------------------------
(* The creation of workspaces and the closing sessions. *)

Journals == Seq(RecordedStates)

\* The labels at which a command has its lock file.
UnderLock == {"locked", "rechecked", "ready", "closing"}

\* A session before its questions are answered.
Prompting == [at : {"prompting"}, mode : {"lite", "memory"}, state : RecordedStates]

\* A session whose change the user has seen: it keeps every blocker that the
\* session was shown, and a Lite journal has room for it.
Previewed ==
    {x \in [at : {"previewed"}, mode : {"lite", "memory"}, state : RecordedStates,
            source : Journals, inspected : SUBSET Blocker] :
        /\ x.inspected \subseteq x.state.blockers
        /\ x.mode = "lite" => Len(x.source) < MaxLite}

\* A command that was confirmed: what it writes was computed from a journal that
\* allows it.
Jobs ==
    {x \in [at : {"built"} \cup UnderLock, command : Command, source : {NULL} \cup Journals,
            state : RecordedStates, inspected : SUBSET Blocker] :
        /\ x.inspected \subseteq x.state.blockers
        /\ x.command \in {"migrate", "checkpoint"} => x.source # NULL
        /\ x.command = "migrate" => LiteCurrent(x.source).status # "unknown"
        /\ x.command = "checkpoint" => Len(x.source) < MaxLite}

\* What a process may be doing.
Doings == {Idle} \cup Prompting \cup Previewed \cup Jobs

\* The journal of a migrated workspace starts with the one it binds, whose state
\* the memory format can express.
StartsWithBound(m) ==
    m.bound # NULL =>
        /\ Len(m.bound) <= Len(m.journal)
        /\ SubSeq(m.journal, 1, Len(m.bound)) = m.bound
        /\ LiteCurrent(m.bound).status # "unknown"

\* The two directories.
HomesOK ==
    /\ lite = NULL \/ (lite \in Journals /\ Len(lite) <= MaxLite)
    /\ memory = NULL \/ (memory \in Homes /\ StartsWithBound(memory))

\* A lock file belongs to one process at most, and lasts as long as it works.
HasHomeLock(x) == x.at \in UnderLock
HomeLocked ==
    /\ homeLocks \subseteq {LockOf(c) : c \in Command}
    /\ \A w \in Process : HasHomeLock(task[w]) => LockOf(Creates(w)) \in homeLocks
    /\ \A v, w \in Process :
          HasHomeLock(task[v]) /\ HasHomeLock(task[w]) /\ LockOf(Creates(v)) = LockOf(Creates(w))
            => v = w

\* What a command looks for in the two directories, as LooksClear has it.
ClearFor(x) ==
    CASE x.command \in {"initialize", "bootstrap"} -> memory = NULL /\ lite = NULL
      [] x.command = "lite_initialize" -> lite = NULL
      [] OTHER -> memory = NULL /\ lite = x.source

\* What a command saw still stands when it renames: always for a checkpoint, which
\* has the lock of every writer of the Lite journal, and otherwise unless a rename
\* slipped in.
Stands(x) ==
    /\ x.at = "ready" /\ x.command = "checkpoint" => lite = x.source
    /\ ~slipped /\ x.at = "ready" => ClearFor(x)
    /\ ~slipped /\ x.at = "rechecked" /\ x.command = "checkpoint" => memory = NULL

\* The inductive invariant.
HomeInv ==
    /\ HomesOK
    /\ homeCrashes \in 0 .. MaxCrashes
    /\ task \in [Process -> Doings]
    /\ HomeLocked
    /\ \A w \in Process : Stands(task[w])
    /\ UnreadableOnlyThroughKnownGaps

\* Process w is now doing y, and every other one what it did.
Turns(w, y) == task' = [task EXCEPT ![w] = y]

LEMMA Turning ==
  ASSUME task \in [Process -> Doings], NEW w \in Process, NEW y \in Doings, Turns(w, y)
  PROVE  /\ task' \in [Process -> Doings]
         /\ task'[w] = y
         /\ \A v \in Process : v # w => task'[v] = task[v]
  BY DEF Turns

\* A process at a label of a command holds a job.
LEMMA JobTyping ==
  ASSUME NEW x \in Doings, x.at \in {"built"} \cup UnderLock
  PROVE  x \in Jobs
  BY DEF Doings, Idle, Prompting, Previewed, UnderLock

\* A process at a label of a session holds what the session has.
LEMMA SessionTyping ==
  ASSUME NEW x \in Doings
  PROVE  /\ x.at = "prompting" => x \in Prompting
         /\ x.at = "previewed" => x \in Previewed
  BY DEF Doings, Idle, Prompting, Previewed, Jobs, UnderLock

\* A step of a command moves its label only.
LEMMA JobMoves ==
  ASSUME NEW x \in Jobs, NEW label \in {"built"} \cup UnderLock
  PROVE  /\ [x EXCEPT !.at = label] \in Jobs
         /\ [x EXCEPT !.at = label].at = label
         /\ [x EXCEPT !.at = label].command = x.command
         /\ [x EXCEPT !.at = label].source = x.source
         /\ [x EXCEPT !.at = label].state = x.state
         /\ [x EXCEPT !.at = label].inspected = x.inspected
  BY DEF Jobs

\* Taking a lock, keeping it and giving it back keep it one process's.
LEMMA LocksKept ==
  ASSUME HomeLocked, task \in [Process -> Doings], NEW w \in Process, NEW y \in Doings, Turns(w, y),
         \/ ~HasHomeLock(y) /\ homeLocks' = homeLocks
         \/ /\ ~HasHomeLock(y) /\ HasHomeLock(task[w])
            /\ homeLocks' = homeLocks \ {LockOf(Creates(w))}
         \/ /\ HasHomeLock(y) /\ HasHomeLock(task[w]) /\ y.command = task[w].command
            /\ homeLocks' = homeLocks
         \/ /\ HasHomeLock(y) /\ y.command \in Command /\ LockOf(y.command) \notin homeLocks
            /\ homeLocks' = homeLocks \cup {LockOf(y.command)}
  PROVE  HomeLocked'
  <1>1. task'[w] = y /\ \A v \in Process : v # w => task'[v] = task[v]
    BY DEF Turns
  <1>2. homeLocks' \subseteq {LockOf(c) : c \in Command}
    BY DEF HomeLocked
  <1>3. ASSUME NEW v \in Process, HasHomeLock(task'[v]) PROVE LockOf(task'[v].command) \in homeLocks'
    BY <1>1, <1>3 DEF HomeLocked, Creates
  <1>4. ASSUME NEW u \in Process, NEW v \in Process, HasHomeLock(task'[u]), HasHomeLock(task'[v]),
               LockOf(task'[u].command) = LockOf(task'[v].command)
        PROVE  u = v
    BY <1>1, <1>4 DEF HomeLocked, Creates
  <1> QED
    BY <1>2, <1>3, <1>4 DEF HomeLocked, Creates, HasHomeLock

\* A step that publishes nothing: the directories stay, or the memory workspace
\* grows, and what the process now does stands.
LEMMA QuietStep ==
  ASSUME HomeInv, NEW w \in Process, NEW y \in Doings, Turns(w, y), HomeLocked',
         homeCrashes' \in 0 .. MaxCrashes,
         lite' = lite, slipped' = slipped, overlooked' = overlooked,
         \/ memory' = memory
         \/ /\ memory # NULL /\ memory' # NULL /\ memory' \in Homes
            /\ StartsWithBound(memory') /\ memory'.bound = memory.bound,
         Stands(y)
  PROVE  HomeInv'
  <1>1. /\ task' \in [Process -> Doings] /\ task'[w] = y
        /\ \A v \in Process : v # w => task'[v] = task[v]
    BY Turning DEF HomeInv
  <1>2. HomesOK'
    BY DEF HomeInv, HomesOK, StartsWithBound
  <1>3. lite' = lite /\ slipped' = slipped /\ (memory' = NULL <=> memory = NULL)
    OBVIOUS
  <1>4. ASSUME NEW v \in Process PROVE Stands(task[v])'
    <2>1. CASE v = w
      BY <1>1, <1>3, <2>1 DEF Stands, ClearFor
    <2>2. CASE v # w
      <3>1. task'[v] = task[v] /\ Stands(task[v])
        BY <1>1, <2>2 DEF HomeInv
      <3> QED
        BY <1>3, <3>1 DEF Stands, ClearFor
    <2> QED
      BY <2>1, <2>2
  <1>5. UnreadableOnlyThroughKnownGaps'
    BY DEF HomeInv, UnreadableOnlyThroughKnownGaps, Accepts
  <1> QED
    BY <1>1, <1>2, <1>4, <1>5 DEF HomeInv

\* HomeInv holds at first.
LEMMA HomeInitial == CreationInit => HomeInv
  <1> SUFFICES ASSUME CreationInit PROVE HomeInv
    OBVIOUS
  <1>1. HomesOK /\ homeCrashes \in 0 .. MaxCrashes /\ UnreadableOnlyThroughKnownGaps
    BY LocalProcessesAssumption DEF CreationInit, HomesOK, UnreadableOnlyThroughKnownGaps
  <1>2. task \in [Process -> Doings] /\ \A w \in Process : task[w] = Idle
    BY DEF CreationInit, Doings
  <1>3. HomeLocked /\ \A w \in Process : Stands(task[w])
    BY <1>2 DEF CreationInit, HomeLocked, HasHomeLock, UnderLock, Stands, Idle
  <1> QED
    BY <1>1, <1>2, <1>3 DEF HomeInv

\* The state a journal ends in.
LEMMA CurrentTyping ==
  ASSUME NEW journal \in Journals
  PROVE  LiteCurrent(journal) \in RecordedStates
  <1>1. BootstrapState \in RecordedStates
    BY DEF BootstrapState, RecordedStates
  <1>2. journal # <<>> => journal[Len(journal)] \in RecordedStates
    BY DEF Journals
  <1> QED
    BY <1>1, <1>2 DEF LiteCurrent

\* A command starts from a journal that it can build its change from.
LEMMA Started ==
  ASSUME HomesOK, NEW c \in Command, Builds(c), NEW s \in RecordedStates
  PROVE  [at |-> "built", command |-> c, source |-> lite, state |-> s, inspected |-> {}] \in Jobs
  <1>1. c = "checkpoint" => lite # NULL /\ Len(lite) < MaxLite
    BY DEF Builds, LiteMode
  <1>2. c = "migrate" => lite # NULL /\ LiteCurrent(lite).status # "unknown"
    BY DEF Builds, LiteMode
  <1>3. lite \in {NULL} \cup Journals
    BY DEF HomesOK
  <1> QED
    BY <1>1, <1>2, <1>3 DEF Jobs

\* A process turns to y, without a lock, and publishes nothing.
LEMMA TaskStep ==
  ASSUME HomeInv, NEW w \in Process, NEW y \in Doings, Turns(w, y), ~HasHomeLock(y),
         UNCHANGED <<lite, memory, slipped, overlooked>>, homeCrashes' \in 0 .. MaxCrashes,
         \/ homeLocks' = homeLocks
         \/ HasHomeLock(task[w]) /\ homeLocks' = homeLocks \ {LockOf(Creates(w))}
  PROVE  HomeInv'
  <1>1. HomeLocked'
    BY LocksKept DEF HomeInv
  <1>2. Stands(y)
    BY DEF Stands, HasHomeLock, UnderLock
  <1> QED
    BY <1>1, <1>2, QuietStep

\* A command that has its lock moves on, and what it saw stands.
LEMMA LockedStep ==
  ASSUME HomeInv, NEW w \in Process, NEW label \in UnderLock, HasHomeLock(task[w]),
         Advance(w, label), UNCHANGED <<lite, memory, homeLocks, slipped, overlooked, homeCrashes>>,
         Stands([task[w] EXCEPT !.at = label])
  PROVE  HomeInv'
  <1>1. task[w] \in Jobs
    BY JobTyping DEF HomeInv, HasHomeLock
  <1> PICK y : y = [task[w] EXCEPT !.at = label]
    OBVIOUS
  <1>2. y \in Jobs /\ y.at = label /\ y.command = task[w].command
    <2>1. label \in {"built"} \cup UnderLock
      OBVIOUS
    <2> QED
      BY <1>1, <2>1, JobMoves
  <1>3. Turns(w, y) /\ y \in Doings
    BY <1>2 DEF Turns, Advance, Doings
  <1>4. HomeLocked'
    BY <1>2, <1>3, LocksKept DEF HomeInv, HasHomeLock
  <1>5. homeCrashes' \in 0 .. MaxCrashes
    BY DEF HomeInv
  <1> QED
    BY <1>3, <1>4, <1>5, QuietStep

\* The steps of the commands that publish nothing.
LEMMA CommandStep ==
  ASSUME HomeInv, NEW w \in Process,
         Start(w) \/ LockHome(w) \/ FirstLook(w) \/ FinalLook(w) \/ HomeFailure(w)
           \/ UnlockHome(w) \/ CrashHome(w)
  PROVE  HomeInv'
  <1>0. task[w] \in Doings /\ homeCrashes \in 0 .. MaxCrashes /\ Stands(task[w])
    BY DEF HomeInv
  <1>1. CASE Start(w)
    <2> PICK c \in Commands, s \in ResultingState :
          Builds(c) /\ Starting(w, c, IF c = "checkpoint" THEN s ELSE BootstrapState)
      BY <1>1 DEF Start
    <2> DEFINE state == IF c = "checkpoint" THEN s ELSE BootstrapState
    <2>1. c \in Command /\ state \in RecordedStates
      BY CreationAssumption, CloseAssumption DEF BootstrapState, RecordedStates
    <2> PICK y : y = [at |-> "built", command |-> c, source |-> lite, state |-> state,
                      inspected |-> {}]
      OBVIOUS
    <2>2. y \in Jobs
      BY <2>1, Started DEF HomeInv
    <2>3. y \in Doings /\ Turns(w, y) /\ ~HasHomeLock(y)
      BY <2>2 DEF Starting, Turns, HasHomeLock, UnderLock, Doings
    <2> QED
      BY <1>0, <1>1, <2>3, TaskStep DEF Start, home, homeHistory
  <1>2. CASE LockHome(w)
    <2>1. task[w] \in Jobs
      BY <1>0, <1>2, JobTyping DEF LockHome
    <2>2. CASE LockOf(Creates(w)) \in homeLocks
      <3>1. Turns(w, Idle) /\ ~HasHomeLock(Idle) /\ Idle \in Doings
        BY <1>2, <2>2 DEF LockHome, Finish, Turns, HasHomeLock, UnderLock, Idle, Doings
      <3> QED
        BY <1>0, <1>2, <2>2, <3>1, TaskStep DEF LockHome, home, homeHistory
    <2>3. CASE LockOf(Creates(w)) \notin homeLocks
      <3> PICK y : y = [task[w] EXCEPT !.at = "locked"]
        OBVIOUS
      <3>1. y \in Jobs /\ y.at = "locked" /\ y.command = task[w].command
        BY <2>1, JobMoves DEF UnderLock
      <3>2. y \in Doings /\ Turns(w, y) /\ HasHomeLock(y) /\ y.command \in Command
        BY <1>2, <2>3, <3>1 DEF LockHome, Advance, Turns, HasHomeLock, UnderLock, Doings, Jobs
      <3>3. homeLocks' = homeLocks \cup {LockOf(y.command)} /\ LockOf(y.command) \notin homeLocks
        BY <1>2, <2>3, <3>1 DEF LockHome, Creates
      <3>4. HomeLocked'
        BY <3>2, <3>3, LocksKept DEF HomeInv
      <3>5. Stands(y)
        BY <3>1 DEF Stands
      <3> QED
        BY <1>0, <1>2, <3>2, <3>4, <3>5, QuietStep DEF LockHome, home, homeHistory
    <2> QED
      BY <2>2, <2>3
  <1>3. CASE FirstLook(w)
    <2>1. task[w] \in Jobs /\ HasHomeLock(task[w])
      BY <1>0, <1>3, JobTyping DEF FirstLook, HasHomeLock, UnderLock
    <2>2. CASE LooksClear(w)
      <3>1. Stands([task[w] EXCEPT !.at = "rechecked"])
        <4>1. task[w].command = "checkpoint" => memory = NULL
          BY <2>2 DEF LooksClear, Creates
        <4> QED
          BY <2>1, <4>1, JobMoves DEF Stands, UnderLock
      <3>2. "rechecked" \in UnderLock /\ Advance(w, "rechecked")
        BY <1>3, <2>2 DEF FirstLook, UnderLock
      <3> QED
        BY <1>3, <2>1, <3>1, <3>2, LockedStep DEF FirstLook, home, homeHistory
    <2>3. CASE ~LooksClear(w)
      <3>1. Stands([task[w] EXCEPT !.at = "closing"])
        BY <2>1, JobMoves DEF Stands, UnderLock
      <3>2. "closing" \in UnderLock /\ Advance(w, "closing")
        BY <1>3, <2>3 DEF FirstLook, UnderLock
      <3> QED
        BY <1>3, <2>1, <3>1, <3>2, LockedStep DEF FirstLook, home, homeHistory
    <2> QED
      BY <2>2, <2>3
  <1>4. CASE FinalLook(w)
    <2>1. task[w] \in Jobs /\ HasHomeLock(task[w])
      BY <1>0, <1>4, JobTyping DEF FinalLook, HasHomeLock, UnderLock
    <2>2. CASE IF Creates(w) = "checkpoint" THEN lite = task[w].source ELSE LooksClear(w)
      <3> DEFINE y == [task[w] EXCEPT !.at = "ready"]
      <3>0. y.at = "ready" /\ y.command = task[w].command /\ y.source = task[w].source
        BY <2>1, JobMoves DEF UnderLock
      <3> HIDE DEF y
      <3>1. ASSUME Creates(w) = "checkpoint" PROVE Stands(y)
        <4>1. lite = y.source /\ y.command = "checkpoint" /\ (~slipped => memory = NULL)
          BY <1>0, <1>4, <2>2, <3>0, <3>1 DEF Stands, Creates, FinalLook
        <4>2. ~slipped => ClearFor(y)
          BY <4>1, SMT DEF ClearFor
        <4> QED
          BY <3>0, <4>1, <4>2 DEF Stands
      <3>2. ASSUME Creates(w) # "checkpoint" PROVE Stands(y)
        <4>1. ClearFor(y)
          BY <2>2, <3>0, <3>2, SMT DEF ClearFor, LooksClear, Creates
        <4> QED
          BY <3>0, <3>2, <4>1 DEF Stands, Creates
      <3>3. Stands(y)
        BY <3>1, <3>2
      <3>4. "ready" \in UnderLock /\ Advance(w, "ready") /\ Stands([task[w] EXCEPT !.at = "ready"])
        BY <1>4, <2>2, <3>3 DEF FinalLook, UnderLock, y
      <3> QED
        BY <1>4, <2>1, <3>4, LockedStep DEF FinalLook, home, homeHistory
    <2>3. CASE ~IF Creates(w) = "checkpoint" THEN lite = task[w].source ELSE LooksClear(w)
      <3>1. Stands([task[w] EXCEPT !.at = "closing"])
        BY <2>1, JobMoves DEF Stands, UnderLock
      <3>2. "closing" \in UnderLock /\ Advance(w, "closing")
        BY <1>4, <2>3 DEF FinalLook, UnderLock
      <3> QED
        BY <1>4, <2>1, <3>1, <3>2, LockedStep DEF FinalLook, home, homeHistory
    <2> QED
      BY <2>2, <2>3
  <1>5. CASE HomeFailure(w)
    <2>1. task[w] \in Jobs /\ HasHomeLock(task[w])
      BY <1>0, <1>5, JobTyping DEF HomeFailure, HasHomeLock, UnderLock
    <2>2. Stands([task[w] EXCEPT !.at = "closing"]) /\ "closing" \in UnderLock
      BY <2>1, JobMoves DEF Stands, UnderLock
    <2> QED
      BY <1>5, <2>1, <2>2, LockedStep DEF HomeFailure, home, homeHistory
  <1>6. CASE UnlockHome(w)
    <2>1. Turns(w, Idle) /\ ~HasHomeLock(Idle) /\ Idle \in Doings /\ HasHomeLock(task[w])
      BY <1>6 DEF UnlockHome, Finish, Turns, HasHomeLock, UnderLock, Idle, Doings
    <2> QED
      BY <1>0, <1>6, <2>1, TaskStep DEF UnlockHome, home, homeHistory
  <1>7. CASE CrashHome(w)
    <2>1. Turns(w, Idle) /\ ~HasHomeLock(Idle) /\ Idle \in Doings
      BY <1>7 DEF CrashHome, Finish, Turns, HasHomeLock, UnderLock, Idle, Doings
    <2>2. homeCrashes' \in 0 .. MaxCrashes
      BY <1>0, <1>7, LocalProcessesAssumption DEF CrashHome
    <2> QED
      BY <1>7, <2>1, <2>2, TaskStep DEF CrashHome, home, homeHistory
  <1> QED
    BY <1>1, <1>2, <1>3, <1>4, <1>5, <1>6, <1>7

\* A memory workspace takes another checkpoint, or selects a Work, and stays one.
LEMMA MemoryGrows ==
  ASSUME HomesOK, memory # NULL, NEW s \in RecordedStates,
         memory' = [memory EXCEPT !.journal = Append(@, s)]
  PROVE  /\ memory' # NULL /\ memory' \in Homes /\ StartsWithBound(memory')
         /\ memory'.bound = memory.bound
         /\ memory'.journal = Append(memory.journal, s)
         /\ Len(memory.journal) <= Len(memory'.journal)
         /\ SubSeq(memory'.journal, 1, Len(memory.journal)) = memory.journal
  <1>1. /\ memory \in Homes /\ memory.journal \in Journals
        /\ memory.bound \in {NULL} \cup Journals /\ StartsWithBound(memory)
    BY DEF HomesOK, Homes, Journals
  <1>2. /\ Append(memory.journal, s) \in Journals
        /\ Len(Append(memory.journal, s)) = Len(memory.journal) + 1
        /\ Len(memory.journal) \in Nat
        /\ SubSeq(Append(memory.journal, s), 1, Len(memory.journal)) = memory.journal
    BY <1>1 DEF Journals
  <1> HIDE DEF Journals
  <1>3. /\ memory' \in Homes /\ memory'.bound = memory.bound
        /\ memory'.journal = Append(memory.journal, s)
    <2>1. /\ Homes = [bound : {NULL} \cup Journals, journal : Journals, selected : BOOLEAN]
          /\ memory' = [memory EXCEPT !.journal = Append(memory.journal, s)]
      BY DEF Homes, Journals
    <2> QED
      BY <1>1, <1>2, <2>1
  <1>4. ASSUME memory.bound # NULL
        PROVE  /\ Len(memory.bound) <= Len(Append(memory.journal, s))
               /\ SubSeq(Append(memory.journal, s), 1, Len(memory.bound)) = memory.bound
    <2>1. /\ memory.bound \in Seq(RecordedStates) /\ memory.journal \in Seq(RecordedStates)
          /\ Len(memory.bound) <= Len(memory.journal)
          /\ SubSeq(memory.journal, 1, Len(memory.bound)) = memory.bound
      BY <1>1, <1>4 DEF StartsWithBound, Journals
    <2> QED
      BY <2>1
  <1>5. StartsWithBound(memory')
    BY <1>1, <1>3, <1>4 DEF StartsWithBound
  <1>6. memory' # NULL
    BY <1>3, CloseAssumption
  <1>7. /\ Len(memory.journal) <= Len(memory'.journal)
        /\ SubSeq(memory'.journal, 1, Len(memory.journal)) = memory.journal
    <2>1. Len(memory'.journal) = Len(memory.journal) + 1 /\ Len(memory.journal) \in Nat
      BY <1>2, <1>3, Zenon
    <2>2. SubSeq(memory'.journal, 1, Len(memory.journal)) = memory.journal
      BY <1>2, <1>3, Zenon
    <2> QED
      BY <2>1, <2>2
  <1> QED
    BY <1>3, <1>5, <1>6, <1>7

\* The steps of the other memory writers and of the closing sessions.
LEMMA SessionKeeps ==
  ASSUME HomeInv, NEW w \in Process, SessionStep(w)
  PROVE  HomeInv'
  <1>0. task[w] \in Doings /\ homeCrashes \in 0 .. MaxCrashes /\ Stands(task[w]) /\ HomesOK
        /\ task \in [Process -> Doings] /\ HomeLocked
    BY DEF HomeInv
  <1>1. ASSUME task' = task, UNCHANGED <<lite, homeLocks, homeCrashes, slipped, overlooked>>,
               memory # NULL, memory' # NULL, memory' \in Homes, StartsWithBound(memory'),
               memory'.bound = memory.bound
        PROVE  HomeInv'
    <2> PICK y : y = task[w]
      OBVIOUS
    <2>1. Turns(w, y)
      BY <1>0, <1>1 DEF Turns
    <2>2. HomeLocked'
      BY <1>0, <1>1 DEF HomeLocked, HasHomeLock, Creates
    <2>3. homeCrashes' \in 0 .. MaxCrashes /\ Stands(y) /\ y \in Doings
      BY <1>0, <1>1
    <2> QED
      BY <1>1, <2>1, <2>2, <2>3, QuietStep
  <1>2. CASE SelectWork(w)
    <2>1. memory \in Homes /\ StartsWithBound(memory) /\ memory # NULL
          /\ memory' = [memory EXCEPT !.selected = TRUE]
      BY <1>0, <1>2 DEF SelectWork, HomesOK
    <2>2. memory' \in Homes /\ memory'.bound = memory.bound /\ memory'.journal = memory.journal
      BY <2>1 DEF Homes
    <2>3. memory' # NULL /\ StartsWithBound(memory')
      BY <2>1, <2>2, CloseAssumption DEF StartsWithBound
    <2> QED
      BY <1>1, <1>2, <2>1, <2>2, <2>3 DEF SelectWork, homeHistory
  <1>3. CASE MemoryCheckpoint(w)
    <2> PICK s \in ResultingState : AppendMemory(s)
      BY <1>3 DEF MemoryCheckpoint
    <2>1. s \in RecordedStates /\ memory # NULL
      BY <1>3, CloseAssumption DEF MemoryCheckpoint
    <2>2. /\ memory' # NULL /\ memory' \in Homes /\ StartsWithBound(memory')
          /\ memory'.bound = memory.bound
      BY <1>0, <2>1, MemoryGrows DEF AppendMemory
    <2> QED
      BY <1>1, <1>3, <2>1, <2>2 DEF MemoryCheckpoint, homeHistory
  <1>4. CASE OpenSession(w)
    <2> PICK y : y = [at |-> "prompting", mode |-> IF memory = NULL THEN "lite" ELSE "memory",
                      state |-> Current]
      OBVIOUS
    <2>1. CurrentJournal \in Journals
      BY <1>0, <1>4 DEF OpenSession, Readable, Accepts, CurrentJournal, HomesOK, Homes, Journals
    <2>2. y \in Doings /\ ~HasHomeLock(y) /\ Turns(w, y)
      BY <1>4, <2>1, CurrentTyping
         DEF OpenSession, Turns, HasHomeLock, UnderLock, Doings, Prompting, Current
    <2> QED
      BY <1>0, <1>4, <2>2, TaskStep DEF OpenSession, home, homeHistory
  <1>5. CASE CancelSession(w)
    <2>1. Turns(w, Idle) /\ ~HasHomeLock(Idle) /\ Idle \in Doings
      BY <1>5 DEF CancelSession, Finish, Turns, HasHomeLock, UnderLock, Idle, Doings
    <2> QED
      BY <1>0, <1>5, <2>1, TaskStep DEF CancelSession, home, homeHistory
  <1>6. CASE PreviewSession(w)
    <2>1. task[w] \in Prompting
      BY <1>0, <1>6, SessionTyping DEF PreviewSession
    <2> PICK declared \in {{}} \cup {{b} : b \in Blocker \ task[w].state.blockers} :
          LET state == SessionState(task[w].state, task[w].mode, declared)
          IN  /\ Cardinality(state.blockers) <= MaxBlockers
              /\ task' = [task EXCEPT ![w] =
                    [at |-> "previewed", mode |-> task[w].mode, state |-> state,
                     source |-> CurrentJournal, inspected |-> task[w].state.blockers]]
      BY <1>6 DEF PreviewSession
    <2> PICK state : state = SessionState(task[w].state, task[w].mode, declared)
      OBVIOUS
    <2> PICK y : y = [at |-> "previewed", mode |-> task[w].mode, state |-> state,
                      source |-> CurrentJournal, inspected |-> task[w].state.blockers]
      OBVIOUS
    <2>2. CurrentJournal \in Journals
      BY <1>0, <1>6 DEF PreviewSession, Readable, Accepts, CurrentJournal, HomesOK, Homes, Journals
    <2>3. task[w].mode = "lite" => Len(CurrentJournal) < MaxLite
      BY <1>6 DEF PreviewSession, Builds, LiteMode, CurrentJournal
    <2>4. task[w].state.blockers \subseteq Blocker /\ task[w].mode \in {"lite", "memory"}
      BY <2>1 DEF Prompting, RecordedStates
    <2>5. state \in RecordedStates /\ task[w].state.blockers \subseteq state.blockers
      BY <2>4 DEF SessionState, RecordedStates
    <2>6. y \in Previewed
      BY <2>2, <2>3, <2>4, <2>5 DEF Previewed
    <2>7. y \in Doings /\ ~HasHomeLock(y) /\ Turns(w, y)
      BY <2>6 DEF Turns, HasHomeLock, UnderLock, Doings
    <2> QED
      BY <1>0, <1>6, <2>7, TaskStep DEF PreviewSession, home, homeHistory
  <1>7. CASE ApplyLiteSession(w)
    <2>1. task[w] \in Previewed
      BY <1>0, <1>7, SessionTyping DEF ApplyLiteSession, Confirmed
    <2> PICK y : y = [at |-> "built", command |-> "checkpoint", source |-> lite,
                      state |-> task[w].state, inspected |-> task[w].inspected]
      OBVIOUS
    <2>2. lite = task[w].source /\ lite # NULL /\ lite \in Journals /\ task[w].mode = "lite"
      BY <1>0, <1>7 DEF ApplyLiteSession, Confirmed, LiteMode, CurrentJournal, HomesOK
    <2>3. y \in Jobs
      BY <2>1, <2>2 DEF Previewed, Jobs, Command
    <2>4. y \in Doings /\ ~HasHomeLock(y) /\ Turns(w, y)
      BY <1>7, <2>3 DEF ApplyLiteSession, Turns, HasHomeLock, UnderLock, Doings
    <2> QED
      BY <1>0, <1>7, <2>4, TaskStep DEF ApplyLiteSession, home, homeHistory
  <1>8. CASE ApplyMemorySession(w)
    <2>1. task[w] \in Previewed
      BY <1>0, <1>8, SessionTyping DEF ApplyMemorySession, Confirmed
    <2> PICK s : s = task[w].state
      OBVIOUS
    <2>2. s \in RecordedStates /\ memory # NULL
      BY <1>8, <2>1 DEF ApplyMemorySession, Previewed
    <2>3. /\ memory' # NULL /\ memory' \in Homes /\ StartsWithBound(memory')
          /\ memory'.bound = memory.bound
      BY <1>0, <1>8, <2>2, MemoryGrows DEF ApplyMemorySession, AppendMemory
    <2>4. Turns(w, Idle) /\ ~HasHomeLock(Idle) /\ Idle \in Doings /\ Stands(Idle)
      BY <1>8 DEF ApplyMemorySession, Finish, Turns, HasHomeLock, UnderLock, Idle, Doings, Stands
    <2>5. HomeLocked'
      BY <1>0, <1>8, <2>4, LocksKept DEF ApplyMemorySession
    <2> QED
      BY <1>0, <1>8, <2>2, <2>3, <2>4, <2>5, QuietStep DEF ApplyMemorySession, homeHistory
  <1> QED
    BY <1>2, <1>3, <1>4, <1>5, <1>6, <1>7, <1>8 DEF SessionStep

\* A new memory workspace has its type.
LEMMA NewHomeTyping ==
  ASSUME NEW b \in {NULL} \cup Journals, NEW j \in Journals, NEW sel \in BOOLEAN
  PROVE  /\ NewHome(b, j, sel) \in Homes
         /\ NewHome(b, j, sel).bound = b /\ NewHome(b, j, sel).journal = j
  <1>1. Homes = [bound : {NULL} \cup Journals, journal : Journals, selected : BOOLEAN]
    BY DEF Homes, Journals
  <1> QED
    BY <1>1 DEF NewHome

\* What a rename changes: the Lite journal grows by an entry, or one of the two
\* directories appears.
Publication(x) ==
    \/ /\ x.command = "checkpoint" /\ lite = x.source /\ lite \in Journals
       /\ lite' = Append(lite, x.state) /\ memory' = memory /\ x.state \in RecordedStates
       /\ Len(lite) < MaxLite
    \/ /\ x.command = "lite_initialize" /\ lite = NULL
       /\ lite' = <<>> /\ memory' = memory
    \/ /\ x.command = "migrate" /\ memory = NULL
       /\ lite' = lite /\ memory' \in Homes /\ StartsWithBound(memory')
       /\ memory'.bound = x.source /\ x.source # NULL
    \/ /\ x.command \in {"initialize", "bootstrap"} /\ memory = NULL
       /\ lite' = lite /\ memory' \in Homes /\ memory'.bound = NULL

\* PublishHome is such a change.
LEMMA Publishes ==
  ASSUME HomeInv, NEW w \in Process, PublishHome(w)
  PROVE  Publication(task[w]) /\ task[w] \in Jobs
  <1>1. task[w] \in Jobs
    BY JobTyping DEF HomeInv, PublishHome, UnderLock
  <1>2. /\ task[w].command \in Command /\ task[w].state \in RecordedStates
        /\ task[w].source \in {NULL} \cup Journals
    BY <1>1 DEF Jobs
  <1>3. lite' = Published(w)[1] /\ memory' = Published(w)[2] /\ ~TargetTaken(w)
    BY DEF PublishHome
  <1>4. CASE task[w].command = "checkpoint"
    <2>1. lite = task[w].source
      BY <1>4 DEF HomeInv, Stands, PublishHome
    <2>2. Published(w) = <<Append(task[w].source, task[w].state), memory>>
      BY <1>4 DEF Published, Creates
    <2>3. task[w].source \in Journals /\ Len(task[w].source) < MaxLite
      BY <1>1, <1>4 DEF Jobs
    <2> QED
      BY <1>1, <1>2, <1>3, <1>4, <2>1, <2>2, <2>3 DEF Publication
  <1>5. CASE task[w].command = "lite_initialize"
    <2>1. Published(w) = <<(<<>>), memory>> /\ lite = NULL
      BY <1>3, <1>5 DEF Published, Creates, TargetTaken
    <2> QED
      BY <1>1, <1>3, <1>5, <2>1 DEF Publication
  <1>6. CASE task[w].command = "migrate"
    <2>1. Published(w) = <<lite, Migrated(task[w].source)>> /\ memory = NULL
      BY <1>3, <1>6 DEF Published, Creates, TargetTaken
    <2>2. task[w].source \in Journals /\ task[w].source # NULL
          /\ LiteCurrent(task[w].source).status # "unknown"
      BY <1>1, <1>6 DEF Jobs
    <2> PICK j \in Journals : j = task[w].source
      BY <2>2
    <2>3. /\ memory' = NewHome(j, j, LiteCurrent(j).status # "complete")
          /\ LiteCurrent(j).status # "unknown"
      BY <1>3, <2>1, <2>2 DEF Migrated
    <2> PICK sel \in BOOLEAN : sel = (LiteCurrent(j).status # "complete")
      BY Zenon
    <2>4. NewHome(j, j, sel) \in Homes /\ NewHome(j, j, sel).bound = j /\ NewHome(j, j, sel).journal = j
      BY NewHomeTyping
    <2>5. memory' \in Homes /\ memory'.bound = j /\ memory'.journal = j
      BY <2>3, <2>4, Zenon
    <2>6. Len(j) <= Len(j) /\ SubSeq(j, 1, Len(j)) = j
      BY DEF Journals
    <2>7. StartsWithBound(memory')
      BY <2>3, <2>5, <2>6, Zenon DEF StartsWithBound
    <2> QED
      BY <1>1, <1>3, <1>6, <2>1, <2>2, <2>5, <2>7 DEF Publication
  <1>7. CASE task[w].command \in {"initialize", "bootstrap"}
    <2>1. memory = NULL /\ lite' = lite
      BY <1>3, <1>7 DEF Published, Creates, TargetTaken
    <2>2. /\ BootstrapState \in RecordedStates
          /\ <<>> \in Journals /\ <<BootstrapState>> \in Journals
      BY DEF BootstrapState, RecordedStates, Journals
    <2>3. \/ memory' = NewHome(NULL, <<>>, FALSE)
          \/ memory' = NewHome(NULL, <<BootstrapState>>, TRUE)
      BY <1>3, <1>7 DEF Published, Creates
    <2>4. ASSUME NEW j \in Journals, NEW sel \in BOOLEAN, memory' = NewHome(NULL, j, sel)
          PROVE  memory' \in Homes /\ memory'.bound = NULL
      <3>1. NewHome(NULL, j, sel) \in Homes /\ NewHome(NULL, j, sel).bound = NULL
        BY NewHomeTyping
      <3> QED
        BY <2>4, <3>1
    <2>5. memory' \in Homes /\ memory'.bound = NULL
      BY <2>2, <2>3, <2>4
    <2> QED
      BY <1>1, <1>7, <2>1, <2>5 DEF Publication
  <1> QED
    BY <1>2, <1>4, <1>5, <1>6, <1>7 DEF Command

\* A rename keeps HomeInv.
LEMMA PublicationKeeps ==
  ASSUME HomeInv, NEW w \in Process, PublishHome(w)
  PROVE  HomeInv'
  <1>1. Publication(task[w]) /\ task[w] \in Jobs /\ task[w].at = "ready" /\ Stands(task[w])
    BY Publishes DEF HomeInv, PublishHome
  <1>2. HomesOK'
    <2>1. CASE task[w].command = "checkpoint" /\ lite \in Journals
                 /\ lite' = Append(lite, task[w].state) /\ memory' = memory
                 /\ task[w].state \in RecordedStates /\ Len(lite) < MaxLite
      <3>1. lite' \in Journals /\ Len(lite') <= MaxLite
        BY <2>1, CreationAssumption DEF Journals
      <3> QED
        BY <2>1, <3>1 DEF HomeInv, HomesOK, StartsWithBound
    <2>2. CASE lite' = <<>> /\ memory' = memory
      <3>1. lite' \in Journals /\ Len(lite') <= MaxLite
        BY <2>2, CreationAssumption DEF Journals
      <3> QED
        BY <2>2, <3>1 DEF HomeInv, HomesOK, StartsWithBound
    <2>3. CASE lite' = lite /\ memory' \in Homes /\ StartsWithBound(memory')
      BY <2>3 DEF HomeInv, HomesOK, StartsWithBound
    <2>4. CASE lite' = lite /\ memory' \in Homes /\ memory'.bound = NULL
      BY <2>4 DEF HomeInv, HomesOK, StartsWithBound
    <2> QED
      BY <1>1, <2>1, <2>2, <2>3, <2>4 DEF Publication
  <1> PICK y : y = [task[w] EXCEPT !.at = "closing"]
    OBVIOUS
  <1>3. y \in Jobs /\ y.at = "closing" /\ y.command = task[w].command
    BY <1>1, JobMoves DEF UnderLock
  <1>4. y \in Doings /\ Turns(w, y) /\ HasHomeLock(y) /\ HasHomeLock(task[w])
    BY <1>1, <1>3 DEF PublishHome, Advance, Turns, HasHomeLock, UnderLock, Doings
  <1>5. /\ task' \in [Process -> Doings] /\ task'[w] = y
        /\ \A v \in Process : v # w => task'[v] = task[v]
    BY <1>4, Turning DEF HomeInv
  <1>6. HomeLocked'
    BY <1>3, <1>4, LocksKept DEF HomeInv, PublishHome
  <1>7. ASSUME NEW v \in Process PROVE Stands(task[v])'
    <2>1. CASE v = w
      BY <1>3, <1>5, <2>1 DEF Stands
    <2>2. CASE v # w
      <3>1. task'[v] = task[v] /\ Stands(task[v])
        BY <1>5, <2>2 DEF HomeInv
      <3>2. ASSUME task[v].at = "ready" PROVE slipped'
        BY <2>2, <3>2 DEF PublishHome, LookedLast
      <3>3. ASSUME task[v].at = "rechecked", task[v].command = "checkpoint", ~slipped'
            PROVE  memory' = memory /\ ~slipped
        <4>1. task[w].command = "checkpoint" /\ ~slipped
          BY <2>2, <3>3 DEF PublishHome, LookedLast, Creates
        <4> QED
          BY <1>1, <4>1 DEF Publication
      <3>4. ASSUME task[v].at = "ready", task[v].command = "checkpoint" PROVE lite' = lite
        <4>1. lite = task[v].source /\ task[v] \in Jobs
          BY <3>1, <3>4, JobTyping DEF Stands, UnderLock, HomeInv
        <4>2. lite # NULL
          BY <3>4, <4>1 DEF Jobs
        <4>3. task[w].command # "checkpoint"
          BY <1>1, <2>2, <3>4 DEF HomeInv, HomeLocked, HasHomeLock, UnderLock, Creates
        <4> QED
          BY <1>1, <4>2, <4>3 DEF Publication
      <3> QED
        BY <3>1, <3>2, <3>3, <3>4 DEF Stands
    <2> QED
      BY <2>1, <2>2
  <1>8. UnreadableOnlyThroughKnownGaps'
    <2> SUFFICES ASSUME ~slipped', ~overlooked' PROVE Accepts(lite, memory)'
      BY DEF UnreadableOnlyThroughKnownGaps
    <2>1. ~slipped /\ ~overlooked /\ (task[w].command = "lite_initialize" => memory = NULL)
      BY DEF PublishHome, Creates
    <2>2. ClearFor(task[w])
      BY <1>1, <2>1 DEF Stands
    <2>3. CASE task[w].command = "checkpoint"
      <3>1. memory = NULL /\ lite' = Append(lite, task[w].state) /\ memory' = memory
            /\ lite \in Journals /\ task[w].state \in RecordedStates
        BY <1>1, <2>2, <2>3, SMT DEF ClearFor, Publication
      <3>2. lite' \in Seq(RecordedStates)
        BY <3>1 DEF Journals
      <3> QED
        BY <3>1, <3>2, CloseAssumption DEF Accepts
    <2>4. CASE task[w].command = "lite_initialize"
      <3>1. memory' = NULL /\ lite' = <<>>
        BY <1>1, <2>1, <2>4 DEF Publication
      <3>2. lite' \in Seq(RecordedStates)
        BY <3>1
      <3> QED
        BY <3>1, <3>2, CloseAssumption DEF Accepts
    <2>5. CASE task[w].command = "migrate"
      <3>1. lite = task[w].source /\ lite' = lite /\ memory' \in Homes
            /\ memory'.bound = task[w].source /\ task[w].source # NULL
        BY <1>1, <2>2, <2>5, SMT DEF ClearFor, Publication
      <3> QED
        BY <3>1, CloseAssumption DEF Accepts
    <2>6. CASE task[w].command \in {"initialize", "bootstrap"}
      <3>1. lite' = NULL /\ memory' \in Homes /\ memory'.bound = NULL
        BY <1>1, <2>2, <2>6, SMT DEF ClearFor, Publication
      <3> QED
        BY <3>1, CloseAssumption DEF Accepts
    <2> QED
      BY <1>1, <2>3, <2>4, <2>5, <2>6 DEF Publication
  <1>9. homeCrashes' \in 0 .. MaxCrashes
    BY DEF HomeInv, PublishHome
  <1> QED
    BY <1>2, <1>5, <1>6, <1>7, <1>8, <1>9 DEF HomeInv

\* Every step keeps HomeInv.
LEMMA HomeStep == HomeInv /\ [HomeNext]_homeVars => HomeInv'
  <1>1. ASSUME HomeInv, NEW w \in Process, CreationStep(w) PROVE HomeInv'
    BY <1>1, CommandStep, PublicationKeeps DEF CreationStep
  <1>2. ASSUME HomeInv, UNCHANGED homeVars PROVE HomeInv'
    BY <1>2 DEF homeVars, HomeInv, HomesOK, StartsWithBound, HomeLocked, HasHomeLock, Creates,
                Stands, ClearFor, UnreadableOnlyThroughKnownGaps, Accepts
  <1> QED
    BY <1>1, <1>2, SessionKeeps DEF HomeNext

\* HomeInv is an invariant.
LEMMA HomeInvariance == HomeSpec => []HomeInv
  BY HomeInitial, HomeStep, PTL DEF HomeSpec

\* Journals hold resulting states and stay within the limit of a Lite workspace,
\* a memory workspace has its parts, and the lock files are those of the commands.
THEOREM HomeTyped == HomeSpec => []HomeTypeOK
  <1>1. HomeInv => HomeTypeOK
    BY DEF HomeInv, HomesOK, HomeLocked, HomeTypeOK, Journals
  <1> QED
    BY <1>1, HomeInvariance, PTL

\* Whatever commands and sessions run at once, and wherever one of them dies, the
\* directories are ones that a reader accepts, unless a rename landed after
\* another command's last look or Lite `initialize` ran beside a memory workspace.
THEOREM ReadableUnlessSlipped == HomeSpec => []UnreadableOnlyThroughKnownGaps
  <1>1. HomeInv => UnreadableOnlyThroughKnownGaps
    BY DEF HomeInv
  <1> QED
    BY <1>1, HomeInvariance, PTL

\* Journal n starts with journal j.
Extends(n, j) == Len(j) <= Len(n) /\ SubSeq(n, 1, Len(j)) = j

LEMMA ExtendsItself ==
  ASSUME NEW j \in Journals
  PROVE  Extends(j, j)
  BY DEF Extends, Journals

LEMMA AppendExtends ==
  ASSUME NEW j \in Journals, NEW s \in RecordedStates
  PROVE  Extends(Append(j, s), j)
  BY DEF Extends, Journals

\* What a step does to the directories.
Growth ==
    /\ lite # NULL => lite' # NULL /\ Extends(lite', lite)
    /\ memory # NULL =>
          /\ memory' # NULL /\ memory'.bound = memory.bound
          /\ Extends(memory'.journal, memory.journal)

\* A step that publishes nothing leaves both, or extends the memory journal.
LEMMA SessionGrowth ==
  ASSUME HomeInv, NEW w \in Process, SessionStep(w)
  PROVE  Growth /\ lite' = lite
  <1>1. lite' = lite /\ (lite # NULL => lite \in Journals)
    BY DEF SessionStep, SelectWork, MemoryCheckpoint, OpenSession, CancelSession, PreviewSession,
           ApplyLiteSession, ApplyMemorySession, home, HomeInv, HomesOK
  <1>2. lite # NULL => Extends(lite', lite)
    BY <1>1, ExtendsItself
  <1>3. memory # NULL => memory \in Homes /\ memory.journal \in Journals
    BY DEF HomeInv, HomesOK, Homes, Journals
  <1>4. ASSUME memory # NULL, memory' = memory
        PROVE  memory' # NULL /\ memory'.bound = memory.bound /\ Extends(memory'.journal, memory.journal)
    BY <1>3, <1>4, ExtendsItself
  <1>5. ASSUME NEW s \in RecordedStates, AppendMemory(s), memory # NULL
        PROVE  memory' # NULL /\ memory'.bound = memory.bound /\ Extends(memory'.journal, memory.journal)
    BY <1>5, MemoryGrows DEF AppendMemory, Extends, HomeInv
  <1>6. CASE SelectWork(w)
    <2>1. memory \in Homes /\ memory.journal \in Journals /\ memory' = [memory EXCEPT !.selected = TRUE]
      BY <1>3, <1>6 DEF SelectWork
    <2>2. memory' \in Homes /\ memory'.bound = memory.bound /\ memory'.journal = memory.journal
      BY <2>1 DEF Homes
    <2> QED
      BY <1>1, <1>2, <2>1, <2>2, ExtendsItself, CloseAssumption DEF Growth
  <1>7. CASE MemoryCheckpoint(w)
    <2> PICK s \in ResultingState : AppendMemory(s)
      BY <1>7 DEF MemoryCheckpoint
    <2> QED
      BY <1>1, <1>2, <1>5, CloseAssumption DEF Growth
  <1>8. CASE ApplyMemorySession(w)
    <2> PICK s : s = task[w].state
      OBVIOUS
    <2>1. s \in RecordedStates /\ AppendMemory(s)
      BY <1>8, SessionTyping DEF ApplyMemorySession, Confirmed, HomeInv, Previewed
    <2> QED
      BY <1>1, <1>2, <1>5, <2>1 DEF Growth
  <1>9. CASE OpenSession(w) \/ CancelSession(w) \/ PreviewSession(w) \/ ApplyLiteSession(w)
    <2>1. memory' = memory
      BY <1>9 DEF OpenSession, CancelSession, PreviewSession, ApplyLiteSession, home
    <2> QED
      BY <1>1, <1>2, <1>4, <2>1 DEF Growth
  <1> QED
    BY <1>6, <1>7, <1>8, <1>9 DEF SessionStep

\* A command too.
LEMMA CommandGrowth ==
  ASSUME HomeInv, NEW w \in Process, CreationStep(w)
  PROVE  Growth /\ (lite' # lite \/ memory' # memory => PublishHome(w))
  <1>1. (lite # NULL => lite \in Journals) /\ (memory # NULL => memory.journal \in Journals)
    BY DEF HomeInv, HomesOK, Homes, Journals
  <1>2. /\ lite # NULL => Extends(lite, lite)
        /\ memory # NULL => Extends(memory.journal, memory.journal)
    BY <1>1, ExtendsItself
  <1>3. CASE PublishHome(w)
    <2>1. Publication(task[w])
      BY <1>3, Publishes
    <2>2. CASE lite \in Journals /\ lite' = Append(lite, task[w].state) /\ memory' = memory
                 /\ task[w].state \in RecordedStates
      <3>1. Extends(lite', lite) /\ lite' \in Seq(RecordedStates)
        BY <2>2, AppendExtends DEF Journals
      <3> QED
        BY <1>2, <1>3, <2>2, <3>1, CloseAssumption DEF Growth
    <2>3. CASE lite = NULL /\ memory' = memory
      BY <1>2, <1>3, <2>3 DEF Growth
    <2>4. CASE memory = NULL /\ lite' = lite
      BY <1>2, <1>3, <2>4 DEF Growth
    <2> QED
      BY <2>1, <2>2, <2>3, <2>4 DEF Publication
  <1>4. CASE ~PublishHome(w)
    <2>1. lite' = lite /\ memory' = memory
      BY <1>4 DEF CreationStep, Start, LockHome, FirstLook, FinalLook, HomeFailure, UnlockHome,
                  CrashHome, home
    <2> QED
      BY <1>2, <2>1 DEF Growth
  <1> QED
    BY <1>3, <1>4

\* No command and no session takes an entry from a journal or a directory away, and
\* a migrated workspace continues exactly the journal that it binds.
THEOREM JournalsGrow == HomeSpec => JournalsOnlyGrow
  <1> DEFINE Grows ==
        /\ lite # NULL =>
             /\ lite' # NULL /\ Len(lite) <= Len(lite')
             /\ SubSeq(lite', 1, Len(lite)) = lite
        /\ memory # NULL =>
             /\ memory' # NULL /\ memory'.bound = memory.bound
             /\ Len(memory.journal) <= Len(memory'.journal)
             /\ SubSeq(memory'.journal, 1, Len(memory.journal)) = memory.journal
        /\ memory' # NULL /\ memory'.bound # NULL =>
             /\ Len(memory'.bound) <= Len(memory'.journal)
             /\ SubSeq(memory'.journal, 1, Len(memory'.bound)) = memory'.bound
             /\ LiteCurrent(memory'.bound).status # "unknown"
  <1>1. ASSUME HomeInv, HomeInv', HomeNext PROVE Grows
    <2>1. Growth
      BY <1>1, SessionGrowth, CommandGrowth DEF HomeNext
    <2>2. memory' # NULL => StartsWithBound(memory')
      BY <1>1 DEF HomeInv, HomesOK, StartsWithBound
    <2> QED
      BY <2>1, <2>2 DEF Growth, Extends, StartsWithBound
  <1>2. HomeInv /\ HomeInv' /\ [HomeNext]_homeVars => [Grows]_homeVars
    BY <1>1
  <1> QED
    BY <1>2, HomeInvariance, PTL DEF HomeSpec, JournalsOnlyGrow

\* A closing checkpoint keeps every blocker that its session was shown, and
\* continues the journal its user confirmed.
THEOREM BlockersKept == HomeSpec => CloseKeepsInspectedBlockers
  <1> DEFINE Keeps ==
        \A w \in Process :
          /\ ApplyMemorySession(w) =>
               /\ task[w].inspected \subseteq Unresolved(memory'.journal)
               /\ memory.journal = task[w].source
          /\ task[w].at = "ready" /\ Creates(w) = "checkpoint" /\ lite' # lite =>
               /\ task[w].inspected \subseteq Unresolved(lite')
               /\ lite = task[w].source
  <1>1. ASSUME NEW j \in Journals, NEW s \in RecordedStates
        PROVE  Unresolved(Append(j, s)) = s.blockers
    <2>1. /\ Append(j, s) # <<>> /\ Len(Append(j, s)) = Len(j) + 1
          /\ Append(j, s)[Len(j) + 1] = s
      BY DEF Journals
    <2> QED
      BY <2>1 DEF Unresolved, LiteCurrent
  <1>2. ASSUME HomeInv, NEW w \in Process, ApplyMemorySession(w)
        PROVE  /\ task[w].inspected \subseteq Unresolved(memory'.journal)
               /\ memory.journal = task[w].source
    <2>1. task[w] \in Previewed
      BY <1>2, SessionTyping DEF ApplyMemorySession, Confirmed, HomeInv
    <2> PICK s : s = task[w].state
      OBVIOUS
    <2>2. s \in RecordedStates /\ memory # NULL /\ task[w].inspected \subseteq s.blockers
      BY <1>2, <2>1 DEF ApplyMemorySession, Previewed
    <2>3. memory'.journal = Append(memory.journal, s)
      BY <1>2, <2>2, MemoryGrows DEF ApplyMemorySession, AppendMemory, HomeInv
    <2>4. memory.journal \in Journals
      BY <1>2, <2>2 DEF HomeInv, HomesOK, Homes, Journals
    <2>5. Unresolved(memory'.journal) = s.blockers
      BY <1>1, <2>2, <2>3, <2>4
    <2>6. memory.journal = task[w].source
      BY <1>2 DEF ApplyMemorySession, Confirmed, CurrentJournal
    <2> QED
      BY <2>2, <2>5, <2>6
  <1>3. ASSUME HomeInv, HomeNext, NEW w \in Process, task[w].at = "ready",
               Creates(w) = "checkpoint", lite' # lite
        PROVE  task[w].inspected \subseteq Unresolved(lite') /\ lite = task[w].source
    <2>1. PICK v \in Process : PublishHome(v)
      BY <1>3, SessionGrowth, CommandGrowth DEF HomeNext
    <2>2. task[w] \in Jobs /\ task[v] \in Jobs /\ Publication(task[v]) /\ task[v].at = "ready"
      BY <1>3, <2>1, Publishes, JobTyping DEF HomeInv, UnderLock, PublishHome
    <2>3. lite = task[w].source /\ lite # NULL /\ task[w].inspected \subseteq task[w].state.blockers
          /\ task[w].state \in RecordedStates
      BY <1>3, <2>2 DEF HomeInv, Stands, Creates, Jobs
    <2>4. task[v].command = "checkpoint"
      BY <1>3, <2>2, <2>3 DEF Publication
    <2>5. v = w
      BY <1>3, <2>2, <2>4 DEF HomeInv, HomeLocked, HasHomeLock, UnderLock, Creates
    <2>6. lite \in Journals /\ lite' = Append(lite, task[w].state)
      BY <2>2, <2>4, <2>5 DEF Publication
    <2>7. Unresolved(lite') = task[w].state.blockers
      BY <1>1, <2>3, <2>6
    <2> QED
      BY <2>3, <2>7
  <1>4. HomeInv /\ [HomeNext]_homeVars => [Keeps]_homeVars
    BY <1>2, <1>3
  <1> QED
    BY <1>4, HomeInvariance, PTL DEF HomeSpec, CloseKeepsInspectedBlockers

-----------------------------------------------------------------------------
(* The two writers of a workspace in lots, for any lots, dependencies,       *)
(* expectations, proposals and edits, and any number of processes.  The      *)
(* inductive invariant says what a process has in hand (Sound), that one     *)
(* process has the lock (LotLocked), and how what it inspected relates to    *)
(* the workspace now (InspectedIsCurrent).                                   *)

\* What a process has in hand that has built its change.
LotChange ==
    [at : {"built", "locked", "inspected", "closing"}, target : {"lots", "evidence"},
     seen : ProjectWorkspace, after : ProjectWorkspace, digested : SUBSET Path, edits : Nat]

\* The inspected workspace, with the artifacts as the change found them.
Basis(seen, after) == [seen EXCEPT !.artifacts = after.artifacts]

\* The change keeps a valid workspace valid, and is either one allowed transition
\* or the entries of a proposal appended to the evidence; only the artifacts it
\* digested itself may differ from those inspected.
SoundFor(target, seen, after, digested) ==
    /\ IntegrityValid(seen) /\ IntegrityValid(after)
    /\ Len(after.evidence.entries) <= MaxEvidence
    /\ \A p \in Path \ digested : after.artifacts[p] = seen.artifacts[p]
    /\ \/ /\ target = "lots" /\ digested = {}
          /\ \E l \in DOMAIN seen.lots, to \in {"candidate", "complete"} :
                TransitionAllowed(seen, l, to) /\ after = [seen EXCEPT !.lots[l] = to]
       \/ /\ target = "evidence"
          /\ \E proposed \in Checkpoints :
                LET basis == Basis(seen, after)
                IN  /\ digested = DigestedPaths(seen, proposed)
                    /\ Captured(basis, proposed)
                    /\ after = [basis EXCEPT !.evidence = CheckpointedEvidence(basis, proposed)]

Sound(c) == SoundFor(c.target, c.seen, c.after, c.digested)

\* Every change the writers build is sound, and stays so until it is published.
SoundChange == {c \in LotChange : Sound(c)}

\* A checkpoint before it is built: the inspection it starts from.
Digesting == [at : {"digesting"}, seen : {w \in ProjectWorkspace : IntegrityValid(w)}]

AuthorOK == author \in [Author -> {Away} \cup Digesting \cup SoundChange]

\* Process a created the lock and has not removed it.
HasLotLock(a) == author[a].at \in {"locked", "inspected", "closing"}

\* One process at a time has the lock.
LotLocked ==
    \A a, b \in Author :
        /\ HasLotLock(a) => lotLock
        /\ HasLotLock(a) /\ HasLotLock(b) => a = b

\* After the inspection under the lock the lots and the evidence stay what they
\* were, since only a process with the lock writes them; the rest of the snapshot
\* does unless somebody has edited a file since.
InspectedIsCurrent ==
    \A a \in Author : author[a].at = "inspected" =>
        /\ ws.lots = author[a].seen.lots /\ ws.evidence = author[a].seen.evidence
        /\ author[a].edits <= edits
        /\ author[a].edits = edits => LotSnapshot(ws) = LotSnapshot(author[a].seen)

\* The inductive invariant.
LotInv ==
    /\ ws \in ProjectWorkspace /\ Len(ws.evidence.entries) <= MaxEvidence
    /\ lotLock \in BOOLEAN /\ edits \in Nat
    /\ AuthorOK /\ LotLocked /\ InspectedIsCurrent

-----------------------------------------------------------------------------
\* Two workspaces have one snapshot: they have the same documents, and the same
\* artifacts where the evidence cites one.
LEMMA SameSnapshot ==
  ASSUME NEW v \in ProjectWorkspace, NEW w \in ProjectWorkspace, LotSnapshot(v) = LotSnapshot(w)
  PROVE  /\ v.mission = w.mission /\ v.lots = w.lots /\ v.contract = w.contract
         /\ v.evidence = w.evidence
         /\ \A p \in CitedPaths(v.evidence) : v.artifacts[p] = w.artifacts[p]
  <1>1. /\ LotSnapshot(v).mission = v.mission /\ LotSnapshot(w).mission = w.mission
        /\ LotSnapshot(v).lots = v.lots /\ LotSnapshot(w).lots = w.lots
        /\ LotSnapshot(v).contract = v.contract /\ LotSnapshot(w).contract = w.contract
        /\ LotSnapshot(v).evidence = v.evidence /\ LotSnapshot(w).evidence = w.evidence
        /\ LotSnapshot(v).artifacts = [p \in CitedPaths(v.evidence) |-> v.artifacts[p]]
        /\ LotSnapshot(w).artifacts = [p \in CitedPaths(w.evidence) |-> w.artifacts[p]]
    BY DEF LotSnapshot, ProjectWorkspace
  <1>2. v.evidence = w.evidence
    BY <1>1
  <1>3. ASSUME NEW p \in CitedPaths(v.evidence) PROVE v.artifacts[p] = w.artifacts[p]
    <2>1. [q \in CitedPaths(v.evidence) |-> v.artifacts[q]]
            = [q \in CitedPaths(v.evidence) |-> w.artifacts[q]]
      BY <1>1, <1>2
    <2>2. [q \in CitedPaths(v.evidence) |-> v.artifacts[q]][p] = v.artifacts[p]
      OBVIOUS
    <2> QED
      BY <2>1, <2>2
  <1> QED
    BY <1>1, <1>2, <1>3

\* Artifacts matter only where the evidence cites them.
LEMMA OnlyCitedMatter ==
  ASSUME NEW v, NEW w, v.lots = w.lots, v.mission = w.mission, v.contract = w.contract,
         v.evidence = w.evidence, v.evidence.format \in {1, 2},
         \A p \in CitedPaths(v.evidence) : v.artifacts[p] = w.artifacts[p]
  PROVE  SupportedIds(v) = SupportedIds(w) /\ (IntegrityValid(v) <=> IntegrityValid(w))
  <1> DEFINE entries == v.evidence.entries
  <1>1. ASSUME v.evidence.format = 2, NEW i \in DOMAIN entries
        PROVE  Supported(entries[i], v.artifacts) <=> Supported(entries[i], w.artifacts)
    <2>1. \A p \in DOMAIN entries[i].refs : v.artifacts[p] = w.artifacts[p]
      BY <1>1 DEF CitedPaths
    <2> QED
      BY <2>1 DEF Supported
  <1>2. SupportedIds(v) = SupportedIds(w)
    <2>1. CASE v.evidence.format = 1
      BY <2>1 DEF SupportedIds
    <2>2. CASE v.evidence.format = 2
      <3>1. {x \in {entries[i] : i \in DOMAIN entries} : Supported(x, v.artifacts)}
              = {x \in {entries[i] : i \in DOMAIN entries} : Supported(x, w.artifacts)}
        BY <1>1, <2>2
      <3> QED
        BY <2>2, <3>1 DEF SupportedIds
    <2> QED
      BY <2>1, <2>2
  <1>3. EvidenceValid(v) <=> EvidenceValid(w)
    <2>1. \A i \in DOMAIN entries : v.evidence.format = 2 =>
             (Supported(entries[i], v.artifacts) <=> Supported(entries[i], w.artifacts))
      BY <1>1
    <2> QED
      BY <2>1 DEF EvidenceValid
  <1>4. /\ LotsValid(v) <=> LotsValid(w)
        /\ MissionValid(v) <=> MissionValid(w)
        /\ ContractValid(v) <=> ContractValid(w)
    <2>1. EstablishedIds(v) = EstablishedIds(w)
      BY DEF EstablishedIds
    <2>2. LotsValid(v) <=> LotsValid(w)
      BY <1>2, <2>1 DEF LotsValid, WithStatus
    <2>3. MissionValid(v) <=> MissionValid(w)
      BY DEF MissionValid, AllComplete
    <2>4. ContractValid(v) <=> ContractValid(w)
      BY DEF ContractValid
    <2> QED
      BY <2>2, <2>3, <2>4
  <1> QED
    BY <1>2, <1>3, <1>4 DEF IntegrityValid

-----------------------------------------------------------------------------
\* The references of an entry: a version, or none, for each path it cites.
References == UNION {[P -> Version \cup {NoLot}] : P \in SUBSET Path}

\* References for the same paths as others.
LEMMA ReferenceOf ==
  ASSUME NEW r \in References
  PROVE  DOMAIN r \subseteq Path /\ \A f : (f = [p \in DOMAIN r |-> f[p]]
            /\ \A p \in DOMAIN r : f[p] \in Version \cup {NoLot}) => f \in References
  <1> PICK P \in SUBSET Path : r \in [P -> Version \cup {NoLot}]
    BY DEF References
  <1>1. DOMAIN r = P
    OBVIOUS
  <1>2. ASSUME NEW f, f = [p \in P |-> f[p]], \A p \in P : f[p] \in Version \cup {NoLot}
        PROVE  f \in References
    <2>1. f \in [P -> Version \cup {NoLot}]
      BY <1>2
    <2> QED
      BY <2>1 DEF References
  <1> QED
    BY <1>1, <1>2

\* Entries whose artifacts are captured anew are entries.
LEMMA EntryWith ==
  ASSUME NEW e \in EvidenceEntry, NEW f \in References
  PROVE  /\ [e EXCEPT !.refs = f] \in EvidenceEntry /\ [e EXCEPT !.refs = f].id = e.id
         /\ [e EXCEPT !.refs = f].refs = f
         /\ [e EXCEPT !.kind = "legacy", !.resolves = NoLot, !.refs = f] \in EvidenceEntry
         /\ [e EXCEPT !.kind = "legacy", !.resolves = NoLot, !.refs = f].id = e.id
         /\ [e EXCEPT !.kind = "legacy", !.resolves = NoLot, !.refs = f].refs = f
  BY DEF EvidenceEntry, References

\* A legacy entry whose artifacts could be captured or are missing.
LEMMA MigratedArtifacts ==
  ASSUME NEW w \in ProjectWorkspace, NEW e \in EvidenceEntry,
         \A p \in DOMAIN e.refs : w.artifacts[p] # "unknown"
  PROVE  /\ migrateV1Entry(e, w.artifacts) \in EvidenceEntry
         /\ migrateV1Entry(e, w.artifacts).id = e.id
         /\ DOMAIN migrateV1Entry(e, w.artifacts).refs = DOMAIN e.refs
  <1> DEFINE f == [p \in DOMAIN e.refs |->
                     IF w.artifacts[p] = "missing" THEN NoLot ELSE w.artifacts[p]]
  <1>1. e.refs \in References
    BY DEF EvidenceEntry, References
  <1>2. DOMAIN e.refs \subseteq Path
    BY <1>1, ReferenceOf
  <1>3. \A p \in DOMAIN e.refs : f[p] \in Version \cup {NoLot}
    BY <1>2 DEF ProjectWorkspace, ArtifactFiles
  <1>4. f \in References
    BY <1>1, <1>3, ReferenceOf
  <1> PICK r : r = f
    OBVIOUS
  <1>5. migrateV1Entry(e, w.artifacts) = [e EXCEPT !.kind = "legacy", !.resolves = NoLot, !.refs = r]
    BY DEF migrateV1Entry
  <1>6. DOMAIN r = DOMAIN e.refs /\ r \in References
    BY <1>4
  <1> HIDE DEF f
  <1> PICK d : d = [e EXCEPT !.kind = "legacy", !.resolves = NoLot, !.refs = r]
    OBVIOUS
  <1>7. d \in EvidenceEntry /\ d.id = e.id /\ d.refs = r
    BY <1>6, EntryWith
  <1> QED
    BY <1>5, <1>6, <1>7

\* A proposed entry whose artifacts were captured.
LEMMA Recaptured ==
  ASSUME NEW w \in ProjectWorkspace, NEW e \in EvidenceEntry,
         \A p \in DOMAIN e.refs : w.artifacts[p] \notin {"missing", "unknown"}
  PROVE  LET d == [e EXCEPT !.refs = [p \in DOMAIN e.refs |-> w.artifacts[p]]]
         IN  d \in EvidenceEntry /\ DOMAIN d.refs = DOMAIN e.refs
  <1> DEFINE f == [p \in DOMAIN e.refs |-> w.artifacts[p]]
  <1>1. e.refs \in References
    BY DEF EvidenceEntry, References
  <1>2. DOMAIN e.refs \subseteq Path
    BY <1>1, ReferenceOf
  <1>3. \A p \in DOMAIN e.refs : f[p] \in Version \cup {NoLot}
    BY <1>2 DEF ProjectWorkspace, ArtifactFiles
  <1>4. f \in References
    BY <1>1, <1>3, ReferenceOf
  <1> QED
    BY <1>4, EntryWith

\* Entries that keep every entry there was, under its id and place.
Continues(entries, longer) ==
    /\ Len(entries) <= Len(longer)
    /\ \A i \in DOMAIN entries : longer[i].id = entries[i].id

\* The evidence a checkpoint builds keeps every entry, under its id and place, and
\* cites what was cited and what the checkpoint digested.
LEMMA CheckpointKeeps ==
  ASSUME NEW w \in ProjectWorkspace, NEW proposed \in Checkpoints, Captured(w, proposed),
         NEW built, built = CheckpointedEvidence(w, proposed)
  PROVE  /\ built \in [format : {1, 2}, entries : Seq(EvidenceEntry)]
         /\ Continues(w.evidence.entries, built.entries)
         /\ CitedPaths(built) \subseteq CitedPaths(w.evidence) \cup DigestedPaths(w, proposed)
  <1> DEFINE old == w.evidence.entries
             migrated == [i \in DOMAIN old |-> migrateV1Entry(old[i], w.artifacts)]
             existing == IF w.evidence.format = 2 THEN old ELSE migrated
             captured == [i \in DOMAIN proposed |->
                            [proposed[i] EXCEPT !.refs = [p \in DOMAIN proposed[i].refs |-> w.artifacts[p]]]]
  <1>1. /\ old \in Seq(EvidenceEntry) /\ w.evidence.format \in {1, 2}
        /\ proposed \in Seq(EvidenceEntry)
    BY AuthoringAssumption DEF ProjectWorkspace
  <1>2. /\ Len(old) \in Nat /\ DOMAIN old = 1 .. Len(old)
        /\ \A i \in 1 .. Len(old) : old[i] \in EvidenceEntry
        /\ Len(proposed) \in Nat /\ DOMAIN proposed = 1 .. Len(proposed)
        /\ \A i \in 1 .. Len(proposed) : proposed[i] \in EvidenceEntry
    BY <1>1
  <1>3. /\ existing \in Seq(EvidenceEntry) /\ Len(existing) = Len(old)
        /\ \A i \in 1 .. Len(old) :
              existing[i].id = old[i].id /\ DOMAIN existing[i].refs = DOMAIN old[i].refs
    <2>1. CASE w.evidence.format = 2
      BY <1>1, <2>1
    <2>2. CASE w.evidence.format = 1
      <3>1. \A i \in 1 .. Len(old) : migrateV1Entry(old[i], w.artifacts) \in EvidenceEntry
                 /\ migrateV1Entry(old[i], w.artifacts).id = old[i].id
                 /\ DOMAIN migrateV1Entry(old[i], w.artifacts).refs = DOMAIN old[i].refs
        BY <1>2, <2>2, MigratedArtifacts DEF Captured
      <3>2. migrated \in Seq(EvidenceEntry) /\ Len(migrated) = Len(old)
        BY <1>2, <3>1, SeqDef
      <3> QED
        BY <1>2, <2>2, <3>1, <3>2
    <2> QED
      BY <1>1, <2>1, <2>2
  <1>4. /\ captured \in Seq(EvidenceEntry) /\ Len(captured) = Len(proposed)
        /\ \A i \in 1 .. Len(proposed) : DOMAIN captured[i].refs = DOMAIN proposed[i].refs
    <2>1. \A i \in 1 .. Len(proposed) :
             captured[i] \in EvidenceEntry /\ DOMAIN captured[i].refs = DOMAIN proposed[i].refs
      <3> SUFFICES ASSUME NEW i \in 1 .. Len(proposed)
                   PROVE  captured[i] \in EvidenceEntry
                            /\ DOMAIN captured[i].refs = DOMAIN proposed[i].refs
        OBVIOUS
      <3>1. proposed[i] \in EvidenceEntry
              /\ \A p \in DOMAIN proposed[i].refs : w.artifacts[p] \notin {"missing", "unknown"}
        BY <1>2 DEF Captured
      <3>2. captured[i] = [proposed[i] EXCEPT !.refs =
                             [p \in DOMAIN proposed[i].refs |-> w.artifacts[p]]]
        BY <1>2
      <3> HIDE DEF captured
      <3> QED
        BY <3>1, <3>2, Recaptured
    <2>2. captured = [i \in 1 .. Len(proposed) |-> captured[i]]
      BY <1>2
    <2> HIDE DEF captured
    <2> QED
      BY <1>2, <2>1, <2>2, SeqDef
  <1>5. CheckpointedEvidence(w, proposed) = [format |-> 2, entries |-> existing \o captured]
    BY DEF CheckpointedEvidence
  <1> HIDE DEF existing, captured
  <1>6. /\ existing \o captured \in Seq(EvidenceEntry)
        /\ Len(existing \o captured) = Len(existing) + Len(captured)
        /\ \A i \in 1 .. Len(existing) : (existing \o captured)[i] = existing[i]
        /\ \A i \in 1 .. Len(existing) + Len(captured) :
              (existing \o captured)[i] =
                 IF i <= Len(existing) THEN existing[i] ELSE captured[i - Len(existing)]
    <2>1. /\ existing \o captured \in Seq(EvidenceEntry)
          /\ Len(existing \o captured) = Len(existing) + Len(captured)
          /\ \A i \in 1 .. Len(existing) + Len(captured) : (existing \o captured)[i] =
                  IF i <= Len(existing) THEN existing[i] ELSE captured[i - Len(existing)]
      <3>1. existing \in Seq(EvidenceEntry) /\ captured \in Seq(EvidenceEntry)
        BY <1>3, <1>4
      <3> QED
        BY <3>1, ConcatProperties
    <2>2. Len(existing) \in Nat /\ Len(captured) \in Nat
      BY <1>2, <1>3, <1>4
    <2> QED
      BY <2>1, <2>2
  <1>7. built.entries = existing \o captured /\ built.format = 2
    BY <1>5
  <1>8. built \in [format : {1, 2}, entries : Seq(EvidenceEntry)]
    BY <1>5, <1>6
  <1>9. Len(old) <= Len(built.entries)
    BY <1>2, <1>3, <1>4, <1>6, <1>7
  <1>10. \A i \in DOMAIN old : built.entries[i].id = old[i].id
    BY <1>2, <1>3, <1>6, <1>7
  <1>11. CitedPaths(built) \subseteq CitedPaths(w.evidence) \cup DigestedPaths(w, proposed)
    <2> SUFFICES ASSUME NEW i \in DOMAIN built.entries, NEW p \in DOMAIN built.entries[i].refs
                 PROVE  p \in CitedPaths(w.evidence) \cup DigestedPaths(w, proposed)
      BY <1>7 DEF CitedPaths
    <2>1. i \in 1 .. Len(old) + Len(proposed)
      BY <1>3, <1>4, <1>6, <1>7
    <2>2. CASE i <= Len(old)
      <3>1. i \in DOMAIN old /\ p \in DOMAIN old[i].refs
        BY <1>2, <1>3, <1>4, <1>6, <1>7, <2>1, <2>2
      <3> QED
        BY <1>1, <3>1 DEF CitedPaths, DigestedPaths
    <2>3. CASE ~(i <= Len(old))
      <3>1. /\ i - Len(old) \in DOMAIN proposed
            /\ p \in DOMAIN proposed[i - Len(old)].refs
        BY <1>2, <1>3, <1>4, <1>6, <1>7, <2>1, <2>3
      <3> QED
        BY <3>1 DEF DigestedPaths
    <2> QED
      BY <2>2, <2>3
  <1> QED
    BY <1>8, <1>9, <1>10, <1>11 DEF Continues

-----------------------------------------------------------------------------
\* The labels of a process at work.
Labels == {"built", "locked", "inspected", "closing"}

\* A step of an apply moves its label only.
LEMMA AuthorRelabelled ==
  ASSUME NEW c \in SoundChange, NEW label \in Labels, NEW d, d = [c EXCEPT !.at = label]
  PROVE  /\ d \in SoundChange /\ d.at = label
         /\ d.target = c.target /\ d.seen = c.seen /\ d.after = c.after
         /\ d.digested = c.digested
  <1>1. c \in LotChange /\ Sound(c)
    BY DEF SoundChange
  <1>2. d \in LotChange /\ d.at = label /\ d.target = c.target /\ d.seen = c.seen /\ d.after = c.after
        /\ d.digested = c.digested
    BY <1>1 DEF LotChange, Labels
  <1>3. Sound(d)
    BY <1>1, <1>2 DEF Sound
  <1> QED
    BY <1>2, <1>3 DEF SoundChange

\* The inspection under the lock also notes how many edits there had been.
LEMMA NotedEdits ==
  ASSUME NEW c \in SoundChange, NEW n \in Nat
  PROVE  LET d == [c EXCEPT !.at = "inspected", !.edits = n]
         IN  d \in SoundChange /\ d.at = "inspected" /\ d.edits = n /\ d.seen = c.seen
  <1> DEFINE d == [c EXCEPT !.at = "inspected", !.edits = n]
  <1>1. c \in LotChange /\ Sound(c)
    BY DEF SoundChange
  <1>2. /\ d \in LotChange /\ d.at = "inspected" /\ d.edits = n
        /\ d.target = c.target /\ d.seen = c.seen /\ d.after = c.after /\ d.digested = c.digested
    BY <1>1 DEF LotChange
  <1> QED
    BY <1>1, <1>2 DEF Sound, SoundChange

\* A process at work has a sound change in hand, or a valid workspace.
LEMMA AuthorTyping ==
  ASSUME AuthorOK, NEW a \in Author
  PROVE  /\ author[a].at \in Labels => author[a] \in SoundChange
         /\ author[a].at = "digesting" => author[a] \in Digesting
         /\ author[a].at \in {"away", "digesting"} \cup Labels
  BY DEF AuthorOK, Away, Labels, Digesting, SoundChange, LotChange

\* Process a is now doing c, and every other one what it did.
AuthorBecomes(a, c) == author' = [author EXCEPT ![a] = c]

\* What such a change keeps.
LEMMA AuthorChange ==
  ASSUME AuthorOK, NEW a \in Author, NEW c \in {Away} \cup Digesting \cup SoundChange, AuthorBecomes(a, c)
  PROVE  AuthorOK' /\ author'[a] = c /\ \A b \in Author : b # a => author'[b] = author[b]
  BY DEF AuthorOK, AuthorBecomes

\* What a document cites, and what a checkpoint digests, are paths.
LEMMA CitedArePaths ==
  ASSUME NEW w \in ProjectWorkspace
  PROVE  /\ CitedPaths(w.evidence) \subseteq Path
         /\ \A proposed \in Checkpoints : DigestedPaths(w, proposed) \subseteq Path
  <1>1. \A e \in EvidenceEntry : DOMAIN e.refs \subseteq Path
    BY ReferenceOf DEF EvidenceEntry, References
  <1>2. \A i \in DOMAIN w.evidence.entries : w.evidence.entries[i] \in EvidenceEntry
    BY DEF ProjectWorkspace
  <1>3. \A proposed \in Checkpoints : \A i \in DOMAIN proposed : proposed[i] \in EvidenceEntry
    BY AuthoringAssumption
  <1>4. CitedPaths(w.evidence) \subseteq Path
    BY <1>1, <1>2 DEF CitedPaths
  <1>5. \A proposed \in Checkpoints : DigestedPaths(w, proposed) \subseteq Path
    BY <1>1, <1>2, <1>3 DEF DigestedPaths
  <1> QED
    BY <1>4, <1>5

\* A checkpoint built on a valid inspection, with artifacts found later, is sound.
LEMMA BuiltCheckpoint ==
  ASSUME NEW w \in ProjectWorkspace, NEW seen \in ProjectWorkspace, IntegrityValid(seen),
         NEW proposed \in Checkpoints, NEW digested, digested = DigestedPaths(seen, proposed),
         NEW basis, basis = [seen EXCEPT !.artifacts = [p \in Path |->
                              IF p \in digested THEN w.artifacts[p] ELSE seen.artifacts[p]]],
         Captured(basis, proposed),
         NEW after, after = [basis EXCEPT !.evidence = CheckpointedEvidence(basis, proposed)],
         IntegrityValid(after), Len(after.evidence.entries) <= MaxEvidence
  PROVE  Built("evidence", seen, after, digested) \in SoundChange
  <1>1. PICK found : found = [p \in Path |->
                       IF p \in digested THEN w.artifacts[p] ELSE seen.artifacts[p]]
    OBVIOUS
  <1>2. found \in ArtifactFiles
    BY <1>1 DEF ProjectWorkspace, ArtifactFiles
  <1>3. /\ basis \in ProjectWorkspace /\ basis.artifacts = found
        /\ basis.evidence = seen.evidence
    BY <1>1, <1>2 DEF ProjectWorkspace
  <1>4. PICK built : built = CheckpointedEvidence(basis, proposed)
    OBVIOUS
  <1>5. built \in [format : {1, 2}, entries : Seq(EvidenceEntry)]
    BY <1>3, <1>4, CheckpointKeeps
  <1>6. after = [basis EXCEPT !.evidence = built]
    BY <1>4, SMTT(20)
  <1>7. after \in ProjectWorkspace /\ after.artifacts = found
    BY <1>3, <1>5, <1>6 DEF ProjectWorkspace
  <1>8. PICK c : c = Built("evidence", seen, after, digested)
    OBVIOUS
  <1>9. /\ c.seen = seen /\ c.after = after /\ c.digested = digested /\ c.target = "evidence"
        /\ c \in LotChange
    BY <1>7, <1>8, CitedArePaths DEF LotChange, Built
  <1>10. \A p \in Path \ digested : after.artifacts[p] = seen.artifacts[p]
    BY <1>1, <1>7
  <1>11. Basis(seen, after) = basis
    BY <1>1, <1>7, SMTT(20) DEF Basis
  <1>12. SoundFor("evidence", seen, after, digested)
    BY <1>10, <1>11 DEF SoundFor
  <1> QED
    BY <1>8, <1>9, <1>12 DEF SoundChange, Sound

\* LotInv holds at first.
LEMMA LotInitial == LotInit => LotInv
  <1> SUFFICES ASSUME LotInit PROVE LotInv
    OBVIOUS
  <1>1. ws \in ProjectWorkspace /\ Len(ws.evidence.entries) <= MaxEvidence
    BY AuthoringAssumption DEF LotInit
  <1> QED
    BY <1>1 DEF LotInit, LotInv, AuthorOK, LotLocked, InspectedIsCurrent, HasLotLock, Away

\* Every step keeps LotInv.
LEMMA LotStep ==
  ASSUME LotInv, [LotNext]_lotVars PROVE LotInv'
  <1> USE DEF HasLotLock, Labels
  <1>0. /\ ws \in ProjectWorkspace /\ Len(ws.evidence.entries) <= MaxEvidence
        /\ lotLock \in BOOLEAN /\ edits \in Nat
        /\ AuthorOK /\ LotLocked /\ InspectedIsCurrent
    BY DEF LotInv
  \* A step that changes no document, and after which its process holds no lock.
  <1>1. ASSUME NEW a \in Author, NEW c, AuthorBecomes(a, c),
               c = Away \/ c \in Digesting \/ (c \in SoundChange /\ c.at = "built"), ws' = ws, edits' = edits, lotLock' \in BOOLEAN, lotLock' = lotLock \/ HasLotLock(a)
        PROVE  LotInv'
    <2>1. AuthorOK' /\ author'[a] = c /\ \A b \in Author : b # a => author'[b] = author[b]
      BY <1>0, <1>1, AuthorChange
    <2>2. c.at \in {"away", "digesting", "built"}
      BY <1>1 DEF Away, Digesting
    <2>3. LotLocked'
      BY <1>0, <1>1, <2>1, <2>2 DEF LotLocked
    <2>4. InspectedIsCurrent'
      BY <1>0, <1>1, <2>1, <2>2 DEF InspectedIsCurrent
    <2> QED
      BY <1>0, <1>1, <2>1, <2>3, <2>4 DEF LotInv
  \* A step of the process that has the lock, and keeps it.
  <1>2. ASSUME NEW a \in Author, HasLotLock(a), NEW c \in SoundChange, AuthorBecomes(a, c),
               c.at \in {"inspected", "closing"}, lotLock' = lotLock, edits' = edits,
               ws' \in ProjectWorkspace /\ Len(ws'.evidence.entries) <= MaxEvidence,
               c.at = "inspected" => LotSnapshot(ws') = LotSnapshot(c.seen) /\ c.edits = edits
        PROVE  LotInv'
    <2>1. AuthorOK' /\ author'[a] = c /\ \A b \in Author : b # a => author'[b] = author[b]
      BY <1>0, <1>2, AuthorChange
    <2>2. \A b \in Author : b # a => ~HasLotLock(b)
      BY <1>0, <1>2 DEF LotLocked
    <2>3. LotLocked'
      BY <1>0, <1>2, <2>1, <2>2 DEF LotLocked
    <2>5. c.at = "inspected" => ws'.lots = c.seen.lots /\ ws'.evidence = c.seen.evidence
      BY <1>2, SameSnapshot DEF SoundChange, LotChange
    <2>4. InspectedIsCurrent'
      BY <1>0, <1>2, <2>1, <2>2, <2>5 DEF InspectedIsCurrent
    <2> QED
      BY <1>0, <1>2, <2>1, <2>3, <2>4 DEF LotInv
  <1>11. ASSUME NEW a \in Author, InspectForCheckpoint(a) PROVE LotInv'
    <2> DEFINE c == [at |-> "digesting", seen |-> ws]
    <2>1. AuthorBecomes(a, c) /\ c \in Digesting
      BY <1>0, <1>11 DEF InspectForCheckpoint, AuthorBecomes, Digesting
    <2> HIDE DEF c
    <2>2. ~HasLotLock(a) /\ ws' = ws /\ edits' = edits /\ lotLock' = lotLock
      BY <1>11 DEF InspectForCheckpoint, Away
    <2> QED
      BY <1>0, <1>1, <2>1, <2>2
  <1>3. ASSUME NEW a \in Author, BuildCheckpoint(a) PROVE LotInv'
    <2> DEFINE seen == author[a].seen
               Digested(q) == DigestedPaths(seen, q)
               Observed(q) == [seen EXCEPT !.artifacts = [p \in Path |->
                   IF p \in Digested(q) THEN ws.artifacts[p] ELSE seen.artifacts[p]]]
               After(q) == [Observed(q) EXCEPT !.evidence = CheckpointedEvidence(Observed(q), q)]
    <2>1. PICK proposed \in Checkpoints :
          /\ Captured(Observed(proposed), proposed)
          /\ Len(After(proposed).evidence.entries) <= MaxEvidence
          /\ IntegrityValid(After(proposed))
          /\ author' = [author EXCEPT ![a] =
                Built("evidence", seen, After(proposed), Digested(proposed))]
      BY <1>3, Zenon DEF BuildCheckpoint
    <2>2. PICK digested : digested = Digested(proposed)
      OBVIOUS
    <2>3. PICK basis : basis = Observed(proposed)
      OBVIOUS
    <2>4. PICK after : after = After(proposed)
      OBVIOUS
    <2>5. /\ digested = DigestedPaths(seen, proposed)
          /\ basis = [seen EXCEPT !.artifacts = [p \in Path |->
                        IF p \in digested THEN ws.artifacts[p] ELSE seen.artifacts[p]]]
          /\ after = [basis EXCEPT !.evidence = CheckpointedEvidence(basis, proposed)]
      BY <2>2, <2>3, <2>4
    <2> HIDE DEF Observed, After, Digested
    <2>6. /\ Captured(basis, proposed) /\ IntegrityValid(after)
          /\ Len(after.evidence.entries) <= MaxEvidence
          /\ AuthorBecomes(a, Built("evidence", seen, after, digested))
      BY <2>1, <2>2, <2>3, <2>4 DEF AuthorBecomes
    <2>7. seen \in ProjectWorkspace /\ IntegrityValid(seen)
      BY <1>0, <1>3, AuthorTyping DEF BuildCheckpoint, Digesting
    <2> HIDE DEF seen
    <2>8. Built("evidence", seen, after, digested) \in SoundChange
      BY <1>0, <2>5, <2>6, <2>7, BuiltCheckpoint
    <2>9. Built("evidence", seen, after, digested).at = "built"
      BY DEF Built
    <2>10. ~HasLotLock(a) /\ ws' = ws /\ edits' = edits /\ lotLock' = lotLock
      BY <1>3 DEF BuildCheckpoint
    <2> QED
      BY <1>0, <1>1, <2>6, <2>8, <2>9, <2>10, SMTT(30)
  <1>4. ASSUME NEW a \in Author, BuildTransition(a) PROVE LotInv'
    <2> PICK l \in DOMAIN ws.lots, to \in {"candidate", "complete"} :
          /\ TransitionAllowed(ws, l, to)
          /\ IntegrityValid([ws EXCEPT !.lots[l] = to])
          /\ author' = [author EXCEPT ![a] = Built("lots", ws, [ws EXCEPT !.lots[l] = to], {})]
      BY <1>4 DEF BuildTransition
    <2> DEFINE after == [ws EXCEPT !.lots[l] = to]
               c == Built("lots", ws, after, {})
    <2>2. after \in ProjectWorkspace /\ after.evidence = ws.evidence /\ after.artifacts = ws.artifacts
      <3>1. [ws.lots EXCEPT ![l] = to] \in UNION {[L -> {"planned", "candidate", "complete"}] : L \in SUBSET Lot}
        <4> PICK L \in SUBSET Lot : ws.lots \in [L -> {"planned", "candidate", "complete"}]
          BY <1>0 DEF ProjectWorkspace
        <4>1. [ws.lots EXCEPT ![l] = to] \in [L -> {"planned", "candidate", "complete"}]
          OBVIOUS
        <4> QED
          BY <4>1
      <3> QED
        BY <1>0, <3>1 DEF ProjectWorkspace
    <2>3. c \in LotChange
      BY <1>0, <2>2 DEF LotChange, Built
    <2>4. Sound(c)
      BY <1>0, <1>4, <2>2 DEF Sound, SoundFor, BuildTransition, Built
    <2>5. AuthorBecomes(a, c)
      BY DEF AuthorBecomes
    <2>6. c \in SoundChange /\ c.at = "built"
      BY <2>3, <2>4 DEF SoundChange, Built
    <2> HIDE DEF c
    <2>7. ~HasLotLock(a) /\ ws' = ws /\ edits' = edits /\ lotLock' = lotLock
      BY <1>4 DEF BuildTransition, Away
    <2> QED
      BY <1>0, <1>1, <2>5, <2>6, <2>7
  <1>5. ASSUME NEW a \in Author, LockLots(a) PROVE LotInv'
    <2>1. author[a] \in SoundChange
      BY <1>0, <1>5, AuthorTyping DEF LockLots
    <2>2. CASE lotLock
      BY <1>0, <1>1, <1>5, <2>2 DEF LockLots, AuthorBecomes
    <2>3. CASE ~lotLock
      <3> DEFINE c == [author[a] EXCEPT !.at = "locked"]
      <3>1. c \in SoundChange /\ c.at = "locked"
        BY <2>1, <1>0, AuthorRelabelled
      <3>2. AuthorBecomes(a, c) /\ lotLock' = TRUE /\ ws' = ws /\ edits' = edits
        BY <1>5, <2>3 DEF LockLots, At, AuthorBecomes
      <3> HIDE DEF c
      <3>3. AuthorOK' /\ author'[a] = c /\ \A b \in Author : b # a => author'[b] = author[b]
        BY <1>0, <3>1, <3>2, AuthorChange
      <3>4. \A b \in Author : ~HasLotLock(b)
        BY <1>0, <2>3 DEF LotLocked
      <3>5. LotLocked' /\ InspectedIsCurrent'
        BY <3>1, <3>2, <3>3, <3>4 DEF LotLocked, InspectedIsCurrent
      <3> QED
        BY <1>0, <3>2, <3>3, <3>5 DEF LotInv
    <2> QED
      BY <2>2, <2>3
  <1>6. ASSUME NEW a \in Author, Reinspect(a) PROVE LotInv'
    <2>1. author[a] \in SoundChange /\ HasLotLock(a) /\ ws' = ws /\ edits' = edits /\ lotLock' = lotLock
      BY <1>0, <1>6, AuthorTyping DEF Reinspect
    <2>2. CASE LotSnapshot(ws) = LotSnapshot(author[a].seen)
      <3> DEFINE c == [author[a] EXCEPT !.at = "inspected", !.edits = edits]
      <3>1. c \in SoundChange /\ c.at = "inspected" /\ c.edits = edits /\ c.seen = author[a].seen
        BY <1>0, <2>1, NotedEdits
      <3>2. AuthorBecomes(a, c)
        BY <1>6, <2>2 DEF Reinspect, AuthorBecomes
      <3> HIDE DEF c
      <3> QED
        BY <1>0, <1>2, <2>1, <2>2, <3>1, <3>2
    <2>3. CASE LotSnapshot(ws) # LotSnapshot(author[a].seen)
      <3> DEFINE c == [author[a] EXCEPT !.at = "closing"]
      <3>1. c \in SoundChange /\ c.at = "closing"
        BY <1>0, <2>1, AuthorRelabelled
      <3>2. AuthorBecomes(a, c)
        BY <1>6, <2>3 DEF Reinspect, At, AuthorBecomes
      <3> HIDE DEF c
      <3> QED
        BY <1>0, <1>2, <2>1, <3>1, <3>2
    <2> QED
      BY <2>2, <2>3
  <1>7. ASSUME NEW a \in Author, PublishLots(a) \/ (LotFailure(a) /\ HasLotLock(a)) PROVE LotInv'
    <2> DEFINE c == [author[a] EXCEPT !.at = "closing"]
    <2>1. author[a] \in SoundChange /\ HasLotLock(a) /\ edits' = edits /\ lotLock' = lotLock
      BY <1>0, <1>7, AuthorTyping DEF PublishLots, LotFailure
    <2>2. c \in SoundChange /\ c.at = "closing"
      BY <1>0, <2>1, AuthorRelabelled
    <2>3. AuthorBecomes(a, c)
      BY <1>7 DEF PublishLots, LotFailure, At, AuthorBecomes
    <2>4. ws' \in ProjectWorkspace /\ Len(ws'.evidence.entries) <= MaxEvidence
      <3>1. /\ author[a].after \in ProjectWorkspace
            /\ Len(author[a].after.evidence.entries) <= MaxEvidence
        BY <2>1 DEF SoundChange, LotChange, Sound, SoundFor
      <3> QED
        BY <1>0, <1>7, <3>1 DEF PublishLots, LotFailure, ProjectWorkspace
    <2> HIDE DEF c
    <2> QED
      BY <1>2, <2>1, <2>2, <2>3, <2>4
  <1>8. ASSUME NEW a \in Author, UnlockLots(a) \/ CrashAuthor(a) \/ (LotFailure(a) /\ ~HasLotLock(a))
        PROVE  LotInv'
    <2>1. AuthorBecomes(a, Away) /\ ws' = ws /\ edits' = edits
      BY <1>8 DEF UnlockLots, CrashAuthor, LotFailure, AuthorBecomes
    <2>2. lotLock' \in BOOLEAN
      BY <1>0, <1>8 DEF UnlockLots, CrashAuthor, LotFailure
    <2>3. lotLock' = lotLock \/ HasLotLock(a)
      BY <1>8 DEF UnlockLots, CrashAuthor, LotFailure
    <2> QED
      BY <1>1, <2>1, <2>2, <2>3
  <1>9. CASE EditByHand
    <2> PICK e \in Edits : ws' = [ws EXCEPT !.mission = e.mission, !.contract = e.contract,
                                            !.artifacts = e.artifacts]
      BY <1>9 DEF EditByHand
    <2>1. e \in Edit
      BY AuthoringAssumption
    <2>2. ws' \in ProjectWorkspace /\ ws'.lots = ws.lots /\ ws'.evidence = ws.evidence
      BY <1>0, <2>1 DEF ProjectWorkspace, Edit
    <2>3. author' = author /\ lotLock' = lotLock /\ edits' = edits + 1
      BY <1>9 DEF EditByHand
    <2>4. \A a \in Author : author[a].at = "inspected" => author[a].edits \in Nat
      BY <1>0, AuthorTyping DEF SoundChange, LotChange
    <2>5. AuthorOK' /\ LotLocked'
      BY <1>0, <2>3 DEF AuthorOK, LotLocked
    <2>6. InspectedIsCurrent'
      BY <1>0, <2>2, <2>3, <2>4 DEF InspectedIsCurrent
    <2> QED
      BY <1>0, <2>2, <2>3, <2>5, <2>6 DEF LotInv
  <1>10. CASE UNCHANGED lotVars
    BY <1>0, <1>10 DEF lotVars, LotInv, AuthorOK, LotLocked, InspectedIsCurrent
  <1> QED
    BY <1>3, <1>4, <1>5, <1>6, <1>7, <1>8, <1>9, <1>10, <1>11 DEF LotNext

\* LotInv holds in every reachable state.
THEOREM LotInvariance == LotSpec => []LotInv
  BY LotInitial, LotStep, PTL DEF LotSpec

\* The documents, the lock and the processes have their types.
THEOREM LotTyped == LotSpec => []LotTypeOK
  <1>1. LotInv => LotTypeOK
    BY AuthorTyping DEF LotInv, LotTypeOK, Labels
  <1> QED
    BY <1>1, LotInvariance, PTL

\* What the process that inspected the workspace has when it publishes.
LEMMA AtPublish ==
  ASSUME LotInv, NEW a \in Author, author[a].at = "inspected"
  PROVE  /\ author[a] \in LotChange /\ Sound(author[a])
         /\ ws.lots = author[a].seen.lots /\ ws.evidence = author[a].seen.evidence
         /\ author[a].edits = edits => LotSnapshot(ws) = LotSnapshot(author[a].seen)
         /\ ws \in ProjectWorkspace
  BY AuthorTyping DEF LotInv, InspectedIsCurrent, SoundChange, Labels

\* A change published on what was inspected leaves the documents it was built to
\* leave, and the artifacts those cite are the ones it was found valid with, where
\* it did not digest them itself because they are in the snapshot.
LEMMA PublishedAsBuilt ==
  ASSUME LotInv, NEW a \in Author, author[a].at = "inspected", author[a].edits = edits,
         PublishLots(a)
  PROVE  LET after == author[a].after
         IN  /\ ws' \in ProjectWorkspace /\ after \in ProjectWorkspace
             /\ ws'.mission = after.mission /\ ws'.lots = after.lots
             /\ ws'.contract = after.contract /\ ws'.evidence = after.evidence
             /\ \A p \in CitedPaths(after.evidence) \ author[a].digested :
                   ws'.artifacts[p] = after.artifacts[p]
  <1> DEFINE c == author[a]
             seen == author[a].seen
             after == author[a].after
  <1>1. /\ c \in LotChange /\ Sound(c) /\ ws \in ProjectWorkspace
        /\ seen \in ProjectWorkspace /\ after \in ProjectWorkspace
        /\ LotSnapshot(ws) = LotSnapshot(seen)
    BY AtPublish DEF LotChange
  <1>2. /\ ws.mission = seen.mission /\ ws.lots = seen.lots /\ ws.contract = seen.contract
        /\ ws.evidence = seen.evidence
        /\ \A p \in CitedPaths(seen.evidence) : ws.artifacts[p] = seen.artifacts[p]
    BY <1>1, SameSnapshot
  <1>3. \A p \in Path \ c.digested : after.artifacts[p] = seen.artifacts[p]
    BY <1>1 DEF Sound, SoundFor
  <1>4. CASE c.target = "lots"
    <2> PICK l \in DOMAIN seen.lots, to \in {"candidate", "complete"} :
          after = [seen EXCEPT !.lots[l] = to]
      BY <1>1, <1>4 DEF Sound, SoundFor
    <2>1. /\ after.mission = seen.mission /\ after.contract = seen.contract
          /\ after.evidence = seen.evidence /\ after.artifacts = seen.artifacts
      BY <1>1 DEF ProjectWorkspace
    <2>2. ws' = [ws EXCEPT !.lots = after.lots]
      BY <1>4 DEF PublishLots
    <2>3. /\ ws'.mission = ws.mission /\ ws'.lots = after.lots /\ ws'.contract = ws.contract
          /\ ws'.evidence = ws.evidence /\ ws'.artifacts = ws.artifacts
          /\ ws' \in ProjectWorkspace
      BY <1>1, <2>2 DEF ProjectWorkspace
    <2> QED
      BY <1>1, <1>2, <2>1, <2>3
  <1>5. CASE c.target = "evidence"
    <2> PICK proposed \in Checkpoints :
          /\ c.digested = DigestedPaths(seen, proposed)
          /\ Captured(Basis(seen, after), proposed)
          /\ after = [Basis(seen, after) EXCEPT !.evidence = CheckpointedEvidence(Basis(seen, after), proposed)]
      BY <1>1, <1>5 DEF Sound, SoundFor
    <2> PICK basis : basis = Basis(seen, after)
      OBVIOUS
    <2>1. /\ basis \in ProjectWorkspace /\ basis.mission = seen.mission
          /\ basis.contract = seen.contract /\ basis.lots = seen.lots
          /\ basis.evidence = seen.evidence
      BY <1>1 DEF Basis, ProjectWorkspace
    <2>2. /\ after.mission = seen.mission /\ after.contract = seen.contract
          /\ after.lots = seen.lots /\ after.evidence = CheckpointedEvidence(basis, proposed)
      BY <2>1 DEF ProjectWorkspace
    <2>3. CitedPaths(after.evidence) \subseteq CitedPaths(seen.evidence) \cup c.digested
      <3>1. CitedPaths(after.evidence)
               \subseteq CitedPaths(basis.evidence) \cup DigestedPaths(basis, proposed)
        BY <2>1, <2>2, CheckpointKeeps
      <3>2. DigestedPaths(basis, proposed) = DigestedPaths(seen, proposed)
        BY <2>1 DEF DigestedPaths
      <3> QED
        BY <2>1, <3>1, <3>2
    <2>4. ws' = [ws EXCEPT !.evidence = after.evidence]
      BY <1>5 DEF PublishLots
    <2>5. /\ ws'.mission = ws.mission /\ ws'.lots = ws.lots /\ ws'.contract = ws.contract
          /\ ws'.evidence = after.evidence /\ ws'.artifacts = ws.artifacts
          /\ ws' \in ProjectWorkspace
      BY <1>1, <2>4 DEF ProjectWorkspace
    <2>6. ASSUME NEW p \in CitedPaths(after.evidence) \ c.digested
          PROVE  ws'.artifacts[p] = after.artifacts[p]
      <3>1. p \in CitedPaths(seen.evidence)
        BY <2>3
      <3>2. p \in Path
        BY <1>1, <3>1, CitedArePaths
      <3> QED
        BY <1>2, <1>3, <2>5, <3>1, <3>2
    <2> QED
      BY <1>1, <1>2, <2>2, <2>5, <2>6
  <1> QED
    BY <1>1, <1>4, <1>5 DEF LotChange

\* A checkpoint or transition published on what was inspected keeps the workspace
\* valid, with the artifacts that a checkpoint digested as it digested them: a
\* writer of the other file, which would have to hold the same lock, has not come
\* between, and the artifacts of the snapshot are what they were.
THEOREM IntegrityKept == LotSpec => WritersKeepIntegrity
  <1> DEFINE Kept == \A a \in Author :
          author[a].at = "inspected" /\ author[a].edits = edits /\ PublishLots(a) =>
              IntegrityValid(ws) /\ IntegrityValid(AsDigested(author[a], ws'))
  <1>1. LotInv => Kept
    <2> SUFFICES ASSUME LotInv, NEW a \in Author,
                        author[a].at = "inspected", author[a].edits = edits, PublishLots(a)
                 PROVE  IntegrityValid(ws) /\ IntegrityValid(AsDigested(author[a], ws'))
      OBVIOUS
    <2> DEFINE seen == author[a].seen
               after == author[a].after
    <2>1. /\ IntegrityValid(seen) /\ IntegrityValid(after) /\ ws \in ProjectWorkspace
          /\ seen \in ProjectWorkspace /\ LotSnapshot(ws) = LotSnapshot(seen)
      BY AtPublish DEF Sound, SoundFor, LotChange
    <2>2. IntegrityValid(ws)
      <3>1. ws.evidence.format \in {1, 2}
        BY <2>1 DEF ProjectWorkspace
      <3> QED
        BY <2>1, <3>1, SameSnapshot, OnlyCitedMatter
    <2>3. /\ ws' \in ProjectWorkspace /\ after \in ProjectWorkspace
          /\ ws'.mission = after.mission /\ ws'.lots = after.lots
          /\ ws'.contract = after.contract /\ ws'.evidence = after.evidence
          /\ \A p \in CitedPaths(after.evidence) \ author[a].digested :
                ws'.artifacts[p] = after.artifacts[p]
      BY PublishedAsBuilt
    <2> PICK shown : shown = AsDigested(author[a], ws')
      OBVIOUS
    <2>4. /\ shown.mission = after.mission /\ shown.lots = after.lots
          /\ shown.contract = after.contract /\ shown.evidence = after.evidence
          /\ shown.artifacts = [p \in Path |-> IF p \in author[a].digested
                                  THEN after.artifacts[p] ELSE ws'.artifacts[p]]
      BY <2>3 DEF AsDigested, ProjectWorkspace
    <2>5. CitedPaths(after.evidence) \subseteq Path
      BY <2>3, CitedArePaths
    <2>6. \A p \in CitedPaths(shown.evidence) : shown.artifacts[p] = after.artifacts[p]
      BY <2>3, <2>4, <2>5
    <2>7. shown.evidence.format \in {1, 2}
      BY <2>3, <2>4 DEF ProjectWorkspace
    <2>8. IntegrityValid(shown)
      BY <2>1, <2>4, <2>6, <2>7, OnlyCitedMatter
    <2> QED
      BY <2>2, <2>8
  <1>2. LotInv => [Kept]_lotVars
    BY <1>1
  <1> QED
    BY <1>2, LotInvariance, PTL DEF WritersKeepIntegrity

\* Lots go forward one status at a time, without open blockers and on supported
\* evidence, and the evidence document only grows.
THEOREM CompletionOnEvidence == LotSpec => CompletedOnEvidence
  <1> DEFINE Careful ==
        /\ \A l \in DOMAIN ws.lots :
            /\ ws'.lots[l] # ws.lots[l] =>
                 <<ws.lots[l], ws'.lots[l]>> \in
                    {<<"planned", "candidate">>, <<"candidate", "complete">>}
            /\ ws'.lots[l] # ws.lots[l] =>
                 \A b \in OpenBlockers(ws.evidence.entries) : b.lot # l
            /\ ws'.lots[l] = "complete" /\ ws.lots[l] # "complete" =>
                 \/ Expected[l] \subseteq SupportedIds(ws)
                 \/ \E a \in Author : author[a].at = "inspected" /\ author[a].edits # edits
        /\ Len(ws.evidence.entries) <= Len(ws'.evidence.entries)
        /\ \A i \in DOMAIN ws.evidence.entries :
              ws'.evidence.entries[i].id = ws.evidence.entries[i].id
  <1>1. ASSUME LotInv, [LotNext]_lotVars PROVE Careful
    <2>0. ws \in ProjectWorkspace /\ Len(ws.evidence.entries) \in Nat
      BY <1>1 DEF LotInv, ProjectWorkspace
    <2>1. CASE ws'.lots = ws.lots /\ ws'.evidence = ws.evidence
      BY <2>0, <2>1
    <2>2. ASSUME NEW a \in Author, PublishLots(a) PROVE Careful
      <3>1. /\ author[a].at = "inspected" /\ author[a] \in LotChange /\ Sound(author[a])
            /\ ws.lots = author[a].seen.lots /\ ws.evidence = author[a].seen.evidence
            /\ author[a].edits = edits => LotSnapshot(ws) = LotSnapshot(author[a].seen)
            /\ author[a].seen \in ProjectWorkspace /\ author[a].after \in ProjectWorkspace
        BY <1>1, <2>2, AtPublish DEF PublishLots, LotChange
      <3>2. CASE author[a].target = "lots"
        <4> PICK l \in DOMAIN ws.lots, to \in {"candidate", "complete"} :
              /\ TransitionAllowed(author[a].seen, l, to)
              /\ author[a].after = [author[a].seen EXCEPT !.lots[l] = to]
          BY <3>1, <3>2 DEF Sound, SoundFor
        <4>1. ws'.lots = [ws.lots EXCEPT ![l] = to] /\ ws'.evidence = ws.evidence
          BY <2>0, <2>2, <3>1, <3>2 DEF PublishLots, ProjectWorkspace
        <4>2. /\ \A b \in OpenBlockers(ws.evidence.entries) : b.lot # l
              /\ to = "candidate" => ws.lots[l] = "planned"
              /\ to = "complete" =>
                    ws.lots[l] = "candidate" /\ Expected[l] \subseteq SupportedIds(author[a].seen)
          BY <3>1 DEF TransitionAllowed
        <4>3. Expected[l] \subseteq SupportedIds(author[a].seen) /\ author[a].edits = edits =>
                 Expected[l] \subseteq SupportedIds(ws)
          <5>1. ws.evidence.format \in {1, 2}
            BY <2>0 DEF ProjectWorkspace
          <5> QED
            BY <2>0, <3>1, <5>1, SameSnapshot, OnlyCitedMatter
        <4>4. \A k \in DOMAIN ws.lots : ws'.lots[k] = IF k = l THEN to ELSE ws.lots[k]
          BY <2>0, <4>1 DEF ProjectWorkspace
        <4> QED
          BY <2>0, <3>1, <4>1, <4>2, <4>3, <4>4
      <3>3. CASE author[a].target = "evidence"
        <4>1. PICK basis : basis = Basis(author[a].seen, author[a].after)
          OBVIOUS
        <4>2. PICK proposed \in Checkpoints :
              /\ Captured(basis, proposed)
              /\ author[a].after = [basis EXCEPT !.evidence = CheckpointedEvidence(basis, proposed)]
          BY <3>1, <3>3, <4>1 DEF Sound, SoundFor
        <4>3. PICK built : built = CheckpointedEvidence(basis, proposed)
          OBVIOUS
        <4>4. basis \in ProjectWorkspace /\ basis.evidence = ws.evidence
          BY <3>1, <4>1 DEF Basis, ProjectWorkspace
        <4>5. Captured(basis, proposed)
          BY <4>2
        <4>6. Continues(basis.evidence.entries, built.entries)
          BY <4>3, <4>4, <4>5, CheckpointKeeps
        <4>7. author[a].after.evidence = built
          BY <4>2, <4>3, <4>4 DEF ProjectWorkspace
        <4>8. ws' = [ws EXCEPT !.evidence = author[a].after.evidence]
          BY <2>2, <3>3 DEF PublishLots
        <4>9. ws'.lots = ws.lots /\ ws'.evidence = built
          BY <2>0, <4>7, <4>8 DEF ProjectWorkspace
        <4> QED
          BY <4>4, <4>6, <4>9 DEF Continues
      <3> QED
        BY <3>1, <3>2, <3>3 DEF LotChange
    <2>3. CASE EditByHand
      <3>1. ws'.lots = ws.lots /\ ws'.evidence = ws.evidence
        BY <2>0, <2>3 DEF EditByHand, ProjectWorkspace
      <3> QED
        BY <2>1, <3>1
    <2>4. ASSUME NEW a \in Author,
                 \/ InspectForCheckpoint(a) \/ BuildCheckpoint(a) \/ BuildTransition(a)
                 \/ LockLots(a) \/ Reinspect(a) \/ LotFailure(a) \/ UnlockLots(a) \/ CrashAuthor(a)
          PROVE  ws' = ws
      BY <2>4, Zenon DEF InspectForCheckpoint, BuildCheckpoint, BuildTransition, LockLots, Reinspect,
                  LotFailure, UnlockLots, CrashAuthor
    <2>5. CASE ws' = ws
      BY <2>1, <2>5
    <2> QED
      BY <1>1, <2>2, <2>3, <2>4, <2>5 DEF LotNext, lotVars
  <1>2. LotInv /\ [LotNext]_lotVars => [Careful]_lotVars
    BY <1>1
  <1> QED
    BY <1>2, LotInvariance, PTL DEF LotSpec, CompletedOnEvidence

-----------------------------------------------------------------------------
(* Readiness and next action. *)

\* FirstRule is the result of the first rule whose condition holds.
LEMMA FirstRuleIs ==
  ASSUME NEW rules, NEW n \in Nat, DOMAIN rules = 1 .. n, NEW i \in 1 .. n,
         rules[i][1], \A j \in 1 .. i - 1 : ~rules[j][1]
  PROVE  FirstRule(rules) = rules[i][2]
  <1> DEFINE Applies(k) == rules[k][1] /\ \A j \in 1 .. k - 1 : ~rules[j][1]
  <1>1. i \in DOMAIN rules /\ Applies(i)
    OBVIOUS
  <1>2. \A k \in DOMAIN rules : Applies(k) => k = i
    OBVIOUS
  <1>3. (CHOOSE k \in DOMAIN rules : Applies(k)) = i
    BY <1>1, <1>2
  <1> QED
    BY <1>3, Zenon DEF FirstRule

\* The readiness reason, condition by condition.
LEMMA ReasonOf ==
  ASSUME NEW w
  PROVE  ReadinessReason(w) =
      IF ~IntegrityValid(w) THEN "INTEGRITY_INVALID"
      ELSE IF w.mission.status = "draft" THEN "MISSION_NOT_APPROVED"
      ELSE IF ~w.mission.defined THEN "MISSION_UNDEFINED"
      ELSE IF DOMAIN w.lots = {} THEN "LOTS_EMPTY"
      ELSE IF w.evidence.format = 1 THEN "LEGACY_EVIDENCE_REQUIRES_MIGRATION"
      ELSE IF AllComplete(w) /\ ~AcceptanceReady(w) THEN "MISSION_ACCEPTANCE_EVIDENCE_INCOMPLETE"
      ELSE IF AllComplete(w) THEN "none"
      ELSE IF WithStatus(w, "candidate") = {} THEN "CANDIDATE_LOT_MISSING"
      ELSE IF ~ContractOf(w) THEN "EXECUTION_CONTRACT_MISSING"
      ELSE IF w.contract.status # "approved" THEN "EXECUTION_CONTRACT_NOT_APPROVED"
      ELSE "none"
  <1> DEFINE rules == <<
      <<~IntegrityValid(w), "INTEGRITY_INVALID">>,
      <<w.mission.status = "draft", "MISSION_NOT_APPROVED">>,
      <<~w.mission.defined, "MISSION_UNDEFINED">>,
      <<DOMAIN w.lots = {}, "LOTS_EMPTY">>,
      <<w.evidence.format = 1, "LEGACY_EVIDENCE_REQUIRES_MIGRATION">>,
      <<AllComplete(w) /\ ~AcceptanceReady(w), "MISSION_ACCEPTANCE_EVIDENCE_INCOMPLETE">>,
      <<AllComplete(w), "none">>,
      <<WithStatus(w, "candidate") = {}, "CANDIDATE_LOT_MISSING">>,
      <<~ContractOf(w), "EXECUTION_CONTRACT_MISSING">>,
      <<w.contract.status # "approved", "EXECUTION_CONTRACT_NOT_APPROVED">>,
      <<TRUE, "none">> >>
  <1>1. DOMAIN rules = 1 .. 11 /\ ReadinessReason(w) = FirstRule(rules)
    BY DEF ReadinessReason
  <1>2. /\ rules[1][1] <=> ~IntegrityValid(w)
        /\ rules[2][1] <=> w.mission.status = "draft"
        /\ rules[3][1] <=> ~w.mission.defined
        /\ rules[4][1] <=> DOMAIN w.lots = {}
        /\ rules[5][1] <=> w.evidence.format = 1
        /\ rules[6][1] <=> (AllComplete(w) /\ ~AcceptanceReady(w))
        /\ rules[7][1] <=> AllComplete(w)
        /\ rules[8][1] <=> WithStatus(w, "candidate") = {}
        /\ rules[9][1] <=> ~ContractOf(w)
        /\ rules[10][1] <=> w.contract.status # "approved"
        /\ rules[11][1] <=> TRUE
    OBVIOUS
  <1>3. /\ rules[1][2] = "INTEGRITY_INVALID"
        /\ rules[2][2] = "MISSION_NOT_APPROVED"
        /\ rules[3][2] = "MISSION_UNDEFINED"
        /\ rules[4][2] = "LOTS_EMPTY"
        /\ rules[5][2] = "LEGACY_EVIDENCE_REQUIRES_MIGRATION"
        /\ rules[6][2] = "MISSION_ACCEPTANCE_EVIDENCE_INCOMPLETE"
        /\ rules[7][2] = "none"
        /\ rules[8][2] = "CANDIDATE_LOT_MISSING"
        /\ rules[9][2] = "EXECUTION_CONTRACT_MISSING"
        /\ rules[10][2] = "EXECUTION_CONTRACT_NOT_APPROVED"
        /\ rules[11][2] = "none"
    OBVIOUS
  <1> HIDE DEF rules
  <1>4. \A i \in 1 .. 11 : rules[i][1] /\ (\A j \in 1 .. i - 1 : ~rules[j][1]) =>
               ReadinessReason(w) = rules[i][2]
    BY <1>1, FirstRuleIs
  <1> QED
    BY <1>2, <1>3, <1>4

\* The next action, condition by condition.
LEMMA ActionOf ==
  ASSUME NEW w
  PROVE  nextAction(w) =
      IF ~IntegrityValid(w) THEN "resolve_integrity_findings"
      ELSE IF w.mission.status = "draft" THEN "approve_mission"
      ELSE IF ReadinessReason(w) = "MISSION_UNDEFINED" THEN "complete_mission_definition"
      ELSE IF DOMAIN w.lots = {} THEN "decompose_lots"
      ELSE IF ReadinessReason(w) = "LEGACY_EVIDENCE_REQUIRES_MIGRATION" THEN "migrate_project_evidence"
      ELSE IF AllComplete(w) /\ AcceptanceReady(w) THEN "review_mission_acceptance"
      ELSE IF AllComplete(w) THEN "record_acceptance_evidence"
      ELSE IF WithStatus(w, "candidate") = {} THEN "select_candidate_lot"
      ELSE IF ~ContractOf(w) THEN "draft_execution_contract"
      ELSE IF w.contract.status # "approved" THEN "approve_execution_contract"
      ELSE IF ReadinessReason(w) # "none" THEN "resolve_readiness_blockers"
      ELSE "prepare_approved_lot"
  <1> DEFINE rules == <<
      <<~IntegrityValid(w), "resolve_integrity_findings">>,
      <<w.mission.status = "draft", "approve_mission">>,
      <<ReadinessReason(w) = "MISSION_UNDEFINED", "complete_mission_definition">>,
      <<DOMAIN w.lots = {}, "decompose_lots">>,
      <<ReadinessReason(w) = "LEGACY_EVIDENCE_REQUIRES_MIGRATION", "migrate_project_evidence">>,
      <<AllComplete(w) /\ AcceptanceReady(w), "review_mission_acceptance">>,
      <<AllComplete(w), "record_acceptance_evidence">>,
      <<WithStatus(w, "candidate") = {}, "select_candidate_lot">>,
      <<~ContractOf(w), "draft_execution_contract">>,
      <<w.contract.status # "approved", "approve_execution_contract">>,
      <<ReadinessReason(w) # "none", "resolve_readiness_blockers">>,
      <<TRUE, "prepare_approved_lot">> >>
  <1>1. DOMAIN rules = 1 .. 12 /\ nextAction(w) = FirstRule(rules)
    BY DEF nextAction
  <1>2. /\ rules[1][1] <=> ~IntegrityValid(w)
        /\ rules[2][1] <=> w.mission.status = "draft"
        /\ rules[3][1] <=> ReadinessReason(w) = "MISSION_UNDEFINED"
        /\ rules[4][1] <=> DOMAIN w.lots = {}
        /\ rules[5][1] <=> ReadinessReason(w) = "LEGACY_EVIDENCE_REQUIRES_MIGRATION"
        /\ rules[6][1] <=> (AllComplete(w) /\ AcceptanceReady(w))
        /\ rules[7][1] <=> AllComplete(w)
        /\ rules[8][1] <=> WithStatus(w, "candidate") = {}
        /\ rules[9][1] <=> ~ContractOf(w)
        /\ rules[10][1] <=> w.contract.status # "approved"
        /\ rules[11][1] <=> ReadinessReason(w) # "none"
        /\ rules[12][1] <=> TRUE
    OBVIOUS
  <1>3. /\ rules[1][2] = "resolve_integrity_findings"
        /\ rules[2][2] = "approve_mission"
        /\ rules[3][2] = "complete_mission_definition"
        /\ rules[4][2] = "decompose_lots"
        /\ rules[5][2] = "migrate_project_evidence"
        /\ rules[6][2] = "review_mission_acceptance"
        /\ rules[7][2] = "record_acceptance_evidence"
        /\ rules[8][2] = "select_candidate_lot"
        /\ rules[9][2] = "draft_execution_contract"
        /\ rules[10][2] = "approve_execution_contract"
        /\ rules[11][2] = "resolve_readiness_blockers"
        /\ rules[12][2] = "prepare_approved_lot"
    OBVIOUS
  <1> HIDE DEF rules
  <1>4. \A i \in 1 .. 12 : rules[i][1] /\ (\A j \in 1 .. i - 1 : ~rules[j][1]) =>
               nextAction(w) = rules[i][2]
    BY <1>1, FirstRuleIs
  <1> QED
    BY <1>2, <1>3, <1>4



\* The two chains agree, whatever the workspace.
LEMMA ActionMatchesReason ==
  ASSUME NEW w
  PROVE  (ReadinessReason(w) = "none") <=>
            nextAction(w) \in {"prepare_approved_lot", "review_mission_acceptance"}
  BY ReasonOf, ActionOf

\* No reader is told to start work that is not ready, or to repair what is.
THEOREM NextActionAgrees == LotSpec => []NextActionMatchesReadiness
  <1>1. NextActionMatchesReadiness
    BY ActionMatchesReason DEF NextActionMatchesReadiness
  <1> QED
    BY <1>1, PTL
=============================================================================
