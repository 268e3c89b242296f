----------------------------- MODULE PersonalMemory -----------------------------
(***************************************************************************)
(* The personal memory of a user: one directory with one Markdown file per  *)
(* category, created by renaming a staged directory and appended to one     *)
(* numbered entry at a time.  A preview captures the files and keeps the    *)
(* bytes to write; its apply, perhaps much later, takes a lock beside the   *)
(* directory, compares, stages, compares again and renames.                 *)
(*                                                                          *)
(* A file is the sequence of its entries: number and checkpoint cited.      *)
(***************************************************************************)
EXTENDS Naturals, Sequences, FiniteSets

CONSTANTS
    Notekeeper,     \* processes
    Category,
    Digest,         \* checkpoint digests a journal entry may cite
    NoDigest,
    MaxEntries,     \* 999 entries, or the size limit of a file
    MaxNoteCrashes

ASSUME PersonalAssumption ==
    /\ MaxEntries \in Nat /\ MaxNoteCrashes \in Nat
    /\ NoDigest \notin Digest
    /\ NoDigest \notin [Category -> Seq([number : Nat, checkpoint : Digest \cup {NoDigest}])]

VARIABLES
    notebook,       \* the directory: NoDigest or its files
    notebookLock,   \* .dubsar-memory.lock beside it
    staged,         \* staged initialisation directories not yet removed
    keeper,         \* what each process prepared and where it is
    noteCrashes

personalVars == <<notebook, notebookLock, staged, keeper, noteCrashes>>

Resting == [at |-> "resting"]
NewNotebook == [c \in Category |-> <<>>]

(* Initialisation. *)

\* MEMORY_ALREADY_EXISTS, or the five files are written to a new directory.
PrepareNotebook(k) ==
    /\ keeper[k] = Resting /\ notebook = NoDigest
    /\ keeper' = [keeper EXCEPT ![k] = [at |-> "initial"]]
    /\ staged' = staged \cup {k}
    /\ UNCHANGED <<notebook, notebookLock, noteCrashes>>

\* CREATE: rename refuses a directory that is there and not empty.
CreateNotebook(k) ==
    /\ keeper[k].at = "initial" /\ notebook = NoDigest
    /\ notebook' = NewNotebook
    /\ staged' = staged \ {k}
    /\ keeper' = [keeper EXCEPT ![k] = Resting]
    /\ UNCHANGED <<notebookLock, noteCrashes>>

CancelNotebook(k) ==
    /\ keeper[k].at = "initial"
    /\ staged' = staged \ {k}
    /\ keeper' = [keeper EXCEPT ![k] = Resting]
    /\ UNCHANGED <<notebook, notebookLock, noteCrashes>>

(* One entry. *)

\* Mutant: the highest number is used again.
nextEntryIdReused(entries) ==
    IF entries = <<>> THEN 1
    ELSE CHOOSE n \in {entries[i].number : i \in DOMAIN entries} :
           \A i \in DOMAIN entries : entries[i].number <= n

\* highest + 1, or MEMORY_ENTRY_LIMIT_EXCEEDED.
nextEntryId(entries) ==
    1 + (IF entries = <<>> THEN 0
         ELSE CHOOSE n \in {entries[i].number : i \in DOMAIN entries} :
                \A i \in DOMAIN entries : entries[i].number <= n)

\* A journal entry cites the checkpoint it was written after; others cite none.
PrepareEntry(k) ==
    /\ keeper[k] = Resting /\ notebook # NoDigest
    /\ \E c \in Category, d \in Digest \cup {NoDigest} :
          /\ (c = "journal") <=> (d # NoDigest)
          /\ nextEntryId(notebook[c]) <= MaxEntries
          /\ keeper' = [keeper EXCEPT ![k] =
               [at |-> "prepared", category |-> c, before |-> notebook[c],
                after |-> Append(notebook[c],
                            [number |-> nextEntryId(notebook[c]), checkpoint |-> d])]]
    /\ UNCHANGED <<notebook, notebookLock, staged, noteCrashes>>

AtStep(k, label) == keeper' = [keeper EXCEPT ![k].at = label]
BeforeUnchanged(k) == notebook[keeper[k].category] = keeper[k].before

\* MEMORY_LOCKED.
LockNotebook(k) ==
    /\ keeper[k].at = "prepared"
    /\ IF notebookLock THEN keeper' = [keeper EXCEPT ![k] = Resting] /\ UNCHANGED notebookLock
       ELSE AtStep(k, "locked") /\ notebookLock' = TRUE
    /\ UNCHANGED <<notebook, staged, noteCrashes>>

\* Mutant: the apply trusts the capture of its preview.
TrustPreview(k) ==
    /\ keeper[k].at = "locked"
    /\ AtStep(k, "checked")
    /\ UNCHANGED <<notebook, notebookLock, staged, noteCrashes>>

\* The two captures under the lock compare the same bytes; every change to the
\* files takes the lock, so they are one step.
CompareNotebook(k) ==
    /\ keeper[k].at = "locked"
    /\ IF BeforeUnchanged(k) THEN AtStep(k, "checked") ELSE AtStep(k, "closing")
    /\ UNCHANGED <<notebook, notebookLock, staged, noteCrashes>>

AppendEntry(k) ==
    /\ keeper[k].at = "checked"
    /\ notebook' = [notebook EXCEPT ![keeper[k].category] = keeper[k].after]
    /\ AtStep(k, "closing")
    /\ UNCHANGED <<notebookLock, staged, noteCrashes>>

\* A declined preview, or a failed write.
AbandonEntry(k) ==
    /\ keeper[k].at \in {"prepared", "locked", "checked"}
    /\ IF keeper[k].at = "prepared" THEN keeper' = [keeper EXCEPT ![k] = Resting]
       ELSE AtStep(k, "closing")
    /\ UNCHANGED <<notebook, notebookLock, staged, noteCrashes>>

UnlockNotebook(k) ==
    /\ keeper[k].at = "closing"
    /\ notebookLock' = FALSE
    /\ keeper' = [keeper EXCEPT ![k] = Resting]
    /\ UNCHANGED <<notebook, staged, noteCrashes>>

\* The lock file or the staging directory stays.
CrashKeeper(k) ==
    /\ keeper[k] # Resting /\ noteCrashes < MaxNoteCrashes
    /\ keeper' = [keeper EXCEPT ![k] = Resting]
    /\ noteCrashes' = noteCrashes + 1
    /\ UNCHANGED <<notebook, notebookLock, staged>>

PersonalInit ==
    /\ notebook = NoDigest /\ notebookLock = FALSE /\ staged = {}
    /\ keeper = [k \in Notekeeper |-> Resting] /\ noteCrashes = 0

PersonalNext ==
    \E k \in Notekeeper :
        \/ PrepareNotebook(k) \/ CreateNotebook(k) \/ CancelNotebook(k)
        \/ PrepareEntry(k) \/ LockNotebook(k) \/ CompareNotebook(k) \/ AppendEntry(k)
        \/ AbandonEntry(k) \/ UnlockNotebook(k) \/ CrashKeeper(k)

PersonalSpec == PersonalInit /\ [][PersonalNext]_personalVars

-----------------------------------------------------------------------------
(* Properties. *)

PersonalTypeOK ==
    /\ notebook # NoDigest =>
         /\ DOMAIN notebook = Category
         /\ \A c \in Category : Len(notebook[c]) <= MaxEntries
    /\ notebookLock \in BOOLEAN /\ staged \subseteq Notekeeper

\* Entries are never lost and numbered 1, 2, ... in each file, so an
\* identifier names one entry, although two previews of one file hold the same
\* number; a creation never replaces a memory that has entries.
EntriesKeptAndNumbered ==
    [][notebook # NoDigest =>
        /\ notebook' # NoDigest
        /\ \A c \in Category :
             /\ Len(notebook[c]) <= Len(notebook'[c])
             /\ SubSeq(notebook'[c], 1, Len(notebook[c])) = notebook[c]
             /\ \A i \in DOMAIN notebook'[c] :
                  /\ notebook'[c][i].number = i
                  /\ (c = "journal") <=> (notebook'[c][i].checkpoint # NoDigest)]_personalVars
=============================================================================
