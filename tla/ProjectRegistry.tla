---------------------------- MODULE ProjectRegistry ----------------------------
(***************************************************************************)
(* The list of a user's projects (`projects.json`): a tool reads it, adds   *)
(* or removes one project and publishes the result by renaming a staged     *)
(* file.  There is no lock: what a tool read may be old when it publishes.  *)
(***************************************************************************)
EXTENDS Naturals, FiniteSets

CONSTANTS
    Tool,           \* processes
    Root,           \* directories
    Under,          \* pairs <<inner, outer>> of nested directories
    ProjectId,      \* identifiers: random, never used twice
    MaxProjects

ASSUME RegistryAssumption == MaxProjects \in Nat

VARIABLES
    projects,       \* projects.json: records [id, root]
    issued,         \* the identifiers generated so far
    tool            \* what each process read and wants to publish

registryVars == <<projects, issued, tool>>

NotRunning == [at |-> "idle"]

\* Mutant: roots inside one another are accepted.
validateAnyRoots(entries) ==
    /\ Cardinality(entries) <= MaxProjects
    /\ \A e, f \in entries : e # f => e.id # f.id /\ e.root # f.root

\* createProjectRegistry: a limit, distinct identifiers and roots, no root
\* inside another one.
validateEntries(entries) ==
    /\ Cardinality(entries) <= MaxProjects
    /\ \A e, f \in entries :
          e # f => e.id # f.id /\ e.root # f.root /\ <<e.root, f.root>> \notin Under

Publishing(t, before, after) ==
    tool' = [tool EXCEPT ![t] = [at |-> "editing", before |-> before, after |-> after]]

\* addLocalProject: load, append, validate; PROJECT_REGISTRY_* ends it.
AddProject(t) ==
    /\ tool[t] = NotRunning
    /\ \E id \in ProjectId \ issued, r \in Root :
          /\ validateEntries(projects \cup {[id |-> id, root |-> r]})
          /\ Publishing(t, projects, projects \cup {[id |-> id, root |-> r]})
          /\ issued' = issued \cup {id}
    /\ UNCHANGED projects

\* removeLocalProject: PROJECT_ID_NOT_FOUND, or the others.
RemoveProject(t) ==
    /\ tool[t] = NotRunning
    /\ \E e \in projects : Publishing(t, projects, projects \ {e})
    /\ UNCHANGED <<projects, issued>>

\* rename(temporary, target).
PublishRegistry(t) ==
    /\ tool[t].at = "editing"
    /\ projects' = tool[t].after
    /\ tool' = [tool EXCEPT ![t].at = "published"]
    /\ UNCHANGED issued

\* The file is loaded again and must hold what was published
\* (PROJECT_REGISTRY_PUBLICATION_MISMATCH: another tool published since).
VerifyRegistry(t) ==
    /\ tool[t].at = "published"
    /\ tool' = [tool EXCEPT ![t] = NotRunning]
    /\ UNCHANGED <<projects, issued>>

\* A failed write or a dead process; the temporary file has a random name.
AbandonRegistry(t) ==
    /\ tool[t].at = "editing"
    /\ tool' = [tool EXCEPT ![t] = NotRunning]
    /\ UNCHANGED <<projects, issued>>

RegistryInit ==
    projects = {} /\ issued = {} /\ tool = [t \in Tool |-> NotRunning]

RegistryNext ==
    \E t \in Tool :
        \/ AddProject(t) \/ RemoveProject(t) \/ PublishRegistry(t)
        \/ VerifyRegistry(t) \/ AbandonRegistry(t)

RegistrySpec == RegistryInit /\ [][RegistryNext]_registryVars

-----------------------------------------------------------------------------
(* Properties. *)

\* The list a reader finds is always one that loads: whatever additions and
\* removals overlap and undo one another, no identifier or directory is twice
\* in it, none is inside another one and the limit holds.  Each tool validates
\* the list it read, which need not be the one it replaces.  (A registration
\* can be undone by an overlapping publication: there is no lock.)
RegistryStaysLoadable ==
    /\ Cardinality(projects) <= MaxProjects
    /\ \A e, f \in projects :
          e # f => e.id # f.id /\ e.root # f.root /\ <<e.root, f.root>> \notin Under
=============================================================================
