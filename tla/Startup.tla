------------------------------- MODULE Startup -------------------------------
(***************************************************************************)
(* How the processes of a deployment start: main loads the configuration,  *)
(* ensureFolders creates the folders of the rules that are missing, and    *)
(* only then does a process serve.  A process that fails exits, and its    *)
(* supervisor starts it again.  The replicas share one bucket.             *)
(***************************************************************************)
EXTENDS Permissions

CONSTANTS
    Process,
    Seed,          \* the folders at the start: sets of paths
    MaxFaults,     \* bound: failed calls to the cloud, OIDC and LDAP
    MaxCrashes     \* bound: processes that die or are stopped

VARIABLES
    config,        \* what the environment says
    folders,       \* folders with a marker or a file in them
    proc,          \* proc[p]: the main goroutine of p
    lost,          \* history, lost[p]: the folders of rules that requests have
                   \* removed since p began to start
    faults, crashes

startupVars == <<folders, proc, lost, crashes>>

ProcType ==
    [pc : {"down", "stat", "target", "parent", "put", "serving"},
     rule : Nat, depth : Nat]

Down == [pc |-> "down", rule |-> 1, depth |-> 1]

StartupInit ==
    /\ folders \in Seed
    /\ proc = [p \in Process |-> Down]
    /\ lost = [p \in Process |-> {}]
    /\ faults = 0 /\ crashes = 0

----------------------------------------------------------------------------
Works == UNCHANGED faults

Breaks == faults < MaxFaults /\ faults' = faults + 1

Is(p, pc) == proc[p].pc = pc

Serving(p) == Is(p, "serving")

\* A folder exists with a marker, or because of what is in it.
Exists(d) == d = <<>> \/ \E f \in folders : Above(d, f)

RulePath(p) == config.entries[proc[p].rule].path

\* Mutant: the folder of the rule is created without its ancestors.
DirLeaf(p) == RulePath(p)

\* The folder at hand: the rule's, or an ancestor of it.
Dir(p) ==
    SubSeq(RulePath(p), 1, IF proc[p].depth < Len(RulePath(p))
                           THEN proc[p].depth ELSE Len(RulePath(p)))

Goto(p, pc) == proc' = [proc EXCEPT ![p].pc = pc]

\* server.New returns an error: the process exits.
Exit(p) == proc' = [proc EXCEPT ![p] = Down]

\* The next folder, of the same rule or of the next, or listening.
Ready(p) ==
    LET s == proc[p] IN
    proc' = [proc EXCEPT ![p] =
      IF s.depth < Len(RulePath(p))
      THEN [pc |-> "stat", rule |-> s.rule, depth |-> s.depth + 1]
      ELSE IF s.rule < Len(config.entries)
      THEN [pc |-> "stat", rule |-> s.rule + 1, depth |-> 1]
      ELSE [Down EXCEPT !.pc = "serving"]]

----------------------------------------------------------------------------
\* main: the configuration is loaded; a bad one ends the process each time.
Start(p) ==
    /\ Is(p, "down") /\ Loads(config.entries)
    /\ Goto(p, IF config.auto /\ config.entries # <<>> THEN "stat" ELSE "serving")
    /\ lost' = [lost EXCEPT ![p] = {}]
    /\ UNCHANGED folders /\ Works

\* Mutant: a Stat that fails is taken for a folder that is there.
StatMissed(p) ==
    /\ Is(p, "stat") /\ UNCHANGED folders
    /\ \/ Exists(Dir(p)) /\ Works /\ Ready(p)
       \/ ~Exists(Dir(p)) /\ Works /\ Goto(p, "target")
       \/ Breaks /\ Ready(p)

\* fs.Stat: an error of the cloud looks like a folder that is missing.
Stat(p) ==
    /\ Is(p, "stat") /\ UNCHANGED folders
    /\ \/ Exists(Dir(p)) /\ Works /\ Ready(p)
       \/ ((~Exists(Dir(p)) /\ Works) \/ Breaks) /\ Goto(p, "target")

\* checkMkdir: the target must not exist,
MkdirTarget(p) ==
    /\ Is(p, "target") /\ UNCHANGED folders
    /\ \/ Exists(Dir(p)) /\ Works /\ Exit(p)
       \/ /\ (~Exists(Dir(p)) /\ Works) \/ Breaks
          /\ Goto(p, IF Len(Dir(p)) <= 1 THEN "put" ELSE "parent")

\* its parent must,
MkdirParent(p) ==
    LET parent == SubSeq(Dir(p), 1, Len(Dir(p)) - 1) IN
    /\ Is(p, "parent") /\ UNCHANGED folders
    /\ \/ Exists(parent) /\ Works /\ Goto(p, "put")
       \/ ((~Exists(parent) /\ Works) \/ Breaks) /\ Exit(p)

\* and Mkdir writes the marker, even when the other replica just has.
MkdirPut(p) ==
    /\ Is(p, "put")
    /\ \/ folders' = folders \cup {Dir(p)} /\ Works /\ Ready(p)
       \/ folders' \in {folders, folders \cup {Dir(p)}} /\ Breaks /\ Exit(p)

StartupStep(p) ==
    /\ \/ Start(p)
       \/ /\ Stat(p) \/ MkdirTarget(p) \/ MkdirParent(p) \/ MkdirPut(p)
          /\ UNCHANGED lost
    /\ UNCHANGED <<config, crashes>>

\* The process dies, or is told to stop.
Crash(p) ==
    /\ ~Is(p, "down") /\ crashes < MaxCrashes /\ crashes' = crashes + 1
    /\ Exit(p) /\ UNCHANGED <<config, folders, lost, faults>>

----------------------------------------------------------------------------
StartupTypeOK ==
    /\ proc \in [Process -> ProcType] /\ lost \in [Process -> SUBSET Folder]
    /\ faults \in 0..MaxFaults /\ crashes \in 0..MaxCrashes

RulePaths == {config.entries[i].path : i \in DOMAIN config.entries}

\* A process serves only when every folder of its rules is there, or a request
\* has removed it since the process began to start, however that start was
\* interrupted and whatever other replicas and requests did meanwhile
\* (ensureFolders, server.go:120-136).
FoldersReady ==
    \A p \in Process : Serving(p) /\ config.auto =>
        \A d \in RulePaths : Exists(d) \/ d \in lost[p]
=============================================================================
