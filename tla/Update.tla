--------------------------------- MODULE Update ---------------------------------
(***************************************************************************)
(* The updater: update-system.py, run by the tools of                      *)
(* lureguard_mcp/system_update.py or by the operator with make.            *)
(*                                                                         *)
(* A command is a process of its own that calls git once for each step.    *)
(* Only apply looks at the file .update-lock; the tool kills a command     *)
(* that takes longer than 300 seconds, and then nothing removes the lock   *)
(* but the operator.  "git checkout <commit> -- <path>" writes the index   *)
(* and the working copy, so both are one variable here; it overwrites and  *)
(* adds files, and deletes none.  check only reads.                        *)
(***************************************************************************)
EXTENDS Integers, FiniteSets, SequencesExt

CONSTANTS
  Processes,   \* processes that run a command of the updater
  Paths,       \* the paths of the system layer other than VERSION
  Files,       \* the files that releases have under each path
  Ships,       \* the files of each release
  MaxVersion,  \* bound: the last release
  MaxCommands  \* bound: commands

ASSUME UpdateAssumption ==
  /\ MaxVersion \in Nat \ {0} /\ MaxCommands \in Nat
  /\ "VERSION" \notin Paths /\ IsFiniteSet(Paths) /\ DOMAIN Files = Paths

VARIABLES
  tree,      \* the release each file of the working copy is of, or Missing
  log,       \* the commits: what each file was of
  branches,  \* the branch backup-pre-update-<version>, by version: its commit
  fetched,   \* FETCH_HEAD, 0 before the first fetch
  upstream,  \* the release at the canonical repository
  lock,      \* .update-lock is there
  dismissed, \* .update-dismissed is there
  process,   \* what each process is doing
  commands,  \* commands so far
  before,    \* history: what was committed when the last apply made its backup
  noted      \* history: what happened of "raced", "removed", "overlapped",
             \* "uncommitted", "failed"

copy == <<tree, log, branches, fetched>>
vars == <<copy, upstream, lock, dismissed, process, commands, before, noted>>

SystemPaths == SetToSeq(Paths) \o <<"VERSION">>

Under(path) == IF path = "VERSION" THEN {"VERSION"} ELSE Files[path]

SystemFiles == UNION {Under(path) : path \in Paths \cup {"VERSION"}}

Missing == 0

Whole(v) == [f \in SystemFiles |-> IF f = "VERSION" \/ f \in Ships[v] THEN v ELSE Missing]

\* The files that c has are put over those of t.
Overlay(t, c, files) ==
  [f \in SystemFiles |-> IF f \in files /\ c[f] # Missing THEN c[f] ELSE t[f]]

LocalVersion == tree["VERSION"]

Committed == Last(log)

Idle == [at |-> "idle"]

Applying == {p \in Processes :
  process[p].at \in {"locked", "saved", "updating", "updated", "leaving"}}

Init ==
  /\ tree = Whole(1) /\ log = <<Whole(1)>> /\ branches = <<>>
  /\ fetched = 0 /\ upstream = 1
  /\ lock = FALSE /\ dismissed = FALSE
  /\ process = [p \in Processes |-> Idle]
  /\ commands = 0
  /\ before = Whole(1)
  /\ noted = {}

Goes(p, at) == process' = [process EXCEPT ![p].at = at]

\* p begins with the record r, or ends at once; beginning beside another is noted.
Begins(p, r) ==
  /\ process' = [process EXCEPT ![p] = r]
  /\ noted' = noted \cup
       (IF \E q \in Processes \ {p} : process[q] # Idle THEN {"overlapped"} ELSE {})

EndsAtOnce == UNCHANGED <<process, noted>>

Starts(p) ==
  /\ process[p] = Idle
  /\ commands < MaxCommands
  /\ commands' = commands + 1

-----------------------------------------------------------------------------
(***************************************************************************)
(* apply.                                                                  *)
(***************************************************************************)
\* Fault: the lock is looked at inside the try whose finally removes it.
LookAndUnlock(p) ==
  /\ Starts(p)
  /\ IF lock THEN EndsAtOnce ELSE Begins(p, [at |-> "looked", local |-> LocalVersion])
  /\ lock' = FALSE
  /\ UNCHANGED <<copy, upstream, dismissed, before>>

\* An apply that finds the lock ends.
Look(p) ==
  /\ Starts(p)
  /\ IF lock THEN EndsAtOnce ELSE Begins(p, [at |-> "looked", local |-> LocalVersion])
  /\ UNCHANGED <<copy, upstream, lock, dismissed, before>>

TakeLock(p) ==
  /\ process[p].at = "looked"
  /\ lock' = TRUE
  /\ noted' = noted \cup (IF lock THEN {"raced"} ELSE {})
  /\ Goes(p, "locked")
  /\ UNCHANGED <<copy, upstream, dismissed, commands, before>>

\* git branch refuses a name that exists, and may fail for a reason of its own:
\* the update takes the one for the other and goes on without a backup.
SaveBackup(p) ==
  LET local == process[p].local
      known == local \in DOMAIN branches
      note  == IF tree # Committed THEN {"uncommitted"} ELSE {}
  IN
  /\ process[p].at = "locked"
  /\ \/ /\ ~known
        /\ branches' = [v \in DOMAIN branches \cup {local} |->
                          IF v = local THEN Len(log) ELSE branches[v]]
        /\ noted' = noted \cup note
     \/ /\ branches' = branches
        /\ noted' = noted \cup note \cup (IF known THEN {} ELSE {"failed"})
  /\ before' = Committed
  /\ Goes(p, "saved")
  /\ UNCHANGED <<tree, log, fetched, upstream, lock, dismissed, commands>>

Fetch(p) ==
  /\ process[p].at = "saved"
  /\ fetched' = upstream
  /\ process' = [process EXCEPT ![p] =
       [at |-> "updating", local |-> @.local, todo |-> SystemPaths]]
  /\ UNCHANGED <<tree, log, branches, upstream, lock, dismissed, commands, before, noted>>

\* git did not answer in 60 seconds, or the fetch failed: the exception leaves
\* everything as it is and ends the process, after its finally.
Fails(p) ==
  /\ process[p].at \in {"locked", "saved", "updating"}
  /\ Goes(p, "leaving")
  /\ UNCHANGED <<copy, upstream, lock, dismissed, commands, before, noted>>

\* One path is checked out of the commit that holds content: nothing changes when
\* the commit has no file there, as when git fails; either error skips the path.
Checkout(p, content, next) ==
  LET files == Under(Head(process[p].todo)) IN
  /\ \/ tree' = Overlay(tree, content, files) /\ noted' = noted
     \/ /\ \E f \in files : content[f] # Missing
        /\ tree' = tree
        /\ noted' = noted \cup {"failed"}
  /\ process' = [process EXCEPT ![p].todo = Tail(@),
                                ![p].at = IF Len(process[p].todo) = 1 THEN next ELSE @]

UpdatePath(p) ==
  /\ process[p].at = "updating"
  /\ Checkout(p, Whole(fetched), "updated")
  /\ UNCHANGED <<log, branches, fetched, upstream, lock, dismissed, commands, before>>

Commit == IF tree = Committed THEN log ELSE Append(log, tree)

\* After make venv.  With a dismissal the removed file .update-dismissed, which
\* git ignores, is among the paths to add: git add refuses them all and nothing
\* is committed.  The commit may fail for other reasons, too, and the update is
\* reported as complete all the same.
CommitUpdate(p) ==
  /\ process[p].at = "updated"
  /\ dismissed' = FALSE
  /\ log' \in {log} \cup (IF dismissed THEN {} ELSE {Commit})
  /\ Goes(p, "leaving")
  /\ UNCHANGED <<tree, branches, fetched, upstream, lock, commands, before, noted>>

\* A file of the user layer has changed meanwhile: revert_paths checks the
\* updated paths out of the index, where they are updated, too.
AbortUpdate(p) ==
  /\ process[p].at = "updated"
  /\ Goes(p, "leaving")
  /\ UNCHANGED <<copy, upstream, lock, dismissed, commands, before, noted>>

Unlock(p) ==
  /\ process[p].at = "leaving"
  /\ lock' = FALSE
  /\ process' = [process EXCEPT ![p] = Idle]
  /\ UNCHANGED <<copy, upstream, dismissed, commands, before, noted>>

Apply(p) ==
  \/ Look(p) \/ TakeLock(p) \/ SaveBackup(p) \/ Fetch(p) \/ Fails(p)
  \/ UpdatePath(p) \/ CommitUpdate(p) \/ AbortUpdate(p) \/ Unlock(p)

-----------------------------------------------------------------------------
(***************************************************************************)
(* rollback and dismiss.                                                   *)
(***************************************************************************)
\* Fault: the branches are sorted by date, the oldest first.
Oldest == CHOOSE v \in DOMAIN branches :
  \A w \in DOMAIN branches : branches[v] <= branches[w]

\* The branch whose commit is the latest; equal ones have the same commit.
Latest == CHOOSE v \in DOMAIN branches :
  \A w \in DOMAIN branches : branches[v] >= branches[w]

\* Without a backup branch the command ends.
ChooseBackup(p) ==
  /\ Starts(p)
  /\ IF branches = <<>> THEN EndsAtOnce
     ELSE Begins(p, [at |-> "restoring", commit |-> branches[Latest],
                     todo |-> SystemPaths])
  /\ UNCHANGED <<copy, upstream, lock, dismissed, before>>

RestorePath(p) ==
  /\ process[p].at = "restoring"
  /\ Checkout(p, log[process[p].commit], "restored")
  /\ UNCHANGED <<log, branches, fetched, upstream, lock, dismissed, commands, before>>

CommitRollback(p) ==
  /\ process[p].at = "restored"
  /\ log' \in {Commit, log}
  /\ process' = [process EXCEPT ![p] = Idle]
  /\ UNCHANGED <<tree, branches, fetched, upstream, lock, dismissed, commands, before, noted>>

Rollback(p) == ChooseBackup(p) \/ RestorePath(p) \/ CommitRollback(p)

Dismiss(p) ==
  /\ Starts(p)
  /\ dismissed' = TRUE
  /\ UNCHANGED <<copy, upstream, lock, process, before, noted>>

-----------------------------------------------------------------------------
\* The tool gives up after 300 seconds and kills the process: no finally.
Kill(p) ==
  /\ process[p] # Idle
  /\ process' = [process EXCEPT ![p] = Idle]
  /\ UNCHANGED <<copy, upstream, lock, dismissed, commands, before, noted>>

\* "Delete manually if stuck": the operator cannot see whether an apply works.
RemoveLock ==
  /\ lock
  /\ lock' = FALSE
  /\ noted' = noted \cup (IF Applying # {} THEN {"removed"} ELSE {})
  /\ UNCHANGED <<copy, upstream, dismissed, process, commands, before>>

Release ==
  /\ upstream < MaxVersion
  /\ upstream' = upstream + 1
  /\ UNCHANGED <<copy, lock, dismissed, process, commands, before, noted>>

Next ==
  \/ \E p \in Processes : Apply(p) \/ Rollback(p) \/ Dismiss(p) \/ Kill(p)
  \/ RemoveLock \/ Release

Spec == Init /\ [][Next]_vars

-----------------------------------------------------------------------------
(***************************************************************************)
(* Properties.                                                             *)
(***************************************************************************)
\* Two updates work at once only after two of them looked for the lock before
\* either had written it, or after the operator deleted the lock of one that was
\* not stuck; an apply that is refused, fails or is killed leaves the lock to
\* the one that holds it (update-system.py:192-196, 261).
AppliesApart ==
  Cardinality(Applying) > 1 => noted \cap {"raced", "removed"} # {}

\* The release r of a file, unless it is later than v.
Kept(r, v) == IF r <= v THEN r ELSE Missing

\* A rollback puts every file back to what was committed when the last apply had
\* come to its backup, and only files of later releases stay beside them,
\* whatever of that apply was carried out and however often updates and rollbacks
\* were cut off, as long as no command worked beside another, no git branch or
\* checkout failed and no apply began on an update that was never committed
\* (update-system.py:200-216, 264-292: the backup branch is named for the version
\* of the working copy but holds the last commit, one that exists is kept, and a
\* failure of git branch is taken for that).
RollbackReturns ==
  noted \cap {"overlapped", "uncommitted", "failed"} = {} =>
    \A p \in Processes : process[p].at = "restored" =>
      LET v == before["VERSION"] IN
      \A f \in SystemFiles : Kept(tree[f], v) = Kept(before[f], v)
=============================================================================
