--------------------------- MODULE AgentWorkspace ---------------------------
(***************************************************************************)
(* The git worktrees of the agent runner: a run prepares the worktree of   *)
(* its execution, lets the agent work in it, and publishes what it takes   *)
(* for allowed.  Each step is one git command or one callback; a run may   *)
(* die between two of them, runs of one execution may overlap (the         *)
(* runner's locks are by execution), and a worktree may be cleaned at any  *)
(* time.  Agents only add work, on the branch they find.                   *)
(***************************************************************************)
EXTENDS FiniteSets

CONSTANTS
  Publishers,     \* calls of prepare_publish_and_request_draft
  RefOf,          \* the worktree of the execution of each run
  BranchOf,       \* its branch
  Files,          \* files the agent may touch ...
  Allowed         \* ... and those of the approved scope

Worktrees == {RefOf[r] : r \in Publishers}
Branches == {BranchOf[r] : r \in Publishers}

(* Path and branch are both taken from the execution of the run.           *)
ASSUME WorkspaceAssumption ==
  \A r, s \in Publishers : RefOf[r] = RefOf[s] => BranchOf[r] = BranchOf[s]

VARIABLES
  branch,         \* local branches: what their commits changed, {} of none
  remote,         \* branches of the remote: the files their commits changed
  worktree,       \* worktrees: branch, edited files and index, {} of none
  draft,          \* branches: the files of the commit their draft names
  publisher,      \* the runs: next step, the files of its status or commit
  slipped         \* history: files that agents gave git past any status

wvars == <<branch, remote, worktree, draft, publisher, slipped>>

(* What an index or a branch changes.  git takes a file that is gone and   *)
(* one that is new for one that moved, when they are alike; it then shows  *)
(* the new name only.  Which pairs are alike is not modelled: old holds    *)
(* the names that are not shown, and each has a shown one beside it.       *)
Changes(files) ==
  { [files |-> files, old |-> old] :
      old \in { S \in SUBSET files :
                  \E new \in [S -> files \ S] : \A f, g \in S : new[f] = new[g] => f = g } }
Unchanged == [files |-> {}, old |-> {}]
Touched(S) == UNION {c.files : c \in S}
ShownIn(S) == UNION {c.files \ c.old : c \in S}

None == {}
NotPublishing == [pc |-> "rest", files |-> {}]
Tree(r) == CHOOSE w \in worktree[RefOf[r]] : TRUE
HasTree(r) == worktree[RefOf[r]] # None
Commits(b) == Touched(branch[b])
Index(r) == Tree(r).index.files

(* _changed_files: `git status --porcelain`, of a rename the new name.     *)
ChangedFiles(v) == v.dirty \cup ShownIn({v.index})

WorkspaceInit ==
  /\ branch = [b \in Branches |-> None]
  /\ remote = [b \in Branches |-> None]
  /\ worktree = [w \in Worktrees |-> None]
  /\ draft = [b \in Branches |-> None]
  /\ publisher = [r \in Publishers |-> NotPublishing]
  /\ slipped = [b \in Branches |-> {}]

Proceeds(r, pc) == publisher' = [publisher EXCEPT ![r].pc = pc]
Returns(r) == publisher' = [publisher EXCEPT ![r] = NotPublishing]
Knows(r, pc, files) == publisher' = [publisher EXCEPT ![r] = [pc |-> pc, files |-> files]]

-----------------------------------------------------------------------------
(* A call begins; paths that leave the repository and a base that does not *)
(* exist are refused before any effect.                                    *)
Prepare(r) ==
  /\ publisher[r] = NotPublishing
  /\ Proceeds(r, "branch")
  /\ UNCHANGED <<branch, remote, worktree, draft, slipped>>

(* _ensure_branch_compatible: what `git diff --name-only` shows of the     *)
(* branch is in scope.                                                     *)
CheckBranch(r) ==
  /\ publisher[r].pc = "branch"
  /\ IF ShownIn(branch[BranchOf[r]]) \subseteq Allowed THEN Proceeds(r, "worktree") ELSE Returns(r)
  /\ UNCHANGED <<branch, remote, worktree, draft, slipped>>

(* _ensure_worktree: a clean worktree of the same branch is used again;    *)
(* `git worktree add -b` fails when the branch exists.                     *)
EnsureWorktree(r) ==
  LET b == BranchOf[r] IN
  /\ publisher[r].pc = "worktree"
  /\ \/ /\ HasTree(r)
        /\ IF Tree(r).branch = b /\ ChangedFiles(Tree(r)) = {} THEN Proceeds(r, "mutate") ELSE Returns(r)
        /\ UNCHANGED <<branch, worktree>>
     \/ /\ ~HasTree(r) /\ branch[b] # None
        /\ Returns(r)
        /\ UNCHANGED <<branch, worktree>>
     \/ /\ ~HasTree(r) /\ branch[b] = None
        /\ branch' = [branch EXCEPT ![b] = {Unchanged}]
        /\ worktree' = [worktree EXCEPT ![RefOf[r]] =
                          {[branch |-> b, dirty |-> {}, index |-> Unchanged]}]
        /\ Proceeds(r, "mutate")
  /\ UNCHANGED <<remote, draft, slipped>>

-----------------------------------------------------------------------------
(* The agent at work, in the callback mutate: it edits files, and may give *)
(* them to git by itself (git add, git mv, git commit).                    *)
Edit(r) ==
  /\ publisher[r].pc = "mutate"
  /\ HasTree(r)
  /\ \E f \in Files :
       worktree' = [worktree EXCEPT ![RefOf[r]] = {[Tree(r) EXCEPT !.dirty = @ \cup {f}]}]
  /\ UNCHANGED <<branch, remote, draft, publisher, slipped>>

(* Edited files enter the index, which then is c.                          *)
ToIndex(r, files, c) ==
  worktree' = [worktree EXCEPT ![RefOf[r]] =
                 {[Tree(r) EXCEPT !.dirty = @ \ files, !.index = c]}]
(* The index becomes a commit of the branch of the worktree.               *)
ToBranch(r) ==
  LET b == Tree(r).branch IN
  /\ \E c \in Changes(Commits(b) \cup Index(r)) : branch' = [branch EXCEPT ![b] = {c}]
  /\ ToIndex(r, {}, Unchanged)

(* No status will show these files to the run that publishes them.         *)
Slip(r, files) == slipped' = [slipped EXCEPT ![BranchOf[r]] = @ \cup (files \ Allowed)]
PastStatus(w) == \E s \in Publishers : RefOf[s] = w /\ publisher[s].pc \in {"add", "commit"}

(* git add, git mv: the status of a run that is past it does not show      *)
(* them, and no status shows the old name of a rename.                     *)
Stage(r) ==
  /\ publisher[r].pc = "mutate"
  /\ HasTree(r)
  /\ \E files \in SUBSET Tree(r).dirty \ {{}} : \E c \in Changes(Index(r) \cup files) :
       /\ ToIndex(r, files, c)
       /\ Slip(r, c.old \cup IF PastStatus(RefOf[r]) THEN files ELSE {})
  /\ UNCHANGED <<branch, remote, draft, publisher>>

(* git commit: a status shows what is not committed.                       *)
AgentCommits(r) ==
  /\ publisher[r].pc = "mutate"
  /\ HasTree(r) /\ Index(r) # {}
  /\ ToBranch(r)
  /\ Slip(r, Index(r))
  /\ UNCHANGED <<remote, draft, publisher>>

AgentReturns(r) ==
  /\ publisher[r].pc = "mutate"
  /\ Proceeds(r, "status")
  /\ UNCHANGED <<branch, remote, worktree, draft, slipped>>

-----------------------------------------------------------------------------
(* `git status`: files out of scope stop the run and stay where they are;  *)
(* without a change there is nothing to publish.                           *)
CheckScopeOfRun(r) ==           \* mutant: what is out of scope is only left out of the list
  /\ publisher[r].pc = "status"
  /\ HasTree(r)
  /\ IF ChangedFiles(Tree(r)) # {} THEN Knows(r, "add", ChangedFiles(Tree(r)) \cap Allowed) ELSE Returns(r)
  /\ UNCHANGED <<branch, remote, worktree, draft, slipped>>
CheckScope(r) ==
  LET changed == ChangedFiles(Tree(r)) IN
  /\ publisher[r].pc = "status"
  /\ HasTree(r)
  /\ IF changed # {} /\ changed \subseteq Allowed THEN Knows(r, "add", changed) ELSE Returns(r)
  /\ UNCHANGED <<branch, remote, worktree, draft, slipped>>

(* `git add -- <changed>`: the files of the status, not what was touched   *)
(* since.                                                                  *)
AddAll(r) ==                    \* mutant: git add -A
  /\ publisher[r].pc = "add"
  /\ HasTree(r)
  /\ \E c \in Changes(Index(r) \cup Tree(r).dirty) : ToIndex(r, Tree(r).dirty, c)
  /\ Proceeds(r, "commit")
  /\ UNCHANGED <<branch, remote, draft, slipped>>
Add(r) ==
  LET files == publisher[r].files \cap Tree(r).dirty IN
  /\ publisher[r].pc = "add"
  /\ HasTree(r)
  /\ \E c \in Changes(Index(r) \cup files) : ToIndex(r, files, c)
  /\ Proceeds(r, "commit")
  /\ UNCHANGED <<branch, remote, draft, slipped>>

(* `git commit`: the whole index; a commit of nothing fails.               *)
Commit(r) ==
  /\ publisher[r].pc = "commit"
  /\ HasTree(r)
  /\ IF Index(r) = {} THEN Returns(r) /\ UNCHANGED <<branch, worktree>>
                      ELSE ToBranch(r) /\ Proceeds(r, "head")
  /\ UNCHANGED <<remote, draft, slipped>>

(* `git rev-parse HEAD`: the commit the draft will name.                   *)
ReadHead(r) ==
  /\ publisher[r].pc = "head"
  /\ HasTree(r)
  /\ Knows(r, "push", Commits(BranchOf[r]))
  /\ UNCHANGED <<branch, remote, worktree, draft, slipped>>

(* `git push HEAD:<branch>`; a failed push leaves the commit.              *)
PushLater(r) ==                 \* mutant: the draft does not wait for the push
  /\ publisher[r].pc = "push"
  /\ Proceeds(r, "draft")
  /\ UNCHANGED <<branch, remote, worktree, draft, slipped>>
Push(r) ==
  LET b == BranchOf[r] IN
  /\ publisher[r].pc = "push"
  /\ HasTree(r)
  /\ \/ /\ remote' = [remote EXCEPT ![b] = Commits(b)]
        /\ Proceeds(r, "draft")
     \/ /\ Returns(r)
        /\ UNCHANGED remote
  /\ UNCHANGED <<branch, worktree, draft, slipped>>

CreateDraft(r) ==
  /\ publisher[r].pc = "draft"
  /\ draft' = [draft EXCEPT ![BranchOf[r]] = publisher[r].files]
  /\ Returns(r)
  /\ UNCHANGED <<branch, remote, worktree, slipped>>

(* cleanup_execution: a worktree of which the status shows anything is     *)
(* refused, and the branch is kept.                                        *)
CleanupForced(w) ==             \* mutant: git worktree remove --force
  /\ worktree[w] # None
  /\ worktree' = [worktree EXCEPT ![w] = None]
  /\ UNCHANGED <<branch, remote, draft, publisher, slipped>>
Cleanup(w) ==
  /\ worktree[w] # None
  /\ \A v \in worktree[w] : ChangedFiles(v) = {}
  /\ worktree' = [worktree EXCEPT ![w] = None]
  /\ UNCHANGED <<branch, remote, draft, publisher, slipped>>

(* The run dies, or a command fails: its worktree is gone, or git refuses  *)
(* (a file to add that is gone from the index too, a lock of the index).   *)
PublisherDies(r) ==
  /\ publisher[r] # NotPublishing
  /\ Returns(r)
  /\ UNCHANGED <<branch, remote, worktree, draft, slipped>>

WorkspaceNext ==
  \/ \E r \in Publishers :
       \/ Prepare(r) \/ CheckBranch(r) \/ EnsureWorktree(r)
       \/ Edit(r) \/ Stage(r) \/ AgentCommits(r) \/ AgentReturns(r)
       \/ CheckScope(r) \/ Add(r) \/ Commit(r) \/ ReadHead(r) \/ Push(r) \/ CreateDraft(r)
       \/ PublisherDies(r)
  \/ \E w \in Worktrees : Cleanup(w)

WorkspaceSpec == WorkspaceInit /\ [][WorkspaceNext]_wvars

-----------------------------------------------------------------------------
(* Properties *)

(* What docs/specs/14-esteira-agentes-supervisionada.md asks for: commit   *)
(* and push hold only files of the approved scope.  The code does not keep *)
(* it: `git commit` takes the whole index, and the status names only the   *)
(* new side of a rename (AgentWorkspaceScope.cfg).                         *)
PublishedInScope == \A b \in Branches : remote[b] \subseteq Allowed

(* What does hold: the runner adds nothing out of scope by itself.  Such a *)
(* file reaches the remote only when an agent gave it to git where no      *)
(* status could see it: after the status of a run that has not committed,  *)
(* as the old name of a rename, or in a commit of its own.  A file that is *)
(* only edited, or staged before the status under a name that it shows, is *)
(* never published.                                                        *)
OnlySlippedLeavesScope == \A b \in Branches : remote[b] \ Allowed \subseteq slipped[b]

(* A draft names a commit the remote already has.                          *)
DraftIsPushed == \A b \in Branches : draft[b] \subseteq remote[b]

(* What the agent wrote, edited or staged, leaves a worktree only as a     *)
(* commit of its branch: no cleanup and no later run throws it away, old   *)
(* names that the status hides included.                                   *)
Work(v) == v.dirty \cup v.index.files
WorkIsKept ==
  \A w \in Worktrees : \A v \in worktree[w] :
    \A f \in Work(v) :
      \/ \E u \in worktree'[w] : f \in Work(u)
      \/ f \in Touched(branch'[v.branch])

(* The work of an agent reaches the remote past the scope only in the ways *)
(* no status sees, is pushed before its draft is asked for, and is never   *)
(* lost on the way, with several runs at work in one worktree and on one   *)
(* branch.                                                                 *)
WorkIsSafe == [][OnlySlippedLeavesScope' /\ DraftIsPushed' /\ WorkIsKept]_wvars
=============================================================================
