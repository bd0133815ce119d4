------------------------------- MODULE Lanes -------------------------------
(***************************************************************************)
(* Lanes: worktrees of parallel workers whose changes the lead integrates  *)
(* as patches (extras/scripts/orchestrating/lanes.go).                     *)
(*                                                                         *)
(* Every command is a process of the lead and runs git several times; the  *)
(* workers of the lanes and the lead keep editing in between, and a        *)
(* command may be killed between two of its steps.  One command runs at a  *)
(* time (the lead is the single writer, lines 39-41).                      *)
(*                                                                         *)
(* Abstractions.  A tree is a function from Files to Texts, and a file     *)
(* that does not exist has a text of its own.  A patch applies to a file   *)
(* as a whole: git apply --check wants the text the patch starts from.     *)
(* Commits of a worker are not told from its uncommitted edits, because    *)
(* the patch is taken from the worktree.  `lanes` sorts by name; here any  *)
(* order is allowed.                                                       *)
(***************************************************************************)
EXTENDS Naturals, FiniteSets

CONSTANTS
    LaneNames,  \* names a lane can have
    Files,      \* paths of the repository
    Texts,      \* contents of a file, the absent one included
    Original,   \* the text every file has in the first commit
    Fenced,     \* paths the workers of all lanes may change
    NoTree,     \* no recorded base
    MaxEdits    \* bound: edits and commits of workers and lead

\* What is asked of the constants: no tree is taken for none.
LanesConstants ==
    /\ IsFiniteSet(LaneNames) /\ MaxEdits \in Nat
    /\ Original \in Texts /\ NoTree \notin [Files -> Texts]

VARIABLES
    lead,      \* the lead's worktree
    commits,   \* the trees of the lead's commits
    exists,    \* lanes whose worktree is registered with git
    base,      \* the tree the base file of a lane names
    work,      \* the worktree of a lane
    ignored,   \* lanes whose worktree holds ignored files
    command,   \* the running command and its locals
    edits,     \* edits so far
    \* History, for the properties.
    added,     \* lanes whose `add` reported success and that still exist
    stale,     \* files somebody edited since the command read the patch
    fresh,     \* ignored files came up since the command looked for them
    vouched,   \* lanes the last `check` passed as unapplied; since then nothing was edited
               \* and no other lane applied
    inside     \* lanes that passed the fence, not edited since

repository == <<lead, commits, exists, base, work, ignored>>
history    == <<added, stale, fresh, vouched, inside>>
lanesVars  == <<repository, command, edits, history>>

Trees   == [Files -> Texts]
Patches == [from : Trees, to : Trees]

Changed(patch) == {f \in Files : patch.from[f] # patch.to[f]}
Patch(l)       == [from |-> base[l], to |-> work[l]]

\* Lanes `lanes` finds: registered, under the root, with a readable base file.
Managed == {l \in exists : base[l] # NoTree}

\* Does git apply --check, or git apply --check --reverse, succeed?
Applies(patch, tree)  == \A f \in Changed(patch) : tree[f] = patch.from[f]
Reverses(patch, tree) == \A f \in Changed(patch) : tree[f] = patch.to[f]

\* Mutant: the reverse check asked first.
ReverseFirst(patch, tree) ==
    CASE Changed(patch) = {}                                            -> "empty"
      [] Changed(patch) # {} /\ \E f \in Changed(patch) : tree[f] = patch.to[f] -> "applied"
      [] OTHER -> IF Applies(patch, tree) THEN "clean" ELSE "conflicts"

State(patch, tree) ==
    CASE Changed(patch) = {}      -> "empty"
      [] Changed(patch) # {} /\ Applies(patch, tree) -> "clean"
      [] Changed(patch) # {} /\ ~Applies(patch, tree) /\ Reverses(patch, tree) -> "applied"
      [] OTHER                    -> "conflicts"

Applied(patch, tree) == [f \in Files |-> IF f \in Changed(patch) THEN patch.to[f] ELSE tree[f]]

Steps == {"AddWorktree", "RecordBase", "ReadPatch", "ReadTouched", "Overlap",
          "Judge", "ListIgnored", "Write", "RemoveWorktree"}

\* owners is check's map from file to lane names; ok is exit code 0 so far.
Idle == [op |-> "none"]
Commands ==
    {Idle}
      \cup [op : {"add"}, step : Steps, lane : LaneNames, tree : Trees]
      \cup [op : {"apply"}, step : Steps, lane : LaneNames,
            patch : Patches \cup {NoTree}, inside : BOOLEAN]
      \cup [op : {"remove"}, step : Steps, lane : LaneNames,
            patch : Patches \cup {NoTree}, discard : BOOLEAN]
      \cup [op : {"check"}, step : Steps, todo : SUBSET LaneNames, lane : LaneNames \cup {NoTree},
            patch : Patches \cup {NoTree}, owners : [Files -> SUBSET LaneNames],
            unapplied : SUBSET LaneNames, ok : BOOLEAN, calm : BOOLEAN]

LanesInit ==
    /\ lead = [f \in Files |-> Original]
    /\ commits = {lead}
    /\ exists = {}
    /\ base = [l \in LaneNames |-> NoTree]
    /\ work = [l \in LaneNames |-> lead]
    /\ ignored = {}
    /\ command = Idle
    /\ edits = 0
    /\ added = {} /\ stale = {} /\ fresh = FALSE /\ vouched = {} /\ inside = {}

----------------------------------------------------------------------------
(* Workers and lead                                                        *)

\* `check` vouches only for lanes nobody touched while it ran.
Restless == IF command.op = "check" THEN [command EXCEPT !.calm = FALSE] ELSE command

EditLane(l, f, t) ==
    /\ l \in exists /\ work[l][f] # t /\ edits < MaxEdits
    /\ work' = [work EXCEPT ![l][f] = t]
    /\ stale' = stale \cup {f}
    /\ vouched' = {} /\ inside' = inside \ {l}
    /\ command' = Restless
    /\ edits' = edits + 1
    /\ UNCHANGED <<lead, commits, exists, base, ignored, added, fresh>>

\* A build or a test leaves ignored files behind.
LeaveIgnored(l) ==
    /\ l \in exists \ ignored /\ edits < MaxEdits
    /\ ignored' = ignored \cup {l}
    /\ fresh' = TRUE
    /\ edits' = edits + 1
    /\ UNCHANGED <<lead, commits, exists, base, work, command, added, stale, vouched, inside>>

EditLead(f, t) ==
    /\ lead[f] # t /\ edits < MaxEdits
    /\ lead' = [lead EXCEPT ![f] = t]
    /\ stale' = stale \cup {f}
    /\ vouched' = {}
    /\ command' = Restless
    /\ edits' = edits + 1
    /\ UNCHANGED <<commits, exists, base, work, ignored, added, fresh, inside>>

CommitLead ==
    /\ lead \notin commits /\ edits < MaxEdits
    /\ commits' = commits \cup {lead}
    /\ edits' = edits + 1
    /\ UNCHANGED <<lead, exists, base, work, ignored, command, history>>

----------------------------------------------------------------------------
(* add                                                                     *)

\* --base names any commit; the path must be free.
StartAdd(l, tree) ==
    /\ command = Idle
    /\ tree \in commits /\ l \notin exists
    /\ command' = [op |-> "add", step |-> "AddWorktree", lane |-> l, tree |-> tree]
    /\ UNCHANGED <<repository, edits, history>>

AddWorktree ==
    /\ command.op = "add" /\ command.step = "AddWorktree"
    /\ exists' = exists \cup {command.lane}
    /\ work' = [work EXCEPT ![command.lane] = command.tree]
    /\ command' = [command EXCEPT !.step = "RecordBase"]
    /\ UNCHANGED <<lead, commits, base, ignored, edits, history>>

RecordBase ==
    /\ command.op = "add" /\ command.step = "RecordBase"
    /\ base' = [base EXCEPT ![command.lane] = command.tree]
    /\ added' = added \cup {command.lane}
    /\ command' = Idle
    /\ UNCHANGED <<lead, commits, exists, work, ignored, edits, stale, fresh, vouched, inside>>

----------------------------------------------------------------------------
(* check                                                                   *)

StartCheck ==
    /\ command = Idle
    /\ command' = [op |-> "check", step |-> "ReadPatch", todo |-> Managed, lane |-> NoTree,
                   patch |-> NoTree, owners |-> [f \in Files |-> {}],
                   unapplied |-> {}, ok |-> TRUE, calm |-> TRUE]
    /\ UNCHANGED <<repository, edits, history>>

CheckPatch(l) ==
    /\ command.op = "check" /\ command.step = "ReadPatch" /\ l \in command.todo
    /\ command' = [command EXCEPT !.step = "ReadTouched", !.lane = l, !.patch = Patch(l)]
    /\ UNCHANGED <<repository, edits, history>>

\* An applied lane no longer owns anything still in flight.
Owners(owners, l, files, s) ==
    [f \in Files |-> IF f \in files /\ s # "applied" THEN owners[f] \cup {l} ELSE owners[f]]

\* touched asks git again: the worker may have written since the patch.
CheckTouched ==
    /\ command.op = "check" /\ command.step = "ReadTouched"
    /\ LET l == command.lane
           s == State(command.patch, lead)
       IN command' = [command EXCEPT
              !.step = "ReadPatch", !.lane = NoTree, !.patch = NoTree,
              !.todo = @ \ {l},
              !.owners = Owners(@, l, Changed(Patch(l)), s),
              !.unapplied = IF s = "applied" THEN @ ELSE @ \cup {l},
              !.ok = @ /\ s # "conflicts"]
    /\ UNCHANGED <<repository, edits, history>>

Overlap(owners) == {f \in Files : Cardinality(owners[f]) > 1}

FinishCheck ==
    /\ command.op = "check" /\ command.step = "ReadPatch" /\ command.todo = {}
    /\ vouched' = IF command.ok /\ Overlap(command.owners) = {} /\ command.calm
                  THEN command.unapplied ELSE {}
    /\ command' = Idle
    /\ UNCHANGED <<repository, edits, added, stale, fresh, inside>>

----------------------------------------------------------------------------
(* apply                                                                   *)

StartApply(l) ==
    /\ command = Idle /\ l \in Managed
    /\ command' = [op |-> "apply", step |-> "ReadPatch", lane |-> l, patch |-> NoTree,
                   inside |-> FALSE]
    /\ UNCHANGED <<repository, edits, history>>

ApplyPatch ==
    /\ command.op = "apply" /\ command.step = "ReadPatch"
    /\ command' = [command EXCEPT !.step = "Judge", !.patch = Patch(command.lane),
                                  !.inside = command.lane \in inside]
    /\ stale' = {}
    /\ UNCHANGED <<repository, edits, added, fresh, vouched, inside>>

\* "conflicts" and "empty", "applied" end the command with nothing written.
JudgeApply ==
    /\ command.op = "apply" /\ command.step = "Judge"
    /\ command' = IF State(command.patch, lead) = "clean"
                  THEN [command EXCEPT !.step = "Write"] ELSE Idle
    /\ UNCHANGED <<repository, edits, history>>

\* git apply checks every file before it writes one.
WritePatch ==
    /\ command.op = "apply" /\ command.step = "Write"
    /\ lead' = IF Applies(command.patch, lead) THEN Applied(command.patch, lead) ELSE lead
    /\ vouched' = IF command.lane \in vouched THEN vouched ELSE {}
    /\ command' = Idle
    /\ UNCHANGED <<commits, exists, base, work, ignored, edits, added, stale, fresh, inside>>

----------------------------------------------------------------------------
(* remove                                                                  *)

StartRemove(l, discard) ==
    /\ command = Idle /\ l \in Managed
    /\ command' = [op |-> "remove", step |-> "ReadPatch", lane |-> l, patch |-> NoTree,
                   discard |-> discard]
    /\ UNCHANGED <<repository, edits, history>>

RemovePatch ==
    /\ command.op = "remove" /\ command.step = "ReadPatch"
    /\ command' = [command EXCEPT !.step = "Judge", !.patch = Patch(command.lane)]
    /\ stale' = {}
    /\ UNCHANGED <<repository, edits, added, fresh, vouched, inside>>

JudgeRemove ==
    /\ command.op = "remove" /\ command.step = "Judge"
    /\ command' = CASE command.discard -> [command EXCEPT !.step = "RemoveWorktree"]
                    [] ~command.discard /\ State(command.patch, lead) \in {"empty", "applied"} ->
                           [command EXCEPT !.step = "ListIgnored"]
                    [] OTHER -> Idle
    /\ UNCHANGED <<repository, edits, history>>

\* Mutant: the ignored files are not looked at.
ForgetIgnored ==
    /\ command.op = "remove" /\ command.step = "ListIgnored"
    /\ command' = [command EXCEPT !.step = "RemoveWorktree"]
    /\ fresh' = FALSE
    /\ UNCHANGED <<repository, edits, added, stale, vouched, inside>>

ListIgnored ==
    /\ command.op = "remove" /\ command.step = "ListIgnored"
    /\ command' = IF command.lane \in ignored THEN Idle
                  ELSE [command EXCEPT !.step = "RemoveWorktree"]
    /\ fresh' = FALSE
    /\ UNCHANGED <<repository, edits, added, stale, vouched, inside>>

\* git worktree remove --force: the administrative directory and with it the
\* base file go too.
RemoveWorktree ==
    /\ command.op = "remove" /\ command.step = "RemoveWorktree"
    /\ LET l == command.lane IN
       /\ exists' = exists \ {l}
       /\ base' = [base EXCEPT ![l] = NoTree]
       /\ work' = [work EXCEPT ![l] = [f \in Files |-> Original]]
       /\ ignored' = ignored \ {l}
       /\ added' = added \ {l}
       /\ vouched' = vouched \ {l}
       /\ inside' = inside \ {l}
    /\ command' = Idle
    /\ UNCHANGED <<lead, commits, edits, stale, fresh>>

----------------------------------------------------------------------------
(* The fence of a lane, and kills                                          *)

\* fence-check check --base BASE --head LANE --fence ...: exit 0.  The three
\* captured trees of module FenceCheck include the worktree, the one a patch
\* is taken from.
PassFence(l) ==
    /\ command = Idle /\ l \in Managed \ inside
    /\ Changed(Patch(l)) \subseteq Fenced
    /\ inside' = inside \cup {l}
    /\ UNCHANGED <<repository, command, edits, added, stale, fresh, vouched>>

\* A kill or a failing git call.
Kill ==
    /\ command # Idle
    /\ command' = Idle
    /\ UNCHANGED <<repository, edits, history>>

LanesNext ==
    \/ \E l \in LaneNames :
          \/ \E f \in Files, t \in Texts : EditLane(l, f, t)
          \/ LeaveIgnored(l)
          \/ \E tree \in commits : StartAdd(l, tree)
          \/ CheckPatch(l)
          \/ StartApply(l)
          \/ \E discard \in BOOLEAN : StartRemove(l, discard)
          \/ PassFence(l)
    \/ \E f \in Files, t \in Texts : EditLead(f, t)
    \/ CommitLead
    \/ AddWorktree \/ RecordBase
    \/ StartCheck \/ CheckTouched \/ FinishCheck
    \/ ApplyPatch \/ JudgeApply \/ WritePatch
    \/ RemovePatch \/ JudgeRemove \/ ListIgnored \/ RemoveWorktree
    \/ Kill

LanesSpec == LanesInit /\ [][LanesNext]_lanesVars

----------------------------------------------------------------------------
(* Properties                                                              *)

\* Types of all variables.
LanesTypeOK ==
    /\ lead \in Trees
    /\ commits \subseteq Trees
    /\ exists \subseteq LaneNames
    /\ base \in [LaneNames -> Trees \cup {NoTree}]
    /\ work \in [LaneNames -> Trees]
    /\ ignored \subseteq exists
    /\ command \in Commands
    /\ edits \in 0..MaxEdits
    /\ added \subseteq LaneNames
    /\ stale \subseteq Files
    /\ fresh \in BOOLEAN
    /\ vouched \subseteq LaneNames
    /\ inside \subseteq LaneNames

\* A lane whose add reported success stays visible to list, check, apply and
\* remove until it is removed, whatever is killed in between; a worktree they
\* skip has no work of a reported lane in it (lanes, cmdAdd, cmdRemove).
AddedIsManaged == added \subseteq Managed

\* remove without --discard deletes no work: what the worker had changed when
\* the command read the lane is in the lead, and there was no ignored file
\* when it looked.  Edits made while the command runs are not covered
\* (cmdRemove, "refuses unapplied work and ignored files unless --discard").
KeepsWork ==
    \A l \in exists :
      l \notin exists' /\ ~command.discard =>
        /\ \A f \in Files \ stale : work[l][f] # base[l][f] => lead[f] = work[l][f]
        /\ l \in ignored => fresh

\* After a check that exits 0, and as long as nobody edits, every lane it did
\* not report as applied can be applied, in any order and however many of them
\* have been applied before: none comes to be in conflict (cmdCheck).  A lane it
\* did report can become applicable again, when one of the others undoes its
\* change, and undo part of that other lane in turn.
CheckedLanesApply ==
    \A l \in vouched : State(Patch(l), lead) # "conflicts"

\* A lane that passed the fence against its own base and was not edited since
\* changes nothing outside the fence when it is applied, even if the lead has
\* moved on (fence.go check, cmdApply).
StaysInside ==
    command.op = "apply" /\ command.step = "Write" /\ command.inside /\ command' = Idle =>
      \A f \in Files \ Fenced : lead'[f] = lead[f]
=============================================================================
