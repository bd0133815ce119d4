----------------------------- MODULE StudyInputs -----------------------------
(***************************************************************************)
(* What an installed A/B study runs on: the checks that bind its case      *)
(* catalogs, its plugin and its broker before they are used (main,         *)
(* verifyStudyConfiguration, verifiedPluginHash, stagePortablePluginTree,  *)
(* validateBroker and stageVerifiedBroker of                               *)
(* evals/studies/installed-ab/run.go), one read of the file system a step, *)
(* beside somebody who edits the checkout, commits and rebuilds the broker.*)
(*                                                                         *)
(* A content stands for the mode and the bytes of a regular file, a tree   *)
(* for what a commit or a worktree holds, a hash for what it is taken of.  *)
(***************************************************************************)
EXTENDS Naturals, Sequences, FiniteSets, SequencesExt

CONSTANTS
    Catalogs,     \* cases.json and gates.json, in the order they are verified
    PluginOrder,  \* plugins/megapowers: the possible files, in the order of a walk
    Contents,     \* what a regular file can hold
    Link,         \* what is there is not a regular file
    Absent,       \* no such file, nothing read yet
    Brokers,      \* broker executables
    Pin,          \* the one --broker-sha256 names
    StudyArms,    \* bound: arms in the schedule
    MaxEdits      \* bound: edits of the checkout and of the broker

VARIABLES
    head,      \* the tree of HEAD
    heads,     \* history: every tree that was HEAD
    worktree,  \* the checkout
    broker,    \* the file at --sandbox-broker
    edits,     \* edits made
    pc,        \* the next read of the runner
    study      \* what the runner has read

inputVars == <<head, heads, worktree, broker, edits, pc, study>>

ASSUME InputsConstants ==
    /\ Catalogs \in Seq(ToSet(Catalogs)) /\ Catalogs # << >>
    /\ PluginOrder \in Seq(ToSet(PluginOrder))
    /\ Pin \in Brokers
    /\ StudyArms \in Nat /\ MaxEdits \in Nat

PluginFiles == ToSet(PluginOrder)
Paths == ToSet(Catalogs) \cup PluginFiles
Tree == [Paths -> Contents \cup {Link, Absent}]

\* The plugin of a tree: its files and what they hold.
Plugin(tree) == [f \in {g \in PluginFiles : tree[g] # Absent} |-> tree[f]]

-----------------------------------------------------------------------------
(* The runner *)

Study ==
    [index : 1..Len(Catalogs) + 1,        \* the catalog it is at
     want : Tree \cup {Absent},           \* git ls-tree, read once per check
     loaded : [ToSet(Catalogs) -> Contents \cup {Absent}],
     names : SUBSET PluginFiles,          \* the names a walk still has to visit
     hashed : [PluginFiles -> Contents \cup {Absent}],
     staged : [PluginFiles -> Contents \cup {Absent}],
     arm : 0..StudyArms,
     ran : Brokers \cup {Absent}]         \* the broker of the arm under way

Nothing == [f \in PluginFiles |-> Absent]

Go(next) == pc' = next
Refuse == Go("refused") /\ UNCHANGED study

\* verifyRegularFileAtHEAD: what HEAD has, then what the checkout has.
ListCatalog ==
    /\ pc = "list"
    /\ IF head[Catalogs[study.index]] \in {Absent, Link}
       THEN Refuse
       ELSE study' = [study EXCEPT !.want = head] /\ Go("read")

ReadCatalog ==
    /\ pc = "read"
    /\ LET path == Catalogs[study.index]
           last == study.index = Len(Catalogs) IN
         IF worktree[path] # study.want[path]
         THEN Refuse
         ELSE /\ study' = [study EXCEPT !.index = IF last THEN 1 ELSE @ + 1]
              /\ Go(IF last THEN "load" ELSE "list")

\* loadConfiguration opens the paths again.
LoadCatalog ==
    /\ pc = "load"
    /\ LET path == Catalogs[study.index]
           last == study.index = Len(Catalogs) IN
         IF worktree[path] \in {Absent, Link}
         THEN Refuse
         ELSE /\ study' = [study EXCEPT !.loaded[path] = worktree[path],
                                        !.index = @ + 1]
              /\ Go(IF last THEN "broker" ELSE "load")

ValidateBroker ==
    /\ pc = "broker"
    /\ IF broker # Pin THEN Refuse ELSE Go("tree") /\ UNCHANGED study

\* verifiedPluginHash: every committed entry is a regular file, and there is one.
ListPlugin ==
    /\ pc = "tree"
    /\ LET committed == {f \in PluginFiles : head[f] # Absent} IN
         IF committed = {} \/ \E f \in committed : head[f] = Link
         THEN Refuse
         ELSE study' = [study EXCEPT !.want = head] /\ Go("open")

\* A walk reads the names of a directory, then each of them in their order.
OpenPlugin ==
    /\ pc \in {"open", "reopen"}
    /\ study' = [study EXCEPT !.names = {f \in PluginFiles : worktree[f] # Absent}]
    /\ Go(IF pc = "open" THEN "walk" ELSE "copy")

IsNext(f) ==
    /\ f \in study.names
    /\ \E i \in DOMAIN PluginOrder :
         PluginOrder[i] = f /\ \A j \in 1..i - 1 : PluginOrder[j] \notin study.names

HashFile ==
    /\ pc = "walk"
    /\ \E f \in PluginFiles :
         /\ IsNext(f)
         /\ IF worktree[f] \in {Absent, Link} \/ worktree[f] # study.want[f]
            THEN Refuse
            ELSE /\ study' = [study EXCEPT !.hashed[f] = worktree[f], !.names = @ \ {f}]
                 /\ UNCHANGED pc

\* Mutant: a committed file that is gone from the checkout is not looked for.
HashedUnsought ==
    /\ pc = "walk"
    /\ study.names = {}
    /\ Go("reopen")
    /\ UNCHANGED study

Hashed ==
    /\ pc = "walk"
    /\ study.names = {}
    /\ IF \E f \in PluginFiles : study.want[f] # Absent /\ study.hashed[f] = Absent
       THEN Refuse
       ELSE Go("reopen") /\ UNCHANGED study

\* stagePortablePluginTree: the copy the actors get, and its hash.
CopyFile ==
    /\ pc = "copy"
    /\ \E f \in PluginFiles :
         /\ IsNext(f)
         /\ IF worktree[f] \in {Absent, Link}
            THEN Refuse
            ELSE /\ study' = [study EXCEPT !.staged[f] = worktree[f], !.names = @ \ {f}]
                 /\ UNCHANGED pc

Staged ==
    /\ pc = "copy"
    /\ study.names = {}
    /\ IF study.staged # study.hashed THEN Refuse ELSE Go("arm") /\ UNCHANGED study

\* stageVerifiedBroker copies the file for each arm and hashes the copy.
\* Mutant: the pin is checked once, at the start.
StartArmUnpinned ==
    /\ pc = "arm"
    /\ study.arm < StudyArms
    /\ study' = [study EXCEPT !.arm = @ + 1, !.ran = broker]
    /\ Go("actor")

StartArm ==
    /\ pc = "arm"
    /\ study.arm < StudyArms
    /\ IF broker # Pin
       THEN Refuse
       ELSE study' = [study EXCEPT !.arm = @ + 1, !.ran = broker] /\ Go("actor")

\* The arm ends and its copy of the broker is removed.
EndArm ==
    /\ pc = "actor"
    /\ study' = [study EXCEPT !.ran = Absent]
    /\ Go("arm")

Runner ==
    /\ \/ ListCatalog \/ ReadCatalog \/ LoadCatalog \/ ValidateBroker
       \/ ListPlugin \/ OpenPlugin \/ HashFile \/ Hashed \/ CopyFile \/ Staged
       \/ StartArm \/ EndArm
    /\ UNCHANGED <<head, heads, worktree, broker, edits>>

-----------------------------------------------------------------------------
(* Everybody else *)

Edit ==
    /\ \E f \in Paths, content \in Contents \cup {Link, Absent} :
         /\ f \in ToSet(Catalogs) => content # Link
         /\ worktree' = [worktree EXCEPT ![f] = content]
    /\ UNCHANGED <<head, heads, broker>>

Commit ==
    /\ head' = worktree
    /\ heads' = heads \cup {worktree}
    /\ UNCHANGED <<worktree, broker>>

Rebuild ==
    /\ broker' \in Brokers
    /\ UNCHANGED <<head, heads, worktree>>

Others ==
    /\ edits < MaxEdits
    /\ edits' = edits + 1
    /\ Edit \/ Commit \/ Rebuild
    /\ UNCHANGED <<pc, study>>

InputsInit ==
    /\ head \in [Paths -> Contents \cup {Absent}]
    /\ \A c \in ToSet(Catalogs) : head[c] # Absent
    /\ heads = {head}
    /\ worktree = head
    /\ broker = Pin
    /\ edits = 0
    /\ pc = "list"
    /\ study = [index |-> 1, want |-> Absent,
                loaded |-> [c \in ToSet(Catalogs) |-> Absent], names |-> {},
                hashed |-> Nothing, staged |-> Nothing, arm |-> 0, ran |-> Absent]

InputsNext == Runner \/ Others

InputsSpec == InputsInit /\ [][InputsNext]_inputVars

-----------------------------------------------------------------------------
(* Properties *)

\* Every variable stays in its set, and a broker runs only while an arm does.
InputsTypeOK ==
    /\ head \in Tree
    /\ \A tree \in heads : tree \in Tree
    /\ worktree \in Tree
    /\ broker \in Brokers
    /\ edits \in 0..MaxEdits
    /\ pc \in {"list", "read", "load", "broker", "tree", "open", "walk", "reopen", "copy", "arm",
               "actor", "refused"}
    /\ study \in Study
    /\ pc = "arm" => study.ran = Absent

\* The plugin the actors get is, file for file, the plugin of one commit that was
\* HEAD: edits and commits while its tree is listed, hashed and copied cannot mix two
\* trees, add an untracked file or lose one (verifiedPluginHash, stagePortablePluginTree).
StagedPluginIsCommitted ==
    pc \in {"arm", "actor"} =>
      \E tree \in heads : Plugin(tree) = [f \in {g \in PluginFiles : study.staged[g] # Absent}
                                            |-> study.staged[f]]

\* Every arm runs the broker the operator pinned, whatever is at its path by then
\* (stageVerifiedBroker).
ArmsRunPinnedBroker == study.ran \in {Pin, Absent}
==============================================================================
