---------------------------- MODULE ReleasePipeline ----------------------------
(***************************************************************************)
(* From a tag to the release branch that installs track:                   *)
(* .github/workflows/release.yml and the commands of scripts/cmd/ci that   *)
(* its jobs run.                                                           *)
(*                                                                         *)
(* A run has one attest job for each profile of its matrix and a publish   *)
(* job.  Every job clones the repository when it starts; only the Claude   *)
(* smoke test, and the publish job, look at the remote again.  The tag may *)
(* be pushed again at any moment, and every push starts a run.             *)
(***************************************************************************)
EXTENDS Naturals, FiniteSets

CONSTANTS
    Commits, NoCommit,
    Ancestors,      \* of a commit, itself among them
    SignedCommits,
    TagFor,         \* "v" and the version the manifests of a commit declare
    ReleaseTags,
    Profiles,       \* the rows of the matrix: minimum and reviewed
    Works,          \* <<c, p>>: c installs and validates under the CLIs of p
    MaxPipelines, MaxReruns

\* What is asked of the constants.
ReleaseConstants ==
    /\ NoCommit \notin Commits /\ Profiles # {}
    /\ MaxPipelines \in Nat /\ MaxReruns \in Nat

VARIABLES
    tags,       \* the remote tags: their commit, and whether the tag is signed
    branch,     \* refs/heads/release
    pipelines,  \* the runs of the workflow
    artifacts,  \* the attestations uploaded so far
    reruns

releaseVars == <<tags, branch, pipelines, artifacts, reruns>>

IdleJob == [at |-> "queued", head |-> NoCommit]
IdlePublish == [at |-> "waiting", head |-> NoCommit]

NewPipeline(tag, event, expected) ==
    [tag |-> tag, event |-> event, expected |-> expected, sha |-> NoCommit,
     jobs |-> [p \in Profiles |-> IdleJob], publish |-> IdlePublish]

ReleaseInit ==
    /\ tags = [t \in ReleaseTags |-> [commit |-> NoCommit, signed |-> FALSE]]
    /\ branch = NoCommit
    /\ pipelines = << >>
    /\ artifacts = {}
    /\ reruns = 0

StartPipeline(tag, event, expected) ==
    /\ Cardinality(DOMAIN pipelines) < MaxPipelines
    /\ pipelines' = [i \in 1..Cardinality(DOMAIN pipelines) + 1 |->
                       IF i \in DOMAIN pipelines THEN pipelines[i]
                       ELSE NewPipeline(tag, event, expected)]

\* A tag is created, or moved to another commit or replaced by one that is not signed.
PushTag ==
    /\ \E t \in ReleaseTags, c \in Commits, signed \in BOOLEAN :
         /\ tags[t] # [commit |-> c, signed |-> signed]
         /\ tags' = [tags EXCEPT ![t] = [commit |-> c, signed |-> signed]]
         /\ StartPipeline(t, "push", NoCommit)
    /\ UNCHANGED <<branch, artifacts, reruns>>

\* workflow_dispatch attests a tag again, and publishes nothing.
Dispatch ==
    /\ \E t \in ReleaseTags, expected \in Commits \cup {NoCommit} :
         /\ tags[t].commit # NoCommit
         /\ StartPipeline(t, "dispatch", expected)
    /\ UNCHANGED <<tags, branch, artifacts, reruns>>

Job(r, p) == pipelines[r].jobs[p]
SetJob(r, p, job) == pipelines' = [pipelines EXCEPT ![r].jobs[p] = job]

-----------------------------------------------------------------------------
(* attest *)

\* verifyRelease, in the clone the job has just made.
Verified(r, tag) ==
    /\ tag.commit # NoCommit
    /\ pipelines[r].expected \in {NoCommit, tag.commit}
    /\ tag.signed
    /\ tag.commit \in SignedCommits

\* Mutant: the run's output is written before the job has passed.
VerifyAndTell(r, p) ==
    /\ Job(r, p).at = "queued"
    /\ LET tag == tags[pipelines[r].tag] IN
         /\ Verified(r, tag)
         /\ pipelines' = [pipelines EXCEPT ![r].sha = tag.commit,
                            ![r].jobs[p] = [@ EXCEPT !.at = "verified", !.head = tag.commit]]
    /\ UNCHANGED <<tags, branch, artifacts, reruns>>

Verify(r, p) ==
    /\ Job(r, p).at = "queued"
    /\ LET tag == tags[pipelines[r].tag] IN
         /\ Verified(r, tag)
         /\ SetJob(r, p, [Job(r, p) EXCEPT !.at = "verified", !.head = tag.commit])
    /\ UNCHANGED <<tags, branch, artifacts, reruns>>

\* release-smoke for Claude: fetchReleaseSource clones the remote at the tag again, and
\* verifySmokeSource wants the version this job's own manifests declare.
SmokeClaude(r, p) ==
    /\ Job(r, p).at = "verified"
    /\ LET there == tags[pipelines[r].tag].commit IN
         /\ TagFor[there] = TagFor[Job(r, p).head]
         /\ <<there, p>> \in Works
         /\ SetJob(r, p, [Job(r, p) EXCEPT !.at = "smoked"])
    /\ UNCHANGED <<tags, branch, artifacts, reruns>>

\* Validation, the Codex smoke test and the tree's hash are of the job's own clone;
\* emitAttestation wants the tag to be its version's.  The matrix has one output: the last
\* job to end well sets it.
Attest(r, p) ==
    /\ Job(r, p).at = "smoked"
    /\ LET head == Job(r, p).head IN
         /\ <<head, p>> \in Works
         /\ TagFor[head] = pipelines[r].tag
         /\ artifacts' = artifacts \cup {[sha |-> head, profile |-> p, tag |-> pipelines[r].tag]}
         /\ pipelines' = [pipelines EXCEPT ![r].sha = head, ![r].jobs[p].at = "passed"]
    /\ UNCHANGED <<tags, branch, reruns>>

\* Any step of a job that has not passed may fail: a check of it, the network, the runner.
FailJob(r, p) ==
    /\ Job(r, p).at \in {"queued", "verified", "smoked"}
    /\ SetJob(r, p, [IdleJob EXCEPT !.at = "failed"])
    /\ UNCHANGED <<tags, branch, artifacts, reruns>>

-----------------------------------------------------------------------------
(* publish-release-branch *)

Publishing(r) ==
    /\ pipelines[r].event = "push"
    /\ \A p \in Profiles : Job(r, p).at = "passed"

Becomes(r, at) == pipelines' = [pipelines EXCEPT ![r].publish.at = at]

\* fastForwardRelease resolves the tag in its clone: it has to be the attested commit still.
\* Mutant: whatever the tag is by now.
ResolveAny(r) ==
    /\ Publishing(r) /\ pipelines[r].publish.at = "waiting"
    /\ LET head == tags[pipelines[r].tag].commit IN
         pipelines' = [pipelines EXCEPT ![r].publish = [at |-> "resolved", head |-> head]]
    /\ UNCHANGED <<tags, branch, artifacts, reruns>>

Resolve(r) ==
    /\ Publishing(r) /\ pipelines[r].publish.at = "waiting"
    /\ LET head == tags[pipelines[r].tag].commit IN
         IF head = pipelines[r].sha
         THEN pipelines' = [pipelines EXCEPT ![r].publish = [at |-> "resolved", head |-> head]]
         ELSE Becomes(r, "failed")
    /\ UNCHANGED <<tags, branch, artifacts, reruns>>

\* git ls-remote: the first release creates the branch.
LookRemote(r) ==
    /\ pipelines[r].publish.at = "resolved"
    /\ Becomes(r, IF branch = NoCommit THEN "ready" ELSE "found")
    /\ UNCHANGED <<tags, branch, artifacts, reruns>>

FetchRemote(r) ==
    /\ pipelines[r].publish.at = "found"
    /\ Becomes(r, IF branch \in Ancestors[pipelines[r].publish.head] THEN "ready" ELSE "failed")
    /\ UNCHANGED <<tags, branch, artifacts, reruns>>

\* git push without force: the remote refuses what is not a fast-forward of its branch now.
Push(r) ==
    /\ pipelines[r].publish.at = "ready"
    /\ LET head == pipelines[r].publish.head IN
         IF branch \in Ancestors[head] \cup {NoCommit}
         THEN branch' = head /\ Becomes(r, "published")
         ELSE UNCHANGED branch /\ Becomes(r, "failed")
    /\ UNCHANGED <<tags, artifacts, reruns>>

\* A run's failed jobs are run again; the others keep what they did.
Rerun(r) ==
    /\ reruns < MaxReruns
    /\ \/ \E p \in Profiles : Job(r, p).at = "failed"
       \/ pipelines[r].publish.at = "failed"
    /\ reruns' = reruns + 1
    /\ pipelines' = [pipelines EXCEPT
         ![r].jobs = [p \in Profiles |-> IF @[p].at = "failed" THEN IdleJob ELSE @[p]],
         ![r].publish = IF @.at = "failed" THEN IdlePublish ELSE @]
    /\ UNCHANGED <<tags, branch, artifacts>>

ReleaseNext ==
    \/ PushTag \/ Dispatch
    \/ \E r \in DOMAIN pipelines :
         \/ \E p \in Profiles : Verify(r, p) \/ SmokeClaude(r, p) \/ Attest(r, p) \/ FailJob(r, p)
         \/ Resolve(r) \/ LookRemote(r) \/ FetchRemote(r) \/ Push(r) \/ Rerun(r)

ReleaseSpec == ReleaseInit /\ [][ReleaseNext]_releaseVars

-----------------------------------------------------------------------------
(* Properties *)

\* The runs and their jobs; the sha a run tells its publish job is one a job of it passed.
ReleaseTypeOK ==
    /\ branch \in Commits \cup {NoCommit}
    /\ reruns \in 0..MaxReruns
    /\ \A r \in DOMAIN pipelines :
         /\ \A p \in Profiles :
              Job(r, p).at \in {"queued", "verified", "smoked", "passed", "failed"}
         /\ pipelines[r].publish.at \in
              {"waiting", "resolved", "found", "ready", "published", "failed"}
         /\ pipelines[r].sha # NoCommit =>
              \E p \in Profiles : Job(r, p).at = "passed" /\ Job(r, p).head = pipelines[r].sha

\* What installs get was attested: a signed commit, under the tag of its version, that one
\* of the profiles passed, however the tag has moved since and whichever runs race.
InstallsAreAttested ==
    branch # NoCommit =>
      /\ branch \in SignedCommits
      /\ \E a \in artifacts : a.sha = branch /\ a.tag = TagFor[branch]

\* The release branch only ever moves to a descendant, with two runs publishing at once too.
Forward == branch' # branch => branch' # NoCommit /\ branch \in Ancestors[branch'] \cup {NoCommit}

\* What installs get was attested under every profile of the matrix.
InstallsPassedEveryProfile ==
    branch # NoCommit =>
      \A p \in Profiles : \E a \in artifacts : a.sha = branch /\ a.profile = p

=============================================================================
