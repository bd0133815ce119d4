------------------------------ MODULE RunState ------------------------------
(***************************************************************************)
(* The durable state of one autonomous run: the commands of                *)
(* extras/scripts/autonomous-run/run-state.go on .megapowers/run/<id>/.    *)
(*                                                                         *)
(* Every command is a process of its own and no command takes a lock, so a *)
(* command is a sequence of steps, one for each file operation another     *)
(* command could come between.  A process may die, or meet an I/O error,   *)
(* between any two of them (Abort), and a single append may be cut short   *)
(* (Tears).  A document is named by the call that wrote it.                *)
(***************************************************************************)
EXTENDS Naturals, Sequences, FiniteSets

CONSTANTS
    Procs,      \* concurrent invocations of run-state
    Items,      \* values of --item
    Caps,       \* values of --max
    MaxCap,     \* the largest of them
    Dirs,       \* holdout directories outside the repository
    Sums,       \* digests of a holdout directory's contents
    Heads,      \* commits HEAD can name
    Notes,      \* events the journal command is given
    Tears,      \* the files whose appends may be cut short: "journal", "exclude"
    MaxCalls,   \* bound: commands started
    None        \* stands for an absent item, digest, registration or document

ASSUME ProcsAssumption == IsFiniteSet(Procs)
ASSUME CapsAssumption  == /\ MaxCap \in Nat \ {0}
                          /\ Caps \subseteq 1..MaxCap
ASSUME CallsAssumption == MaxCalls \in Nat
ASSUME NoneAssumption  == /\ None \notin Items
                          /\ None \notin Sums
                          /\ None \notin Dirs
                          /\ None \notin Dirs \X Sums
                          /\ None \notin Nat
                          /\ None \notin [id : Nat, head : Heads]

VARIABLES
    head,        \* the commit git reports now
    scenarios,   \* digest of every holdout directory now; None: hashHoldout refuses it
    exclude,     \* info/exclude: a closed line lists .megapowers/, and its last line
    parents,     \* .megapowers/run exists
    runDir,      \* .megapowers/run/<id> exists
    charter,     \* the call that wrote charter.md
    checkpoint,  \* checkpoint.md: the call that wrote it and the HEAD it recorded
    handoff,     \* the call whose handoff.md is in place
    published,   \* history: calls whose checkpoint.md was in place at some time
    journal,     \* journal.jsonl, one element for each append
    pc, call,    \* where every process is, and its arguments and local variables
    calls,       \* commands started so far
    answered     \* history: the results that calls reported

files == <<exclude, parents, runDir, charter, checkpoint, handoff, published, journal>>
world == <<head, scenarios>>
vars  == <<world, files, pc, call, calls, answered>>

-----------------------------------------------------------------------------
(* Records *)

Events == {"init", "checkpoint", "oracle", "continuation", "blocked", "holdout"}

\* What reached the file: the whole line, all of it but the newline, or less.
Cuts == {"whole", "open", "part"}

JournalRecord ==
    [id : Nat, event : Events, item : Items \cup {None},
     reg : (Dirs \X Sums) \cup {None}, decision : BOOLEAN, cut : Cuts]

Commands == {"none", "init", "checkpoint", "journal", "resume", "continue", "holdout"}

Call ==
    [id : Nat, cmd : Commands, item : Items \cup {None}, max : 0..MaxCap,
     event : Events \cup {None}, dir : Dirs \cup {None}, rebaseline : BOOLEAN,
     head : Heads \cup {None},
     pad : BOOLEAN,
     sum : Sums \cup {None},
     reg : (Dirs \X Sums) \cup {None},
     match : BOOLEAN]

NoCall ==
    [id |-> 0, cmd |-> "none", item |-> None, max |-> 0, event |-> None, dir |-> None,
     rebaseline |-> FALSE, head |-> None, pad |-> FALSE, sum |-> None, reg |-> None,
     match |-> FALSE]

Results == {"ok", "match", "mismatch", "blocked"}

Answer == [id : Nat, cmd : Commands, item : Items \cup {None}, result : Results]

Steps == {"idle", "lookRun", "checkIgnore", "readExclude", "appendExclude", "lookParents",
          "makeParents", "makeRun", "writeCharter", "journalInit",
          "replaceCheckpoint", "replaceHandoff", "journalCheckpoint", "journalNote",
          "parseCheckpoint", "resumeJournal", "hashRegistered",
          "countContinuations", "journalContinuation", "journalBlocked",
          "hashScenarios", "readRegistration", "journalHoldout"}

\* --event is any name but "holdout", even one that run-state writes itself.
ASSUME NotesAssumption == Notes \subseteq Events \ {"holdout"}

TypeOK ==
    /\ head \in Heads
    /\ scenarios \in [Dirs -> Sums \cup {None}]
    /\ exclude \in [listed : BOOLEAN, tail : {"closed", "entry", "other"}]
    /\ parents \in BOOLEAN
    /\ runDir \in BOOLEAN
    /\ charter \in Nat \cup {None}
    /\ checkpoint \in [id : Nat, head : Heads] \cup {None}
    /\ handoff \in Nat \cup {None}
    /\ published \in SUBSET Nat
    /\ journal \in Seq(JournalRecord)
    /\ pc \in [Procs -> Steps]
    /\ call \in [Procs -> Call]
    /\ calls \in 0..MaxCalls
    /\ answered \in SUBSET Answer

-----------------------------------------------------------------------------
(* Reading the journal *)

\* Mutant: a cut last line is skipped, as log readers often do.
ReadableButTail(j) == \A i \in DOMAIN j : j[i].cut = "whole" \/ i = Len(j)

\* readJournal refuses a journal with a line that is not one JSON object.  A cut
\* line is refused; so is a line that lost only its newline once another append
\* is glued to it.
Readable(j) ==
    \A i \in DOMAIN j : j[i].cut = "whole" \/ (j[i].cut = "open" /\ i = Len(j))

\* The records of an item's event.  A journal command cannot name an item, so a
\* "continuation" or "blocked" event it writes belongs to none.
RecordsOf(j, event, item) ==
    {i \in DOMAIN j : j[i].event = event /\ j[i].item = item /\ j[i].cut # "part"}

Continuations(j, item) == Cardinality(RecordsOf(j, "continuation", item))

\* latestHoldout scans from the end; None when nothing is registered.
Registrations(j) == {i \in DOMAIN j : j[i].event = "holdout" /\ j[i].cut # "part"}

\* Mutant: the directory is taken for the registration.
LatestHoldoutDir(j) ==
    LET IsLatest(i) == \A k \in Registrations(j) : k <= i IN
    IF \E i \in Registrations(j) : IsLatest(i)
    THEN j[CHOOSE i \in Registrations(j) : IsLatest(i)].reg[1]
    ELSE None

LatestHoldout(j) ==
    LET IsLatest(i) == \A k \in Registrations(j) : k <= i IN
    IF \E i \in Registrations(j) : IsLatest(i)
    THEN j[CHOOSE i \in Registrations(j) : IsLatest(i)].reg
    ELSE None

Ignored == exclude.listed \/ exclude.tail = "entry"

-----------------------------------------------------------------------------
(* The life of a process *)

Init ==
    /\ head \in Heads
    /\ scenarios \in [Dirs -> Sums \cup {None}]
    /\ exclude \in [listed : BOOLEAN, tail : {"closed", "other"}]
    /\ parents = FALSE
    /\ runDir = FALSE
    /\ charter = None
    /\ checkpoint = None
    /\ handoff = None
    /\ published = {}
    /\ journal = << >>
    /\ pc = [p \in Procs |-> "idle"]
    /\ call = [p \in Procs |-> NoCall]
    /\ calls = 0
    /\ answered = {}

Invoke(p, cmd, arguments, step) ==
    /\ pc[p] = "idle"
    /\ calls < MaxCalls
    /\ call' = [call EXCEPT ![p] = [arguments EXCEPT !.id = calls + 1, !.cmd = cmd, !.head = head]]
    /\ pc' = [pc EXCEPT ![p] = step]
    /\ calls' = calls + 1
    /\ UNCHANGED <<world, files, answered>>

\* What parseOptions accepts; inspect reads the commit first of all.
Start(p) ==
    \/ Invoke(p, "init", NoCall, "lookRun")
    \/ Invoke(p, "checkpoint", NoCall, "replaceCheckpoint")
    \/ Invoke(p, "resume", NoCall, "parseCheckpoint")
    \/ \E e \in Notes : Invoke(p, "journal", [NoCall EXCEPT !.event = e], "journalNote")
    \/ \E i \in Items, m \in Caps :
         Invoke(p, "continue", [NoCall EXCEPT !.item = i, !.max = m], "countContinuations")
    \/ \E d \in Dirs, r \in BOOLEAN :
         Invoke(p, "holdout", [NoCall EXCEPT !.dir = d, !.rebaseline = r], "hashScenarios")

Go(p, step) ==
    /\ pc' = [pc EXCEPT ![p] = step]
    /\ UNCHANGED calls

Exit(p) ==
    /\ Go(p, "idle")
    /\ call' = [call EXCEPT ![p] = NoCall]

\* The process reports a result on stdout and exits.
Report(p, result) ==
    /\ Exit(p)
    /\ answered' = answered \cup
         {[id |-> call[p].id, cmd |-> call[p].cmd, item |-> call[p].item, result |-> result]}

\* The process exits with exitError, or dies.
Fail(p) == Exit(p) /\ UNCHANGED answered

\* An I/O error, a signal or a crash between two steps.
Abort(p) ==
    /\ pc[p] # "idle"
    /\ Fail(p)
    /\ UNCHANGED <<world, files>>

\* existingRun.  The directory is never removed, so the check is the first half
\* of the step that follows it.
NoRun(p, step) ==
    /\ pc[p] = step
    /\ ~runDir
    /\ Fail(p)
    /\ UNCHANGED <<world, files>>

-----------------------------------------------------------------------------
(* appendJournal: one O_APPEND write.  The result is reported only after a *)
(* whole one; a cut one is an error.                                       *)

NewRecord(p, event) ==
    [id |-> call[p].id, event |-> event, item |-> call[p].item, reg |-> None,
     decision |-> FALSE, cut |-> "whole"]

\* Mutant: the error of a short write is dropped.
AppendJournalUnchecked(p, rec, result) ==
    /\ \E cut \in Cuts : journal' = Append(journal, [rec EXCEPT !.cut = cut])
    /\ Report(p, result)

AppendJournal(p, rec, result) ==
    \/ /\ journal' = Append(journal, rec)
       /\ Report(p, result)
    \/ /\ journal' = Append(journal, rec)
       /\ Fail(p)
    \/ /\ "journal" \in Tears
       /\ \E cut \in {"open", "part"} : journal' = Append(journal, [rec EXCEPT !.cut = cut])
       /\ Fail(p)

JournalOnly ==
    UNCHANGED <<world, exclude, parents, runDir, charter, checkpoint, handoff, published>>

-----------------------------------------------------------------------------
(* init *)

LookRun(p) ==
    /\ pc[p] = "lookRun"
    /\ IF runDir THEN Fail(p)
                 ELSE Go(p, "checkIgnore") /\ UNCHANGED <<call, answered>>
    /\ UNCHANGED <<world, files>>

CheckIgnore(p) ==
    /\ pc[p] = "checkIgnore"
    /\ Go(p, IF Ignored THEN "lookParents" ELSE "readExclude")
    /\ UNCHANGED <<world, files, call, answered>>

\* Mutant: the entry is appended without looking at the last line.
ReadExcludeUnpadded(p) ==
    /\ pc[p] = "readExclude"
    /\ Go(p, "appendExclude")
    /\ UNCHANGED <<world, files, call, answered>>

ReadExclude(p) ==
    /\ pc[p] = "readExclude"
    /\ call' = [call EXCEPT ![p].pad = exclude.tail # "closed"]
    /\ Go(p, "appendExclude")
    /\ UNCHANGED <<world, files, answered>>

\* The entry is appended to the last line when that line was cut after it was read.
Glued(p) == exclude.tail # "closed" /\ ~call[p].pad

AppendExclude(p) ==
    /\ pc[p] = "appendExclude"
    /\ exclude' = [listed |-> exclude.listed \/ ~Glued(p), tail |-> "closed"]
    /\ Go(p, "lookParents")
    /\ UNCHANGED <<world, parents, runDir, charter, checkpoint, handoff, published, journal,
                   call, answered>>

TearExclude(p) ==
    /\ pc[p] = "appendExclude"
    /\ "exclude" \in Tears
    /\ \E tail \in {"closed", "entry", "other"} :
         /\ tail = "closed" => call[p].pad
         /\ tail = "entry" => ~Glued(p)
         /\ exclude' = [listed |-> exclude.listed \/ (call[p].pad /\ exclude.tail = "entry"),
                        tail |-> tail]
    /\ Fail(p)
    /\ UNCHANGED <<world, parents, runDir, charter, checkpoint, handoff, published, journal>>

LookParents(p) ==
    /\ pc[p] = "lookParents"
    /\ Go(p, IF parents THEN "makeRun" ELSE "makeParents")
    /\ UNCHANGED <<world, files, call, answered>>

\* ensureDir treats a directory that appeared since its Lstat as an error.
MakeParents(p) ==
    /\ pc[p] = "makeParents"
    /\ parents' = TRUE
    /\ IF parents THEN Fail(p)
                  ELSE Go(p, "makeRun") /\ UNCHANGED <<call, answered>>
    /\ UNCHANGED <<world, exclude, runDir, charter, checkpoint, handoff, published, journal>>

\* os.Mkdir decides between concurrent inits.
MakeRun(p) ==
    /\ pc[p] = "makeRun"
    /\ runDir' = TRUE
    /\ IF runDir THEN Fail(p)
                 ELSE Go(p, "writeCharter") /\ UNCHANGED <<call, answered>>
    /\ UNCHANGED <<world, exclude, parents, charter, checkpoint, handoff, published, journal>>

\* writeExclusive creates charter.md and refuses one that exists.
WriteCharter(p) ==
    /\ pc[p] = "writeCharter"
    /\ IF charter = None
       THEN /\ charter' = call[p].id
            /\ Go(p, "journalInit")
            /\ UNCHANGED <<call, answered>>
       ELSE Fail(p) /\ UNCHANGED charter
    /\ UNCHANGED <<world, exclude, parents, runDir, checkpoint, handoff, published, journal>>

JournalInit(p) ==
    /\ pc[p] = "journalInit"
    /\ AppendJournal(p, NewRecord(p, "init"), "ok")
    /\ JournalOnly

-----------------------------------------------------------------------------
(* checkpoint: checkpoint.md, then handoff.md, then the journal.  A file is *)
(* replaced by a rename, so a step that fails leaves the old one.           *)

\* Mutant: the error of a failed replacement is dropped.
ReplaceCheckpointUnchecked(p) ==
    /\ pc[p] = "replaceCheckpoint"
    /\ runDir
    /\ \/ /\ checkpoint' = [id |-> call[p].id, head |-> call[p].head]
          /\ published' = published \cup {call[p].id}
       \/ UNCHANGED <<checkpoint, published>>
    /\ Go(p, "replaceHandoff")
    /\ UNCHANGED <<world, exclude, parents, runDir, charter, handoff, journal, call, answered>>

ReplaceCheckpoint(p) ==
    /\ pc[p] = "replaceCheckpoint"
    /\ runDir
    /\ checkpoint' = [id |-> call[p].id, head |-> call[p].head]
    /\ published' = published \cup {call[p].id}
    /\ Go(p, "replaceHandoff")
    /\ UNCHANGED <<world, exclude, parents, runDir, charter, handoff, journal, call, answered>>

ReplaceHandoff(p) ==
    /\ pc[p] = "replaceHandoff"
    /\ handoff' = call[p].id
    /\ Go(p, "journalCheckpoint")
    /\ UNCHANGED <<world, exclude, parents, runDir, charter, checkpoint, published, journal,
                   call, answered>>

JournalCheckpoint(p) ==
    /\ pc[p] = "journalCheckpoint"
    /\ AppendJournal(p, NewRecord(p, "checkpoint"), "ok")
    /\ JournalOnly

JournalNote(p) ==
    /\ pc[p] = "journalNote"
    /\ runDir
    /\ AppendJournal(p, NewRecord(p, call[p].event), "ok")
    /\ JournalOnly

-----------------------------------------------------------------------------
(* resume *)

ParseCheckpoint(p) ==
    /\ pc[p] = "parseCheckpoint"
    /\ runDir
    /\ IF checkpoint = None
       THEN Fail(p)
       ELSE /\ call' = [call EXCEPT ![p].match = checkpoint.head = call[p].head]
            /\ Go(p, "resumeJournal")
            /\ UNCHANGED answered
    /\ UNCHANGED <<world, files>>

ResumeJournal(p) ==
    /\ pc[p] = "resumeJournal"
    /\ IF ~Readable(journal) THEN Fail(p)
       ELSE IF LatestHoldout(journal) = None
            THEN Report(p, IF call[p].match THEN "match" ELSE "mismatch")
            ELSE /\ call' = [call EXCEPT ![p].reg = LatestHoldout(journal)]
                 /\ Go(p, "hashRegistered")
                 /\ UNCHANGED answered
    /\ UNCHANGED <<world, files>>

\* Mutant: a holdout directory that cannot be hashed is not compared.
HashRegisteredIfPossible(p) ==
    /\ pc[p] = "hashRegistered"
    /\ Report(p, IF call[p].match /\ scenarios[call[p].reg[1]] \in {None, call[p].reg[2]}
                 THEN "match" ELSE "mismatch")
    /\ UNCHANGED <<world, files>>

HashRegistered(p) ==
    /\ pc[p] = "hashRegistered"
    /\ Report(p, IF call[p].match /\ scenarios[call[p].reg[1]] = call[p].reg[2]
                 THEN "match" ELSE "mismatch")
    /\ UNCHANGED <<world, files>>

-----------------------------------------------------------------------------
(* continue: read the journal, decide, then append *)

\* Mutant: the cap itself is granted.
CountContinuationsOffByOne(p) ==
    /\ pc[p] = "countContinuations"
    /\ runDir
    /\ Readable(journal)
    /\ IF Continuations(journal, call[p].item) <= call[p].max
       THEN Go(p, "journalContinuation") /\ UNCHANGED <<call, answered>>
       ELSE Report(p, "blocked")
    /\ UNCHANGED <<world, files>>

\* Mutant: only the tail of the journal is counted, so the count restarts.
CountContinuationsInTail(p) ==
    /\ pc[p] = "countContinuations"
    /\ runDir
    /\ Readable(journal)
    /\ IF Cardinality({i \in RecordsOf(journal, "continuation", call[p].item) :
                         i >= Len(journal)}) < call[p].max
       THEN Go(p, "journalContinuation") /\ UNCHANGED <<call, answered>>
       ELSE IF RecordsOf(journal, "blocked", call[p].item) = {}
            THEN Go(p, "journalBlocked") /\ UNCHANGED <<call, answered>>
            ELSE Report(p, "blocked")
    /\ UNCHANGED <<world, files>>

CountContinuations(p) ==
    /\ pc[p] = "countContinuations"
    /\ runDir
    /\ IF ~Readable(journal) THEN Fail(p)
       ELSE IF Continuations(journal, call[p].item) < call[p].max
            THEN Go(p, "journalContinuation") /\ UNCHANGED <<call, answered>>
            ELSE IF RecordsOf(journal, "blocked", call[p].item) = {}
                 THEN Go(p, "journalBlocked") /\ UNCHANGED <<call, answered>>
                 ELSE Report(p, "blocked")
    /\ UNCHANGED <<world, files>>

JournalContinuation(p) ==
    /\ pc[p] = "journalContinuation"
    /\ AppendJournal(p, NewRecord(p, "continuation"), "ok")
    /\ JournalOnly

JournalBlocked(p) ==
    /\ pc[p] = "journalBlocked"
    /\ AppendJournal(p, NewRecord(p, "blocked"), "blocked")
    /\ JournalOnly

-----------------------------------------------------------------------------
(* holdout: hash the directory, read the journal, decide, then append *)

HashScenarios(p) ==
    /\ pc[p] = "hashScenarios"
    /\ runDir
    /\ IF scenarios[call[p].dir] = None
       THEN Fail(p)
       ELSE /\ call' = [call EXCEPT ![p].sum = scenarios[call[p].dir]]
            /\ Go(p, "readRegistration")
            /\ UNCHANGED answered
    /\ UNCHANGED <<world, files>>

\* Mutant: another directory is taken for a first registration.
ReadRegistrationByDir(p) ==
    /\ pc[p] = "readRegistration"
    /\ LET reg == LatestHoldout(journal) IN
         IF ~Readable(journal) THEN Fail(p)
         ELSE IF reg = <<call[p].dir, call[p].sum>> THEN Report(p, "match")
         ELSE IF reg # None /\ reg[1] = call[p].dir /\ ~call[p].rebaseline
              THEN Report(p, "mismatch")
         ELSE /\ call' = [call EXCEPT ![p].reg =
                              IF reg # None /\ reg[1] = call[p].dir THEN reg ELSE None]
              /\ Go(p, "journalHoldout")
              /\ UNCHANGED answered
    /\ UNCHANGED <<world, files>>

ReadRegistration(p) ==
    /\ pc[p] = "readRegistration"
    /\ LET reg == LatestHoldout(journal) IN
         IF ~Readable(journal) THEN Fail(p)
         ELSE IF reg = <<call[p].dir, call[p].sum>> THEN Report(p, "match")
         ELSE IF reg # None /\ ~call[p].rebaseline THEN Report(p, "mismatch")
         ELSE /\ call' = [call EXCEPT ![p].reg = reg]
              /\ Go(p, "journalHoldout")
              /\ UNCHANGED answered
    /\ UNCHANGED <<world, files>>

\* A registration that replaces another carries a high-risk decision.
JournalHoldout(p) ==
    /\ pc[p] = "journalHoldout"
    /\ AppendJournal(p, [NewRecord(p, "holdout") EXCEPT
                           !.reg = <<call[p].dir, call[p].sum>>,
                           !.decision = call[p].reg # None], "ok")
    /\ JournalOnly

-----------------------------------------------------------------------------
(* The rest of the world *)

\* Work on the branch moves HEAD.
Commit ==
    /\ head' \in Heads
    /\ UNCHANGED <<scenarios, files, pc, call, calls, answered>>

\* Someone edits, empties or restores a holdout directory.
EditScenarios ==
    /\ \E d \in Dirs, s \in Sums \cup {None} : scenarios' = [scenarios EXCEPT ![d] = s]
    /\ UNCHANGED <<head, files, pc, call, calls, answered>>

Step(p) ==
    \/ Start(p)
    \/ \E step \in {"replaceCheckpoint", "journalNote", "parseCheckpoint",
                    "countContinuations", "hashScenarios"} : NoRun(p, step)
    \/ Abort(p)
    \/ LookRun(p) \/ CheckIgnore(p) \/ ReadExclude(p) \/ AppendExclude(p) \/ TearExclude(p)
    \/ LookParents(p) \/ MakeParents(p) \/ MakeRun(p) \/ WriteCharter(p) \/ JournalInit(p)
    \/ ReplaceCheckpoint(p) \/ ReplaceHandoff(p) \/ JournalCheckpoint(p)
    \/ JournalNote(p)
    \/ ParseCheckpoint(p) \/ ResumeJournal(p) \/ HashRegistered(p)
    \/ CountContinuations(p) \/ JournalContinuation(p) \/ JournalBlocked(p)
    \/ HashScenarios(p) \/ ReadRegistration(p) \/ JournalHoldout(p)

Next ==
    \/ \E p \in Procs : Step(p)
    \/ Commit
    \/ EditScenarios

Spec == Init /\ [][Next]_vars

-----------------------------------------------------------------------------
(* What any number of concurrent commands preserves *)

\* cmdContinue reads the journal before it appends, so every command that is
\* running may have seen the last free place: the cap is exceeded by at most the
\* number of other commands, and is exact when commands run one at a time.
CapOvershoot ==
    \A i \in Items : Continuations(journal, i) <= MaxCap + Cardinality(Procs) - 1

\* The record that a call said it wrote is in the journal, whole.
Journaled(a, event) ==
    \E i \in DOMAIN journal :
      /\ journal[i].event = event
      /\ journal[i].id = a.id
      /\ journal[i].item = a.item
      /\ journal[i].cut = "whole"

\* What a caller was told, the journal holds for the calls that follow: a granted
\* continuation is counted, a refused item is recorded as blocked, a registration
\* or a checkpoint is there, and the init that reported success owns the charter.
\* A crash or a short write between the append and the answer breaks none of it.
AnswersDurable ==
    \A a \in answered :
      /\ a.cmd = "continue" /\ a.result = "ok" => Journaled(a, "continuation")
      /\ a.cmd = "continue" /\ a.result = "blocked" =>
           RecordsOf(journal, "blocked", a.item) # {}
      /\ a.cmd = "holdout" /\ a.result = "ok" => Journaled(a, "holdout")
      /\ a.cmd = "checkpoint" /\ a.result = "ok" => Journaled(a, "checkpoint")
      /\ a.cmd = "init" /\ a.result = "ok" => Journaled(a, "init") /\ charter = a.id

\* cmdCheckpoint writes checkpoint.md before handoff.md before the journal: a
\* handoff, or a checkpoint that reported success, never names a checkpoint.md that
\* was not in place, and from then on there is one to resume from.
HandoffFollowsCheckpoint ==
    /\ handoff # None => handoff \in published
    /\ \A a \in answered : a.cmd = "checkpoint" => a.id \in published
    /\ published # {} => checkpoint # None

\* The run directory never exists unless git ignores it (ensureExcluded comes
\* before Mkdir).
ExcludedBeforeCreated == runDir => Ignored

\* What a command tells its caller, or leaves for a later command to rely on, is on
\* disk before it, whatever ran at the same time and wherever it was cut off.
OnDiskFirst == AnswersDurable /\ HandoffFollowsCheckpoint /\ ExcludedBeforeCreated

-----------------------------------------------------------------------------
(* What commands that run one at a time preserve, crashes included *)

\* "At the cap, record the item as blocked and report it instead of silently
\* restarting its count": with one cap, no continuation follows a blocked record
\* of its item, and the item is blocked once.
BlockedIsFinal ==
    \A i \in Items :
      \A b \in RecordsOf(journal, "blocked", i) :
        /\ \A c \in RecordsOf(journal, "continuation", i) : c < b
        /\ RecordsOf(journal, "blocked", i) = {b}

\* A set of scenarios replaces another only with a high-risk decision (cmdHoldout:
\* "re-registering it needs a stated reason").
RebaselineReasoned ==
    \A i, k \in Registrations(journal) :
      i < k => journal[k].decision

\* After a line was cut short no command that reads the journal succeeds: a lost
\* continuation is never granted again.
TornJournalGrantsNothing ==
    [][(\E i \in DOMAIN journal : journal[i].cut = "part") =>
         \A a \in answered' \ answered : a.cmd \in {"init", "checkpoint", "journal"}]_vars

\* A resume answers "match" only if the checkpoint in place recorded the HEAD it
\* inspected and the registered holdout directory has, as it answers, the digest
\* that the last registration recorded.
ResumeMatchIsCurrent ==
    [][\A p \in Procs :
         (\E a \in answered' \ answered :
            a.id = call[p].id /\ a.cmd = "resume" /\ a.result = "match") =>
           /\ checkpoint.head = call[p].head
           /\ \A i \in Registrations(journal) :
                (\A k \in Registrations(journal) : k <= i) =>
                  scenarios[journal[i].reg[1]] = journal[i].reg[2]]_vars

\* The cap as the usage text states it ("refuses past the cap"), whatever runs
\* concurrently.  Refuted: see CapOvershoot.
ContinuationCap == \A i \in Items : Continuations(journal, i) <= MaxCap

-----------------------------------------------------------------------------
(* One command at a time, the journal behaves as an atomic ledger *)

Ledger == INSTANCE RunLedger WITH
    used <- [i \in Items |-> Continuations(journal, i)],
    blocked <- {i \in Items : RecordsOf(journal, "blocked", i) # {}},
    baseline <- LatestHoldout(journal),
    decisions <- Cardinality({i \in Registrations(journal) : journal[i].decision})

\* Serial commands implement the ledger: reading and then appending is as good as
\* one atomic step, whatever fails in between.
LedgerSpec == Ledger!Spec
=============================================================================
