----------------------------- MODULE RunReceipt -----------------------------
(***************************************************************************)
(* run-receipt (extras/scripts/verify-and-finish/run-receipt.go): run a    *)
(* check, keep its log and a receipt that binds the exit code to the state *)
(* of the checkout, and with --reuse print an earlier passing receipt for  *)
(* the same state instead of running the check again.                      *)
(*                                                                         *)
(* Several runs share one receipt directory, and the checkout is edited    *)
(* while they work.  gitIdentity asks git four times (HEAD, status, diff,  *)
(* untracked files); the check reads the checkout at some moment while it  *)
(* runs.                                                                   *)
(*                                                                         *)
(* Abstractions.  The checkout has one tracked and one untracked file; a   *)
(* commit is the text of the tracked file.  Command line, working          *)
(* directory and --shell are one key.  Tails, line counts and durations are *)
(* left out.                                                               *)
(***************************************************************************)
EXTENDS Naturals, FiniteSets

CONSTANTS
    Runs,      \* run-receipt processes
    Keys,      \* command line, working directory and --shell
    Contents,  \* texts of the tracked file
    Extras,    \* texts of the untracked file
    Large,     \* the ones over maxUntrackedBytes, all of one size
    Nothing,   \* no untracked file, no value
    MaxWrites  \* bound: edits and commits

\* What is asked of the constants: a digest of contents is none of a size.
ReceiptConstants == "large" \notin Extras /\ MaxWrites \in Nat

VARIABLES
    tip,       \* HEAD
    tracked,   \* the tracked file
    extra,     \* the untracked file
    receipts,  \* the receipts in the directory
    logs,      \* runs whose log file exists
    invocation,\* the processes and their locals
    nextStart, \* orders the start times in the names of logs and receipts
    writes     \* edits and commits so far

checkout    == <<tip, tracked, extra>>
receiptVars == <<checkout, receipts, logs, invocation, nextStart, writes>>

Snapshots == Contents \X (Extras \cup {Nothing})
Digests  == (Extras \cup {Nothing, "large"})
\* status, diff and untracked are the three parts of the hash.
Identities ==
    [head : Contents \cup {Nothing}, state : {"none", "clean", "dirty"},
     status : SUBSET {"tracked", "extra"}, diff : Contents \X Contents \cup {Nothing},
     untracked : Digests]

\* Mutant: untracked files contribute their path only.
PathOnly(e) == IF e = Nothing THEN Nothing ELSE "large"

HashUntracked(e) == IF e \in Large THEN "large" ELSE e

Status == (IF tracked # tip THEN {"tracked"} ELSE {})
            \cup (IF extra # Nothing THEN {"extra"} ELSE {})
Diff   == IF tracked # tip THEN <<tip, tracked>> ELSE Nothing

Unknown == [head |-> Nothing, state |-> "none", status |-> {}, diff |-> Nothing,
            untracked |-> Nothing]

\* start orders names.  History: `saw`, the files the check read, and
\* `steady`, nobody wrote to the checkout from the run's first git call until
\* then.
Receipts == [run : Runs, key : Keys, identity : Identities, exit : {0, 1}, start : Nat,
             saw : Snapshots, steady : BOOLEAN]

Stages == {"start", "head", "status", "diff", "untracked", "find", "log", "check", "exited",
           "reused", "done"}

NotRunning(at) ==
    [at |-> at, key |-> Nothing, reuse |-> FALSE, identity |-> Unknown, exit |-> Nothing,
     start |-> 0, cited |-> Nothing, saw |-> Nothing, steady |-> TRUE]

ReceiptInit ==
    /\ tip \in Contents /\ tracked = tip /\ extra = Nothing
    /\ receipts = {}
    /\ logs = {}
    /\ invocation = [r \in Runs |-> NotRunning("start")]
    /\ nextStart = 1
    /\ writes = 0

----------------------------------------------------------------------------
(* Edits                                                                   *)

\* Every run that has begun and not read the checkout for the last time is
\* no longer steady.
Written ==
    /\ writes < MaxWrites
    /\ writes' = writes + 1
    /\ invocation' = [r \in Runs |->
          IF invocation[r].at \in {"start", "exited", "done"} THEN invocation[r]
          ELSE [invocation[r] EXCEPT !.steady = FALSE]]
    /\ UNCHANGED <<receipts, logs, nextStart>>

EditTracked(t)  == tracked # t /\ tracked' = t /\ UNCHANGED <<tip, extra>> /\ Written
EditExtra(e)    == extra # e /\ extra' = e /\ UNCHANGED <<tip, tracked>> /\ Written
CommitTracked   == tip # tracked /\ tip' = tracked /\ UNCHANGED <<tracked, extra>> /\ Written

\* Somebody cleans the directory up: a log goes, its receipt may stay.
DropLog(r) ==
    /\ r \in logs /\ invocation[r].at = "done"
    /\ logs' = logs \ {r}
    /\ UNCHANGED <<checkout, receipts, invocation, nextStart, writes>>

----------------------------------------------------------------------------
(* One run                                                                 *)

Unmoved == UNCHANGED <<checkout, receipts, logs, nextStart, writes>>

Exit(r)         == invocation' = [invocation EXCEPT ![r] = NotRunning("done")]

Invoke(r, k, reuse) ==
    /\ invocation[r].at = "start"
    /\ invocation' = [invocation EXCEPT ![r].at = "head", ![r].key = k, ![r].reuse = reuse]
    /\ Unmoved

ReadHead(r) ==
    /\ invocation[r].at = "head"
    /\ invocation' = [invocation EXCEPT ![r].at = "status", ![r].identity.head = tip]
    /\ Unmoved

ReadStatus(r) ==
    /\ invocation[r].at = "status"
    /\ invocation' = [invocation EXCEPT ![r].at = "diff", ![r].identity.status = Status]
    /\ Unmoved

ReadDiff(r) ==
    /\ invocation[r].at = "diff"
    /\ LET clean == invocation[r].identity.status = {} /\ Diff = Nothing
       IN invocation' = [invocation EXCEPT
              ![r].identity.diff = Diff,
              ![r].identity.state = IF clean THEN "clean" ELSE "dirty",
              ![r].at = IF clean THEN "find" ELSE "untracked"]
    /\ Unmoved

ReadUntracked(r) ==
    /\ invocation[r].at = "untracked"
    /\ invocation' = [invocation EXCEPT ![r].at = "find",
                                        ![r].identity.untracked = HashUntracked(extra)]
    /\ Unmoved

\* Git is missing or fails: the state is "none" and nothing is reused.
NoIdentity(r) ==
    /\ invocation[r].at \in {"head", "status", "diff", "untracked"}
    /\ invocation' = [invocation EXCEPT ![r].at = "find",
          ![r].identity = [Unknown EXCEPT !.head = invocation[r].identity.head]]
    /\ Unmoved

\* Mutant: the untracked part of the digest is not compared.
LooseMatches(r) ==
    {c \in receipts : c.exit = 0 /\ c.key = invocation[r].key
                        /\ c.identity.head = invocation[r].identity.head
                        /\ c.identity.state = invocation[r].identity.state
                        /\ c.run \in logs}

Matches(r) ==
    {c \in receipts : c.exit = 0 /\ c.key = invocation[r].key
                        /\ c.identity = invocation[r].identity
                        /\ c.run \in logs}

\* The newest one; its log exists when it is looked at.
Newest(r, c) == c \in Matches(r) /\ \A d \in Matches(r) : d.start <= c.start

MayReuse(r) == invocation[r].reuse /\ invocation[r].identity.state # "none"

Reuse(r) ==
    /\ invocation[r].at = "find" /\ MayReuse(r)
    /\ \E c \in receipts :
          /\ Newest(r, c)
          /\ invocation' = [invocation EXCEPT ![r].at = "reused", ![r].cited = c]
    /\ Unmoved

\* The exit code of a reused receipt is 0; a log that went away since it was
\* looked at is a tool error instead.
Conclude(r) ==
    /\ invocation[r].at = "reused"
    /\ Exit(r)
    /\ Unmoved

CreateLog(r) ==
    /\ invocation[r].at = "find"
    /\ ~(MayReuse(r) /\ Matches(r) # {})
    /\ logs' = logs \cup {r}
    /\ invocation' = [invocation EXCEPT ![r].at = "check", ![r].start = nextStart]
    /\ nextStart' = nextStart + 1
    /\ UNCHANGED <<checkout, receipts, writes>>

\* The check reads the files and exits; a signal counts as a failure.
Check(r) ==
    /\ invocation[r].at = "check"
    /\ \E code \in {0, 1} :
          invocation' = [invocation EXCEPT ![r].at = "exited", ![r].exit = code,
                                           ![r].saw = <<tracked, extra>>]
    /\ Unmoved

\* The identity in the receipt is the one from before the check.
WriteReceipt(r) ==
    /\ invocation[r].at = "exited"
    /\ receipts' = receipts \cup {[run |-> r, key |-> invocation[r].key,
                                   identity |-> invocation[r].identity,
                                   exit |-> invocation[r].exit,
                                   start |-> invocation[r].start,
                                   saw |-> invocation[r].saw,
                                   steady |-> invocation[r].steady]}
    /\ Exit(r)
    /\ UNCHANGED <<checkout, logs, nextStart, writes>>

Die(r) ==
    /\ invocation[r].at \notin {"start", "done"}
    /\ Exit(r)
    /\ Unmoved

ReceiptNext ==
    \/ \E t \in Contents : EditTracked(t)
    \/ \E e \in Extras \cup {Nothing} : EditExtra(e)
    \/ CommitTracked
    \/ \E r \in Runs :
          \/ \E k \in Keys, reuse \in BOOLEAN : Invoke(r, k, reuse)
          \/ ReadHead(r) \/ ReadStatus(r) \/ ReadDiff(r) \/ ReadUntracked(r) \/ NoIdentity(r)
          \/ Reuse(r) \/ Conclude(r) \/ CreateLog(r) \/ Check(r) \/ WriteReceipt(r)
          \/ DropLog(r) \/ Die(r)

ReceiptSpec == ReceiptInit /\ [][ReceiptNext]_receiptVars

----------------------------------------------------------------------------
(* Properties                                                              *)

\* Types of all variables.
ReceiptTypeOK ==
    /\ tip \in Contents /\ tracked \in Contents /\ extra \in Extras \cup {Nothing}
    /\ receipts \subseteq Receipts
    /\ logs \subseteq Runs
    /\ invocation \in [Runs -> [at : Stages, key : Keys \cup {Nothing}, reuse : BOOLEAN,
                                identity : Identities, exit : {0, 1, Nothing}, start : Nat,
                                cited : Receipts \cup {Nothing},
                                saw : Snapshots \cup {Nothing}, steady : BOOLEAN]]
    /\ nextStart \in Nat \ {0}
    /\ writes \in 0..MaxWrites

\* Large files are told apart by their size only (hashUntracked).
Alike(saw, now) == saw[1] = now[1] /\ (saw[2] = now[2] \/ {saw[2], now[2]} \subseteq Large)

\* A reused receipt tells the truth about the files as they are now: when
\* neither the reusing run's look at the checkout nor the cited run, from its
\* first git call to the last read of its check, was overlapped by an edit, the
\* cited check passed on these files.  Edits, commits and restores
\* between the two runs, other runs and lost logs do not matter (execute,
\* findReusable, gitIdentity).
ReuseIsSound ==
    \A r \in Runs :
       invocation[r].at = "reused" /\ invocation[r].steady /\ invocation[r].cited.steady
         => /\ Alike(invocation[r].cited.saw, <<tracked, extra>>)
            /\ invocation[r].cited.exit = 0
=============================================================================
