-------------------------- MODULE ReceiptCollector --------------------------
(***************************************************************************)
(* The broker's test-receipt collector and the wrapped test commands that  *)
(* report to it (evals/tools/sandbox-broker/main.go: receiptCollector,     *)
(* serve, handle, seal, close, runReceiptWrappedExecutable).               *)
(*                                                                         *)
(* A wrapper dials the collector's unix socket, sends "start", runs its    *)
(* child and sends "finish" with the exit code.  The collector has one     *)
(* accept goroutine and one handler goroutine per connection; they share   *)
(* the fields behind the mutex c.mu, and every step below that touches     *)
(* those fields is one critical section.  When the harness exits the       *)
(* broker seals the collector: it refuses new runs, stops the acceptor,    *)
(* looks whether a run is still active, closes every connection and waits  *)
(* for the handlers.                                                       *)
(*                                                                         *)
(* A wrapper may be killed at any moment (the harness' sandbox dies with   *)
(* it), gives up on the collector after its own 30 s and then runs its     *)
(* child unobserved.  What it wrote before it died stays readable; what    *)
(* waits in a connection the broker closes does not.                       *)
(*                                                                         *)
(* Abstractions.  A project state is one of Contents and a snapshot of it  *)
(* is taken in one step under the mutex: it is that state or Incomplete    *)
(* (the walk noticed a race or hit a bound).  Command, arguments, exit     *)
(* code and oracle match are data no property below looks at.  The 24 h    *)
(* deadline of a running command starts after the harness' own (at most    *)
(* 24 h) and is left out.                                                  *)
(***************************************************************************)
EXTENDS Integers, Sequences, FiniteSets

CONSTANTS
    Wrappers,     \* places for wrapped test commands that run at the same time
    MaxRuns,      \* receiptMaximumRuns (256 in the code)
    Contents,     \* digests of project states
    Baseline,     \* the one the collector starts from
    Incomplete,   \* the digest of a snapshot that is not complete
    MaxEdits,     \* bound: project mutations considered
    WalkMayFail   \* bound: whether incomplete snapshots are considered

ASSUME WrappersAssumption == IsFiniteSet(Wrappers)
ASSUME BoundsAssumption == MaxRuns \in Nat \ {0} /\ MaxEdits \in Nat /\ WalkMayFail \in BOOLEAN
ASSUME ContentsAssumption == Baseline \in Contents /\ Incomplete \notin Contents
ASSUME ServingAssumption == {"accept", "done"} \cap Wrappers = {}

VARIABLES
    wrapper,     \* where each wrapper process is
    ticket,      \* receiptID: 0 when the wrapper runs unobserved
    toServer,    \* what the wrapper wrote and its handler has not read
    toWrapper,   \* the answer to "start" the wrapper has not read
    handler,     \* where the goroutine of each connection is
    run,         \* what a handler knows of the run it granted
    serving,     \* the acceptor: "accept", "done" or the wrapper accepted last
    listening,   \* the listener is open
    connections, \* c.connections
    severed,     \* connections closed by closeConnections
    records,     \* c.records
    nextID, nextStep, activeRuns, sealed,   \* the fields of the same names
    broker,      \* where seal() is
    stillActive, \* seal's local `active`
    project,     \* the state of the project tree
    edits,       \* mutations so far
    disturbed    \* history: observed wrappers whose child overlapped a mutation

wrapperVars == <<wrapper, ticket>>
socketVars  == <<toServer, toWrapper, severed, listening>>
fields      == <<connections, records, nextID, nextStep, activeRuns, sealed>>
handlerVars == <<handler, run, serving>>
brokerVars  == <<broker, stillActive>>
projectVars == <<project, edits, disturbed>>
collectorVars == <<wrapperVars, socketVars, fields, handlerVars, brokerVars, projectVars>>

NoAnswer == -1
Rejected == 0
NoRun == [id |-> 0, started |-> 0, before |-> Incomplete]

-----------------------------------------------------------------------------
(* What the steps read. *)

\* The wrapper's end of the connection can still be written and awaited.
Connected(w) ==
    /\ w \notin severed
    /\ handler[w] # "done"
    /\ handler[w] = "none" => listening

\* A handler's read: it has bytes only while its end is open.
Received(w, message) == w \notin severed /\ toServer[w] = message
ReadFails(w) == w \in severed \/ (wrapper[w] = "gone" /\ toServer[w] = "nothing")

Snapshots == {project} \cup (IF WalkMayFail THEN {Incomplete} ELSE {})

\* Mutant: receipts are numbered in the order the runs started.
ReceiptByStart(w, after) ==
    [id        |-> run[w].id,
     sequence  |-> run[w].id,
     started   |-> run[w].started,
     completed |-> nextStep + 1,
     stable    |-> run[w].before = after,
     overlapped |-> w \in disturbed]

Receipt(w, after) ==
    [id        |-> run[w].id,
     sequence  |-> Len(records) + 1,
     started   |-> run[w].started,
     completed |-> nextStep + 1,
     stable    |-> /\ Incomplete \notin {run[w].before, after}
                   /\ run[w].before = after,
     overlapped |-> w \in disturbed]

CollectorInit ==
    /\ wrapper = [w \in Wrappers |-> "idle"]
    /\ ticket = [w \in Wrappers |-> 0]
    /\ toServer = [w \in Wrappers |-> "nothing"]
    /\ toWrapper = [w \in Wrappers |-> NoAnswer]
    /\ handler = [w \in Wrappers |-> "none"]
    /\ run = [w \in Wrappers |-> NoRun]
    /\ serving = "accept" /\ listening = TRUE
    /\ connections = {} /\ severed = {}
    /\ records = << >>
    /\ nextID = 0 /\ nextStep = 0 /\ activeRuns = 0 /\ sealed = FALSE
    /\ broker = "harness" /\ stillActive = 0
    /\ project = Baseline
    /\ edits = 0 /\ disturbed = {}

-----------------------------------------------------------------------------
(* The wrapper process: runReceiptWrappedExecutable. *)

\* DialUnix; when the listener is gone the child runs unobserved.
Dial(w) ==
    /\ wrapper[w] = "idle"
    /\ wrapper' = [wrapper EXCEPT ![w] = IF listening THEN "dialed" ELSE "running"]
    /\ UNCHANGED <<ticket, socketVars, fields, handlerVars, brokerVars, projectVars>>

SendStart(w) ==
    /\ wrapper[w] = "dialed"
    /\ \/ /\ Connected(w)
          /\ toServer' = [toServer EXCEPT ![w] = "start"]
          /\ wrapper' = [wrapper EXCEPT ![w] = "starting"]
       \/ /\ ~Connected(w)
          /\ wrapper' = [wrapper EXCEPT ![w] = "running"]
          /\ UNCHANGED toServer
    /\ UNCHANGED <<ticket, toWrapper, severed, listening, fields, handlerVars,
                   brokerVars, projectVars>>

ReadAnswer(w) ==
    /\ wrapper[w] = "starting" /\ toWrapper[w] # NoAnswer
    /\ ticket' = [ticket EXCEPT ![w] = toWrapper[w]]
    /\ toWrapper' = [toWrapper EXCEPT ![w] = NoAnswer]
    /\ wrapper' = [wrapper EXCEPT ![w] = "running"]
    /\ UNCHANGED <<toServer, severed, listening, fields, handlerVars, brokerVars,
                   projectVars>>

\* The deadline of 30 s, or a connection that ended without an answer.
GiveUp(w) ==
    /\ wrapper[w] = "starting"
    /\ wrapper' = [wrapper EXCEPT ![w] = "running"]
    /\ UNCHANGED <<ticket, socketVars, fields, handlerVars, brokerVars, projectVars>>

\* The child ends; only a ticketed run on a live connection is reported.
ChildEnds(w) ==
    /\ wrapper[w] = "running"
    /\ \/ /\ ticket[w] > 0 /\ Connected(w)
          /\ toServer' = [toServer EXCEPT ![w] = "finish"]
          /\ wrapper' = [wrapper EXCEPT ![w] = "reporting"]
       \/ /\ ~(ticket[w] > 0 /\ Connected(w))
          /\ wrapper' = [wrapper EXCEPT ![w] = "gone"]
          /\ UNCHANGED toServer
    /\ UNCHANGED <<ticket, toWrapper, severed, listening, fields, handlerVars,
                   brokerVars, projectVars>>

\* The answer, the deadline or a closed connection; or the process is killed.
Exit(w) ==
    /\ wrapper[w] \notin {"idle", "gone"}
    /\ wrapper' = [wrapper EXCEPT ![w] = "gone"]
    /\ UNCHANGED <<ticket, socketVars, fields, handlerVars, brokerVars, projectVars>>

\* A later command takes the place of one that is over.
NextCommand(w) ==
    /\ listening /\ wrapper[w] = "gone" /\ handler[w] = "done"
    /\ wrapper' = [wrapper EXCEPT ![w] = "idle"]
    /\ ticket' = [ticket EXCEPT ![w] = 0]
    /\ toServer' = [toServer EXCEPT ![w] = "nothing"]
    /\ toWrapper' = [toWrapper EXCEPT ![w] = NoAnswer]
    /\ handler' = [handler EXCEPT ![w] = "none"]
    /\ severed' = severed \ {w}
    /\ disturbed' = disturbed \ {w}
    /\ UNCHANGED <<listening, fields, run, serving, brokerVars, project, edits>>

-----------------------------------------------------------------------------
(* The acceptor: serve. *)

\* AcceptUnix and c.wg.Add(1).
Accept(w) ==
    /\ serving = "accept" /\ listening
    /\ wrapper[w] # "idle" /\ handler[w] = "none"
    /\ serving' = w
    /\ handler' = [handler EXCEPT ![w] = "accepted"]
    /\ UNCHANGED <<wrapperVars, socketVars, fields, run, brokerVars, projectVars>>

\* c.connections[connection] = true, then `go c.handle(connection)`.
Register(w) ==
    /\ serving = w
    /\ serving' = "accept"
    /\ connections' = connections \cup {w}
    /\ handler' = [handler EXCEPT ![w] = "start"]
    /\ UNCHANGED <<wrapperVars, socketVars, records, nextID, nextStep, activeRuns,
                   sealed, run, brokerVars, projectVars>>

ServeEnds ==
    /\ serving = "accept" /\ ~listening
    /\ serving' = "done"
    /\ UNCHANGED <<wrapperVars, socketVars, fields, handler, run, brokerVars,
                   projectVars>>

-----------------------------------------------------------------------------
(* One handler: handle. *)

\* "start" is decoded and the peer process is found to be a wrapper.
CheckPeer(w) ==
    /\ handler[w] = "start"
    /\ Received(w, "start") /\ wrapper[w] # "gone"
    /\ toServer' = [toServer EXCEPT ![w] = "nothing"]
    /\ handler' = [handler EXCEPT ![w] = "checked"]
    /\ UNCHANGED <<wrapperVars, toWrapper, severed, listening, fields, run, serving,
                   brokerVars, projectVars>>

\* Accepted: false, when the message or the peer process fails validation
\* (a client may send anything, so that may happen to any start) or no message
\* can be read.
RefuseStart(w) ==
    /\ handler[w] = "start"
    /\ Received(w, "start") \/ ReadFails(w)
    /\ toServer' = [toServer EXCEPT ![w] = "nothing"]
    /\ toWrapper' = [toWrapper EXCEPT ![w] = IF w \in severed THEN @ ELSE Rejected]
    /\ handler' = [handler EXCEPT ![w] = "leaving"]
    /\ UNCHANGED <<wrapperVars, severed, listening, fields, run, serving, brokerVars,
                   projectVars>>

\* The handler's 30 s deadline: no message came and no answer can go out.
StartDeadline(w) ==
    /\ handler[w] = "start"
    /\ handler' = [handler EXCEPT ![w] = "leaving"]
    /\ UNCHANGED <<wrapperVars, socketVars, fields, run, serving, brokerVars,
                   projectVars>>

\* Mutant: the bound is compared with > instead of >=.
GrantOneMore(w) ==
    /\ handler[w] = "checked" /\ ~sealed /\ nextID <= MaxRuns
    /\ activeRuns' = activeRuns + 1 /\ nextID' = nextID + 1 /\ nextStep' = nextStep + 1
    /\ run' = [run EXCEPT ![w] = [id |-> nextID', started |-> nextStep', before |-> project]]
    /\ handler' = [handler EXCEPT ![w] = "granted"]
    /\ UNCHANGED <<wrapperVars, socketVars, connections, records, sealed, serving,
                   brokerVars, projectVars>>

\* Mutant: sealed is not looked at again after the peer was checked.
GrantSealed(w) ==
    /\ handler[w] = "checked" /\ nextID < MaxRuns
    /\ activeRuns' = activeRuns + 1 /\ nextID' = nextID + 1 /\ nextStep' = nextStep + 1
    /\ run' = [run EXCEPT ![w] = [id |-> nextID', started |-> nextStep', before |-> project]]
    /\ handler' = [handler EXCEPT ![w] = "granted"]
    /\ UNCHANGED <<wrapperVars, socketVars, connections, records, sealed, serving,
                   brokerVars, projectVars>>

\* The critical section that counts the run in, or turns it away.
Grant(w) ==
    /\ handler[w] = "checked" /\ ~sealed /\ nextID < MaxRuns
    /\ activeRuns' = activeRuns + 1
    /\ nextID' = nextID + 1
    /\ nextStep' = nextStep + 1
    /\ \E before \in Snapshots :
          run' = [run EXCEPT ![w] = [id |-> nextID', started |-> nextStep',
                                     before |-> before]]
    /\ handler' = [handler EXCEPT ![w] = "granted"]
    /\ UNCHANGED <<wrapperVars, socketVars, connections, records, sealed, serving,
                   brokerVars, projectVars>>

TurnAway(w) ==
    /\ handler[w] = "checked" /\ (sealed \/ nextID >= MaxRuns)
    /\ toWrapper' = [toWrapper EXCEPT ![w] = IF w \in severed THEN @ ELSE Rejected]
    /\ handler' = [handler EXCEPT ![w] = "leaving"]
    /\ UNCHANGED <<wrapperVars, toServer, severed, listening, fields, run, serving,
                   brokerVars, projectVars>>

\* Accepted: true with the id.
SendTicket(w) ==
    /\ handler[w] = "granted" /\ wrapper[w] # "gone" /\ w \notin severed
    /\ toWrapper' = [toWrapper EXCEPT ![w] = run[w].id]
    /\ handler' = [handler EXCEPT ![w] = "waiting"]
    /\ UNCHANGED <<wrapperVars, toServer, severed, listening, fields, run, serving,
                   brokerVars, projectVars>>

\* Encode fails: the peer is gone, the connection closed or the deadline over.
TicketUnsent(w) ==
    /\ handler[w] = "granted"
    /\ handler' = [handler EXCEPT ![w] = "leaving"]
    /\ UNCHANGED <<wrapperVars, socketVars, fields, run, serving, brokerVars,
                   projectVars>>

ReadFinish(w) ==
    /\ handler[w] = "waiting" /\ Received(w, "finish")
    /\ toServer' = [toServer EXCEPT ![w] = "nothing"]
    /\ handler' = [handler EXCEPT ![w] = "finished"]
    /\ UNCHANGED <<wrapperVars, toWrapper, severed, listening, fields, run, serving,
                   brokerVars, projectVars>>

RunLost(w) ==
    /\ handler[w] = "waiting" /\ ReadFails(w)
    /\ handler' = [handler EXCEPT ![w] = "leaving"]
    /\ UNCHANGED <<wrapperVars, socketVars, fields, run, serving, brokerVars,
                   projectVars>>

\* The critical section that appends the receipt and counts the run out.
Record(w) ==
    /\ handler[w] = "finished"
    /\ nextStep' = nextStep + 1
    /\ \E after \in Snapshots : records' = Append(records, Receipt(w, after))
    /\ activeRuns' = activeRuns - 1
    /\ run' = [run EXCEPT ![w] = NoRun]
    /\ handler' = [handler EXCEPT ![w] = "leaving"]
    /\ UNCHANGED <<wrapperVars, socketVars, connections, nextID, sealed, serving,
                   brokerVars, projectVars>>

\* The deferred calls; a run that was never recorded is counted out here.
Leave(w) ==
    /\ handler[w] = "leaving"
    /\ activeRuns' = activeRuns - (IF run[w] = NoRun THEN 0 ELSE 1)
    /\ connections' = connections \ {w}
    /\ run' = [run EXCEPT ![w] = NoRun]
    /\ handler' = [handler EXCEPT ![w] = "done"]
    /\ UNCHANGED <<wrapperVars, socketVars, records, nextID, nextStep, sealed, serving,
                   brokerVars, projectVars>>

-----------------------------------------------------------------------------
(* The broker: seal, once the harness has exited.  close, deferred by      *)
(* execute, repeats its steps and finds nothing left to do.                *)

Seal ==
    /\ broker = "harness"
    /\ sealed' = TRUE
    /\ broker' = "sealing"
    /\ UNCHANGED <<wrapperVars, socketVars, connections, records, nextID, nextStep,
                   activeRuns, handlerVars, stillActive, projectVars>>

StopAccepting ==
    /\ broker = "sealing"
    /\ listening' = FALSE
    /\ broker' = "stopping"
    /\ UNCHANGED <<wrapperVars, toServer, toWrapper, severed, fields, handlerVars,
                   stillActive, projectVars>>

\* Mutant: seal does not wait for the acceptor to stop.
CountActiveEarly ==
    /\ broker = "stopping"
    /\ stillActive' = activeRuns
    /\ broker' = "counted"
    /\ UNCHANGED <<wrapperVars, socketVars, fields, handlerVars, projectVars>>

\* <-c.serveDone, then `active := c.activeRuns` under the mutex.
CountActive ==
    /\ broker = "stopping" /\ serving = "done"
    /\ stillActive' = activeRuns
    /\ broker' = "counted"
    /\ UNCHANGED <<wrapperVars, socketVars, fields, handlerVars, projectVars>>

CloseConnections ==
    /\ broker = "counted"
    /\ severed' = severed \cup connections
    /\ broker' = "joining"
    /\ UNCHANGED <<wrapperVars, toServer, toWrapper, listening, fields, handlerVars,
                   stillActive, projectVars>>

\* Mutant: the active runs are counted after the handlers have left.
JoinCountingLate ==
    /\ broker = "joining"
    /\ \A w \in Wrappers : handler[w] \in {"none", "done"}
    /\ broker' = IF activeRuns > 0 THEN "failed" ELSE "sealed"
    /\ UNCHANGED <<wrapperVars, socketVars, fields, handlerVars, stillActive,
                   projectVars>>

\* Mutant: the handlers are not waited for.
JoinNobody ==
    /\ broker = "joining"
    /\ broker' = IF stillActive > 0 THEN "failed" ELSE "sealed"
    /\ UNCHANGED <<wrapperVars, socketVars, fields, handlerVars, stillActive,
                   projectVars>>

\* c.wg.Wait(), then the records or the error.
Join ==
    /\ broker = "joining"
    /\ \A w \in Wrappers : handler[w] \in {"none", "done"}
    /\ broker' = IF stillActive > 0 THEN "failed" ELSE "sealed"
    /\ UNCHANGED <<wrapperVars, socketVars, fields, handlerVars, stillActive,
                   projectVars>>

\* Anybody changes the project tree.
Edit ==
    /\ edits < MaxEdits
    /\ edits' = edits + 1
    /\ project' \in Contents \ {project}
    /\ disturbed' = disturbed \cup {w \in Wrappers : wrapper[w] = "running" /\ ticket[w] > 0}
    /\ UNCHANGED <<wrapperVars, socketVars, fields, handlerVars, brokerVars>>

-----------------------------------------------------------------------------
WrapperStep(w) ==
    \/ Dial(w) \/ SendStart(w) \/ ReadAnswer(w) \/ GiveUp(w) \/ ChildEnds(w) \/ Exit(w)
    \/ NextCommand(w)

\* What the handler's goroutine does without waiting for a deadline.
HandlerStep(w) ==
    \/ CheckPeer(w) \/ RefuseStart(w) \/ Grant(w) \/ TurnAway(w) \/ SendTicket(w)
    \/ TicketUnsent(w) \/ ReadFinish(w) \/ RunLost(w) \/ Record(w) \/ Leave(w)

ServeStep == ServeEnds \/ \E w \in Wrappers : Accept(w) \/ Register(w)
BrokerStep == StopAccepting \/ CountActive \/ CloseConnections \/ Join

CollectorNext ==
    \/ \E w \in Wrappers : WrapperStep(w) \/ HandlerStep(w) \/ StartDeadline(w)
    \/ ServeStep \/ Seal \/ BrokerStep \/ Edit

CollectorSpec == CollectorInit /\ [][CollectorNext]_collectorVars

\* The Go runtime runs the broker, the acceptor and some handler that can run;
\* harness, wrappers and clock owe nothing, and Accept waits for a dial.
FairSpec ==
    /\ CollectorSpec
    /\ WF_collectorVars(BrokerStep)
    /\ WF_collectorVars(ServeEnds \/ \E w \in Wrappers : Register(w))
    /\ WF_collectorVars(\E w \in Wrappers : HandlerStep(w))

-----------------------------------------------------------------------------
(* Properties. *)

InProgress == {w \in Wrappers : run[w] # NoRun}

\* The fields stay in their ranges: at most MaxRuns (receiptMaximumRuns) runs
\* are ever granted or recorded, with two steps each, and activeRuns counts
\* exactly the handlers that granted a run and have neither recorded it nor left.
CollectorTypeOK ==
    /\ wrapper \in [Wrappers -> {"idle", "dialed", "starting", "running", "reporting", "gone"}]
    /\ ticket \in [Wrappers -> 0 .. MaxRuns]
    /\ toServer \in [Wrappers -> {"nothing", "start", "finish"}]
    /\ toWrapper \in [Wrappers -> NoAnswer .. MaxRuns]
    /\ handler \in [Wrappers -> {"none", "accepted", "start", "checked", "granted",
                                 "waiting", "finished", "leaving", "done"}]
    /\ run \in [Wrappers -> [id : 0 .. MaxRuns, started : 0 .. 2 * MaxRuns,
                             before : Contents \cup {Incomplete}]]
    /\ serving \in Wrappers \cup {"accept", "done"} /\ listening \in BOOLEAN
    /\ connections \subseteq Wrappers /\ severed \subseteq Wrappers
    /\ records \in Seq([id : 1 .. MaxRuns, sequence : 1 .. MaxRuns,
                       started : 1 .. 2 * MaxRuns, completed : 1 .. 2 * MaxRuns,
                       stable : BOOLEAN, overlapped : BOOLEAN])
    /\ Len(records) <= nextID /\ nextID \in 0 .. MaxRuns /\ nextStep \in 0 .. 2 * MaxRuns
    /\ activeRuns = Cardinality(InProgress) /\ sealed \in BOOLEAN
    /\ broker \in {"harness", "sealing", "stopping", "counted", "joining", "sealed", "failed"}
    /\ stillActive \in 0 .. MaxRuns
    /\ project \in Contents /\ edits \in 0 .. MaxEdits /\ disturbed \subseteq Wrappers

\* A seal that succeeds leaves no observed command behind: no wrapper that
\* holds a ticket, or can still read one, is running its child (seal's error
\* "sealed with %d active command(s)"; a killed wrapper is gone, not running).
NoRunEscapesSeal ==
    broker = "sealed" =>
        \A w \in Wrappers : /\ wrapper[w] = "running" => ticket[w] = 0
                            /\ wrapper[w] = "starting" => toWrapper[w] <= 0

\* A seal that succeeds has every exit code the wrappers sent: none is left
\* unread in a connection, and each wrapper that reported has its receipt.
EveryFinishRecorded ==
    broker = "sealed" =>
        \A w \in Wrappers :
            /\ toServer[w] # "finish"
            /\ wrapper[w] = "reporting" =>
                  \E i \in DOMAIN records : records[i].id = ticket[w]

\* The receipts are in completion order, numbered from 1, and their steps place
\* every start and completion of two commands in one common order, which is how
\* overlapping commands are told apart (README.md, Test execution receipts).
ReceiptsOrdered ==
    \A i \in DOMAIN records :
        /\ records[i].sequence = i
        /\ records[i].started < records[i].completed
        /\ \A j \in DOMAIN records : i < j =>
              /\ records[i].completed < records[j].completed
              /\ records[j].started \notin {records[i].started, records[i].completed}
              /\ records[i].id # records[j].id

\* A command that overlaps a mutation of the project is not stable, unless another
\* mutation undoes the first.
OverlapIsSeen ==
    edits = 1 => \A i \in DOMAIN records : records[i].overlapped => ~records[i].stable

\* The receipts a successful seal returns are all of them, each of a finished command,
\* and say in which order the commands ran and which of them a mutation disturbed.
ReceiptsAreWhole ==
    NoRunEscapesSeal /\ EveryFinishRecorded /\ ReceiptsOrdered /\ OverlapIsSeen

\* Once seal has returned, the receipts it returned are all there will ever be.
RecordsFrozen ==
    [][(broker \in {"sealed", "failed"}) => (records' = records)]_collectorVars

\* Sealing never waits for an actor: with wrappers that stay silent for ever
\* and no deadline running out, seal still returns.
SealReturns == broker = "sealing" ~> broker \in {"sealed", "failed"}

=============================================================================
