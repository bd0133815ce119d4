-------------------------- MODULE CodexAppServer --------------------------
(* The broker's client of one Codex app-server process: runCodexAppServer in *)
(* src/evals/tools/sandbox-broker/main.go.  Four parties run concurrently:   *)
(* the client (the function's own goroutine), the scanner goroutine that     *)
(* hands stdout lines over an unbuffered channel, the goroutine that reaps   *)
(* the process, and the server on the other end of two bounded pipes.        *)
EXTENDS Integers, Sequences, SequencesExt

CONSTANTS
  Turns,     \* the task and its follow-ups: one turn/start each
  Room,      \* frames the stdin pipe holds before a write blocks
  OutRoom,   \* frames the stdout pipe holds before the server blocks
  MaxExtra   \* bound: frames the server sends beyond answers and completions

AppConstants ==
  Turns \in Nat \ {0} /\ Room \in Nat /\ OutRoom \in Nat /\ MaxExtra \in Nat

VARIABLES
  client,    \* the calling goroutine: where it is, which request it is at
  result,    \* what it returns, decided before the deferred stop runs
  trace,     \* the notifications kept as the run's trace
  scanner,   \* the scanning goroutine and the line it holds
  reaper,    \* the goroutine that waits for the process
  toServer,  \* frames in the stdin pipe
  toClient,  \* frames in the stdout pipe
  server,    \* the app-server process
  emitted,   \* every notification the server wrote, in order
  late       \* the request's deadline has passed

appVars == <<client, result, trace, scanner, reaper, toServer, toClient,
             server, emitted, late>>

(* Requests 1 to 3 are initialize, login and thread/start; request 3 + k     *)
(* starts turn k.  "initialized" is a notification: nothing answers it.      *)
Handshake == 3
LastRequest == Handshake + Turns
Frame(kind, id) == [kind |-> kind, id |-> id]
NoFrame == Frame("none", 0)
Notifications == {"note", "foreign", "completed", "failed"}
Answers == {"result", "error", "odd"}
NoResult == [rc |-> -1, why |-> "none", timedOut |-> FALSE]

AppInit ==
  /\ client = [at |-> "send", id |-> 1, back |-> "send"]
  /\ result = NoResult
  /\ trace = <<>>
  /\ scanner = [at |-> "read", held |-> NoFrame, err |-> FALSE]
  /\ reaper = "scan"
  /\ toServer = <<>> /\ toClient = <<>>
  /\ server = [up |-> TRUE, owes |-> 0, turn |-> 0, done |-> 0, extra |-> 0,
               signal |-> "none", garbled |-> FALSE]
  /\ emitted = <<>>
  /\ late = FALSE

-----------------------------------------------------------------------------
(* The client.                                                               *)

(* Every return: the result is fixed, then the deferred stop cancels the     *)
(* scanner, closes stdin and sends SIGTERM to the process group.             *)
Finish(rc, why, timedOut) ==
  /\ result' = [rc |-> rc, why |-> why, timedOut |-> timedOut]
  /\ client' = [client EXCEPT !.at = "stop"]

(* writeMessage: blocks while the pipe is full, whatever the deadline says;  *)
(* fails when the process has gone.                                          *)
WriteFrame(frame) ==
  /\ server.up /\ Len(toServer) < Room
  /\ toServer' = Append(toServer, frame)
BrokenPipe == ~server.up

AppSend ==
  /\ client.at = "send"
  /\ WriteFrame(Frame("request", client.id))
  /\ client' = [client EXCEPT !.at = "await"]
  /\ UNCHANGED <<result, trace, scanner, reaper, toClient, server, emitted, late>>

(* The "initialized" notification that follows the first answer.             *)
AppNotify ==
  /\ client.at = "notify"
  /\ WriteFrame(Frame("initialized", 0))
  /\ client' = [client EXCEPT !.at = "send"]
  /\ UNCHANGED <<result, trace, scanner, reaper, toClient, server, emitted, late>>

(* handleServerRequest: whatever the server asks for is refused.             *)
AppRefuse ==
  /\ client.at = "reply"
  /\ WriteFrame(Frame("refusal", 0))
  /\ client' = [client EXCEPT !.at = client.back]
  /\ UNCHANGED <<result, trace, scanner, reaper, toClient, server, emitted, late>>

AppWriteFails ==
  /\ client.at \in {"send", "notify", "reply"}
  /\ BrokenPipe
  /\ Finish(125, "write", FALSE)
  /\ UNCHANGED <<trace, scanner, reaper, toServer, toClient, server, emitted, late>>

(* waitResponse: a frame without an id is passed over; another id, an error  *)
(* or a result of the wrong shape ends the run.                              *)
Await(frame) ==
  \/ /\ frame.kind \in Notifications
     /\ UNCHANGED <<client, result>>
  \/ /\ frame.kind \in Answers
     /\ frame.id # client.id \/ frame.kind # "result"
     /\ Finish(125, "answer", FALSE)
  \/ /\ frame.kind = "result" /\ frame.id = client.id
     /\ client' = CASE client.id = 1 -> [client EXCEPT !.at = "notify", !.id = 2]
                    [] client.id \in 2..Handshake ->
                         [client EXCEPT !.at = "send", !.id = client.id + 1]
                    [] OTHER -> [client EXCEPT !.at = "turn"]
     /\ UNCHANGED result

(* The turn loop waits for turn/completed of its own thread and checks the   *)
(* turn's status; after the last turn the run is done.                       *)
\* Mutant: the thread of the notification is not compared.
TurnOverAnyThread(frame) == frame.kind \in {"completed", "foreign"}

TurnOver(frame) == frame.kind = "completed"

MoreTurns == client.id < LastRequest

InTurn(frame) ==
  \/ /\ frame.kind # "failed" /\ ~TurnOver(frame)
     /\ UNCHANGED <<client, result>>
  \/ /\ frame.kind = "failed"
     /\ Finish(125, "turn", FALSE)
  \/ /\ TurnOver(frame) /\ MoreTurns
     /\ client' = [client EXCEPT !.at = "send", !.id = @ + 1]
     /\ UNCHANGED result
  \/ /\ TurnOver(frame) /\ ~MoreTurns
     /\ Finish(0, "done", FALSE)

Kept(frame) == IF frame.kind \in Notifications THEN Append(trace, frame.kind) ELSE trace

(* The receive arm of next(): the scanner's pending send meets the client.   *)
AppReceive ==
  /\ client.at \in {"await", "turn"}
  /\ scanner.at = "offer"
  /\ scanner' = [scanner EXCEPT !.at = "read", !.held = NoFrame]
  /\ LET frame == scanner.held IN
     \/ /\ frame.kind = "ask"
        /\ client' = [client EXCEPT !.at = "reply", !.back = client.at]
        /\ UNCHANGED <<result, trace>>
     \/ /\ frame.kind # "ask"
        /\ trace' = Kept(frame)
        /\ IF client.at = "await" THEN Await(frame) ELSE InTurn(frame)
  /\ UNCHANGED <<reaper, toServer, toClient, server, emitted, late>>

(* The scanner closed the channel: its error, or an early end.               *)
AppClosed ==
  /\ client.at \in {"await", "turn"}
  /\ scanner.at = "done"
  /\ Finish(125, IF scanner.err THEN "json" ELSE "closed", FALSE)
  /\ UNCHANGED <<trace, scanner, reaper, toServer, toClient, server, emitted, late>>

(* The deadline arm of next().  Only the turn loop reports it as a timeout.  *)
AppDeadline ==
  /\ client.at \in {"await", "turn"}
  /\ late
  /\ IF client.at = "turn" THEN Finish(124, "deadline", TRUE)
                           ELSE Finish(125, "deadline", FALSE)
  /\ UNCHANGED <<trace, scanner, reaper, toServer, toClient, server, emitted, late>>

(* stop: cancel, SIGTERM, then SIGKILL after a grace period, then wait.      *)
AppStop ==
  /\ client.at = "stop"
  /\ client' = [client EXCEPT !.at = "grace"]
  /\ server' = [server EXCEPT !.signal = "term"]
  /\ UNCHANGED <<result, trace, scanner, reaper, toServer, toClient, emitted, late>>
AppKill ==
  /\ client.at = "grace"
  /\ client' = [client EXCEPT !.at = "reap"]
  /\ server' = [server EXCEPT !.signal = "kill"]
  /\ UNCHANGED <<result, trace, scanner, reaper, toServer, toClient, emitted, late>>
\* Mutant: the grace period ends without a kill and a wait.
AppReturnEarly ==
  /\ client.at = "grace"
  /\ client' = [client EXCEPT !.at = "returned"]
  /\ UNCHANGED <<result, trace, scanner, reaper, toServer, toClient, server, emitted, late>>

AppReturn ==
  /\ client.at \in {"grace", "reap"}
  /\ reaper = "reaped"
  /\ client' = [client EXCEPT !.at = "returned"]
  /\ UNCHANGED <<result, trace, scanner, reaper, toServer, toClient, server, emitted, late>>

Client == AppSend \/ AppNotify \/ AppRefuse \/ AppWriteFails \/ AppReceive
            \/ AppClosed \/ AppDeadline \/ AppStop \/ AppKill \/ AppReturn

-----------------------------------------------------------------------------
(* The scanner and the reaper.                                               *)

\* Mutant: the scanner ignores the deadline.
NeverCancelled == FALSE

Cancelled == late \/ client.at \in {"grace", "reap", "returned"}
PipeClosed == reaper = "reaped"

ScanLine ==
  /\ scanner.at = "read"
  /\ toClient # <<>> /\ ~PipeClosed
  /\ toClient' = Tail(toClient)
  /\ scanner' = IF Head(toClient).kind = "garbage"
                THEN [scanner EXCEPT !.at = "done", !.err = TRUE]
                ELSE [scanner EXCEPT !.at = "offer", !.held = Head(toClient)]
  /\ UNCHANGED <<client, result, trace, reaper, toServer, server, emitted, late>>
ScanEnd ==
  /\ scanner.at = "read"
  /\ PipeClosed \/ (toClient = <<>> /\ ~server.up)
  /\ scanner' = [scanner EXCEPT !.at = "done"]
  /\ UNCHANGED <<client, result, trace, reaper, toServer, toClient, server, emitted, late>>
ScanCancelled ==
  /\ scanner.at = "offer"
  /\ Cancelled
  /\ scanner' = [scanner EXCEPT !.at = "done", !.held = NoFrame]
  /\ UNCHANGED <<client, result, trace, reaper, toServer, toClient, server, emitted, late>>

(* Wait closes the pipe, so the reaper first waits for the scanner.          *)
Drained == scanner.at = "done"
ReapStart ==
  /\ reaper = "scan" /\ Drained
  /\ reaper' = "wait"
  /\ UNCHANGED <<client, result, trace, scanner, toServer, toClient, server, emitted, late>>
Reap ==
  /\ reaper = "wait" /\ ~server.up
  /\ reaper' = "reaped"
  /\ UNCHANGED <<client, result, trace, scanner, toServer, toClient, server, emitted, late>>

Goroutines == ScanLine \/ ScanEnd \/ ScanCancelled \/ ReapStart \/ Reap

-----------------------------------------------------------------------------
(* The server, as far as its client depends on it: it answers a turn/start   *)
(* before it reports the turn's end and runs one turn at a time.             *)

Emit(frame) ==
  /\ server.up /\ Len(toClient) < OutRoom
  /\ toClient' = Append(toClient, frame)
  /\ emitted' = IF frame.kind \in Notifications THEN Append(emitted, frame.kind) ELSE emitted

ServerTake ==
  /\ server.up /\ toServer # <<>>
  /\ toServer' = Tail(toServer)
  /\ server' = IF Head(toServer).kind = "request"
               THEN [server EXCEPT !.owes = Head(toServer).id] ELSE server
  /\ UNCHANGED <<client, result, trace, scanner, reaper, toClient, emitted, late>>
ServerAnswer ==
  /\ server.owes # 0
  /\ Emit(Frame("result", server.owes))
  /\ server' = [server EXCEPT !.owes = 0,
                 !.turn = IF server.owes > Handshake THEN server.owes - Handshake ELSE @]
  /\ UNCHANGED <<client, result, trace, scanner, reaper, toServer, late>>
ServerMisanswers ==
  /\ server.owes # 0 /\ server.extra < MaxExtra
  /\ \E frame \in {Frame("error", server.owes), Frame("odd", server.owes),
                   Frame("result", server.owes + 1)} : Emit(frame)
  /\ server' = [server EXCEPT !.owes = 0, !.extra = @ + 1]
  /\ UNCHANGED <<client, result, trace, scanner, reaper, toServer, late>>
(* Other threads' turns, progress notes, requests of its own, broken lines.  *)
ServerExtra ==
  /\ server.extra < MaxExtra
  /\ \E kind \in {"note", "foreign", "ask", "garbage"} :
       /\ Emit(Frame(kind, 0))
       /\ server' = [server EXCEPT !.extra = @ + 1, !.garbled = @ \/ kind = "garbage"]
  /\ UNCHANGED <<client, result, trace, scanner, reaper, toServer, late>>
ServerEndsTurn ==
  /\ server.turn # server.done
  /\ \E kind \in {"completed", "failed"} :
       /\ Emit(Frame(kind, 0))
       /\ server' = [server EXCEPT !.turn = IF kind = "completed" THEN @ ELSE server.done,
                                   !.done = IF kind = "completed" THEN server.turn ELSE @]
  /\ UNCHANGED <<client, result, trace, scanner, reaper, toServer, late>>
ServerExit ==
  /\ server.up
  /\ server' = [server EXCEPT !.up = FALSE]
  /\ UNCHANGED <<client, result, trace, scanner, reaper, toServer, toClient, emitted, late>>
ServerKilled == server.signal = "kill" /\ ServerExit

Server == ServerTake \/ ServerAnswer \/ ServerMisanswers \/ ServerExtra
            \/ ServerEndsTurn \/ ServerExit

DeadlinePasses ==
  /\ ~late
  /\ late' = TRUE
  /\ UNCHANGED <<client, result, trace, scanner, reaper, toServer, toClient, server, emitted>>

AppDone == client.at = "returned" /\ UNCHANGED appVars

AppNext == Client \/ Goroutines \/ Server \/ DeadlinePasses \/ AppDone

(* The goroutines are scheduled, timers fire and SIGKILL ends a process; the *)
(* server owes nothing.                                                      *)
AppFairness ==
  /\ WF_appVars(Client) /\ WF_appVars(Goroutines)
  /\ WF_appVars(DeadlinePasses) /\ WF_appVars(ServerKilled)

AppSpec == AppInit /\ [][AppNext]_appVars /\ AppFairness

-----------------------------------------------------------------------------
(* Properties.                                                               *)

AppTypeOK ==
  /\ client.at \in {"send", "notify", "reply", "await", "turn", "stop", "grace",
                    "reap", "returned"}
  /\ client.id \in 1..LastRequest /\ client.back \in {"send", "await", "turn"}
  /\ result.rc \in {-1, 0, 124, 125}
  /\ trace \in Seq(Notifications) /\ emitted \in Seq(Notifications)
  /\ scanner.at \in {"read", "offer", "done"}
  /\ reaper \in {"scan", "wait", "reaped"}
  /\ Len(toServer) <= Room /\ Len(toClient) <= OutRoom

(* A run that reports success saw every turn of its own thread complete,     *)
(* and its trace is what the server reported up to there, nothing missing.   *)
DoneMeansAllCompleted ==
  result.rc = 0 => server.done = Turns
TraceHasNoGaps == IsPrefix(trace, emitted)

(* "closed before turn completion" is said only of a server that did close   *)
(* before its turns were complete: its last frames are drained first.        *)
ClosedMeansUnfinished ==
  result.why = "closed" => server.done < Turns \/ late

(* Turns of one conversation do not overlap.                                 *)
OneTurnAtATime == server.turn \in {server.done, server.done + 1}

(* When the function has returned, no goroutine of it runs on and the        *)
(* process is gone.                                                          *)
NothingRunsOn ==
  client.at = "returned" => scanner.at = "done" /\ reaper = "reaped" /\ ~server.up

(* Whatever the server does, the run is over once the deadline has passed.   *)
EndsByDeadline == late ~> client.at = "returned"
=============================================================================
