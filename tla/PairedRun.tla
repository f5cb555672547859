------------------------------- MODULE PairedRun -------------------------------
(***************************************************************************)
(* One benchmark run, from its HTTP request to its clean-up:               *)
(* internal/container/paired_run.go and internal/api/handlers/benchmark.go.*)
(*                                                                         *)
(* Five goroutines take part: the orchestrator (Manager.PairedRun), the    *)
(* two log streamers it starts, the HTTP handler that forwards events to   *)
(* the client, and the client itself.  They share the run context, the     *)
(* bounded events channel and the run's Docker resources.  An orchestrator *)
(* step is one Docker request together with the status event that follows  *)
(* it; a "result" or "error" event is a step of its own, since it blocks.  *)
(*                                                                         *)
(* Abstractions: status and progress events are "news"; an event is its    *)
(* kind.  The log contexts are cancelled on the way to the clean-up.       *)
(***************************************************************************)
EXTENDS Naturals, Sequences

CONSTANTS
  Cap,           \* capacity of the events channel (64 in benchmark.go:81)
  LostReplies    \* may a Docker request take effect although its caller gets an error?

ASSUME RunAssumption == Cap \in Nat \ {0} /\ LostReplies \in BOOLEAN

VARIABLES
  valid,      \* benchmark.kind is one PairedRun accepts (the handler does not check)
  opc,        \* the orchestrator's position: the request it is about to make
  todo,       \* what clean-up still has to remove
  ctx,        \* the run context: live, cancelled, or past its deadline
  known,      \* containers whose ID runState holds
  docker,     \* the state of each Docker resource of the run
  log,        \* the two log streamers
  chan, open, \* the events channel: its buffer, and whether it is still open
  hpc,        \* the HTTP handler
  client,     \* the client's connection: on, gone, or gone and noticed by the server
  panicked,   \* some goroutine sent on the closed channel: the process is dead
  lost,       \* history: containers created by a request whose reply was lost
  fault,      \* history: Docker refused a request of the clean-up
  dropped,    \* history: a final event was given up after terminalEventTimeout
  received    \* history: the outcomes written to the client

runVars == <<valid, opc, todo, ctx, known, docker, log, chan, open, hpc, client,
             panicked, lost, fault, dropped, received>>

Containers == {"engine", "bench"}
Resources  == Containers \cup {"network", "volume"}
Outcome    == {"error", "result"}
Kinds      == {"news", "logerror"} \cup Outcome

(* The positions of the orchestrator, in the order of PairedRun. *)
Setup   == {"network", "volume", "engine", "startEngine", "health", "bench", "copy",
            "startBench", "wait", "exit", "collect"}
Final   == {"error", "result"}
Ending  == {"cleanup", "close", "done"}
-----------------------------------------------------------------------------
RunInit ==
  /\ valid \in BOOLEAN
  /\ opc = "start" /\ todo = <<>> /\ ctx = "live" /\ known = {}
  /\ docker = [x \in Resources |-> "absent"]
  /\ log = [x \in Containers |-> "off"]
  /\ chan = <<>> /\ open = TRUE
  /\ hpc = "loop" /\ client = "on"
  /\ panicked = FALSE /\ lost = {} /\ fault = FALSE /\ dropped = FALSE
  /\ received = {}

Full == Len(chan) >= Cap

(* emit, for status and progress events: dropped if the channel is full. *)
Post(k) == IF Full THEN chan ELSE Append(chan, k)

(* A Docker request of the orchestrator that takes resource x to a new state: it
   succeeds, fails, or takes effect although the orchestrator sees an error (a
   connection or a context that ends before the reply). *)
Ask(x, state, next) ==
  LET done == [docker EXCEPT ![x] = state] IN
  \/ ctx = "live" /\ docker' = done /\ opc' = next /\ chan' = Post("news")
  \/ opc' = "error" /\ UNCHANGED <<docker, chan>>
  \/ LostReplies /\ docker' = done /\ opc' = "error" /\ UNCHANGED chan

(* ContainerCreate: the ID reaches runState only with a successful reply. *)
Record(c) == IF opc' = "error" THEN {} ELSE {c}

Create(c, next) ==
  /\ Ask(c, "created", next)
  /\ known' = known \cup Record(c)
  /\ lost' = lost \cup (IF opc' = "error" /\ docker'[c] # "absent" THEN {c} ELSE {})

(* ContainerStart, and the log streamer that follows a successful one. *)
Start(c, next) ==
  /\ Ask(c, "running", next)
  /\ log' = [log EXCEPT ![c] = IF opc' = next THEN "open" ELSE @]
-----------------------------------------------------------------------------
(* The orchestrator: validation and the setup requests.  A request refused by the
   validation returns before the clean-up is deferred, and says nothing. *)
Validate ==
  /\ opc = "start"
  /\ \/ valid /\ opc' = "network" /\ chan' = Post("news")
     \/ ~valid /\ opc' = "close" /\ UNCHANGED chan
  /\ UNCHANGED <<docker, known, log, lost>>

CreateNetwork ==
  opc = "network" /\ Ask("network", "created", "volume") /\ UNCHANGED <<known, log, lost>>

CreateVolume ==
  opc = "volume" /\ Ask("volume", "created", "engine") /\ UNCHANGED <<known, log, lost>>

CreateEngine == opc = "engine" /\ Create("engine", "startEngine") /\ UNCHANGED log

StartEngine == opc = "startEngine" /\ Start("engine", "health") /\ UNCHANGED <<known, lost>>

(* waitEngineHealthy: one more poll, or the engine answers, or time is up. *)
PollHealth ==
  /\ opc = "health" /\ ctx = "live"
  /\ chan' = Post("news")
  /\ UNCHANGED <<opc, docker, known, log, lost>>

LeaveHealth ==
  /\ opc = "health"
  /\ \/ ctx = "live" /\ docker["engine"] = "running" /\ opc' = "bench" /\ chan' = Post("news")
     \/ opc' = "error" /\ UNCHANGED chan
  /\ UNCHANGED <<docker, known, log, lost>>

CreateBench == opc = "bench" /\ Create("bench", "copy") /\ UNCHANGED log

(* copyBenchmarkConfig posts no event. *)
CopyConfig ==
  /\ opc = "copy"
  /\ \/ ctx = "live" /\ opc' = "startBench"
     \/ opc' = "error"
  /\ UNCHANGED <<docker, known, log, lost, chan>>

StartBench == opc = "startBench" /\ Start("bench", "wait") /\ UNCHANGED <<known, lost>>

(* waitForExit: the benchmark has exited, with code 0 or not, or the context is done. *)
WaitReturns ==
  /\ opc = "wait"
  /\ \/ docker["bench"] = "exited" /\ opc' \in {"collect", "exit"}
     \/ ctx # "live" /\ opc' = "error"
  /\ UNCHANGED <<docker, known, log, lost, chan>>

(* Docker gives up the wait with an error of its own. *)
WaitBreaks ==
  /\ opc = "wait" /\ opc' = "error"
  /\ UNCHANGED <<docker, known, log, lost, chan>>

(* A status event, then readResults: out.json is there and valid, or not. *)
Collect ==
  /\ opc = "collect" /\ chan' = Post("news")
  /\ \/ ctx = "live" /\ opc' = "result"
     \/ opc' = "error"
  /\ UNCHANGED <<docker, known, log, lost>>

Quiet == UNCHANGED <<valid, todo, ctx, open, hpc, client, panicked, fault, dropped,
                     received>>

Proceed ==
  /\ ~panicked /\ Quiet
  /\ \/ Validate \/ CreateNetwork \/ CreateVolume \/ CreateEngine \/ StartEngine
     \/ LeaveHealth \/ CreateBench \/ CopyConfig \/ StartBench \/ WaitReturns \/ Collect

Poll  == ~panicked /\ Quiet /\ PollHealth
Break == ~panicked /\ Quiet /\ WaitBreaks
-----------------------------------------------------------------------------
(* The orchestrator: final events and clean-up. *)

VolumeFirst  == <<"volume", "bench", "engine", "network">> \* mutated: volume still in use
CleanupOrder == <<"bench", "engine", "network", "volume">>

(* Where the orchestrator is after its blocking event: a benchmark that exited with
   an error is followed by the collection of its results, all else by clean-up. *)
AfterFinal ==
  /\ opc' = IF opc = "exit" THEN "collect" ELSE "cleanup"
  /\ todo' = IF opc = "exit" THEN todo ELSE CleanupOrder

(* emit, for "result" and "error": waits for room in the channel. *)
EmitNoWait ==                                    \* mutated: dropped like any event
  /\ ~panicked /\ opc \in Final \cup {"exit"}
  /\ chan' = Post(IF opc = "result" THEN "result" ELSE "error")
  /\ AfterFinal
  /\ UNCHANGED <<valid, ctx, known, docker, log, open, hpc, client, panicked, lost, fault,
                 dropped, received>>
EmitFinal ==
  /\ ~panicked /\ opc \in Final \cup {"exit"} /\ ~Full
  /\ chan' = Append(chan, IF opc = "result" THEN "result" ELSE "error")
  /\ AfterFinal
  /\ UNCHANGED <<valid, ctx, known, docker, log, open, hpc, client, panicked, lost, fault,
                 dropped, received>>

(* ... but not longer than terminalEventTimeout. *)
NoTimer == FALSE                                 \* mutated: no terminalEventTimeout
TimerFires == Full

GiveUpFinal ==
  /\ ~panicked /\ opc \in Final \cup {"exit"} /\ TimerFires
  /\ dropped' = TRUE
  /\ AfterFinal
  /\ UNCHANGED <<valid, ctx, known, docker, log, chan, open, hpc, client, panicked, lost,
                 fault, received>>

(* Docker's own conditions (external): a network with running containers and a
   volume in use by a container are not removed. *)
Removable(x) ==
  /\ x = "network" => \A c \in Containers : docker[c] # "running"
  /\ x = "volume" => docker["bench"] = "absent"

(* cleanupRun, one resource at a time, on a context of its own: containers are
   stopped and removed if their ID is known, and every error is ignored. *)
RunContext == ctx = "live"                       \* mutated: clean-up on the run's context
CleanupContext == TRUE

Cleanup ==
  /\ ~panicked /\ opc = "cleanup" /\ todo # <<>>
  /\ LET x == Head(todo) IN
       \/ /\ x \in Containers => x \in known
          /\ CleanupContext /\ Removable(x)
          /\ docker' = [docker EXCEPT ![x] = "absent"]
          /\ UNCHANGED fault
       \/ /\ x \in Containers \ known \/ ~CleanupContext \/ ~Removable(x)
          /\ UNCHANGED <<docker, fault>>
       \/ fault' = TRUE /\ UNCHANGED docker
  /\ todo' = Tail(todo)
  /\ opc' = IF Tail(todo) = <<>> THEN "close" ELSE "cleanup"
  /\ UNCHANGED <<valid, ctx, known, log, chan, open, hpc, client, panicked, lost, dropped,
                 received>>

(* close(events), the last deferred call; the goroutine then sends to runErr. *)
Close ==
  /\ ~panicked /\ opc = "close"
  /\ open' = FALSE /\ opc' = "done"
  /\ UNCHANGED <<valid, todo, ctx, known, docker, log, chan, hpc, client, panicked, lost,
                 fault, dropped, received>>
-----------------------------------------------------------------------------
(* streamLogs(c) *)

LogQuiet == UNCHANGED <<valid, opc, todo, ctx, known, docker, open, hpc, client, lost, fault,
                        dropped, received>>

(* A send on the closed channel panics, whether or not it would block. *)
Send(k) == \/ open /\ chan' = Post(k) /\ UNCHANGED panicked
           \/ ~open /\ panicked' = TRUE /\ UNCHANGED chan

(* ContainerLogs returns a stream, or an error that is reported: the cancellation
   of the log context, deferred by PairedRun, is such an error too. *)
OpenLogs(c) ==
  /\ ~panicked /\ log[c] = "open"
  /\ \/ ctx = "live" /\ opc \notin Ending /\ log' = [log EXCEPT ![c] = "read"]
     \/ log' = [log EXCEPT ![c] = "report"]
  /\ UNCHANGED <<chan, panicked>> /\ LogQuiet

(* A line is emitted, from what has been read already if the stream has ended. *)
ReadLine(c) ==
  /\ ~panicked /\ log[c] = "read"
  /\ Send("news")
  /\ UNCHANGED log /\ LogQuiet

(* The stream ends: quietly at its end or on cancellation, with a report on any
   other error, among them a run context past its deadline. *)
EndLogs(c) ==
  /\ ~panicked /\ log[c] = "read"
  /\ log' = [log EXCEPT ![c] = "end"] \/ log' = [log EXCEPT ![c] = "report"]
  /\ UNCHANGED <<chan, panicked>> /\ LogQuiet

(* The report blocks like any "error" event, and is given up like one. *)
ReportLogs(c) ==
  /\ ~panicked /\ log[c] = "report"
  /\ \/ (open => ~Full) /\ Send("logerror")
     \/ open /\ TimerFires /\ UNCHANGED <<chan, panicked>>
  /\ log' = [log EXCEPT ![c] = "end"]
  /\ LogQuiet

Stream(c) == OpenLogs(c) \/ ReadLine(c) \/ EndLogs(c) \/ ReportLogs(c)
-----------------------------------------------------------------------------
(* BenchmarkHandler.Run, its client, and the clock *)

HandlerQuiet == UNCHANGED <<valid, opc, todo, known, docker, log, open, panicked, lost, fault,
                            dropped>>

CtxDone(why) == ctx' = IF ctx = "live" THEN why ELSE ctx

(* An event is written; it reaches the client if that is still there. *)
Forward ==
  /\ ~panicked /\ hpc = "loop" /\ chan # <<>>
  /\ chan' = Tail(chan)
  /\ received' = IF client = "on" THEN received \cup ({Head(chan)} \cap Outcome) ELSE received
  /\ UNCHANGED <<hpc, client, ctx>> /\ HandlerQuiet

(* Writing fails: the handler returns, and its deferred cancel stops the run. *)
WriteFails ==
  /\ ~panicked /\ hpc = "loop" /\ chan # <<>> /\ client # "on"
  /\ chan' = Tail(chan) /\ hpc' = "left" /\ CtxDone("cancelled")
  /\ UNCHANGED <<client, received>> /\ HandlerQuiet

(* The disconnect is noticed: cancel, and wait for the run without draining. *)
SeeDisconnect ==
  /\ ~panicked /\ hpc = "loop" /\ client = "noticed"
  /\ hpc' = "drain"
  /\ UNCHANGED <<chan, ctx, client, received>> /\ HandlerQuiet

(* The channel is closed and empty. *)
SeeEmpty ==                                      \* mutated: an empty channel is taken for closed
  /\ ~panicked /\ hpc = "loop" /\ chan = <<>>
  /\ hpc' = "await"
  /\ UNCHANGED <<chan, ctx, client, received>> /\ HandlerQuiet
SeeClosed ==
  /\ ~panicked /\ hpc = "loop" /\ chan = <<>> /\ ~open
  /\ hpc' = "await"
  /\ UNCHANGED <<chan, ctx, client, received>> /\ HandlerQuiet

(* runErr is received. *)
Finish ==
  /\ ~panicked /\ hpc \in {"drain", "await"} /\ opc = "done"
  /\ hpc' = IF hpc = "await" THEN "ended" ELSE "left"
  /\ UNCHANGED <<chan, ctx, client, received>> /\ HandlerQuiet

Handle == WriteFails \/ SeeDisconnect \/ SeeClosed \/ Finish

Disconnect ==
  /\ ~panicked /\ client = "on" /\ client' = "gone"
  /\ UNCHANGED <<chan, ctx, hpc, received>> /\ HandlerQuiet

(* The server notices: the request context is cancelled, and the run's with it. *)
Notice ==
  /\ ~panicked /\ client = "gone" /\ client' = "noticed" /\ CtxDone("cancelled")
  /\ UNCHANGED <<chan, hpc, received>> /\ HandlerQuiet

(* The run's timeout_seconds are over. *)
RunTimeout ==
  /\ ~panicked /\ ctx = "live" /\ ctx' = "deadline"
  /\ UNCHANGED <<chan, hpc, client, received>> /\ HandlerQuiet

(* A running container exits by itself (external). *)
Exit(c) ==
  /\ ~panicked /\ docker[c] = "running"
  /\ docker' = [docker EXCEPT ![c] = "exited"]
  /\ UNCHANGED <<valid, opc, todo, ctx, known, log, chan, open, hpc, client, panicked, lost,
                 fault, dropped, received>>

(* Nothing is left to do: the run and its request are over, or the process is dead. *)
Over ==
  /\ panicked \/ (opc = "done" /\ hpc \in {"ended", "left"})
  /\ UNCHANGED runVars

Orchestrate == Proceed \/ EmitFinal \/ GiveUpFinal \/ Cleanup \/ Close

RunNext ==
  \/ Orchestrate \/ Poll \/ Break
  \/ \E c \in Containers : Stream(c) \/ Exit(c)
  \/ Forward \/ Handle \/ Disconnect \/ Notice \/ RunTimeout \/ Over

RunSpec == RunInit /\ [][RunNext]_runVars

(* Every Docker request ends (with the run's context at the latest, clean-up after
   30 s), timers fire, and a handler that is not blocked in a write goes on.  Neither
   the client, nor its connection, nor the containers are assumed to do anything. *)
RunFairness == WF_runVars(Orchestrate) /\ WF_runVars(RunTimeout) /\ WF_runVars(Handle)

FairRunSpec == RunSpec /\ RunFairness
-----------------------------------------------------------------------------
(* Properties *)

(* Every variable has its type. *)
RunTypeOK ==
  /\ valid \in BOOLEAN /\ open \in BOOLEAN /\ panicked \in BOOLEAN
  /\ opc \in {"start"} \cup Setup \cup Final \cup Ending
  /\ todo \in Seq(Resources) /\ Len(todo) <= 4
  /\ ctx \in {"live", "cancelled", "deadline"}
  /\ known \subseteq Containers /\ lost \subseteq Containers
  /\ docker \in [Resources -> {"absent", "created", "running", "exited"}]
  /\ log \in [Containers -> {"off", "open", "read", "report", "end"}]
  /\ chan \in Seq(Kinds) /\ Len(chan) <= Cap
  /\ hpc \in {"loop", "drain", "await", "ended", "left"}
  /\ client \in {"on", "gone", "noticed"}
  /\ fault \in BOOLEAN /\ dropped \in BOOLEAN
  /\ received \subseteq Outcome

(* Wherever the run fails, is cancelled or times out, and in whatever state its
   containers are by then, nothing of it is left in Docker when it returns
   (paired_run.go:101), as long as Docker carries out the clean-up's own requests
   and no ID was lost with the reply that should have carried it. *)
NoLeak ==
  opc = "done" /\ ~fault /\ lost = {} => \A x \in Resources : docker[x] = "absent"

(* A client that stays until the stream ends has been told the outcome by an event
   of the orchestrator (paired_run.go:258), however slowly it reads, if the run got
   past its validation and no final event had to be given up after 10 s. *)
OutcomeReported ==
  hpc = "ended" /\ client = "on" /\ valid /\ ~dropped => received # {}

(* Every run ends, even with a client that has stopped reading and a full channel,
   a benchmark that never exits, or a handler that waits for the run. *)
RunFinishes == <>(opc = "done" \/ panicked)

(* A handler whose client has gone returns: it waits for the run (benchmark.go:96)
   and the run never waits for it for ever. *)
DisconnectFreesHandler == client = "noticed" ~> (hpc \in {"ended", "left"} \/ panicked)

(* The log streamers stop with the run (paired_run.go:455), so that none of them
   sends on the channel the run has closed. *)
NoSendOnClosed == ~panicked

(* The run keeps its promise to the host: it takes resources before its clean-up, gives
   them back in the order their use requires, and holds none when it returns. *)
Phase   == IF opc = "cleanup" THEN "cleanup"
           ELSE IF opc \in {"close", "done"} THEN "over" ELSE "setup"
Held    == {x \in Resources : docker[x] # "absent"}
Excused == fault \/ lost # {}
Life    == INSTANCE RunLife WITH Containers <- Containers, Others <- {"network", "volume"},
             phase <- Phase, held <- Held, excused <- Excused
KeepsPromise == Life!LifeSpec

(* What Daemon keeps of the run: its position among the Docker requests of the setup, what
   its clean-up has left, and what Docker has under its ID. *)
HostPc ==
  CASE opc \in {"start", "done"} \/ (opc = "close" /\ ~valid) -> "idle"
    [] opc \in Final \cup {"cleanup"} \/ (opc = "close" /\ valid) -> "cleanup"
    [] opc = "health" -> "bench"
    [] opc = "copy" -> "startBench"
    [] opc \in {"exit", "collect"} -> "wait"
    [] OTHER -> opc
HostTodo == IF opc \in Final THEN CleanupOrder ELSE todo
HostBy(c) == IF HostPc # "idle" /\ c \in known /\ docker[c] # "absent" THEN "run" ELSE "nobody"
HostStray == IF hpc = "left" /\ HostPc # "idle" THEN {"run"} ELSE {}
OnHost(b) == IF b THEN {"id"} ELSE {}

Host == INSTANCE Daemon WITH
          Clients <- {"run"}, Names <- {"id"}, RunName <- [r \in {"run"} |-> "id"],
          Nobody <- "nobody",
          proc <- "serving", told <- FALSE, failed <- FALSE, exit <- "none",
          pc <- [r \in {"run"} |-> HostPc], todo <- [r \in {"run"} |-> HostTodo],
          box <- [n \in {"id"} |-> [c \in Containers |-> docker[c]]],
          by <- [n \in {"id"} |-> [c \in Containers |-> HostBy(c)]],
          nets <- OnHost(docker["network"] # "absent"),
          vols <- OnHost(docker["volume"] # "absent"),
          marred <- OnHost(fault \/ lost # {}), late <- {},
          stray <- HostStray

(* With its events, logs, context and client taken away, the run is a run of Daemon: each
   of its steps is one Docker request there, the exit of a container, the return of a
   handler that cannot write, or nothing, so that what Daemon says of runs that meet under
   one ID is said of this one. *)
RunsAsInDaemon ==
  /\ Host!Idle("id") /\ Host!Clean("id")
  /\ [][\/ Host!Request("run") \/ Host!RunStep("run") \/ Host!StreamBreaks("run")
       \/ \E c \in Containers : Host!Exits("id", c)]_(Host!dVars)
-----------------------------------------------------------------------------
(* The inductive invariant behind NoLeak and OutcomeReported. *)

Absent(S) == \A x \in S : docker[x] = "absent"
Gone(S)   == ~fault /\ lost = {} => Absent(S)

(* A run refused by the validation has created nothing; a container that exists, or
   that a start request could bring to life, is known or lost. *)
NothingYet  == opc = "start" => Absent(Resources)
Recorded    == \A c \in Containers : docker[c] # "absent" => c \in known \cup lost
StartsKnown == /\ opc = "startEngine" => "engine" \in known
               /\ opc \in {"copy", "startBench"} => "bench" \in known

(* The setup makes one resource after the other, each under a name that is free, and
   what it needs next is still there; only a request that passed the validation gets
   this far, and only the clean-up has a list.  No handler leaves before the first event,
   and one that does takes the run's context with it. *)
SetupSoFar ==
  /\ opc \in {"start", "network"} => Absent(Resources)
  /\ opc = "volume" => Absent({"volume"} \cup Containers)
  /\ opc = "engine" => Absent(Containers)
  /\ opc \in {"startEngine", "health", "bench"} => Absent({"bench"})
  /\ opc \in Setup \ {"network"} => docker["network"] # "absent"
  /\ opc \in Setup \ {"network", "volume"} => docker["volume"] # "absent"
  /\ opc = "startEngine" => docker["engine"] # "absent"
  /\ opc \in {"copy", "startBench"} => docker["bench"] # "absent"
KnownExist == opc \in {"start"} \cup Setup => \A c \in known : docker[c] # "absent"
Unwritten == opc = "start" => chan = <<>> /\ hpc # "left" /\ \A c \in Containers : log[c] = "off"
LeftEnds  == hpc = "left" /\ opc # "done" => ctx # "live"
Admitted  == opc \notin {"start", "close", "done"} => valid
ListEmpty == opc \in {"start", "close", "done"} => todo = <<>>

(* Clean-up removes each container before what depends on it, and leaves nothing. *)
CleanedSoFar ==
  opc = "cleanup" =>
    \/ todo = CleanupOrder
    \/ todo = <<"engine", "network", "volume">> /\ Gone({"bench"})
    \/ todo = <<"network", "volume">> /\ Gone(Containers)
    \/ todo = <<"volume">> /\ Gone(Resources \ {"volume"})
AllGone == opc \in {"close", "done"} => Gone(Resources)

(* The outcome of a run is in the channel or with the client before the channel is
   closed, and with the client before the handler takes the stream for ended. *)
ClosedLast    == ~open => opc = "done"
Told          == received # {}
Pending       == \E i \in 1 .. Len(chan) : chan[i] \in Outcome
Owed          == client = "on" /\ valid /\ ~dropped
OutcomeQueued == Owed /\ opc \in Ending /\ hpc = "loop" => Pending \/ Told
OutcomeSeen   == Owed /\ hpc \in {"await", "ended"} => Told

(* What every step of a run preserves: the clean-up's progress against what Docker
   still has, and the way of the outcome through the channel to the client. *)
RunInv ==
  /\ RunTypeOK
  /\ NothingYet /\ Recorded /\ StartsKnown /\ CleanedSoFar /\ AllGone
  /\ SetupSoFar /\ KnownExist /\ Unwritten /\ LeftEnds /\ Admitted /\ ListEmpty
  /\ ClosedLast /\ OutcomeQueued /\ OutcomeSeen
=============================================================================
