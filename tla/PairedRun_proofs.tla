---------------------------- MODULE PairedRun_proofs ----------------------------
(***************************************************************************)
(* Proofs about PairedRun, for every capacity of the events channel and    *)
(* with or without lost replies.                                           *)
(***************************************************************************)
EXTENDS PairedRun, SequenceTheorems, TLAPS

(* The clean-up list, one removal at a time. *)
LEMMA CleanupTails ==
  /\ CleanupOrder \in Seq(Resources) /\ Len(CleanupOrder) = 4
  /\ Head(CleanupOrder) = "bench"
  /\ Tail(CleanupOrder) = <<"engine", "network", "volume">>
  /\ Tail(<<"engine", "network", "volume">>) = <<"network", "volume">>
  /\ Tail(<<"network", "volume">>) = <<"volume">>
  /\ Tail(<<"volume">>) = <<>>
BY DEF CleanupOrder, Resources, Containers

(* A non-blocking event keeps the channel a sequence within its capacity. *)
LEMMA PostType ==
  ASSUME chan \in Seq(Kinds), Len(chan) <= Cap, NEW k \in Kinds
  PROVE  /\ Post(k) \in Seq(Kinds) /\ Len(Post(k)) <= Cap
         /\ ~Full => Append(chan, k) \in Seq(Kinds) /\ Len(Append(chan, k)) <= Cap
BY RunAssumption DEF Post, Full

(* An outcome in the channel is not lost by appending to it. *)
LEMMA PendingKept ==
  ASSUME chan \in Seq(Kinds), NEW k \in Kinds, Pending,
         chan' \in {chan, Post(k), Append(chan, k)}
  PROVE  Pending'
BY DEF Post, Pending

(* An outcome that is appended is in the channel. *)
LEMMA PendingAdded ==
  ASSUME chan \in Seq(Kinds), NEW k \in Outcome, chan' = Append(chan, k)
  PROVE  Pending'
BY DEF Pending

(* An outcome at the head of the channel leaves it, any other stays. *)
LEMMA PendingTaken ==
  ASSUME chan \in Seq(Kinds), chan # <<>>, Pending, chan' = Tail(chan)
  PROVE  Pending' \/ Head(chan) \in Outcome
<1>1. PICK i \in 1 .. Len(chan) : chan[i] \in Outcome
  BY DEF Pending
<1>2. CASE i = 1
  BY <1>1, <1>2
<1>3. CASE i # 1
  BY <1>1, <1>3 DEF Pending
<1> QED BY <1>2, <1>3
-----------------------------------------------------------------------------
(* Types *)

(* The setup requests of the orchestrator. *)
SetupStep == Validate \/ CreateNetwork \/ CreateVolume \/ CreateEngine \/ StartEngine
             \/ LeaveHealth \/ CreateBench \/ CopyConfig \/ StartBench \/ WaitReturns
             \/ Collect \/ PollHealth \/ WaitBreaks

(* A Docker request keeps the types of what it changes. *)
LEMMA AskType ==
  ASSUME RunTypeOK, NEW x \in Resources, NEW s \in {"created", "running"},
         NEW next \in Setup, Ask(x, s, next)
  PROVE  /\ docker' \in [Resources -> {"absent", "created", "running", "exited"}]
         /\ opc' \in Setup \cup Final
         /\ chan' \in {chan, Post("news")}
BY DEF RunTypeOK, Ask, Final

(* Every setup step keeps the types. *)
LEMMA SetupType ==
  ASSUME RunTypeOK, SetupStep, Quiet
  PROVE  RunTypeOK'
<1> DEFINE States == {"absent", "created", "running", "exited"}
           Streams == {"off", "open", "read", "report", "end"}
           Kept == /\ docker' \in [Resources -> States]
                   /\ opc' \in {"start"} \cup Setup \cup Final \cup Ending
                   /\ chan' \in {chan, Post("news")}
                   /\ known' \subseteq Containers /\ lost' \subseteq Containers
                   /\ log' \in [Containers -> Streams]
<1>1. SUFFICES Kept
  <2>1. chan' \in Seq(Kinds) /\ Len(chan') <= Cap
    BY <1>1, PostType DEF RunTypeOK, Kinds
  <2> QED BY <1>1, <2>1 DEF RunTypeOK, Quiet
<1>2. CASE Validate
  BY <1>2 DEF Validate, RunTypeOK, Setup, Ending
<1>3. CASE CreateNetwork
  <2>1. Ask("network", "created", "volume")
    BY <1>3 DEF CreateNetwork
  <2>2. chan' \in {chan, Post("news")} /\ opc' \in Setup \cup Final /\ docker' \in [Resources -> States]
    BY <2>1, AskType DEF Resources, Setup
  <2> QED BY <1>3, <2>2 DEF CreateNetwork, RunTypeOK
<1>4. CASE CreateVolume
  <2>1. Ask("volume", "created", "engine")
    BY <1>4 DEF CreateVolume
  <2>2. chan' \in {chan, Post("news")} /\ opc' \in Setup \cup Final /\ docker' \in [Resources -> States]
    BY <2>1, AskType DEF Resources, Setup
  <2> QED BY <1>4, <2>2 DEF CreateVolume, RunTypeOK
<1>5. CASE CreateEngine
  <2>1. Create("engine", "startEngine")
    BY <1>5 DEF CreateEngine
  <2>2. chan' \in {chan, Post("news")} /\ opc' \in Setup \cup Final /\ docker' \in [Resources -> States]
    BY <2>1, AskType DEF Create, Resources, Containers, Setup
  <2> QED BY <1>5, <2>1, <2>2 DEF CreateEngine, Create, Record, RunTypeOK, Containers
<1>6. CASE StartEngine
  <2>1. Start("engine", "health")
    BY <1>6 DEF StartEngine
  <2>2. chan' \in {chan, Post("news")} /\ opc' \in Setup \cup Final /\ docker' \in [Resources -> States]
    BY <2>1, AskType DEF Start, Resources, Containers, Setup
  <2> QED BY <1>6, <2>1, <2>2 DEF StartEngine, Start, RunTypeOK, Containers
<1>7. CASE CreateBench
  <2>1. Create("bench", "copy")
    BY <1>7 DEF CreateBench
  <2>2. chan' \in {chan, Post("news")} /\ opc' \in Setup \cup Final /\ docker' \in [Resources -> States]
    BY <2>1, AskType DEF Create, Resources, Containers, Setup
  <2> QED BY <1>7, <2>1, <2>2 DEF CreateBench, Create, Record, RunTypeOK, Containers
<1>8. CASE StartBench
  <2>1. Start("bench", "wait")
    BY <1>8 DEF StartBench
  <2>2. chan' \in {chan, Post("news")} /\ opc' \in Setup \cup Final /\ docker' \in [Resources -> States]
    BY <2>1, AskType DEF Start, Resources, Containers, Setup
  <2> QED BY <1>8, <2>1, <2>2 DEF StartBench, Start, RunTypeOK, Containers
<1>9. CASE LeaveHealth \/ PollHealth \/ CopyConfig
  BY <1>9 DEF LeaveHealth, PollHealth, CopyConfig, RunTypeOK, Setup, Final
<1>10. CASE WaitReturns \/ WaitBreaks \/ Collect
  BY <1>10 DEF WaitReturns, WaitBreaks, Collect, RunTypeOK, Setup, Final
<1> QED BY <1>2, <1>3, <1>4, <1>5, <1>6, <1>7, <1>8, <1>9, <1>10 DEF SetupStep

(* A log streamer keeps the types. *)
LEMMA StreamType ==
  ASSUME RunTypeOK, NEW c \in Containers, Stream(c)
  PROVE  RunTypeOK'
<1>1. /\ chan' \in {chan, Post("news"), Post("logerror")}
      /\ panicked' \in BOOLEAN
      /\ log' \in [Containers -> {"off", "open", "read", "report", "end"}]
      /\ LogQuiet
  BY DEF Stream, OpenLogs, ReadLine, EndLogs, ReportLogs, Send, RunTypeOK
<1>2. chan' \in Seq(Kinds) /\ Len(chan') <= Cap
  BY <1>1, PostType DEF RunTypeOK, Kinds
<1> QED BY <1>1, <1>2 DEF RunTypeOK, LogQuiet

(* Every step keeps the types. *)
LEMMA TypeStep ==
  ASSUME RunTypeOK, [RunNext]_runVars
  PROVE  RunTypeOK'
<1>1. CASE Proceed \/ Poll \/ Break
  BY <1>1, SetupType DEF Proceed, Poll, Break, SetupStep
<1>2. CASE EmitFinal
  <2>1. chan' \in Seq(Kinds) /\ Len(chan') <= Cap
    BY <1>2, PostType DEF EmitFinal, RunTypeOK, Kinds, Outcome
  <2>2. opc' \in {"start"} \cup Setup \cup Final \cup Ending
    BY <1>2 DEF EmitFinal, AfterFinal, Setup, Ending
  <2>3. todo' \in Seq(Resources) /\ Len(todo') <= 4
    <3>1. todo' \in {todo, CleanupOrder}
      BY <1>2 DEF EmitFinal, AfterFinal
    <3>2. todo \in Seq(Resources) /\ Len(todo) <= 4
      BY DEF RunTypeOK
    <3>3. CleanupOrder \in Seq(Resources) /\ Len(CleanupOrder) <= 4
      <4>1. CleanupOrder \in Seq(Resources) /\ Len(CleanupOrder) = 4
        BY CleanupTails
      <4> QED BY <4>1
    <3> QED BY <3>1, <3>2, <3>3
  <2> QED BY <1>2, <2>1, <2>2, <2>3 DEF EmitFinal, RunTypeOK
<1>3. CASE GiveUpFinal
  <2>1. opc' \in {"start"} \cup Setup \cup Final \cup Ending
    BY <1>3 DEF GiveUpFinal, AfterFinal, Setup, Ending
  <2>2. todo' \in Seq(Resources) /\ Len(todo') <= 4
    <3>1. todo' \in {todo, CleanupOrder}
      BY <1>3 DEF GiveUpFinal, AfterFinal
    <3>2. todo \in Seq(Resources) /\ Len(todo) <= 4
      BY DEF RunTypeOK
    <3>3. CleanupOrder \in Seq(Resources) /\ Len(CleanupOrder) <= 4
      <4>1. CleanupOrder \in Seq(Resources) /\ Len(CleanupOrder) = 4
        BY CleanupTails
      <4> QED BY <4>1
    <3> QED BY <3>1, <3>2, <3>3
  <2> QED BY <1>3, <2>1, <2>2 DEF GiveUpFinal, RunTypeOK
<1>4. CASE Cleanup
  <2>1. todo' \in Seq(Resources) /\ Len(todo') <= 4
    BY <1>4 DEF Cleanup, RunTypeOK
  <2>2. docker' \in [Resources -> {"absent", "created", "running", "exited"}] /\ fault' \in BOOLEAN
    BY <1>4 DEF Cleanup, RunTypeOK
  <2>3. opc' \in Ending
    BY <1>4 DEF Cleanup, Ending
  <2> QED BY <1>4, <2>1, <2>2, <2>3 DEF Cleanup, RunTypeOK
<1>5. CASE Close
  BY <1>5 DEF Close, RunTypeOK, Ending
<1>6. ASSUME NEW c \in Containers, Stream(c)
      PROVE  RunTypeOK'
  BY <1>6, StreamType
<1>7. ASSUME NEW c \in Containers, Exit(c)
      PROVE  RunTypeOK'
  BY <1>7 DEF Exit, RunTypeOK
<1>8. CASE Forward
  <2>1. chan' \in Seq(Kinds) /\ Len(chan') <= Cap /\ received' \subseteq Outcome
    BY <1>8, RunAssumption DEF Forward, RunTypeOK
  <2> QED BY <1>8, <2>1 DEF Forward, HandlerQuiet, RunTypeOK
<1>9. CASE WriteFails
  <2>1. chan' \in Seq(Kinds) /\ Len(chan') <= Cap
    BY <1>9, RunAssumption DEF WriteFails, RunTypeOK
  <2> QED BY <1>9, <2>1 DEF WriteFails, CtxDone, HandlerQuiet, RunTypeOK
<1>10. CASE SeeDisconnect \/ SeeClosed \/ Finish
  BY <1>10 DEF SeeDisconnect, SeeClosed, Finish, HandlerQuiet, RunTypeOK
<1>11. CASE Disconnect \/ Notice \/ RunTimeout
  BY <1>11 DEF Disconnect, Notice, RunTimeout, CtxDone, HandlerQuiet, RunTypeOK
<1>12. CASE Over \/ UNCHANGED runVars
  BY <1>12 DEF Over, runVars, RunTypeOK
<1> QED BY <1>1, <1>2, <1>3, <1>4, <1>5, <1>6, <1>7, <1>8, <1>9, <1>10, <1>11, <1>12
    DEF RunNext, Orchestrate, Handle
-----------------------------------------------------------------------------
(* What the clean-up has still to remove *)

DockerInv == NothingYet /\ Recorded /\ StartsKnown /\ CleanedSoFar /\ AllGone

(* A create request leaves its container absent, known or lost. *)
LEMMA CreateRecords ==
  ASSUME RunTypeOK, Recorded, NEW c \in Containers, NEW next \in Setup, Create(c, next)
  PROVE  /\ Recorded' /\ known \subseteq known'
         /\ opc' \in {next, "error"} /\ (opc' = next => c \in known')
<1>1. opc' \in {next, "error"} /\ (opc' = next => opc' # "error")
  BY DEF Create, Ask, Setup
<1>2. \A d \in Containers \ {c} : docker'[d] = docker[d]
  BY DEF Create, Ask, RunTypeOK, Resources, Containers
<1>3. known' = known \cup Record(c) /\ lost \subseteq lost'
  BY DEF Create
<1>4. opc' # "error" => c \in known'
  BY <1>3 DEF Record
<1>5. opc' = "error" /\ docker'[c] # "absent" => c \in lost'
  BY DEF Create
<1> QED BY <1>1, <1>2, <1>3, <1>4, <1>5 DEF Recorded

(* A start request is for a container that is known. *)
LEMMA StartRecords ==
  ASSUME RunTypeOK, Recorded, NEW c \in known, NEW next \in Setup, Start(c, next),
         known' = known, lost' = lost
  PROVE  Recorded' /\ opc' \in {next, "error"}
<1>1. c \in Containers /\ opc' \in {next, "error"}
  BY DEF Start, Ask, RunTypeOK
<1>2. \A d \in Containers \ {c} : docker'[d] = docker[d]
  BY <1>1 DEF Start, Ask, RunTypeOK, Resources, Containers
<1> QED BY <1>1, <1>2 DEF Recorded

(* The setup leaves to the clean-up only containers it can name. *)
LEMMA SetupDocker ==
  ASSUME RunTypeOK, DockerInv, SetupStep
  PROVE  DockerInv'
<1> USE DEF DockerInv
<1> DEFINE Goal == /\ opc' \notin Ending \cup {"start"}
                   /\ Recorded' /\ StartsKnown'
<1>1. Goal => DockerInv'
  BY DEF NothingYet, CleanedSoFar, AllGone, Ending
<1>2. CASE Validate
  <2>1. CASE valid
    BY <1>1, <1>2, <2>1 DEF Validate, Recorded, StartsKnown, Ending
  <2>2. CASE ~valid
    <3>1. opc = "start" /\ opc' = "close" /\ UNCHANGED <<docker, known, lost>>
      BY <1>2, <2>2 DEF Validate
    <3>2. Absent(Resources)'
      BY <3>1 DEF NothingYet, Absent
    <3> QED BY <3>1, <3>2 DEF NothingYet, Recorded, StartsKnown, CleanedSoFar, AllGone, Gone
  <2> QED BY <2>1, <2>2
<1>3. CASE CreateNetwork \/ CreateVolume
  <2>1. opc' \in {"volume", "engine", "error"}
    BY <1>3 DEF CreateNetwork, CreateVolume, Ask
  <2>2. /\ UNCHANGED <<known, lost>>
        /\ \A c \in Containers : docker'[c] = docker[c]
    BY <1>3 DEF CreateNetwork, CreateVolume, Ask, RunTypeOK, Resources, Containers
  <2> QED BY <1>1, <2>1, <2>2 DEF Recorded, StartsKnown, Ending
<1>4. CASE CreateEngine
  <2>1. Create("engine", "startEngine")
    BY <1>4 DEF CreateEngine
  <2>2. /\ Recorded' /\ opc' \in {"startEngine", "error"}
        /\ opc' = "startEngine" => "engine" \in known'
    BY <2>1, CreateRecords DEF Containers, Setup
  <2> QED BY <1>1, <2>2 DEF StartsKnown, Ending
<1>5. CASE StartEngine
  <2>1. "engine" \in known /\ Start("engine", "health") /\ UNCHANGED <<known, lost>>
    BY <1>5 DEF StartEngine, StartsKnown
  <2>2. Recorded' /\ opc' \in {"health", "error"}
    BY <2>1, StartRecords DEF Setup
  <2> QED BY <1>1, <2>2 DEF StartsKnown, Ending
<1>6. CASE CreateBench
  <2>1. Create("bench", "copy")
    BY <1>6 DEF CreateBench
  <2>2. /\ Recorded' /\ opc' \in {"copy", "error"}
        /\ opc' = "copy" => "bench" \in known'
    BY <2>1, CreateRecords DEF Containers, Setup
  <2> QED BY <1>1, <2>2 DEF StartsKnown, Ending
<1>7. CASE StartBench
  <2>1. "bench" \in known /\ Start("bench", "wait") /\ UNCHANGED <<known, lost>>
    BY <1>7 DEF StartBench, StartsKnown
  <2>2. Recorded' /\ opc' \in {"wait", "error"}
    BY <2>1, StartRecords DEF Setup
  <2> QED BY <1>1, <2>2 DEF StartsKnown, Ending
<1>8. CASE LeaveHealth \/ PollHealth \/ CopyConfig
  BY <1>1, <1>8 DEF LeaveHealth, PollHealth, CopyConfig, Recorded, StartsKnown, Ending
<1>9. CASE WaitReturns \/ WaitBreaks \/ Collect
  BY <1>1, <1>9 DEF WaitReturns, WaitBreaks, Collect, Recorded, StartsKnown, Ending
<1> QED BY <1>2, <1>3, <1>4, <1>5, <1>6, <1>7, <1>8, <1>9 DEF SetupStep

(* With every container known, a clean-up request that Docker carries out removes its
   resource if it can be removed; nothing comes back. *)
LEMMA RemovesHead ==
  ASSUME RunTypeOK, Recorded, Cleanup
  PROVE  /\ \A x \in Resources : docker[x] = "absent" => docker'[x] = "absent"
         /\ Removable(Head(todo)) /\ ~fault' /\ lost' = {} => docker'[Head(todo)] = "absent"
         /\ fault => fault'
         /\ lost' = lost /\ known' = known
<1> DEFINE x == Head(todo)
<1>1. x \in Resources
  BY DEF Cleanup, RunTypeOK
<1>2. CASE /\ x \in Containers => x \in known
           /\ CleanupContext /\ Removable(x)
           /\ docker' = [docker EXCEPT ![x] = "absent"]
           /\ UNCHANGED fault
  BY <1>1, <1>2 DEF Cleanup, RunTypeOK
<1>3. CASE /\ x \in Containers \ known \/ ~CleanupContext \/ ~Removable(x)
           /\ UNCHANGED <<docker, fault>>
  BY <1>1, <1>3 DEF Cleanup, Recorded, CleanupContext
<1>4. CASE fault' = TRUE /\ UNCHANGED docker
  BY <1>4 DEF Cleanup
<1> QED BY <1>2, <1>3, <1>4 DEF Cleanup

(* One step of the clean-up: what is left is what is still in the list. *)
LEMMA CleanupDocker ==
  ASSUME RunTypeOK, DockerInv, Cleanup
  PROVE  DockerInv'
<1> USE DEF DockerInv
<1>1. /\ opc = "cleanup" /\ todo # <<>> /\ todo' = Tail(todo)
      /\ opc' = IF Tail(todo) = <<>> THEN "close" ELSE "cleanup"
  BY DEF Cleanup
<1>2. /\ \A x \in Resources : docker[x] = "absent" => docker'[x] = "absent"
      /\ Removable(Head(todo)) /\ ~fault' /\ lost' = {} => docker'[Head(todo)] = "absent"
      /\ fault => fault'
      /\ lost' = lost /\ known' = known
  BY RemovesHead
<1>3. NothingYet' /\ StartsKnown'
  BY <1>1 DEF NothingYet, StartsKnown
<1>4. Recorded'
  BY <1>2 DEF Recorded, Resources
<1>5. ASSUME NEW x \in Resources, x = Head(todo), NEW S \in SUBSET Resources,
             Gone(S), Absent(S) => Removable(x)
      PROVE  Gone(S \cup {x})'
  BY <1>2, <1>5 DEF Gone, Absent
<1>6. CleanedSoFar' /\ AllGone'
  <2>1. CASE todo = CleanupOrder
    <3>1. todo' = <<"engine", "network", "volume">> /\ Head(todo) = "bench"
      BY <1>1, <2>1, CleanupTails
    <3>2. Gone({} \cup {"bench"})'
      BY <1>5, <3>1 DEF Gone, Absent, Removable, Resources, Containers
    <3>3. opc' = "cleanup"
      BY <1>1, <3>1
    <3>4. Gone({"bench"})'
      BY <3>2 DEF Gone, Absent
    <3> QED BY <3>1, <3>3, <3>4 DEF CleanedSoFar, AllGone
  <2>2. CASE todo = <<"engine", "network", "volume">> /\ Gone({"bench"})
    <3>1. todo' = <<"network", "volume">> /\ Head(todo) = "engine"
      BY <1>1, <2>2, CleanupTails
    <3>2. Gone({"bench"} \cup {"engine"})'
      BY <1>5, <2>2, <3>1 DEF Removable, Resources, Containers
    <3>3. opc' = "cleanup"
      BY <1>1, <3>1
    <3>4. Gone(Containers)'
      BY <3>2 DEF Gone, Absent, Containers
    <3> QED BY <3>1, <3>3, <3>4 DEF CleanedSoFar, AllGone
  <2>3. CASE todo = <<"network", "volume">> /\ Gone(Containers)
    <3>1. todo' = <<"volume">> /\ Head(todo) = "network"
      BY <1>1, <2>3, CleanupTails
    <3>2. Gone(Containers \cup {"network"})'
      BY <1>5, <2>3, <3>1 DEF Absent, Removable, Resources
    <3>3. opc' = "cleanup"
      BY <1>1, <3>1
    <3>4. Gone(Resources \ {"volume"})'
      BY <3>2 DEF Gone, Absent, Containers, Resources
    <3> QED BY <3>1, <3>3, <3>4 DEF CleanedSoFar, AllGone
  <2>4. CASE todo = <<"volume">> /\ Gone(Resources \ {"volume"})
    <3>1. todo' = <<>> /\ Head(todo) = "volume"
      BY <1>1, <2>4, CleanupTails
    <3>2. Gone((Resources \ {"volume"}) \cup {"volume"})'
      BY <1>5, <2>4, <3>1 DEF Absent, Removable, Resources, Containers
    <3>3. opc' = "close"
      BY <1>1, <3>1
    <3>4. Gone(Resources)'
      BY <3>2 DEF Gone, Absent, Resources
    <3> QED BY <3>3, <3>4 DEF CleanedSoFar, AllGone
  <2> QED BY <1>1, <2>1, <2>2, <2>3, <2>4 DEF CleanedSoFar
<1> QED BY <1>3, <1>4, <1>6

(* Every step keeps the account of what is left to remove. *)
LEMMA DockerStep ==
  ASSUME RunTypeOK, DockerInv, [RunNext]_runVars
  PROVE  DockerInv'
<1>1. CASE Proceed \/ Poll \/ Break
  BY <1>1, SetupDocker DEF Proceed, Poll, Break, SetupStep
<1>2. CASE EmitFinal \/ GiveUpFinal
  <2>1. opc \in Final \cup {"exit"} /\ AfterFinal /\ UNCHANGED <<docker, known, lost, fault>>
    BY <1>2 DEF EmitFinal, GiveUpFinal
  <2>2. opc' = "collect" \/ (opc' = "cleanup" /\ todo' = CleanupOrder)
    BY <2>1 DEF AfterFinal, Final
  <2> QED BY <2>1, <2>2
      DEF DockerInv, NothingYet, Recorded, StartsKnown, CleanedSoFar, AllGone
<1>3. CASE Cleanup
  BY <1>3, CleanupDocker
<1>4. CASE Close
  <2>1. opc = "close" /\ opc' = "done" /\ UNCHANGED <<docker, known, lost, fault>>
    BY <1>4 DEF Close
  <2> QED BY <2>1
      DEF DockerInv, NothingYet, Recorded, StartsKnown, CleanedSoFar, AllGone, Gone, Absent
<1>5. ASSUME NEW c \in Containers, Exit(c)
      PROVE  DockerInv'
  <2>1. /\ UNCHANGED <<opc, todo, known, lost, fault>>
        /\ \A x \in Resources : docker'[x] = "absent" <=> docker[x] = "absent"
    BY <1>5 DEF Exit, RunTypeOK, Resources
  <2>2. \A S \in SUBSET Resources : Gone(S) => Gone(S)'
    BY <2>1 DEF Gone, Absent
  <2>3. NothingYet' /\ Recorded' /\ StartsKnown'
    BY <2>1 DEF DockerInv, NothingYet, Recorded, StartsKnown, Absent, Resources
  <2>4. CleanedSoFar' /\ AllGone'
    <3>1. /\ Gone({"bench"}) => Gone({"bench"})'
          /\ Gone(Containers) => Gone(Containers)'
          /\ Gone(Resources \ {"volume"}) => Gone(Resources \ {"volume"})'
          /\ Gone(Resources) => Gone(Resources)'
      BY <2>1 DEF Gone, Absent, Containers, Resources
    <3> QED BY <2>1, <3>1 DEF DockerInv, CleanedSoFar, AllGone
  <2> QED BY <2>3, <2>4 DEF DockerInv
<1>6. ASSUME UNCHANGED <<opc, todo, known, docker, lost, fault>>
      PROVE  DockerInv'
  BY <1>6 DEF DockerInv, NothingYet, Recorded, StartsKnown, CleanedSoFar, AllGone, Gone, Absent
<1>7. ASSUME NEW c \in Containers, Stream(c)
      PROVE  DockerInv'
  BY <1>6, <1>7 DEF Stream, OpenLogs, ReadLine, EndLogs, ReportLogs, LogQuiet
<1>8. CASE Forward \/ Handle \/ Disconnect \/ Notice \/ RunTimeout \/ Over \/ UNCHANGED runVars
  BY <1>6, <1>8 DEF Forward, Handle, WriteFails, SeeDisconnect, SeeClosed, Finish,
                    Disconnect, Notice, RunTimeout, Over, HandlerQuiet, runVars
<1> QED BY <1>1, <1>2, <1>3, <1>4, <1>5, <1>7, <1>8 DEF RunNext, Orchestrate
-----------------------------------------------------------------------------
(* The order of the setup *)

StageInv == SetupSoFar /\ KnownExist /\ Admitted /\ ListEmpty

(* A request concerns its own resource only, and a reply means that it is there. *)
LEMMA AskEffect ==
  ASSUME RunTypeOK, NEW x \in Resources, NEW s \in {"created", "running"},
         NEW next \in Setup, Ask(x, s, next)
  PROVE  /\ \A y \in Resources \ {x} : docker'[y] = docker[y]
         /\ opc' = "error" \/ (opc' = next /\ docker'[x] = s /\ ctx = "live")
         /\ docker'[x] \in {docker[x], s}
BY DEF RunTypeOK, Ask

(* A failure leaves the setup, about which nothing more is said. *)
LEMMA ErrorStage ==
  ASSUME Admitted, opc \in Setup, opc' = "error", UNCHANGED <<valid, todo>>
  PROVE  StageInv'
BY DEF StageInv, SetupSoFar, KnownExist, Admitted, ListEmpty, Setup

LEMMA SetupStage ==
  ASSUME RunTypeOK, StageInv, SetupStep, Quiet
  PROVE  StageInv'
<1> USE DEF StageInv
<1>0. UNCHANGED <<valid, todo>>
  BY DEF Quiet
<1>1. CASE Validate
  BY <1>0, <1>1 DEF Validate, SetupSoFar, KnownExist, Admitted, ListEmpty, Absent, Setup
<1>2. ASSUME NEW x \in Resources, NEW s \in {"created", "running"}, NEW next \in Setup,
             Ask(x, s, next), opc \in Setup, opc' = next => SetupSoFar',
             known' \subseteq known \cup {x}
      PROVE  StageInv'
  <2>1. CASE opc' = "error"
    BY <1>0, <1>2, <2>1, ErrorStage
  <2>2. CASE opc' = next
    <3>1. next # "error" /\ docker'[x] # "absent" /\ \A y \in Resources \ {x} : docker'[y] = docker[y]
      BY <1>2, <2>2, AskEffect DEF Setup
    <3>2. KnownExist'
      BY <1>2, <3>1 DEF KnownExist, RunTypeOK, Resources
    <3> QED BY <1>0, <1>2, <2>2, <3>2 DEF Admitted, ListEmpty, Setup
  <2> QED BY <1>2, <2>1, <2>2, AskEffect
<1>3. CASE CreateNetwork
  <2>1. Ask("network", "created", "volume") /\ opc = "network" /\ "network" \in Resources
        /\ known' = known
    BY <1>3 DEF CreateNetwork, Resources
  <2>2. opc' = "volume" => SetupSoFar'
    BY <2>1, AskEffect DEF SetupSoFar, Absent, Setup, Resources, Containers
  <2> QED BY <1>2, <2>1, <2>2 DEF Setup
<1>4. CASE CreateVolume
  <2>1. Ask("volume", "created", "engine") /\ opc = "volume" /\ "volume" \in Resources
        /\ known' = known
    BY <1>4 DEF CreateVolume, Resources
  <2>2. opc' = "engine" => SetupSoFar'
    BY <2>1, AskEffect DEF SetupSoFar, Absent, Setup, Resources, Containers
  <2> QED BY <1>2, <2>1, <2>2 DEF Setup
<1>5. CASE CreateEngine
  <2>1. Ask("engine", "created", "startEngine") /\ opc = "engine" /\ "engine" \in Resources
        /\ known' \subseteq known \cup {"engine"}
    BY <1>5 DEF CreateEngine, Create, Record, Resources, Containers
  <2>2. opc' = "startEngine" => SetupSoFar'
    BY <2>1, AskEffect DEF SetupSoFar, Absent, Setup, Resources, Containers
  <2> QED BY <1>2, <2>1, <2>2 DEF Setup
<1>6. CASE StartEngine
  <2>1. Ask("engine", "running", "health") /\ opc = "startEngine" /\ "engine" \in Resources
        /\ known' = known
    BY <1>6 DEF StartEngine, Start, Resources, Containers
  <2>2. opc' = "health" => SetupSoFar'
    BY <2>1, AskEffect DEF SetupSoFar, Absent, Setup, Resources, Containers
  <2> QED BY <1>2, <2>1, <2>2 DEF Setup
<1>7. CASE CreateBench
  <2>1. Ask("bench", "created", "copy") /\ opc = "bench" /\ "bench" \in Resources
        /\ known' \subseteq known \cup {"bench"}
    BY <1>7 DEF CreateBench, Create, Record, Resources, Containers
  <2>2. opc' = "copy" => SetupSoFar'
    BY <2>1, AskEffect DEF SetupSoFar, Absent, Setup, Resources, Containers
  <2> QED BY <1>2, <2>1, <2>2 DEF Setup
<1>8. CASE StartBench
  <2>1. Ask("bench", "running", "wait") /\ opc = "startBench" /\ "bench" \in Resources
        /\ known' = known
    BY <1>8 DEF StartBench, Start, Resources, Containers
  <2>2. opc' = "wait" => SetupSoFar'
    BY <2>1, AskEffect DEF SetupSoFar, Absent, Setup, Resources, Containers
  <2> QED BY <1>2, <2>1, <2>2 DEF Setup
<1>9. CASE LeaveHealth \/ PollHealth \/ CopyConfig \/ WaitReturns \/ WaitBreaks \/ Collect
  <2>1. /\ UNCHANGED <<docker, known>> /\ opc \in {"health", "copy", "wait", "collect"}
        /\ \/ opc' \in {"error", "result"}
           \/ opc = "health" /\ opc' \in {"health", "bench"}
           \/ opc = "copy" /\ opc' = "startBench"
           \/ opc = "wait" /\ opc' \in {"collect", "exit"}
    BY <1>9 DEF LeaveHealth, PollHealth, CopyConfig, WaitReturns, WaitBreaks, Collect
  <2> QED BY <1>0, <2>1 DEF SetupSoFar, KnownExist, Admitted, ListEmpty, Absent, Setup
<1> QED BY <1>1, <1>3, <1>4, <1>5, <1>6, <1>7, <1>8, <1>9 DEF SetupStep

(* Every step keeps to the order of the setup. *)
LEMMA StageStep ==
  ASSUME RunTypeOK, StageInv, [RunNext]_runVars
  PROVE  StageInv'
<1> USE DEF StageInv
<1>1. CASE Proceed \/ Poll \/ Break
  BY <1>1, SetupStage DEF Proceed, Poll, Break, SetupStep
<1>2. CASE EmitFinal \/ GiveUpFinal
  <2>1. /\ opc \in Final \cup {"exit"} /\ UNCHANGED <<docker, known, valid>>
        /\ opc' = IF opc = "exit" THEN "collect" ELSE "cleanup"
    BY <1>2 DEF EmitFinal, GiveUpFinal, AfterFinal
  <2> QED BY <2>1 DEF SetupSoFar, KnownExist, Admitted, ListEmpty, Setup, Final
<1>3. CASE Cleanup
  <2>1. /\ opc = "cleanup" /\ todo' = Tail(todo) /\ valid' = valid
        /\ opc' = IF Tail(todo) = <<>> THEN "close" ELSE "cleanup"
    BY <1>3 DEF Cleanup
  <2> QED BY <2>1 DEF SetupSoFar, KnownExist, Admitted, ListEmpty, Setup
<1>4. CASE Close
  BY <1>4 DEF Close, SetupSoFar, KnownExist, Admitted, ListEmpty, Setup
<1>5. ASSUME NEW c \in Containers, Exit(c)
      PROVE  StageInv'
  <2>1. /\ UNCHANGED <<opc, todo, known, valid>>
        /\ \A x \in Resources : docker'[x] = "absent" <=> docker[x] = "absent"
    BY <1>5 DEF Exit, RunTypeOK, Resources
  <2> QED BY <2>1 DEF SetupSoFar, KnownExist, Admitted, ListEmpty, Absent, RunTypeOK, Resources, Containers
<1>6. ASSUME UNCHANGED <<opc, todo, docker, known, valid>>
      PROVE  StageInv'
  BY <1>6 DEF SetupSoFar, KnownExist, Admitted, ListEmpty, Absent
<1>7. ASSUME NEW c \in Containers, Stream(c)
      PROVE  StageInv'
  BY <1>6, <1>7 DEF Stream, OpenLogs, ReadLine, EndLogs, ReportLogs, LogQuiet
<1>8. CASE Forward \/ Handle \/ Disconnect \/ Notice \/ RunTimeout \/ Over \/ UNCHANGED runVars
  BY <1>6, <1>8 DEF Forward, Handle, WriteFails, SeeDisconnect, SeeClosed, Finish,
                    Disconnect, Notice, RunTimeout, Over, HandlerQuiet, runVars
<1> QED BY <1>1, <1>2, <1>3, <1>4, <1>5, <1>7, <1>8 DEF RunNext, Orchestrate
-----------------------------------------------------------------------------
(* The way of the outcome to the client *)

OutcomeInv == ClosedLast /\ OutcomeQueued /\ OutcomeSeen

(* While the run is set up, the channel is open and no outcome is due. *)
LEMMA SetupOutcome ==
  ASSUME OutcomeInv, SetupStep, Quiet
  PROVE  OutcomeInv'
<1>1. opc # "done" /\ (opc' \in Ending => ~valid)
  BY DEF SetupStep, Validate, CreateNetwork, CreateVolume, CreateEngine, StartEngine,
         LeaveHealth, CreateBench, CopyConfig, StartBench, WaitReturns, Collect, PollHealth,
         WaitBreaks, Create, Start, Ask, Ending
<1>2. /\ UNCHANGED <<valid, open, hpc, client, dropped, received>>
      /\ open
  BY <1>1 DEF Quiet, OutcomeInv, ClosedLast
<1> QED BY <1>1, <1>2 DEF OutcomeInv, ClosedLast, OutcomeQueued, OutcomeSeen, Owed, Told

(* A log streamer only appends to the channel. *)
LEMMA StreamOutcome ==
  ASSUME RunTypeOK, OutcomeInv, NEW c \in Containers, Stream(c)
  PROVE  OutcomeInv'
<1>1. /\ chan' \in {chan, Post("news"), Post("logerror")}
      /\ UNCHANGED <<valid, opc, open, hpc, client, dropped, received>>
  BY DEF Stream, OpenLogs, ReadLine, EndLogs, ReportLogs, Send, LogQuiet
<1>2. Pending => Pending'
  BY <1>1, PendingKept DEF RunTypeOK, Kinds
<1> QED BY <1>1, <1>2 DEF OutcomeInv, ClosedLast, OutcomeQueued, OutcomeSeen, Owed, Told

(* Every step keeps the outcome on its way. *)
LEMMA OutcomeStep ==
  ASSUME RunTypeOK, OutcomeInv, [RunNext]_runVars
  PROVE  OutcomeInv'
<1> USE DEF OutcomeInv
<1>1. CASE Proceed \/ Poll \/ Break
  BY <1>1, SetupOutcome DEF Proceed, Poll, Break, SetupStep
<1>2. CASE EmitFinal
  <2>1. PICK k \in Outcome : chan' = Append(chan, k)
    BY <1>2 DEF EmitFinal, Outcome
  <2>2. Pending'
    BY <2>1, PendingAdded DEF RunTypeOK
  <2>3. /\ opc # "done"
        /\ UNCHANGED <<valid, open, hpc, client, dropped, received>>
    BY <1>2 DEF EmitFinal, Final
  <2> QED BY <2>2, <2>3 DEF ClosedLast, OutcomeQueued, OutcomeSeen, Owed, Told
<1>3. CASE GiveUpFinal
  <2>1. /\ opc # "done" /\ dropped'
        /\ UNCHANGED open
    BY <1>3 DEF GiveUpFinal, Final
  <2> QED BY <2>1 DEF ClosedLast, OutcomeQueued, OutcomeSeen, Owed
<1>4. CASE Cleanup \/ Close
  <2>1. /\ opc \in Ending /\ opc # "done" /\ (open' \/ opc' = "done")
        /\ UNCHANGED <<valid, chan, hpc, client, dropped, received>>
    BY <1>4 DEF Cleanup, Close, Ending, ClosedLast
  <2>2. Pending' <=> Pending
    BY <2>1 DEF Pending
  <2> QED BY <2>1, <2>2 DEF ClosedLast, OutcomeQueued, OutcomeSeen, Owed, Told
<1>5. ASSUME NEW c \in Containers, Stream(c)
      PROVE  OutcomeInv'
  BY <1>5, StreamOutcome
<1>6. ASSUME UNCHANGED <<valid, opc, chan, open, hpc, client, dropped, received>>
      PROVE  OutcomeInv'
  <2>1. Pending' <=> Pending
    BY <1>6 DEF Pending
  <2> QED BY <1>6, <2>1 DEF ClosedLast, OutcomeQueued, OutcomeSeen, Owed, Told
<1>7. ASSUME NEW c \in Containers, Exit(c)
      PROVE  OutcomeInv'
  BY <1>6, <1>7 DEF Exit
<1>8. CASE Forward
  <2>1. /\ chan # <<>> /\ chan' = Tail(chan) /\ hpc = "loop"
        /\ client = "on" => received' = received \cup ({Head(chan)} \cap Outcome)
        /\ UNCHANGED <<valid, opc, open, hpc, client, dropped>>
    BY <1>8 DEF Forward, HandlerQuiet
  <2>2. Pending => Pending' \/ Head(chan) \in Outcome
    BY <2>1, PendingTaken DEF RunTypeOK
  <2> QED BY <2>1, <2>2 DEF ClosedLast, OutcomeQueued, OutcomeSeen, Owed, Told
<1>9. CASE WriteFails \/ SeeDisconnect
  <2>1. /\ hpc' \in {"left", "drain"}
        /\ UNCHANGED <<opc, open>>
    BY <1>9 DEF WriteFails, SeeDisconnect, HandlerQuiet
  <2> QED BY <2>1 DEF ClosedLast, OutcomeQueued, OutcomeSeen
<1>10. CASE SeeClosed
  <2>1. /\ hpc = "loop" /\ chan = <<>> /\ ~open /\ hpc' = "await"
        /\ UNCHANGED <<valid, opc, open, client, dropped, received>>
    BY <1>10 DEF SeeClosed, HandlerQuiet
  <2>2. opc \in Ending /\ ~Pending
    BY <2>1 DEF ClosedLast, Ending, Pending
  <2> QED BY <2>1, <2>2 DEF ClosedLast, OutcomeQueued, OutcomeSeen, Owed, Told
<1>11. CASE Finish
  <2>1. /\ hpc' \in {"ended", "left"} /\ (hpc' = "ended" => hpc = "await")
        /\ UNCHANGED <<valid, opc, open, client, dropped, received>>
    BY <1>11 DEF Finish, HandlerQuiet
  <2> QED BY <2>1 DEF ClosedLast, OutcomeQueued, OutcomeSeen, Owed, Told
<1>12. CASE Disconnect \/ Notice
  <2>1. client' # "on" /\ UNCHANGED <<opc, open>>
    BY <1>12 DEF Disconnect, Notice, HandlerQuiet
  <2> QED BY <2>1 DEF ClosedLast, OutcomeQueued, OutcomeSeen, Owed
<1>13. CASE RunTimeout \/ Over \/ UNCHANGED runVars
  BY <1>6, <1>13 DEF RunTimeout, Over, HandlerQuiet, runVars
<1> QED BY <1>1, <1>2, <1>3, <1>4, <1>5, <1>7, <1>8, <1>9, <1>10, <1>11, <1>12, <1>13
    DEF RunNext, Orchestrate, Handle
-----------------------------------------------------------------------------
(* A handler that leaves before its run *)

HandlerInv == Unwritten /\ LeftEnds

(* Before the first event there is nothing to write; after a failed write, or with the
   handler's return, the context of the run is done. *)
LEMMA HandlerStep ==
  ASSUME HandlerInv, [RunNext]_runVars
  PROVE  HandlerInv'
<1> USE DEF HandlerInv
<1>1. ASSUME opc' # "start", opc # "done", UNCHANGED <<ctx, hpc>>
      PROVE  HandlerInv'
  BY <1>1 DEF Unwritten, LeftEnds
<1>2. CASE Proceed \/ Poll \/ Break
  <2>1. Quiet /\ SetupStep
    BY <1>2 DEF Proceed, Poll, Break, SetupStep
  <2>2. opc' # "start" /\ opc # "done"
    BY <2>1 DEF SetupStep, Validate, CreateNetwork, CreateVolume, CreateEngine, StartEngine,
         LeaveHealth, CreateBench, CopyConfig, StartBench, WaitReturns, Collect, PollHealth,
         WaitBreaks, Create, Start, Ask
  <2> QED BY <1>1, <2>1, <2>2 DEF Quiet
<1>3. CASE EmitFinal \/ GiveUpFinal
  BY <1>1, <1>3 DEF EmitFinal, GiveUpFinal, AfterFinal, Final
<1>4. CASE Cleanup
  BY <1>1, <1>4 DEF Cleanup
<1>5. CASE Close
  BY <1>1, <1>5 DEF Close
<1>6. ASSUME NEW c \in Containers, Stream(c)
      PROVE  HandlerInv'
  <2>1. /\ UNCHANGED <<opc, ctx, hpc>> /\ log[c] # "off"
    BY <1>6 DEF Stream, OpenLogs, ReadLine, EndLogs, ReportLogs, LogQuiet
  <2> QED BY <2>1 DEF Unwritten, LeftEnds
<1>7. CASE Forward \/ WriteFails
  <2>1. /\ chan # <<>> /\ UNCHANGED opc /\ hpc = "loop"
        /\ hpc' = "left" => ctx' # "live"
    BY <1>7 DEF Forward, WriteFails, HandlerQuiet, CtxDone
  <2> QED BY <2>1 DEF Unwritten, LeftEnds
<1>8. CASE SeeDisconnect \/ SeeClosed \/ Finish
  <2>1. /\ UNCHANGED <<opc, chan, log>> /\ (hpc' = "left" => opc = "done")
    BY <1>8 DEF SeeDisconnect, SeeClosed, Finish, HandlerQuiet
  <2> QED BY <2>1 DEF Unwritten, LeftEnds
<1>9. CASE Disconnect \/ Notice \/ RunTimeout
  <2>1. /\ UNCHANGED <<opc, chan, log, hpc>> /\ (ctx' = "live" => ctx = "live")
    BY <1>9 DEF Disconnect, Notice, RunTimeout, CtxDone, HandlerQuiet
  <2> QED BY <2>1 DEF Unwritten, LeftEnds
<1>10. ASSUME UNCHANGED <<opc, chan, log, hpc, ctx>>
       PROVE  HandlerInv'
  BY <1>10 DEF Unwritten, LeftEnds
<1>11. ASSUME NEW c \in Containers, Exit(c)
       PROVE  HandlerInv'
  BY <1>10, <1>11 DEF Exit
<1>12. CASE Over \/ UNCHANGED runVars
  BY <1>10, <1>12 DEF Over, runVars
<1> QED BY <1>2, <1>3, <1>4, <1>5, <1>6, <1>7, <1>8, <1>9, <1>11, <1>12
    DEF RunNext, Orchestrate, Handle
-----------------------------------------------------------------------------
(* The theorems *)

(* A run starts with nothing created, no event sent and the channel open. *)
LEMMA RunInitInv == RunInit => RunInv
<1> SUFFICES ASSUME RunInit
             PROVE  RunInv
  OBVIOUS
<1>1. RunTypeOK
  <2>1. /\ chan = <<>> /\ chan \in Seq(Kinds) /\ Len(chan) <= Cap
        /\ todo = <<>> /\ todo \in Seq(Resources) /\ Len(todo) <= 4
    BY RunAssumption DEF RunInit
  <2>2. /\ docker \in [Resources -> {"absent", "created", "running", "exited"}]
        /\ log \in [Containers -> {"off", "open", "read", "report", "end"}]
    BY DEF RunInit
  <2> QED BY <2>1, <2>2 DEF RunInit, RunTypeOK
<1>2. NothingYet /\ Recorded /\ StartsKnown /\ CleanedSoFar /\ AllGone
  BY DEF RunInit, NothingYet, Absent, Recorded, StartsKnown, CleanedSoFar, AllGone,
         Resources, Containers
<1>3. ClosedLast /\ OutcomeQueued /\ OutcomeSeen
  BY DEF RunInit, ClosedLast, OutcomeQueued, OutcomeSeen, Ending
<1>4. SetupSoFar /\ KnownExist /\ Admitted /\ ListEmpty
  BY <1>2 DEF RunInit, NothingYet, SetupSoFar, KnownExist, Admitted, ListEmpty, Setup
<1>5. Unwritten /\ LeftEnds
  BY DEF RunInit, Unwritten, LeftEnds, Containers
<1> QED BY <1>1, <1>2, <1>3, <1>4, <1>5 DEF RunInv

(* The inductive invariant holds of every run: through every failure of a request,
   lost reply, disconnect and timeout, and for any capacity of the channel. *)
THEOREM RunInvariance == RunSpec => []RunInv
<1>1. ASSUME RunInv, [RunNext]_runVars
      PROVE  RunInv'
  <2>1. RunTypeOK /\ DockerInv /\ StageInv /\ HandlerInv /\ OutcomeInv
    BY <1>1 DEF RunInv, DockerInv, StageInv, HandlerInv, OutcomeInv
  <2>2. RunTypeOK' /\ DockerInv' /\ StageInv' /\ HandlerInv' /\ OutcomeInv'
    BY <1>1, <2>1, TypeStep, DockerStep, StageStep, HandlerStep, OutcomeStep
  <2> QED BY <2>2 DEF RunInv, DockerInv, StageInv, HandlerInv, OutcomeInv
<1> QED BY RunInitInv, <1>1, PTL DEF RunSpec

(* Every variable of a run keeps its type, and the channel its capacity. *)
THEOREM RunTypeCorrect == RunSpec => []RunTypeOK
<1>1. RunInv => RunTypeOK
  BY DEF RunInv
<1> QED BY RunInvariance, <1>1, PTL

(* A run leaves nothing behind in Docker when it returns (paired_run.go:101), unless
   Docker refused the clean-up or an ID was lost with a reply. *)
THEOREM NothingLeft == RunSpec => []NoLeak
<1>1. RunInv => NoLeak
  BY DEF RunInv, AllGone, Gone, Absent, NoLeak
<1> QED BY RunInvariance, <1>1, PTL

(* A client that stays to the end of the stream has been told the outcome
   (paired_run.go:258), unless a final event was given up after 10 s. *)
THEOREM OutcomeTold == RunSpec => []OutcomeReported
<1>1. RunInv => OutcomeReported
  BY DEF RunInv, OutcomeSeen, Owed, Told, OutcomeReported
<1> QED BY RunInvariance, <1>1, PTL
-----------------------------------------------------------------------------
(* The run as RunLife sees it *)

LifeMove == UNCHANGED <<Phase, Held, Excused>> \/ Life!LifeNext

(* Docker's record of a resource that was created or started. *)
LEMMA AskHolds ==
  ASSUME RunTypeOK, NEW x \in Resources, NEW s \in {"created", "running"},
         NEW next \in Setup, Ask(x, s, next)
  PROVE  /\ docker' = docker \/ Held' = Held \cup {x}
         /\ opc' \in {next, "error"}
BY DEF Ask, Held, RunTypeOK

(* A setup request that succeeds, or whose reply is lost, acquires its resource. *)
LEMMA Acquires ==
  ASSUME NEW x \in Resources, Phase = "setup", Phase' = "setup",
         Held' = Held \cup {x}, fault' = fault, lost \subseteq lost'
  PROVE  LifeMove
<1>1. Excused' \in {Excused, TRUE}
  <2>1. CASE lost' = {}
    BY <2>1 DEF Excused
  <2>2. CASE lost' # {}
    BY <2>2 DEF Excused
  <2> QED BY <2>1, <2>2
<1>2. Life!Acquire(x)
  BY <1>1 DEF Life!Acquire
<1>3. x \in Containers \cup {"network", "volume"}
  BY DEF Resources
<1> QED BY <1>2, <1>3 DEF LifeMove, Life!LifeNext

(* Nothing RunLife speaks of has changed. *)
LEMMA Unmoved ==
  ASSUME Phase' = Phase, UNCHANGED <<docker, fault, lost>>
  PROVE  LifeMove
BY DEF LifeMove, Held, Excused

(* The setup takes resources, or is declined before it has any. *)
LEMMA SetupLives ==
  ASSUME RunTypeOK, NothingYet, SetupStep, Quiet
  PROVE  LifeMove
<1>1. fault' = fault
  BY DEF Quiet
<1>2. CASE Validate /\ ~valid
  <2>1. opc = "start" /\ opc' = "close" /\ UNCHANGED <<docker, lost>>
    BY <1>2 DEF Validate
  <2>2. Phase = "setup" /\ Phase' = "over" /\ Held = {}
    BY <2>1 DEF Phase, Held, NothingYet, Absent
  <2>3. Life!Decline
    BY <1>1, <2>1, <2>2 DEF Life!Decline, Held, Excused
  <2> QED BY <2>3 DEF LifeMove, Life!LifeNext
<1>3. CASE Validate /\ valid
  BY <1>1, <1>3, Unmoved DEF Validate, Phase
<1>4. ASSUME NEW x \in Resources, NEW s \in {"created", "running"}, NEW next \in Setup,
             Ask(x, s, next), opc \in Setup, lost' = lost
      PROVE  LifeMove
  <2>1. Phase = "setup" /\ Phase' = "setup"
    BY <1>4, AskHolds DEF Phase, Setup
  <2> QED BY <1>1, <1>4, <2>1, AskHolds, Acquires, Unmoved
<1>5. CASE CreateNetwork \/ CreateVolume
  <2>1. CASE CreateNetwork
    BY <1>4, <2>1 DEF CreateNetwork, Resources, Setup
  <2>2. CASE CreateVolume
    BY <1>4, <2>2 DEF CreateVolume, Resources, Setup
  <2> QED BY <1>5, <2>1, <2>2
<1>6. CASE StartEngine \/ StartBench
  <2>1. CASE StartEngine
    BY <1>4, <2>1 DEF StartEngine, Start, Resources, Containers, Setup
  <2>2. CASE StartBench
    BY <1>4, <2>2 DEF StartBench, Start, Resources, Containers, Setup
  <2> QED BY <1>6, <2>1, <2>2
<1>7. ASSUME NEW c \in Containers, NEW next \in Setup, Create(c, next), opc \in Setup
      PROVE  LifeMove
  <2>1. c \in Resources /\ Ask(c, "created", next) /\ lost \subseteq lost'
    BY <1>7 DEF Create, Resources
  <2>2. Phase = "setup" /\ Phase' = "setup"
    BY <1>7, <2>1, AskHolds DEF Phase, Setup
  <2>3. CASE Held' = Held \cup {c}
    BY <1>1, <2>1, <2>2, <2>3, Acquires
  <2>4. CASE docker' = docker /\ docker[c] # "absent"
    <3>1. Held' = Held \cup {c}
      BY <2>1, <2>4 DEF Held
    <3> QED BY <1>1, <2>1, <2>2, <3>1, Acquires
  <2>5. CASE docker' = docker /\ docker[c] = "absent"
    <3>1. lost' = lost
      BY <1>7, <2>5 DEF Create
    <3> QED BY <1>1, <2>2, <2>5, <3>1, Unmoved
  <2> QED BY <2>1, <2>3, <2>4, <2>5, AskHolds
<1>8. CASE CreateEngine \/ CreateBench
  <2>1. CASE CreateEngine
    BY <1>7, <2>1 DEF CreateEngine, Containers, Setup
  <2>2. CASE CreateBench
    BY <1>7, <2>2 DEF CreateBench, Containers, Setup
  <2> QED BY <1>8, <2>1, <2>2
<1>9. CASE LeaveHealth \/ PollHealth \/ CopyConfig \/ WaitReturns \/ WaitBreaks \/ Collect
  <2>1. Phase' = Phase
    BY <1>9 DEF LeaveHealth, PollHealth, CopyConfig, WaitReturns, WaitBreaks, Collect, Phase
  <2>2. UNCHANGED <<docker, lost>>
    BY <1>9 DEF LeaveHealth, PollHealth, CopyConfig, WaitReturns, WaitBreaks, Collect
  <2> QED BY <1>1, <2>1, <2>2, Unmoved
<1> QED BY <1>2, <1>3, <1>5, <1>6, <1>8, <1>9 DEF SetupStep

(* A step of the clean-up gives its resource back, or Docker is to blame. *)
LEMMA CleanupLives ==
  ASSUME RunTypeOK, DockerInv, DockerInv', Cleanup
  PROVE  LifeMove
<1> DEFINE x == Head(todo)
<1>1. x \in Resources /\ opc = "cleanup" /\ opc' \in {"cleanup", "close"} /\ lost' = lost
  BY DEF Cleanup, RunTypeOK
<1>2. Phase = "cleanup" /\ Phase' \in {"cleanup", "over"}
  BY <1>1 DEF Phase
<1>3. Phase' = "over" => Excused' \/ Held' = {}
  BY <1>1, <1>2 DEF DockerInv, AllGone, Gone, Absent, Excused, Held, Phase
<1>4. x \in {"network", "volume"} => Excused \/ Held \cap Containers = {}
  <2>1. x \in {"network", "volume"} => Gone(Containers)
    <3>1. x \in {"network", "volume"} =>
            \/ todo = <<"network", "volume">> /\ Gone(Containers)
            \/ todo = <<"volume">> /\ Gone(Resources \ {"volume"})
      <4>1. todo = CleanupOrder => x = "bench"
        BY CleanupTails
      <4>2. todo = <<"engine", "network", "volume">> => x = "engine"
        OBVIOUS
      <4>3. CleanedSoFar
        BY DEF DockerInv
      <4> QED BY <1>1, <4>1, <4>2, <4>3 DEF CleanedSoFar
    <3> QED BY <3>1 DEF Gone, Absent, Resources, Containers
  <2> QED BY <2>1 DEF Gone, Absent, Excused, Held
<1>5. CASE Held' = Held \ {x} /\ fault' = fault
  <2>1. Excused' = Excused
    BY <1>1, <1>5 DEF Excused
  <2>2. Life!Release(x)
    BY <1>2, <1>3, <1>4, <1>5, <2>1 DEF Life!Release
  <2> QED BY <1>1, <2>2 DEF LifeMove, Life!LifeNext, Resources
<1>6. CASE Held' = Held /\ Excused' = TRUE
  <2>1. Life!Refused
    BY <1>2, <1>6 DEF Life!Refused
  <2> QED BY <2>1 DEF LifeMove, Life!LifeNext
<1>7. CASE /\ docker' = [docker EXCEPT ![x] = "absent"]
           /\ UNCHANGED fault
  <2>1. Held' = Held \ {x}
    BY <1>1, <1>7 DEF Held, RunTypeOK
  <2> QED BY <1>5, <1>7, <2>1
<1>8. CASE /\ x \in Containers \ known \/ ~CleanupContext \/ ~Removable(x)
           /\ UNCHANGED <<docker, fault>>
  <2>1. CASE docker[x] = "absent"
    <3>1. Held' = Held \ {x}
      BY <1>8, <2>1 DEF Held
    <3> QED BY <1>5, <1>8, <3>1
  <2>2. CASE docker[x] # "absent"
    <3>1. CASE x \in Containers \ known
      <4>1. lost # {}
        BY <2>2, <3>1 DEF DockerInv, Recorded
      <4> QED BY <1>1, <1>6, <1>8, <4>1 DEF Held, Excused
    <3>2. CASE ~Removable(x)
      <4>1. x \in {"network", "volume"}
        BY <3>2 DEF Removable
      <4>2. ~(Held \cap Containers = {})
        BY <3>2 DEF Removable, Held, Containers, Resources
      <4>3. Excused
        BY <1>4, <4>1, <4>2
      <4> QED BY <1>1, <1>6, <1>8, <4>3 DEF Held, Excused
    <3> QED BY <1>8, <3>1, <3>2 DEF CleanupContext
  <2> QED BY <2>1, <2>2
<1>9. CASE fault' = TRUE /\ UNCHANGED docker
  BY <1>6, <1>9 DEF Held, Excused
<1> QED BY <1>7, <1>8, <1>9 DEF Cleanup

(* A run holds Docker resources as RunLife promises: every step of the run, of its
   streamers, its handler and its client is a step of RunLife or changes nothing there. *)
THEOREM PromiseKept == RunSpec => KeepsPromise
<1>1. ASSUME RunInit
      PROVE  Life!LifeInit
  <2>1. Phase = "setup" /\ Held = {} /\ Excused = FALSE
    BY <1>1 DEF RunInit, Phase, Held, Excused
  <2> QED BY <2>1 DEF Life!LifeInit
<1>2. ASSUME RunInv, RunInv', [RunNext]_runVars
      PROVE  [Life!LifeNext]_(Life!lifeVars)
  <2> SUFFICES LifeMove
    BY DEF LifeMove, Life!lifeVars
  <2>0. RunTypeOK /\ DockerInv /\ DockerInv' /\ NothingYet
    BY <1>2 DEF RunInv, DockerInv
  <2>1. CASE Proceed \/ Poll \/ Break
    BY <2>0, <2>1, SetupLives DEF Proceed, Poll, Break, SetupStep
  <2>2. CASE EmitFinal \/ GiveUpFinal
    <3>1. /\ opc \in {"error", "result", "exit"} /\ opc' \in {"collect", "cleanup"}
          /\ UNCHANGED <<docker, lost, fault>>
      BY <2>2 DEF EmitFinal, GiveUpFinal, AfterFinal, Final
    <3>2. CASE opc' = "collect"
      BY <3>1, <3>2, Unmoved DEF Phase
    <3>3. CASE opc' = "cleanup"
      <4>1. Life!StartCleanup
        BY <3>1, <3>3 DEF Life!StartCleanup, Phase, Held, Excused
      <4> QED BY <4>1 DEF LifeMove, Life!LifeNext
    <3> QED BY <3>1, <3>2, <3>3
  <2>3. CASE Cleanup
    BY <2>0, <2>3, CleanupLives
  <2>4. CASE Close
    BY <2>4, Unmoved DEF Close, Phase
  <2>5. ASSUME NEW c \in Containers, Exit(c)
        PROVE  LifeMove
    BY <2>0, <2>5 DEF Exit, LifeMove, Phase, Held, Excused, RunTypeOK, Resources
  <2>6. ASSUME UNCHANGED <<opc, docker, lost, fault>>
        PROVE  LifeMove
    BY <2>6, Unmoved DEF Phase
  <2>7. ASSUME NEW c \in Containers, Stream(c)
        PROVE  LifeMove
    BY <2>6, <2>7 DEF Stream, OpenLogs, ReadLine, EndLogs, ReportLogs, LogQuiet
  <2>8. CASE Forward \/ Handle \/ Disconnect \/ Notice \/ RunTimeout \/ Over \/ UNCHANGED runVars
    BY <2>6, <2>8 DEF Forward, Handle, WriteFails, SeeDisconnect, SeeClosed, Finish,
                      Disconnect, Notice, RunTimeout, Over, HandlerQuiet, runVars
  <2> QED BY <1>2, <2>1, <2>2, <2>3, <2>4, <2>5, <2>7, <2>8 DEF RunNext, Orchestrate
<1> QED BY <1>1, <1>2, RunInvariance, PTL DEF RunSpec, KeepsPromise, Life!LifeSpec
-----------------------------------------------------------------------------
(* The run as Daemon sees it *)

HostMove ==
  \/ UNCHANGED (Host!dVars) \/ Host!Request("run") \/ Host!RunStep("run")
  \/ Host!StreamBreaks("run") \/ \E c \in Containers : Host!Exits("id", c)

HostBox   == [n \in {"id"} |-> [c \in Containers |-> docker[c]]]
HostHolds == [n \in {"id"} |-> [c \in Containers |-> HostBy(c)]]

(* What the run's positions are there. *)
LEMMA HostPosition ==
  /\ opc \in {"start", "done"} => HostPc = "idle"
  /\ opc = "close" => HostPc = IF valid THEN "cleanup" ELSE "idle"
  /\ opc \in Final \cup {"cleanup"} => HostPc = "cleanup"
  /\ opc \in {"network", "volume", "engine", "startEngine", "bench", "startBench", "wait"} =>
       HostPc = opc
  /\ opc = "health" => HostPc = "bench"
  /\ opc = "copy" => HostPc = "startBench"
  /\ opc \in {"exit", "collect"} => HostPc = "wait"
  /\ opc \in Final => HostTodo = CleanupOrder
  /\ opc \notin Final => HostTodo = todo
BY DEF HostPc, HostTodo, Final

LEMMA HostPositionNext ==
  /\ opc' \in {"start", "done"} => HostPc' = "idle"
  /\ opc' = "close" => HostPc' = IF valid' THEN "cleanup" ELSE "idle"
  /\ opc' \in Final \cup {"cleanup"} => HostPc' = "cleanup"
  /\ opc' \in {"network", "volume", "engine", "startEngine", "bench", "startBench", "wait"} =>
       HostPc' = opc'
  /\ opc' = "health" => HostPc' = "bench"
  /\ opc' = "copy" => HostPc' = "startBench"
  /\ opc' \in {"exit", "collect"} => HostPc' = "wait"
  /\ opc' \in Final => HostTodo' = CleanupOrder
  /\ opc' \notin Final => HostTodo' = todo'
BY DEF HostPc, HostTodo, Final

(* The run has no handler as long as it is in flight and its handler does not change. *)
LEMMA StrayKept ==
  ASSUME hpc' = hpc, HostPc' = HostPc \/ (HostPc # "idle" /\ HostPc' # "idle")
  PROVE  HostStray' = HostStray
BY DEF HostStray

(* A request of the setup that succeeds is one of a run that has its handler. *)
LEMMA LiveIsNoStray ==
  ASSUME LeftEnds, opc # "done", ctx = "live"
  PROVE  HostStray = {}
BY DEF HostStray, LeftEnds

(* Nothing Daemon speaks of has changed. *)
LEMMA HostStill ==
  ASSUME UNCHANGED <<HostPc, HostTodo, HostStray, docker, known, fault, lost>>
  PROVE  HostMove
BY DEF HostMove, Host!dVars, Host!main, Host!docker, HostBy, OnHost

(* The run moves on, or fails, there. *)
LEMMA HostMoves ==
  ASSUME NEW q, HostPc' = q, HostTodo' = HostTodo
  PROVE  Host!Move("run", q) /\ (HostStray = {} => Host!GoOn("run", q))
BY DEF Host!Move, Host!GoOn

LEMMA HostFails ==
  ASSUME HostPc' = "cleanup", HostTodo' = CleanupOrder
  PROVE  Host!Fail("run")
BY DEF Host!Fail, Host!CleanupOrder, CleanupOrder

(* A setup step that fails without effect, and one that ends the setup. *)
LEMMA HostLeaves ==
  ASSUME opc \in Setup, opc' \in Final, UNCHANGED <<docker, known, fault, lost, hpc>>
  PROVE  HostMove
<1>1. /\ HostPc \in Host!Steps /\ HostPc # "idle" /\ HostPc' = "cleanup"
      /\ HostTodo' = CleanupOrder
  BY HostPosition, HostPositionNext DEF Host!Steps, Setup
<1>2. Host!Fail("run")
  BY <1>1, HostFails
<1>3. Host!LeaveSetup("run")
  BY <1>1, <1>2, StrayKept DEF Host!LeaveSetup, Host!main, Host!docker, HostBy, OnHost
<1> QED BY <1>3 DEF HostMove, Host!RunStep

(* A setup request that reaches Docker, whether or not its reply comes back. *)
LEMMA HostAsks ==
  ASSUME LeftEnds, NEW next \in Setup, opc \in Setup, HostTodo = todo, UNCHANGED todo,
         opc' \in {next, "error"}, opc' = next => ctx = "live", NEW q, opc' = next => HostPc' = q
  PROVE  (Host!GoOn("run", q) /\ opc' = next) \/ (Host!Fail("run") /\ opc' = "error")
<1>1. CASE opc' = next
  <2>1. HostTodo' = HostTodo /\ HostStray = {}
    BY <1>1, HostPositionNext, LiveIsNoStray DEF Setup, Final
  <2> QED BY <1>1, <2>1, HostMoves
<1>2. CASE opc' = "error"
  BY <1>2, HostPositionNext, HostFails DEF Final
<1> QED BY <1>1, <1>2

LEMMA HostNetwork ==
  ASSUME RunTypeOK, StageInv, LeftEnds, Quiet, CreateNetwork
  PROVE  HostMove
<1>1. /\ opc = "network" /\ Ask("network", "created", "volume") /\ "network" \in Resources
      /\ UNCHANGED <<known, lost, fault, todo, hpc>>
  BY DEF CreateNetwork, Quiet, Resources
<1>2. /\ HostPc = "network" /\ HostTodo = todo /\ docker["network"] = "absent"
      /\ opc' = "volume" => HostPc' = "volume"
      /\ opc' = "error" => HostPc' = "cleanup"
  BY <1>1, HostPosition, HostPositionNext DEF Final, StageInv, SetupSoFar, Absent, Resources
<1>3. CASE docker' = [docker EXCEPT !["network"] = "created"]
  <2>1. opc' \in {"volume", "error"} /\ (opc' = "volume" => ctx = "live")
    BY <1>1, AskEffect DEF Setup
  <2>2. Host!GoOn("run", "volume") \/ Host!Fail("run")
    BY <1>1, <1>2, <2>1, HostAsks DEF Setup
  <2>3. /\ \A c \in Containers : docker'[c] = docker[c] /\ HostBy(c)' = HostBy(c)
        /\ docker'["volume"] = docker["volume"] /\ docker'["network"] = "created"
    BY <1>1, <1>2, <1>3, <2>1 DEF RunTypeOK, HostBy, Resources, Containers
  <2>4. HostStray' = HostStray
    BY <1>1, <1>2, <2>1, StrayKept
  <2>5. Host!MakeNetwork("run")
    BY <1>1, <1>2, <2>2, <2>3, <2>4 DEF Host!MakeNetwork, Host!main, OnHost
  <2> QED BY <2>5 DEF HostMove, Host!RunStep
<1>4. CASE docker' = docker /\ opc' = "error"
  BY <1>1, <1>4, HostLeaves DEF Setup, Final
<1> QED BY <1>1, <1>3, <1>4 DEF Ask

LEMMA HostVolume ==
  ASSUME RunTypeOK, StageInv, LeftEnds, Quiet, CreateVolume
  PROVE  HostMove
<1>1. /\ opc = "volume" /\ Ask("volume", "created", "engine") /\ "volume" \in Resources
      /\ UNCHANGED <<known, lost, fault, todo, hpc>>
  BY DEF CreateVolume, Quiet, Resources
<1>2. /\ HostPc = "volume" /\ HostTodo = todo
      /\ opc' = "engine" => HostPc' = "engine"
      /\ opc' = "error" => HostPc' = "cleanup"
  BY <1>1, HostPosition, HostPositionNext DEF Final
<1>3. CASE docker' = [docker EXCEPT !["volume"] = "created"]
  <2>1. opc' \in {"engine", "error"} /\ (opc' = "engine" => ctx = "live")
    BY <1>1, AskEffect DEF Setup
  <2>2. Host!GoOn("run", "engine") \/ Host!Fail("run")
    BY <1>1, <1>2, <2>1, HostAsks DEF Setup
  <2>3. /\ \A c \in Containers : docker'[c] = docker[c] /\ HostBy(c)' = HostBy(c)
        /\ docker'["network"] = docker["network"] /\ docker'["volume"] = "created"
    BY <1>1, <1>2, <1>3, <2>1 DEF RunTypeOK, HostBy, Resources, Containers
  <2>4. HostStray' = HostStray
    BY <1>1, <1>2, <2>1, StrayKept
  <2>5. Host!MakeVolume("run")
    BY <1>1, <1>2, <2>2, <2>3, <2>4 DEF Host!MakeVolume, Host!main, OnHost
  <2> QED BY <2>5 DEF HostMove, Host!RunStep
<1>4. CASE docker' = docker /\ opc' = "error"
  BY <1>1, <1>4, HostLeaves DEF Setup, Final
<1> QED BY <1>1, <1>3, <1>4 DEF Ask

(* A create request for a container whose name is free. *)
LEMMA HostCreates ==
  ASSUME RunTypeOK, LeftEnds, Quiet, NEW c \in Containers, NEW next \in Setup, Create(c, next),
         opc \in {"engine", "bench"}, docker[c] = "absent", c \notin known,
         NEW q \in Host!Steps, opc' = next => HostPc' = q
  PROVE  \/ HostMove
         \/ /\ Host!MakeBox("run", c, q)
            /\ \A y \in {"network", "volume"} : docker'[y] = docker[y]
<1>1. /\ c \in Resources /\ Ask(c, "created", next) /\ opc \in Setup
      /\ known' = known \cup Record(c) /\ UNCHANGED <<fault, todo, hpc>>
      /\ lost' = lost \cup (IF opc' = "error" /\ docker'[c] # "absent" THEN {c} ELSE {})
  BY DEF Create, Quiet, Resources, Setup
<1>2. /\ HostPc # "idle" /\ HostTodo = todo
      /\ opc' = "error" => HostPc' = "cleanup"
      /\ q # "idle" /\ next # "error"
  BY HostPosition, HostPositionNext DEF Final, Host!Steps, Setup
<1>3. CASE docker' = [docker EXCEPT ![c] = "created"]
  <2>1. opc' \in {next, "error"} /\ (opc' = next => ctx = "live")
    BY <1>1, <1>2, AskEffect DEF Setup
  <2>s. HostStray' = HostStray
    BY <1>1, <1>2, <2>1, StrayKept
  <2>2. (Host!GoOn("run", q) /\ opc' = next) \/ (Host!Fail("run") /\ opc' = "error")
    BY <1>1, <1>2, <2>1, HostAsks
  <2>3. /\ \A d \in Containers : docker'[d] = IF d = c THEN "created" ELSE docker[d]
        /\ \A y \in {"network", "volume"} : docker'[y] = docker[y]
    BY <1>1, <1>3 DEF RunTypeOK, Resources, Containers
  <2>4. HostBox' = [HostBox EXCEPT !["id"][c] = "created"]
    BY <2>3 DEF HostBox
  <2>5. CASE opc' = next
    <3>1. known' = known \cup {c} /\ lost' = lost /\ Host!GoOn("run", q)
      BY <1>1, <1>2, <2>2, <2>5 DEF Record
    <3>2. \A d \in Containers : HostBy(d)' = IF d = c THEN "run" ELSE HostBy(d)
      BY <1>2, <2>3, <2>5, <3>1 DEF HostBy
    <3>3. HostHolds' = [HostHolds EXCEPT !["id"][c] = "run"]
      BY <3>2 DEF HostHolds
    <3>4. Host!MakeBox("run", c, q)
      BY <1>1, <2>s, <2>3, <2>4, <3>1, <3>3
         DEF Host!MakeBox, Host!main, OnHost, HostBox, HostHolds
    <3> QED BY <2>3, <3>4
  <2>6. CASE opc' = "error"
    <3>1. known' = known /\ lost' = lost \cup {c} /\ Host!Fail("run")
      BY <1>1, <1>2, <2>2, <2>3, <2>6 DEF Record
    <3>2. \A d \in Containers : HostBy(d)' = HostBy(d)
      BY <1>2, <2>3, <2>6, <3>1 DEF HostBy
    <3>3. HostHolds' = HostHolds
      BY <3>2 DEF HostHolds
    <3>4. Host!MakeBox("run", c, q)
      BY <1>1, <2>s, <2>3, <2>4, <3>1, <3>3
         DEF Host!MakeBox, Host!main, OnHost, HostBox, HostHolds
    <3> QED BY <2>3, <3>4
  <2> QED BY <2>1, <2>5, <2>6
<1>4. CASE docker' = docker /\ opc' = "error"
  <2>1. UNCHANGED <<known, lost>>
    BY <1>1, <1>4 DEF Record
  <2> QED BY <1>1, <1>4, <2>1, HostLeaves DEF Final
<1> QED BY <1>1, <1>3, <1>4 DEF Ask

LEMMA HostEngine ==
  ASSUME RunTypeOK, StageInv, LeftEnds, Quiet, CreateEngine
  PROVE  HostMove
<1>1. /\ opc = "engine" /\ Create("engine", "startEngine") /\ "engine" \in Containers
      /\ docker["engine"] = "absent" /\ "engine" \notin known
  BY DEF CreateEngine, StageInv, SetupSoFar, KnownExist, Absent, Containers, Setup
<1>2. HostPc = "engine" /\ (opc' = "startEngine" => HostPc' = "startEngine")
  BY <1>1, HostPosition, HostPositionNext
<1>3. \/ HostMove
      \/ /\ Host!MakeBox("run", "engine", "startEngine")
         /\ \A y \in {"network", "volume"} : docker'[y] = docker[y]
  BY <1>1, <1>2, HostCreates DEF Setup, Host!Steps
<1>4. ASSUME Host!MakeBox("run", "engine", "startEngine"), docker'["volume"] = docker["volume"]
      PROVE  Host!MakeEngine("run")
  BY <1>2, <1>4 DEF Host!MakeEngine, OnHost
<1> QED BY <1>3, <1>4 DEF HostMove, Host!RunStep

LEMMA HostBench ==
  ASSUME RunTypeOK, StageInv, LeftEnds, Quiet, CreateBench
  PROVE  HostMove
<1>1. /\ opc = "bench" /\ Create("bench", "copy") /\ "bench" \in Containers
      /\ docker["bench"] = "absent" /\ "bench" \notin known /\ docker["volume"] # "absent"
  BY DEF CreateBench, StageInv, SetupSoFar, KnownExist, Absent, Containers, Setup
<1>2. HostPc = "bench" /\ (opc' = "copy" => HostPc' = "startBench")
  BY <1>1, HostPosition, HostPositionNext
<1>3. \/ HostMove
      \/ /\ Host!MakeBox("run", "bench", "startBench")
         /\ \A y \in {"network", "volume"} : docker'[y] = docker[y]
  BY <1>1, <1>2, HostCreates DEF Setup, Host!Steps
<1>4. ASSUME Host!MakeBox("run", "bench", "startBench"), docker'["volume"] = docker["volume"]
      PROVE  Host!MakeBench("run")
  BY <1>1, <1>2, <1>4 DEF Host!MakeBench, OnHost
<1> QED BY <1>3, <1>4 DEF HostMove, Host!RunStep

(* A start request for a container the run has the ID of. *)
LEMMA HostStarts ==
  ASSUME RunTypeOK, LeftEnds, Quiet, NEW c \in known, NEW next \in Setup, Start(c, next),
         UNCHANGED <<known, lost>>, opc \in {"startEngine", "startBench"},
         docker[c] # "absent", docker["network"] # "absent",
         NEW q \in Host!Steps, opc' = next => HostPc' = q
  PROVE  HostMove \/ Host!StartBox("run", c, q)
<1>1. /\ c \in Containers /\ c \in Resources /\ Ask(c, "running", next) /\ opc \in Setup
      /\ UNCHANGED <<fault, todo, hpc>>
  BY DEF Start, Quiet, RunTypeOK, Resources, Setup
<1>2. /\ HostPc # "idle" /\ HostTodo = todo
      /\ opc' = "error" => HostPc' = "cleanup"
      /\ q # "idle" /\ next # "error"
  BY HostPosition, HostPositionNext DEF Final, Host!Steps, Setup
<1>3. CASE docker' = [docker EXCEPT ![c] = "running"]
  <2>1. opc' \in {next, "error"} /\ (opc' = next => ctx = "live")
    BY <1>1, <1>2, AskEffect DEF Setup
  <2>s. HostStray' = HostStray
    BY <1>1, <1>2, <2>1, StrayKept
  <2>2. Host!GoOn("run", q) \/ Host!Fail("run")
    BY <1>1, <1>2, <2>1, HostAsks
  <2>3. /\ \A d \in Containers : docker'[d] = IF d = c THEN "running" ELSE docker[d]
        /\ \A y \in {"network", "volume"} : docker'[y] = docker[y]
    BY <1>1, <1>3 DEF RunTypeOK, Resources, Containers
  <2>4. HostBox' = [HostBox EXCEPT !["id"][c] = "running"]
    BY <2>3 DEF HostBox
  <2>5. HostBy(c) = "run" /\ \A d \in Containers : HostBy(d)' = HostBy(d)
    BY <1>2, <2>1, <2>3 DEF HostBy
  <2>6. Host!StartBox("run", c, q)
    BY <1>1, <2>s, <2>2, <2>3, <2>4, <2>5 DEF Host!StartBox, Host!main, OnHost, HostBox
  <2> QED BY <2>6
<1>4. CASE docker' = docker /\ opc' = "error"
  BY <1>1, <1>4, HostLeaves DEF Final
<1> QED BY <1>1, <1>3, <1>4 DEF Ask

LEMMA HostStartEngine ==
  ASSUME RunTypeOK, StageInv, StartsKnown, LeftEnds, Quiet, StartEngine
  PROVE  HostMove
<1>1. /\ opc = "startEngine" /\ Start("engine", "health") /\ UNCHANGED <<known, lost>>
      /\ "engine" \in known /\ docker["engine"] # "absent" /\ docker["network"] # "absent"
  BY DEF StartEngine, StageInv, SetupSoFar, StartsKnown, Setup
<1>2. HostPc = "startEngine" /\ (opc' = "health" => HostPc' = "bench")
  BY <1>1, HostPosition, HostPositionNext
<1>3. HostMove \/ Host!StartBox("run", "engine", "bench")
  BY <1>1, <1>2, HostStarts DEF Setup, Host!Steps
<1>4. Host!StartBox("run", "engine", "bench") => Host!StartEngine("run")
  BY <1>2 DEF Host!StartEngine
<1> QED BY <1>3, <1>4 DEF HostMove, Host!RunStep

LEMMA HostStartBench ==
  ASSUME RunTypeOK, StageInv, StartsKnown, LeftEnds, Quiet, StartBench
  PROVE  HostMove
<1>1. /\ opc = "startBench" /\ Start("bench", "wait") /\ UNCHANGED <<known, lost>>
      /\ "bench" \in known /\ docker["bench"] # "absent" /\ docker["network"] # "absent"
  BY DEF StartBench, StageInv, SetupSoFar, StartsKnown, Setup
<1>2. HostPc = "startBench" /\ (opc' = "wait" => HostPc' = "wait")
  BY <1>1, HostPosition, HostPositionNext
<1>3. HostMove \/ Host!StartBox("run", "bench", "wait")
  BY <1>1, <1>2, HostStarts DEF Setup, Host!Steps
<1>4. Host!StartBox("run", "bench", "wait") => Host!StartBench("run")
  BY <1>2 DEF Host!StartBench
<1> QED BY <1>3, <1>4 DEF HostMove, Host!RunStep

(* Every step of the setup is one there, or nothing. *)
LEMMA SetupOnHost ==
  ASSUME RunTypeOK, DockerInv, StageInv, HandlerInv, SetupStep, Quiet
  PROVE  HostMove
<1>0. UNCHANGED <<valid, fault, todo, hpc>> /\ StartsKnown /\ LeftEnds
  BY DEF Quiet, DockerInv, HandlerInv
<1>1. CASE Validate /\ valid
  <2>1. /\ opc = "start" /\ opc' = "network" /\ UNCHANGED <<docker, known, lost>>
        /\ \A c \in Containers : docker[c] = "absent"
    BY <1>1 DEF Validate, StageInv, SetupSoFar, Absent, Resources
  <2>2. HostPc = "idle" /\ HostPc' = "network" /\ HostTodo' = HostTodo
    BY <1>0, <2>1, HostPosition, HostPositionNext DEF Final
  <2>3. Host!Move("run", "network")
    BY <2>2, HostMoves
  <2>s. HostStray = {} /\ HostStray' = {}
    BY <1>0, <2>1 DEF HostStray, HandlerInv, Unwritten
  <2>4. Host!Request("run")
    BY <1>0, <2>1, <2>2, <2>3, <2>s DEF Host!Request, Host!main, Host!docker, HostBy, OnHost
  <2> QED BY <2>4 DEF HostMove
<1>2. CASE Validate /\ ~valid
  <2>1. opc = "start" /\ opc' = "close" /\ ~valid' /\ UNCHANGED <<docker, known, lost>>
    BY <1>0, <1>2 DEF Validate
  <2>2. UNCHANGED <<HostPc, HostTodo>>
    BY <1>0, <2>1, HostPosition, HostPositionNext DEF Final
  <2> QED BY <1>0, <2>1, <2>2, StrayKept, HostStill
<1>3. CASE LeaveHealth \/ PollHealth \/ CopyConfig \/ WaitReturns \/ WaitBreaks \/ Collect
  <2>1. /\ UNCHANGED <<docker, known, lost>> /\ opc \in Setup
        /\ \/ opc' \in Final
           \/ opc = "health" /\ opc' \in {"health", "bench"}
           \/ opc = "copy" /\ opc' = "startBench"
           \/ opc = "wait" /\ opc' \in {"collect", "exit"}
    BY <1>3 DEF LeaveHealth, PollHealth, CopyConfig, WaitReturns, WaitBreaks, Collect,
                Setup, Final
  <2>2. CASE opc' \in Final
    BY <1>0, <2>1, <2>2, HostLeaves
  <2>3. CASE opc' \notin Final
    <3>1. UNCHANGED <<HostPc, HostTodo>>
      BY <1>0, <2>1, <2>3, HostPosition, HostPositionNext DEF Final
    <3> QED BY <1>0, <2>1, <3>1, StrayKept, HostStill
  <2> QED BY <2>2, <2>3
<1> QED BY <1>0, <1>1, <1>2, <1>3, HostNetwork, HostVolume, HostEngine, HostStartEngine,
           HostBench, HostStartBench DEF SetupStep

(* A step of the clean-up is one there. *)
LEMMA CleanupOnHost ==
  ASSUME RunTypeOK, StageInv, StageInv', DockerInv, Cleanup
  PROVE  HostMove
<1> DEFINE x == Head(todo)
<1>1. /\ opc = "cleanup" /\ todo # <<>> /\ todo' = Tail(todo) /\ valid /\ valid'
      /\ opc' = IF Tail(todo) = <<>> THEN "close" ELSE "cleanup"
      /\ UNCHANGED <<known, lost, hpc>>
  BY DEF Cleanup, StageInv, Admitted
<1>2. /\ HostPc = "cleanup" /\ HostTodo = todo /\ HostPc' = "cleanup"
      /\ HostTodo' = Tail(todo)
  BY <1>1, HostPosition, HostPositionNext DEF Final
<1>3. x \in Resources
  BY <1>1 DEF RunTypeOK
<1>4. ASSUME \/ Host!RemoveHead("run") /\ UNCHANGED (OnHost(fault \/ lost # {}))
             \/ /\ UNCHANGED (Host!docker)
                /\ OnHost(fault \/ lost # {})' = OnHost(fault \/ lost # {}) \cup {"id"}
      PROVE  HostMove
  <2>1. Host!Cleanup("run")
    BY <1>1, <1>2, <1>4, StrayKept DEF Host!Cleanup, Host!main
  <2> QED BY <2>1 DEF HostMove, Host!RunStep
<1>5. CASE fault' = TRUE /\ UNCHANGED docker
  <2>1. \A c \in Containers : HostBy(c)' = HostBy(c)
    BY <1>1, <1>2, <1>5 DEF HostBy
  <2> QED BY <1>1, <1>4, <1>5, <2>1 DEF Host!docker, OnHost
<1>6. CASE x \in Containers /\ fault' = fault
           /\ docker' = IF x \in known THEN [docker EXCEPT ![x] = "absent"] ELSE docker
  <2>0. PICK k \in Containers : k = x
    BY <1>6
  <2>1. \A c \in Containers : docker'[c] = IF c = k /\ k \in known THEN "absent" ELSE docker[c]
    BY <1>3, <1>6, <2>0 DEF RunTypeOK, Resources
  <2>2. \A y \in {"network", "volume"} : docker'[y] = docker[y]
    BY <1>3, <1>6, <2>0 DEF RunTypeOK, Resources, Containers
  <2>3. \A c \in Containers : HostBy(c)' = IF c = k THEN "nobody" ELSE HostBy(c)
    BY <1>1, <1>2, <2>1 DEF HostBy
  <2>4. ASSUME Host!RemoveBox("run", k)
        PROVE  HostMove
    <3>1. k \in Host!Kinds /\ Head([r \in {"run"} |-> HostTodo]["run"]) = k
      BY <1>2, <2>0 DEF Host!Kinds, Containers
    <3>2. Host!RemoveHead("run")
      BY <2>4, <3>1 DEF Host!RemoveHead
    <3> QED BY <1>1, <1>4, <1>6, <3>2 DEF OnHost
  <2>5. CASE HostBy(k) = "run"
    <3>1. /\ HostBox' = [HostBox EXCEPT !["id"][k] = "absent"]
          /\ HostHolds' = [HostHolds EXCEPT !["id"][k] = "nobody"]
      BY <2>1, <2>3, <2>5 DEF HostBox, HostHolds, HostBy
    <3>2. Host!RemoveBox("run", k)
      BY <2>2, <2>5, <3>1 DEF Host!RemoveBox, Host!Mine, OnHost, HostBox, HostHolds
    <3> QED BY <2>4, <3>2
  <2>6. CASE HostBy(k) # "run"
    <3>1. HostBox' = HostBox /\ HostHolds' = HostHolds
      BY <1>2, <2>1, <2>3, <2>6 DEF HostBox, HostHolds, HostBy
    <3>2. Host!RemoveBox("run", k)
      BY <2>2, <2>6, <3>1 DEF Host!RemoveBox, Host!Mine, OnHost, HostBox, HostHolds
    <3> QED BY <2>4, <3>2
  <2> QED BY <2>5, <2>6
<1>7. CASE x \in {"network", "volume"} /\ fault' = fault
           /\ docker' = IF Removable(x) THEN [docker EXCEPT ![x] = "absent"] ELSE docker
  <2>1. \A y \in Resources : docker'[y] = IF y = x /\ Removable(x) THEN "absent" ELSE docker[y]
    BY <1>3, <1>7 DEF RunTypeOK
  <2>2. \A c \in Containers : docker'[c] = docker[c] /\ HostBy(c)' = HostBy(c)
    BY <1>1, <1>2, <1>7, <2>1 DEF HostBy, Resources, Containers
  <2>3. CASE x = "network"
    <3>1. Removable(x) <=> ~ \E c \in Containers : docker[c] = "running"
      BY <2>3 DEF Removable
    <3>2. /\ docker'["volume"] = docker["volume"]
          /\ docker'["network"] = IF Removable(x) THEN "absent" ELSE docker["network"]
      BY <2>1, <2>3 DEF Resources
    <3>3. Host!RemoveNetwork("id")
      BY <2>2, <3>1, <3>2 DEF Host!RemoveNetwork, Host!Kinds, Containers, OnHost
    <3> QED BY <1>1, <1>2, <1>4, <1>7, <2>3, <3>3 DEF Host!RemoveHead
  <2>4. CASE x = "volume"
    <3>1. Removable(x) <=> docker["bench"] = "absent"
      BY <2>4 DEF Removable
    <3>2. /\ docker'["network"] = docker["network"]
          /\ docker'["volume"] = IF Removable(x) THEN "absent" ELSE docker["volume"]
      BY <2>1, <2>4 DEF Resources
    <3>3. Host!RemoveVolume("id")
      BY <2>2, <3>1, <3>2 DEF Host!RemoveVolume, Containers, OnHost
    <3> QED BY <1>1, <1>2, <1>4, <1>7, <2>4, <3>3 DEF Host!RemoveHead
  <2> QED BY <1>7, <2>3, <2>4
<1>8. x \in Containers \/ x \in {"network", "volume"}
  BY <1>3 DEF Resources
<1>9. x \in Containers => Removable(x) /\ x \notin {"network", "volume"}
  BY DEF Removable, Containers
<1> QED BY <1>5, <1>6, <1>7, <1>8, <1>9 DEF Cleanup, CleanupContext

LEMMA CloseOnHost ==
  ASSUME RunTypeOK, StageInv, Close
  PROVE  HostMove
<1>1. /\ opc = "close" /\ opc' = "done" /\ todo = <<>>
      /\ UNCHANGED <<valid, todo, docker, known, lost, fault, hpc>>
  BY DEF Close, StageInv, ListEmpty
<1>2. HostPc' = "idle" /\ HostTodo = todo /\ HostTodo' = HostTodo
  BY <1>1, HostPosition, HostPositionNext DEF Final
<1>3. CASE valid
  <2>1. HostPc = "cleanup"
    BY <1>1, <1>3, HostPosition
  <2>2. Host!Move("run", "idle")
    BY <1>2, HostMoves
  <2>3. \A c \in Containers : HostBy(c) \in {"run", "nobody"} /\ HostBy(c)' = "nobody"
    BY <1>2 DEF HostBy
  <2>s. HostStray' = HostStray \ {"run"}
    BY <1>2 DEF HostStray
  <2>4. Host!EndRun("run")
    BY <1>1, <1>2, <2>1, <2>2, <2>3, <2>s DEF Host!EndRun, Host!Kinds, Containers, OnHost
  <2> QED BY <2>4 DEF HostMove, Host!RunStep
<1>4. CASE ~valid
  BY <1>1, <1>2, <1>4, HostPosition, StrayKept, HostStill
<1> QED BY <1>3, <1>4

(* With its events, logs and client taken away the run is a run of Daemon:
   what Daemon_proofs shows for runs that share IDs holds of what this code does. *)
THEOREM DaemonRunsThis == RunSpec => RunsAsInDaemon
<1>1. ASSUME RunInit
      PROVE  Host!Idle("id") /\ Host!Clean("id")
  <2>1. HostPc = "idle" /\ \A y \in Resources : docker[y] = "absent"
    BY <1>1, HostPosition DEF RunInit
  <2> QED BY <2>1 DEF Host!Idle, Host!Clean, Host!InFlight, Host!Steps, Host!Kinds, OnHost,
                      Resources, Containers
<1>2. ASSUME RunInv, RunInv', [RunNext]_runVars
      PROVE  [\/ Host!Request("run") \/ Host!RunStep("run")
              \/ Host!StreamBreaks("run")
              \/ \E c \in Containers : Host!Exits("id", c)]_(Host!dVars)
  <2> SUFFICES HostMove
    BY DEF HostMove
  <2>0. RunTypeOK /\ DockerInv /\ StageInv /\ StageInv' /\ HandlerInv
    BY <1>2 DEF RunInv, DockerInv, StageInv, HandlerInv
  <2>1. CASE Proceed \/ Poll \/ Break
    BY <2>0, <2>1, SetupOnHost DEF Proceed, Poll, Break, SetupStep
  <2>2. CASE EmitFinal \/ GiveUpFinal
    <3>1. /\ opc \in {"error", "result", "exit"} /\ UNCHANGED <<docker, known, lost, fault, hpc>>
          /\ opc' = IF opc = "exit" THEN "collect" ELSE "cleanup"
          /\ todo' = IF opc = "exit" THEN todo ELSE CleanupOrder
      BY <2>2 DEF EmitFinal, GiveUpFinal, AfterFinal, Final
    <3>2. UNCHANGED <<HostPc, HostTodo>>
      BY <3>1, HostPosition, HostPositionNext DEF Final
    <3> QED BY <3>1, <3>2, StrayKept, HostStill
  <2>3. CASE Cleanup
    BY <2>0, <2>3, CleanupOnHost
  <2>4. CASE Close
    BY <2>0, <2>4, CloseOnHost
  <2>5. ASSUME NEW c \in Containers, Exit(c)
        PROVE  HostMove
    <3>1. /\ UNCHANGED <<valid, opc, todo, known, lost, fault, hpc>> /\ docker[c] = "running"
          /\ \A y \in Resources : docker'[y] = IF y = c THEN "exited" ELSE docker[y]
      BY <2>0, <2>5 DEF Exit, RunTypeOK, Resources
    <3>2. UNCHANGED <<HostPc, HostTodo>>
      BY <3>1 DEF HostPc, HostTodo
    <3>3. /\ \A d \in Containers : HostBy(d)' = HostBy(d)
          /\ \A y \in {"network", "volume"} : docker'[y] = docker[y]
      BY <3>1, <3>2 DEF HostBy, Resources, Containers
    <3>4. HostBox' = [HostBox EXCEPT !["id"][c] = "exited"]
      BY <3>1 DEF HostBox, Resources
    <3>5. Host!Exits("id", c)
      BY <2>5, <3>1, <3>2, <3>3, <3>4, StrayKept DEF Host!Exits, Host!Touch, Host!main, OnHost, HostBox
    <3> QED BY <3>5 DEF HostMove
  <2>6. ASSUME UNCHANGED <<valid, opc, todo, docker, known, lost, fault>>,
               hpc' = hpc \/ (hpc # "left" /\ hpc' # "left") \/ opc = "done"
        PROVE  HostMove
    <3>1. UNCHANGED <<HostPc, HostTodo>>
      BY <2>6 DEF HostPc, HostTodo
    <3>2. HostStray' = HostStray
      BY <2>6, <3>1, HostPosition DEF HostStray
    <3> QED BY <2>6, <3>1, <3>2, HostStill
  <2>7. ASSUME NEW c \in Containers, Stream(c)
        PROVE  HostMove
    BY <2>6, <2>7 DEF Stream, OpenLogs, ReadLine, EndLogs, ReportLogs, LogQuiet
  <2>8. CASE Forward \/ Disconnect \/ Notice \/ RunTimeout \/ Over \/ UNCHANGED runVars
    BY <2>6, <2>8 DEF Forward, Disconnect, Notice, RunTimeout, Over, HandlerQuiet, runVars
  <2>9. CASE SeeDisconnect \/ SeeClosed \/ Finish
    BY <2>6, <2>9 DEF SeeDisconnect, SeeClosed, Finish, HandlerQuiet
  <2>10. CASE WriteFails
    <3>1. /\ hpc = "loop" /\ hpc' = "left" /\ chan # <<>>
          /\ UNCHANGED <<valid, opc, todo, docker, known, lost, fault>>
      BY <2>10 DEF WriteFails, HandlerQuiet
    <3>2. UNCHANGED <<HostPc, HostTodo>>
      BY <3>1 DEF HostPc, HostTodo
    <3>3. CASE HostPc = "idle"
      <4>1. HostStray' = HostStray
        BY <3>2, <3>3 DEF HostStray
      <4> QED BY <3>1, <3>2, <4>1, HostStill
    <3>4. CASE HostPc # "idle"
      <4>1. HostStray = {} /\ HostStray' = {"run"}
        BY <3>1, <3>2, <3>4 DEF HostStray
      <4>2. HostPc \in Host!Steps \cup {"cleanup"}
        BY <2>0, <3>4, HostPosition DEF RunTypeOK, Setup, Final, Ending, Host!Steps
      <4>3. Host!StreamBreaks("run")
        BY <3>1, <3>2, <4>1, <4>2 DEF Host!StreamBreaks, Host!InFlight, Host!docker, HostBy, OnHost
      <4> QED BY <4>3 DEF HostMove
    <3> QED BY <3>3, <3>4
  <2> QED BY <1>2, <2>1, <2>2, <2>3, <2>4, <2>5, <2>7, <2>8, <2>9, <2>10
      DEF RunNext, Orchestrate, Handle
<1> QED BY <1>1, <1>2, RunInvariance, PTL DEF RunSpec, RunsAsInDaemon
=================================================================================
