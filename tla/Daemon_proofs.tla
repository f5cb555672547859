---------------------------- MODULE Daemon_proofs ----------------------------
(***************************************************************************)
(* Runs that share names leave nothing behind and keep out of each other's *)
(* way, for any number of clients, any run IDs and any restarts.           *)
(***************************************************************************)
EXTENDS Daemon, TLAPS

Things == {"bench", "engine", "network", "volume"}

(* DaemonInv but for the runs without a handler, which nothing else of it rests on. *)
DebtInv == TypeOK /\ HoldersRun /\ AllIsOwed /\ EngagedHoldEngine /\ OffMeansIdle

(* cleanupRun goes through its list from the front. *)
LEMMA Lists ==
  /\ CleanupOrder = T4
  /\ Head(T4) = "bench" /\ Head(T3) = "engine" /\ Head(T2) = "network" /\ Head(T1) = "volume"
  /\ Tail(T4) = T3 /\ Tail(T3) = T2 /\ Tail(T2) = T1 /\ Tail(T1) = T0 /\ T0 = <<>>
<1>1. CleanupOrder = T4 /\ T0 = <<>>
  BY DEF CleanupOrder, T4, T0
<1>2. Head(T4) = "bench" /\ Head(T3) = "engine" /\ Head(T2) = "network" /\ Head(T1) = "volume"
  BY DEF T4, T3, T2, T1
<1>3. Tail(T4) = T3 /\ Tail(T3) = T2 /\ Tail(T2) = T1 /\ Tail(T1) = T0
  BY DEF T4, T3, T2, T1, T0
<1> QED
  BY <1>1, <1>2, <1>3

LEMMA Distinct ==
  /\ T4 # T3 /\ T4 # T2 /\ T4 # T1 /\ T4 # T0 /\ T3 # T2 /\ T3 # T1 /\ T3 # T0
  /\ T2 # T1 /\ T2 # T0 /\ T1 # T0
<1>1. T4 # T3 /\ T4 # T2 /\ T4 # T1 /\ T3 # T2 /\ T3 # T1 /\ T2 # T1
  BY Lists
<1>2. Len(T4) = 4 /\ Len(T3) = 3 /\ Len(T2) = 2 /\ Len(T1) = 1 /\ Len(T0) = 0
  BY DEF T4, T3, T2, T1, T0
<1>3. T4 # T0 /\ T3 # T0 /\ T2 # T0 /\ T1 # T0
  BY <1>2
<1> QED
  BY <1>1, <1>3

(* Who will remove a container will then remove the network, and then the volume. *)
LEMMA OwesMore ==
  ASSUME NEW r, NEW x \in Things, Owes(r, x)
  PROVE  /\ x \in Kinds => Owes(r, "network")
         /\ Owes(r, "volume") /\ InFlight(r)
  BY DEF Owes, ToGo, Kinds, InFlight, Things

(* A run that is over or not begun owes nothing. *)
LEMMA IdleOwesNothing ==
  ASSUME NEW r, pc[r] = "idle", NEW x PROVE ~Owes(r, x) /\ ~InFlight(r) /\ ~Engaged(r)
  BY DEF Owes, InFlight, Steps, Engaged

LEMMA InitInv == DaemonAssumption /\ Init => DaemonInv
<1> SUFFICES ASSUME DaemonAssumption, Init PROVE DaemonInv
  OBVIOUS
<1>1. TypeOK
  <2>1. /\ pc \in [Clients -> {"idle", "cleanup"} \cup Steps]
        /\ todo \in [Clients -> {T4, T3, T2, T1, T0}]
    BY DEF Init, T0
  <2>2. /\ box \in [Names -> [Kinds -> {"absent", "created", "running", "exited"}]]
        /\ by \in [Names -> [Kinds -> Clients \cup {Nobody}]]
    BY DEF Init
  <2> QED
    BY <2>1, <2>2 DEF Init, TypeOK
<1>2. \A n \in Names, k \in Kinds : by[n][k] = Nobody /\ box[n][k] = "absent"
  BY DEF Init
<1>3. HoldersRun
  BY <1>2 DEF HoldersRun, DaemonAssumption
<1>4. AllIsOwed
  BY <1>2 DEF AllIsOwed, Init
<1>5. EngagedHoldEngine /\ OffMeansIdle /\ StraysRun
  BY DEF EngagedHoldEngine, OffMeansIdle, StraysRun, Init, Engaged
<1> QED
  BY <1>1, <1>3, <1>4, <1>5 DEF DaemonInv
-----------------------------------------------------------------------------
(* What an update of one container does to the others. *)
LEMMA BoxUpdate ==
  ASSUME NEW f, NEW S, f \in [Names -> [Kinds -> S]], NEW n \in Names, NEW k \in Kinds, NEW v \in S,
         NEW g, g = [f EXCEPT ![n][k] = v]
  PROVE  /\ g \in [Names -> [Kinds -> S]]
         /\ \A m \in Names, j \in Kinds : g[m][j] = IF m = n /\ j = k THEN v ELSE f[m][j]
  OBVIOUS

(* A run moves on within its setup, or leaves it with everything to clean up. *)
SetupMove(r, p) ==
  /\ p \in Steps \cup {"cleanup"} /\ pc' = [pc EXCEPT ![r] = p]
  /\ p = "cleanup" => todo' = [todo EXCEPT ![r] = T4]
  /\ p # "cleanup" => todo' = todo

(* Whether the reply to a request of the setup arrives or not. *)
LEMMA SetupMoves ==
  ASSUME NEW r, NEW q \in Steps, GoOn(r, q) \/ Fail(r)
  PROVE  \E p \in {q, "cleanup"} : SetupMove(r, p)
<1>1. CASE GoOn(r, q)
  <2>1. q # "cleanup"
    BY DEF Steps
  <2> QED
    BY <1>1, <2>1 DEF GoOn, Move, SetupMove
<1>2. CASE Fail(r)
  BY <1>2, Lists DEF Fail, SetupMove
<1> QED
  BY <1>1, <1>2

(* Such a run owes all that it owed, as do the others. *)
LEMMA SetupKeepsDebts ==
  ASSUME TypeOK, NEW r \in Clients, NEW p, SetupMove(r, p)
  PROVE  /\ pc' \in [Clients -> {"idle", "cleanup"} \cup Steps]
         /\ todo' \in [Clients -> {T4, T3, T2, T1, T0}]
         /\ \A x \in Things : Owes(r, x)'
         /\ \A s \in Clients, x \in Things : Owes(s, x) => Owes(s, x)'
         /\ \A s \in Clients : InFlight(s) => InFlight(s)'
         /\ InFlight(r)'
         /\ \A s \in Clients : s # r => pc'[s] = pc[s]
         /\ pc'[r] = p
<1>0. /\ p \in Steps \cup {"cleanup"} /\ pc' = [pc EXCEPT ![r] = p]
      /\ p = "cleanup" => todo' = [todo EXCEPT ![r] = T4]
      /\ p # "cleanup" => todo' = todo
  BY DEF SetupMove
<1>1. pc' \in [Clients -> {"idle", "cleanup"} \cup Steps] /\ pc'[r] = p
  BY <1>0 DEF TypeOK
<1>2. todo' \in [Clients -> {T4, T3, T2, T1, T0}] /\ (p = "cleanup" => todo'[r] = T4)
  BY <1>0 DEF TypeOK
<1>3. \A s \in Clients : s # r => pc'[s] = pc[s] /\ todo'[s] = todo[s]
  BY <1>0 DEF TypeOK
<1>4. \A x \in Things : Owes(r, x)'
  BY <1>0, <1>1, <1>2 DEF Owes, ToGo
<1>5. \A s \in Clients, x \in Things : Owes(s, x) => Owes(s, x)'
  BY <1>3, <1>4 DEF Owes
<1>6. InFlight(r)' /\ \A s \in Clients : InFlight(s) => InFlight(s)'
  BY <1>0, <1>1, <1>3 DEF InFlight
<1> QED
  BY <1>1, <1>2, <1>3, <1>4, <1>5, <1>6

(* Such a step that leaves the containers alone. *)
LEMMA SetupWithoutBox ==
  ASSUME DaemonAssumption, DebtInv, NEW r \in Clients, NEW p, SetupMove(r, p),
         UNCHANGED <<main, box, by, marred, late>>,
         proc \notin {"off", "booting"} \/ pc[r] # "idle",
         nets' \subseteq nets \cup {RunName[r]}, vols' \subseteq vols \cup {RunName[r]},
         p \in {"startEngine", "bench", "startBench", "wait"} => Engaged(r)
  PROVE  DebtInv'
<1>0. TypeOK /\ HoldersRun /\ AllIsOwed /\ EngagedHoldEngine /\ OffMeansIdle
  BY DEF DebtInv
<1>1. /\ pc' \in [Clients -> {"idle", "cleanup"} \cup Steps]
      /\ todo' \in [Clients -> {T4, T3, T2, T1, T0}]
      /\ \A x \in Things : Owes(r, x)'
      /\ \A s \in Clients, x \in Things : Owes(s, x) => Owes(s, x)'
      /\ \A s \in Clients : InFlight(s) => InFlight(s)'
      /\ \A s \in Clients : s # r => pc'[s] = pc[s]
      /\ pc'[r] = p
  BY <1>0, SetupKeepsDebts
<1>2. RunName[r] \in Names /\ UNCHANGED <<proc, told, failed, exit, stray, box, by, marred, late>>
  BY DEF DaemonAssumption, main
<1>3. TypeOK'
  BY <1>0, <1>1, <1>2 DEF TypeOK
<1>4. HoldersRun'
  BY <1>0, <1>1, <1>2 DEF HoldersRun
<1>5. AllIsOwed'
  <2> SUFFICES ASSUME NEW n \in Names \ (marred \cup late)
               PROVE  /\ \A k \in Kinds : box[n][k] # "absent" => \E s \in Clients : by[n][k] = s /\ Owes(s, k)'
                      /\ n \in nets' => \E s \in Clients : RunName[s] = n /\ Owes(s, "network")'
                      /\ n \in vols' => \E s \in Clients : RunName[s] = n /\ Owes(s, "volume")'
    BY <1>2 DEF AllIsOwed
  <2>1. \A k \in Kinds : box[n][k] # "absent" => \E s \in Clients : by[n][k] = s /\ Owes(s, k)'
    BY <1>0, <1>1 DEF AllIsOwed, Kinds, Things
  <2>2. n \in nets' => \E s \in Clients : RunName[s] = n /\ Owes(s, "network")'
    BY <1>0, <1>1 DEF AllIsOwed, Things
  <2>3. n \in vols' => \E s \in Clients : RunName[s] = n /\ Owes(s, "volume")'
    BY <1>0, <1>1 DEF AllIsOwed, Things
  <2> QED
    BY <2>1, <2>2, <2>3
<1>6. EngagedHoldEngine'
  <2>1. \A s \in Clients : Engaged(s)' => Engaged(s)
    BY <1>1 DEF Engaged, Steps
  <2> QED
    BY <1>0, <1>2, <2>1 DEF EngagedHoldEngine
<1>7. OffMeansIdle'
  BY <1>0, <1>1, <1>2 DEF OffMeansIdle
<1> QED
  BY <1>3, <1>4, <1>5, <1>6, <1>7 DEF DebtInv

(* Creating a container: its name was free, so nobody held it. *)
LEMMA MakeBoxInv ==
  ASSUME DaemonAssumption, DebtInv, NEW r \in Clients, NEW k \in Kinds, NEW p, SetupMove(r, p),
         pc[r] \in Steps, box[RunName[r]][k] = "absent",
         box' = [box EXCEPT ![RunName[r]][k] = "created"],
         by' = [by EXCEPT ![RunName[r]][k] = r], UNCHANGED <<main, nets, marred, late>>,
         vols' \subseteq vols \cup {RunName[r]},
         k = "engine" => ~Engaged(r), k = "bench" => Engaged(r)
  PROVE  DebtInv'
<1> DEFINE n == RunName[r]
<1>0. TypeOK /\ HoldersRun /\ AllIsOwed /\ EngagedHoldEngine /\ OffMeansIdle
  BY DEF DebtInv
<1>n. n \in Names
  BY DEF DaemonAssumption
<1>a. /\ box[n][k] = "absent"
      /\ box' = [box EXCEPT ![n][k] = "created"] /\ by' = [by EXCEPT ![n][k] = r]
      /\ UNCHANGED <<proc, told, failed, exit, stray, nets, marred, late>>
  BY DEF main
<1>1. /\ pc' \in [Clients -> {"idle", "cleanup"} \cup Steps]
      /\ todo' \in [Clients -> {T4, T3, T2, T1, T0}]
      /\ \A x \in Things : Owes(r, x)'
      /\ \A s \in Clients, x \in Things : Owes(s, x) => Owes(s, x)'
      /\ \A s \in Clients : InFlight(s) => InFlight(s)'
      /\ InFlight(r)'
      /\ \A s \in Clients : s # r => pc'[s] = pc[s]
      /\ pc'[r] = p
  BY <1>0, SetupKeepsDebts
<1>2. /\ box' \in [Names -> [Kinds -> {"absent", "created", "running", "exited"}]]
      /\ \A m \in Names, j \in Kinds : box'[m][j] = IF m = n /\ j = k THEN "created" ELSE box[m][j]
  BY <1>0, <1>n, <1>a, BoxUpdate DEF TypeOK
<1>3. /\ by' \in [Names -> [Kinds -> Clients \cup {Nobody}]]
      /\ \A m \in Names, j \in Kinds : by'[m][j] = IF m = n /\ j = k THEN r ELSE by[m][j]
  BY <1>0, <1>n, <1>a, BoxUpdate DEF TypeOK
<1>4. \A s \in Clients : by[n][k] # s
  BY <1>0, <1>n, <1>a DEF HoldersRun
<1>5. TypeOK'
  BY <1>0, <1>n, <1>a, <1>1, <1>2, <1>3 DEF TypeOK
<1>6. HoldersRun'
  <2> SUFFICES ASSUME NEW m \in Names, NEW j \in Kinds, NEW s \in Clients, by'[m][j] = s
               PROVE  RunName[s] = m /\ InFlight(s)' /\ box'[m][j] # "absent"
    BY DEF HoldersRun
  <2>1. CASE m = n /\ j = k
    BY <1>1, <1>2, <1>3, <2>1
  <2>2. CASE ~(m = n /\ j = k)
    <3>1. by[m][j] = s /\ box'[m][j] = box[m][j]
      BY <1>2, <1>3, <2>2
    <3> QED
      BY <1>0, <1>1, <3>1 DEF HoldersRun
  <2> QED
    BY <2>1, <2>2
<1>7. AllIsOwed'
  <2> SUFFICES ASSUME NEW m \in Names \ (marred \cup late)
               PROVE  /\ \A j \in Kinds : box'[m][j] # "absent" => \E s \in Clients : by'[m][j] = s /\ Owes(s, j)'
                      /\ m \in nets => \E s \in Clients : RunName[s] = m /\ Owes(s, "network")'
                      /\ m \in vols' => \E s \in Clients : RunName[s] = m /\ Owes(s, "volume")'
    BY <1>a DEF AllIsOwed
  <2>1. \A j \in Kinds : box'[m][j] # "absent" => \E s \in Clients : by'[m][j] = s /\ Owes(s, j)'
    BY <1>0, <1>1, <1>2, <1>3 DEF AllIsOwed, Kinds, Things
  <2>2. m \in nets => \E s \in Clients : RunName[s] = m /\ Owes(s, "network")'
    BY <1>0, <1>1 DEF AllIsOwed, Things
  <2>3. m \in vols' => \E s \in Clients : RunName[s] = m /\ Owes(s, "volume")'
    BY <1>0, <1>1 DEF AllIsOwed, Things
  <2> QED
    BY <2>1, <2>2, <2>3
<1>8. EngagedHoldEngine'
  <2> SUFFICES ASSUME NEW s \in Clients, Engaged(s)', RunName[s] \notin marred
               PROVE  by'[RunName[s]]["engine"] = s
    BY <1>a DEF EngagedHoldEngine
  <2>0. RunName[s] \in Names /\ "engine" \in Kinds
    BY DEF DaemonAssumption, Kinds
  <2>1. CASE s = r /\ k = "engine"
    BY <1>3, <2>0, <2>1
  <2>2. CASE s = r /\ k # "engine"
    <3>1. Engaged(r)
      BY <2>2 DEF Kinds
    <3> QED
      BY <1>0, <1>3, <2>0, <2>2, <3>1 DEF EngagedHoldEngine
  <2>3. CASE s # r
    <3>1. by[RunName[s]]["engine"] = s
      BY <1>0, <1>1, <2>3 DEF EngagedHoldEngine, Engaged
    <3> QED
      BY <1>3, <1>4, <2>0, <3>1
  <2> QED
    BY <2>1, <2>2, <2>3
<1>9. OffMeansIdle'
  <2>1. pc[r] # "idle"
    BY DEF Steps
  <2> QED
    BY <1>0, <1>1, <1>a, <2>1 DEF OffMeansIdle
<1> QED
  BY <1>5, <1>6, <1>7, <1>8, <1>9 DEF DebtInv

(* A container whose ID is lost with the reply is nobody's, and its name is marred. *)
LEMMA LostBoxInv ==
  ASSUME DaemonAssumption, DebtInv, NEW r \in Clients, NEW k \in Kinds,
         SetupMove(r, "cleanup"), pc[r] \in Steps, box[RunName[r]][k] = "absent",
         box' = [box EXCEPT ![RunName[r]][k] = "created"], by' = by,
         marred' = marred \cup {RunName[r]}, UNCHANGED <<main, nets, late>>,
         vols' \subseteq vols \cup {RunName[r]}
  PROVE  DebtInv'
<1> DEFINE n == RunName[r]
<1>0. TypeOK /\ HoldersRun /\ AllIsOwed /\ EngagedHoldEngine /\ OffMeansIdle
  BY DEF DebtInv
<1>n. n \in Names
  BY DEF DaemonAssumption
<1>a. UNCHANGED <<proc, told, failed, exit, stray, nets, late>>
  BY DEF main
<1>1. /\ pc' \in [Clients -> {"idle", "cleanup"} \cup Steps]
      /\ todo' \in [Clients -> {T4, T3, T2, T1, T0}]
      /\ \A s \in Clients, x \in Things : Owes(s, x) => Owes(s, x)'
      /\ \A s \in Clients : InFlight(s) => InFlight(s)'
      /\ \A s \in Clients : s # r => pc'[s] = pc[s]
      /\ pc'[r] = "cleanup"
  BY <1>0, SetupKeepsDebts
<1>2. /\ box' \in [Names -> [Kinds -> {"absent", "created", "running", "exited"}]]
      /\ \A m \in Names, j \in Kinds : box'[m][j] = IF m = n /\ j = k THEN "created" ELSE box[m][j]
  BY <1>0, <1>n, BoxUpdate DEF TypeOK
<1>3. TypeOK'
  BY <1>0, <1>n, <1>a, <1>1, <1>2 DEF TypeOK
<1>4. HoldersRun'
  BY <1>0, <1>1, <1>2 DEF HoldersRun
<1>5. AllIsOwed'
  <2> SUFFICES ASSUME NEW m \in Names \ (marred' \cup late)
               PROVE  /\ \A j \in Kinds : box'[m][j] # "absent" => \E s \in Clients : by[m][j] = s /\ Owes(s, j)'
                      /\ m \in nets => \E s \in Clients : RunName[s] = m /\ Owes(s, "network")'
                      /\ m \in vols' => \E s \in Clients : RunName[s] = m /\ Owes(s, "volume")'
    BY <1>a DEF AllIsOwed
  <2>0. m # n /\ m \in Names \ (marred \cup late)
    OBVIOUS
  <2>1. \A j \in Kinds : box'[m][j] # "absent" => \E s \in Clients : by[m][j] = s /\ Owes(s, j)'
    BY <1>0, <1>1, <1>2, <2>0 DEF AllIsOwed, Kinds, Things
  <2>2. m \in nets => \E s \in Clients : RunName[s] = m /\ Owes(s, "network")'
    BY <1>0, <1>1, <2>0 DEF AllIsOwed, Things
  <2>3. m \in vols' => \E s \in Clients : RunName[s] = m /\ Owes(s, "volume")'
    BY <1>0, <1>1, <2>0 DEF AllIsOwed, Things
  <2> QED
    BY <2>1, <2>2, <2>3
<1>6. EngagedHoldEngine'
  <2>1. \A s \in Clients : Engaged(s)' => Engaged(s)
    BY <1>1 DEF Engaged
  <2> QED
    BY <1>0, <2>1 DEF EngagedHoldEngine
<1>7. OffMeansIdle'
  <2>1. pc[r] # "idle"
    BY DEF Steps
  <2> QED
    BY <1>0, <1>1, <1>a, <2>1 DEF OffMeansIdle
<1> QED
  BY <1>3, <1>4, <1>5, <1>6, <1>7 DEF DebtInv

(* A container changes between states in which it exists. *)
LEMMA BoxStateInv ==
  ASSUME DaemonAssumption, DebtInv, NEW n \in Names, NEW k \in Kinds,
         NEW st \in {"created", "running", "exited"}, box[n][k] # "absent",
         box' = [box EXCEPT ![n][k] = st], marred \subseteq marred', marred' \subseteq Names,
         UNCHANGED <<proc, told, failed, exit, stray, pc, todo, by, nets, vols, late>>
  PROVE  DebtInv'
<1>0. TypeOK /\ HoldersRun /\ AllIsOwed /\ EngagedHoldEngine /\ OffMeansIdle
  BY DEF DebtInv
<1>1. /\ box' \in [Names -> [Kinds -> {"absent", "created", "running", "exited"}]]
      /\ \A m \in Names, j \in Kinds : box'[m][j] = IF m = n /\ j = k THEN st ELSE box[m][j]
  BY <1>0, BoxUpdate DEF TypeOK
<1>2. \A m \in Names, j \in Kinds : box'[m][j] = "absent" <=> box[m][j] = "absent"
  BY <1>1
<1>3. TypeOK'
  BY <1>0, <1>1 DEF TypeOK
<1>4. HoldersRun'
  BY <1>0, <1>2 DEF HoldersRun, InFlight
<1>5. AllIsOwed'
  BY <1>0, <1>2 DEF AllIsOwed, Owes
<1>6. EngagedHoldEngine' /\ OffMeansIdle'
  BY <1>0 DEF EngagedHoldEngine, OffMeansIdle, Engaged
<1> QED
  BY <1>3, <1>4, <1>5, <1>6 DEF DebtInv
-----------------------------------------------------------------------------
(* The clean-up *)

(* One removal was tried: the run has one thing less to do, the others as much. *)
LEMMA CleanupDebts ==
  ASSUME TypeOK, NEW r \in Clients, pc[r] = "cleanup", todo[r] # <<>>,
         todo' = [todo EXCEPT ![r] = Tail(@)], pc' = pc
  PROVE  /\ todo' \in [Clients -> {T4, T3, T2, T1, T0}]
         /\ \A s \in Clients, x \in Things : s # r => (Owes(s, x)' <=> Owes(s, x))
         /\ \A x \in Things : Owes(r, x) /\ x # Head(todo[r]) => Owes(r, x)'
         /\ \/ Head(todo[r]) = "bench"
            \/ Head(todo[r]) = "engine" /\ ~Owes(r, "bench")
            \/ Head(todo[r]) = "network" /\ ~Owes(r, "bench") /\ ~Owes(r, "engine")
            \/ Head(todo[r]) = "volume" /\ ~Owes(r, "bench") /\ ~Owes(r, "engine")
                                        /\ ~Owes(r, "network")
<1>1. todo[r] \in {T4, T3, T2, T1}
  BY Lists DEF TypeOK
<1>2. /\ \A s \in Clients : s # r => todo'[s] = todo[s]
      /\ todo'[r] = Tail(todo[r])
  BY DEF TypeOK
<1>3. Tail(todo[r]) \in {T3, T2, T1, T0}
  BY <1>1, Lists
<1>4. todo' \in [Clients -> {T4, T3, T2, T1, T0}]
  BY <1>3 DEF TypeOK
<1>5. \A s \in Clients, x \in Things : s # r => (Owes(s, x)' <=> Owes(s, x))
  BY <1>2 DEF Owes
<1>6. pc[r] \notin Steps /\ pc'[r] = "cleanup"
  BY DEF Steps
<1>7. \A x \in Things : /\ Owes(r, x) <=> todo[r] \in ToGo(x)
                       /\ Owes(r, x)' <=> Tail(todo[r]) \in ToGo(x)
  BY <1>2, <1>6 DEF Owes
<1>8. CASE todo[r] = T4
  <2>1. Head(todo[r]) = "bench" /\ Tail(todo[r]) = T3
    BY <1>8, Lists
  <2>2. \A x \in Things : x # "bench" => T3 \in ToGo(x)
    BY DEF ToGo, Things, Kinds
  <2> QED
    BY <1>4, <1>5, <1>7, <2>1, <2>2
<1>9. CASE todo[r] = T3
  <2>1. Head(todo[r]) = "engine" /\ Tail(todo[r]) = T2
    BY <1>9, Lists
  <2>2. T3 \notin ToGo("bench") /\ T2 \in ToGo("network") /\ T2 \in ToGo("volume")
    BY Distinct DEF ToGo, Things, Kinds
  <2>3. "bench" \in Things /\ \A x \in Things : x \in {"bench", "engine", "network", "volume"}
    BY DEF Things
  <2>4. ~Owes(r, "bench")
    BY <1>6, <1>9, <2>2 DEF Owes
  <2>5. \A x \in Things : Owes(r, x) /\ x # Head(todo[r]) => Owes(r, x)'
    BY <1>7, <1>9, <2>1, <2>2, <2>3, <2>4
  <2> QED
    BY <1>4, <1>5, <2>1, <2>4, <2>5
<1>10. CASE todo[r] = T2
  <2>1. Head(todo[r]) = "network" /\ Tail(todo[r]) = T1
    BY <1>10, Lists
  <2>2. T2 \notin ToGo("bench") /\ T2 \notin ToGo("engine") /\ T1 \in ToGo("volume")
    BY Distinct DEF ToGo, Things, Kinds
  <2>3. /\ "bench" \in Things /\ "engine" \in Things
        /\ \A x \in Things : x \in {"bench", "engine", "network", "volume"}
    BY DEF Things
  <2>4. ~Owes(r, "bench") /\ ~Owes(r, "engine")
    BY <1>6, <1>10, <2>2 DEF Owes
  <2>5. \A x \in Things : Owes(r, x) /\ x # Head(todo[r]) => Owes(r, x)'
    BY <1>7, <1>10, <2>1, <2>2, <2>3, <2>4
  <2> QED
    BY <1>4, <1>5, <2>1, <2>4, <2>5
<1>11. CASE todo[r] = T1
  <2>1. Head(todo[r]) = "volume"
    BY <1>11, Lists
  <2>2. T1 \notin ToGo("bench") /\ T1 \notin ToGo("engine") /\ T1 \notin ToGo("network")
    BY Distinct DEF ToGo, Things, Kinds
  <2>3. /\ "bench" \in Things /\ "engine" \in Things /\ "network" \in Things
        /\ \A x \in Things : x \in {"bench", "engine", "network", "volume"}
    BY DEF Things
  <2>4. ~Owes(r, "bench") /\ ~Owes(r, "engine") /\ ~Owes(r, "network")
    BY <1>6, <1>11, <2>2 DEF Owes
  <2>5. \A x \in Things : Owes(r, x) /\ x # Head(todo[r]) => Owes(r, x)'
    BY <1>7, <1>11, <2>1, <2>2, <2>3, <2>4
  <2> QED
    BY <1>4, <1>5, <2>1, <2>4, <2>5
<1> QED
  BY <1>1, <1>8, <1>9, <1>10, <1>11

LEMMA CleanupInv ==
  ASSUME DaemonAssumption, DebtInv, NEW r \in Clients, Cleanup(r)
  PROVE  DebtInv'
<1> DEFINE n == RunName[r]
<1>0. TypeOK /\ HoldersRun /\ AllIsOwed /\ EngagedHoldEngine /\ OffMeansIdle
  BY DEF DebtInv
<1>n. n \in Names
  BY DEF DaemonAssumption
<1>a. /\ pc[r] = "cleanup" /\ todo[r] # <<>> /\ todo' = [todo EXCEPT ![r] = Tail(@)]
      /\ UNCHANGED <<proc, told, failed, exit, stray, pc, late>>
  BY DEF Cleanup, main
<1>b. PICK h : h = Head(todo[r])
  OBVIOUS
<1>c. /\ todo' \in [Clients -> {T4, T3, T2, T1, T0}]
      /\ \A s \in Clients, x \in Things : s # r => (Owes(s, x)' <=> Owes(s, x))
      /\ \A x \in Things : Owes(r, x) /\ x # h => Owes(r, x)'
      /\ \/ h = "bench"
         \/ h = "engine" /\ ~Owes(r, "bench")
         \/ h = "network" /\ ~Owes(r, "bench") /\ ~Owes(r, "engine")
         \/ h = "volume" /\ ~Owes(r, "bench") /\ ~Owes(r, "engine") /\ ~Owes(r, "network")
  BY <1>0, <1>a, <1>b, CleanupDebts
<1>d. \A s \in Clients : InFlight(s)' <=> InFlight(s)
  BY <1>a DEF InFlight
<1>e. \A s \in Clients : Engaged(s)' <=> Engaged(s)
  BY <1>a DEF Engaged
<1>f. ~Engaged(r)
  BY <1>a DEF Engaged
<1>g. OffMeansIdle'
  BY <1>0, <1>a DEF OffMeansIdle
<1>h. \A m \in Names, k \in Kinds : by[m][k] = r => m = n
  BY <1>0 DEF HoldersRun
<1>1. CASE UNCHANGED docker /\ marred' = marred \cup {n}
  <2>0. UNCHANGED <<box, by, nets, vols>>
    BY <1>1 DEF docker
  <2>1. TypeOK'
    BY <1>0, <1>n, <1>a, <1>c, <1>1, <2>0 DEF TypeOK
  <2>2. HoldersRun'
    BY <1>0, <1>d, <2>0 DEF HoldersRun
  <2>3. AllIsOwed'
    <3> SUFFICES ASSUME NEW m \in Names \ (marred \cup late), m # n
                 PROVE  /\ \A k \in Kinds : box[m][k] # "absent" => \E s \in Clients : by[m][k] = s /\ Owes(s, k)'
                        /\ m \in nets => \E s \in Clients : RunName[s] = m /\ Owes(s, "network")'
                        /\ m \in vols => \E s \in Clients : RunName[s] = m /\ Owes(s, "volume")'
      BY <1>1, <1>a, <2>0 DEF AllIsOwed
    <3>1. \A k \in Kinds : box[m][k] # "absent" => \E s \in Clients : by[m][k] = s /\ Owes(s, k)'
      BY <1>0, <1>c, <1>h DEF AllIsOwed, Kinds, Things
    <3>2. m \in nets => \E s \in Clients : RunName[s] = m /\ Owes(s, "network")'
      BY <1>0, <1>c DEF AllIsOwed, Things
    <3>3. m \in vols => \E s \in Clients : RunName[s] = m /\ Owes(s, "volume")'
      BY <1>0, <1>c DEF AllIsOwed, Things
    <3> QED
      BY <3>1, <3>2, <3>3
  <2>4. EngagedHoldEngine'
    BY <1>0, <1>e, <1>1, <2>0 DEF EngagedHoldEngine
  <2> QED
    BY <1>g, <2>1, <2>2, <2>3, <2>4 DEF DebtInv
<1>2. ASSUME NEW k \in Kinds, h = k, RemoveBox(r, k), UNCHANGED marred PROVE DebtInv'
  <2>0. /\ box' = IF by[n][k] = r THEN [box EXCEPT ![n][k] = "absent"] ELSE box
        /\ by' = IF by[n][k] = r THEN [by EXCEPT ![n][k] = Nobody] ELSE by
        /\ UNCHANGED <<nets, vols>>
    BY <1>2 DEF RemoveBox, Mine
  <2>1. /\ box' \in [Names -> [Kinds -> {"absent", "created", "running", "exited"}]]
        /\ \A m \in Names, j \in Kinds :
             box'[m][j] = IF m = n /\ j = k /\ by[n][k] = r THEN "absent" ELSE box[m][j]
    BY <1>0, <1>n, <2>0, BoxUpdate DEF TypeOK
  <2>2. /\ by' \in [Names -> [Kinds -> Clients \cup {Nobody}]]
        /\ \A m \in Names, j \in Kinds :
             by'[m][j] = IF m = n /\ j = k /\ by[n][k] = r THEN Nobody ELSE by[m][j]
    BY <1>0, <1>n, <2>0, BoxUpdate DEF TypeOK
  <2>3. TypeOK'
    BY <1>0, <1>a, <1>c, <1>2, <2>0, <2>1, <2>2 DEF TypeOK
  <2>4. HoldersRun'
    <3> SUFFICES ASSUME NEW m \in Names, NEW j \in Kinds, NEW s \in Clients, by'[m][j] = s
                 PROVE  RunName[s] = m /\ InFlight(s) /\ box'[m][j] # "absent"
      BY <1>d DEF HoldersRun
    <3>1. by[m][j] = s /\ box'[m][j] = box[m][j]
      BY <2>1, <2>2 DEF DaemonAssumption
    <3> QED
      BY <1>0, <3>1 DEF HoldersRun
  <2>5. AllIsOwed'
    <3> SUFFICES ASSUME NEW m \in Names \ (marred \cup late)
                 PROVE  /\ \A j \in Kinds : box'[m][j] # "absent" => \E s \in Clients : by'[m][j] = s /\ Owes(s, j)'
                        /\ m \in nets => \E s \in Clients : RunName[s] = m /\ Owes(s, "network")'
                        /\ m \in vols => \E s \in Clients : RunName[s] = m /\ Owes(s, "volume")'
      BY <1>a, <1>2, <2>0 DEF AllIsOwed
    <3>0. k # "network" /\ k # "volume" /\ \A j \in Kinds : j \in Things
      BY DEF Kinds, Things
    <3>1. ASSUME NEW j \in Kinds, box'[m][j] # "absent"
          PROVE  \E s \in Clients : by'[m][j] = s /\ Owes(s, j)'
      <4>1. ~(m = n /\ j = k /\ by[n][k] = r) /\ box[m][j] # "absent" /\ by'[m][j] = by[m][j]
        BY <2>1, <2>2, <3>1
      <4>2. PICK s \in Clients : by[m][j] = s /\ Owes(s, j)
        BY <1>0, <4>1 DEF AllIsOwed
      <4>3. CASE s # r
        BY <1>c, <3>0, <4>1, <4>2, <4>3
      <4>4. CASE s = r
        <5>1. j # k
          BY <1>h, <4>1, <4>2, <4>4
        <5> QED
          BY <1>c, <1>2, <3>0, <4>1, <4>2, <4>4, <5>1
      <4> QED
        BY <4>3, <4>4
    <3>2. m \in nets => \E s \in Clients : RunName[s] = m /\ Owes(s, "network")'
      BY <1>0, <1>c, <1>2, <3>0 DEF AllIsOwed, Things
    <3>3. m \in vols => \E s \in Clients : RunName[s] = m /\ Owes(s, "volume")'
      BY <1>0, <1>c, <1>2, <3>0 DEF AllIsOwed, Things
    <3> QED
      BY <3>1, <3>2, <3>3
  <2>6. EngagedHoldEngine'
    <3> SUFFICES ASSUME NEW s \in Clients, Engaged(s), RunName[s] \notin marred
                 PROVE  by'[RunName[s]]["engine"] = s
      BY <1>e, <1>2 DEF EngagedHoldEngine
    <3>1. by[RunName[s]]["engine"] = s /\ s # r /\ RunName[s] \in Names /\ "engine" \in Kinds
      BY <1>0, <1>f DEF EngagedHoldEngine, DaemonAssumption, Kinds
    <3> QED
      BY <2>2, <3>1
  <2> QED
    BY <1>g, <2>3, <2>4, <2>5, <2>6 DEF DebtInv
<1>3. ASSUME h \in {"network", "volume"}, UNCHANGED <<box, by, marred>>,
             nets' \in {nets, nets \ {n}}, vols' \in {vols, vols \ {n}},
             h = "network" /\ n \in nets' /\ n \in nets =>
               \E k \in Kinds : box[n][k] = "running",
             h = "volume" /\ n \in vols' => box[n]["bench"] # "absent"
      PROVE  DebtInv'
  <2>1. TypeOK'
    BY <1>0, <1>a, <1>c, <1>3 DEF TypeOK
  <2>2. HoldersRun'
    BY <1>0, <1>d, <1>3 DEF HoldersRun
  <2>3. AllIsOwed'
    <3> SUFFICES ASSUME NEW m \in Names \ (marred \cup late)
                 PROVE  /\ \A k \in Kinds : box[m][k] # "absent" => \E s \in Clients : by[m][k] = s /\ Owes(s, k)'
                        /\ m \in nets' => \E s \in Clients : RunName[s] = m /\ Owes(s, "network")'
                        /\ m \in vols' => \E s \in Clients : RunName[s] = m /\ Owes(s, "volume")'
      BY <1>a, <1>3 DEF AllIsOwed
    <3>0. /\ \A k \in Kinds : k \in Things /\ k # "network" /\ k # "volume"
          /\ "network" \in Things /\ "volume" \in Things /\ "bench" \in Kinds
          /\ \A k \in Kinds : ~Owes(r, k)
      BY <1>c, <1>3 DEF Kinds, Things
    <3>1. \A k \in Kinds : box[m][k] # "absent" => \E s \in Clients : by[m][k] = s /\ Owes(s, k)'
      BY <1>0, <1>c, <3>0 DEF AllIsOwed
    <3>b. ASSUME NEW k \in Kinds, m = n, box[n][k] # "absent"
          PROVE  \E s \in Clients : s # r /\ RunName[s] = m /\ Owes(s, "network") /\ Owes(s, "volume")
      <4>1. PICK s \in Clients : by[m][k] = s /\ Owes(s, k)
        BY <1>0, <3>b DEF AllIsOwed
      <4>2. s # r /\ RunName[s] = m
        BY <1>0, <3>0, <4>1 DEF HoldersRun
      <4> QED
        BY <3>0, <4>1, <4>2, OwesMore
    <3>2. ASSUME m \in nets' PROVE \E s \in Clients : RunName[s] = m /\ Owes(s, "network")'
      <4>0. m \in nets
        BY <1>3, <3>2
      <4>1. CASE m = n /\ h = "network"
        <5>1. PICK k \in Kinds : box[n][k] = "running"
          BY <1>3, <3>2, <4>0, <4>1
        <5>2. box[n][k] # "absent"
          BY <5>1
        <5> QED
          BY <1>c, <3>0, <3>b, <4>1, <5>2
      <4>2. CASE ~(m = n /\ h = "network")
        BY <1>0, <1>c, <3>0, <4>0, <4>2 DEF AllIsOwed
      <4> QED
        BY <4>1, <4>2
    <3>3. ASSUME m \in vols' PROVE \E s \in Clients : RunName[s] = m /\ Owes(s, "volume")'
      <4>0. m \in vols
        BY <1>3, <3>3
      <4>1. CASE m = n /\ h = "volume"
        <5>1. box[n]["bench"] # "absent"
          BY <1>3, <3>3, <4>1
        <5> QED
          BY <1>c, <3>0, <3>b, <4>1, <5>1
      <4>2. CASE ~(m = n /\ h = "volume")
        BY <1>0, <1>c, <3>0, <4>0, <4>2 DEF AllIsOwed
      <4> QED
        BY <4>1, <4>2
    <3> QED
      BY <3>1, <3>2, <3>3
  <2>4. EngagedHoldEngine'
    BY <1>0, <1>e, <1>3 DEF EngagedHoldEngine
  <2> QED
    BY <1>g, <2>1, <2>2, <2>3, <2>4 DEF DebtInv
<1>4. CASE h = "network" /\ RemoveNetwork(n) /\ UNCHANGED marred
  BY <1>3, <1>4 DEF RemoveNetwork
<1>5. CASE h = "volume" /\ RemoveVolume(n) /\ UNCHANGED marred
  BY <1>3, <1>5 DEF RemoveVolume
<1> QED
  BY <1>b, <1>1, <1>2, <1>4, <1>5 DEF Cleanup, RemoveHead

LEMMA EndRunInv ==
  ASSUME DaemonAssumption, DebtInv, NEW r \in Clients, EndRun(r)
  PROVE  DebtInv'
<1>0. TypeOK /\ HoldersRun /\ AllIsOwed /\ EngagedHoldEngine /\ OffMeansIdle
  BY DEF DebtInv
<1>a. /\ pc[r] = "cleanup" /\ todo[r] = <<>>
      /\ by' = [n \in Names |-> [k \in Kinds |-> IF by[n][k] = r THEN Nobody ELSE by[n][k]]]
      /\ pc' = [pc EXCEPT ![r] = "idle"]
      /\ stray' = stray \ {r}
      /\ UNCHANGED <<proc, told, failed, exit, todo, box, nets, vols, marred, late>>
  BY DEF EndRun, Move
<1>1. \A n \in Names, k \in Kinds : by'[n][k] = IF by[n][k] = r THEN Nobody ELSE by[n][k]
  BY <1>a
<1>2. /\ pc' \in [Clients -> {"idle", "cleanup"} \cup Steps]
      /\ \A s \in Clients : pc'[s] = IF s = r THEN "idle" ELSE pc[s]
  BY <1>0, <1>a DEF TypeOK
<1>3. \A x \in Things : ~Owes(r, x)
  <2>1. pc[r] \notin Steps /\ todo[r] = T0
    BY <1>a, Lists DEF Steps
  <2>2. \A x \in Things : T0 \notin ToGo(x)
    BY Distinct DEF ToGo
  <2> QED
    BY <2>1, <2>2 DEF Owes
<1>4. \A s \in Clients, x \in Things : Owes(s, x) => s # r /\ Owes(s, x)'
  BY <1>2, <1>3, <1>a DEF Owes
<1>5. TypeOK'
  <2>1. by' \in [Names -> [Kinds -> Clients \cup {Nobody}]]
    BY <1>0, <1>a DEF TypeOK
  <2> QED
    BY <1>0, <1>a, <1>2, <2>1 DEF TypeOK
<1>6. HoldersRun'
  <2> SUFFICES ASSUME NEW n \in Names, NEW k \in Kinds, NEW s \in Clients, by'[n][k] = s
               PROVE  RunName[s] = n /\ InFlight(s)' /\ box[n][k] # "absent"
    BY <1>a DEF HoldersRun
  <2>1. by[n][k] = s /\ s # r
    BY <1>1 DEF DaemonAssumption
  <2> QED
    BY <1>0, <1>2, <2>1 DEF HoldersRun, InFlight
<1>7. AllIsOwed'
  <2> SUFFICES ASSUME NEW n \in Names \ (marred \cup late)
               PROVE  /\ \A k \in Kinds : box[n][k] # "absent" => \E s \in Clients : by'[n][k] = s /\ Owes(s, k)'
                      /\ n \in nets => \E s \in Clients : RunName[s] = n /\ Owes(s, "network")'
                      /\ n \in vols => \E s \in Clients : RunName[s] = n /\ Owes(s, "volume")'
    BY <1>a DEF AllIsOwed
  <2>1. \A k \in Kinds : box[n][k] # "absent" => \E s \in Clients : by'[n][k] = s /\ Owes(s, k)'
    BY <1>0, <1>1, <1>4 DEF AllIsOwed, Kinds, Things
  <2>2. n \in nets => \E s \in Clients : RunName[s] = n /\ Owes(s, "network")'
    BY <1>0, <1>4 DEF AllIsOwed, Things
  <2>3. n \in vols => \E s \in Clients : RunName[s] = n /\ Owes(s, "volume")'
    BY <1>0, <1>4 DEF AllIsOwed, Things
  <2> QED
    BY <2>1, <2>2, <2>3
<1>8. EngagedHoldEngine'
  <2> SUFFICES ASSUME NEW s \in Clients, Engaged(s)', RunName[s] \notin marred
               PROVE  by'[RunName[s]]["engine"] = s
    BY <1>a DEF EngagedHoldEngine
  <2>1. s # r /\ Engaged(s)
    BY <1>2 DEF Engaged
  <2>2. by[RunName[s]]["engine"] = s /\ RunName[s] \in Names /\ "engine" \in Kinds
    BY <1>0, <2>1 DEF EngagedHoldEngine, DaemonAssumption, Kinds
  <2> QED
    BY <1>1, <2>1, <2>2
<1>9. OffMeansIdle'
  BY <1>0, <1>2, <1>a DEF OffMeansIdle
<1> QED
  BY <1>5, <1>6, <1>7, <1>8, <1>9 DEF DebtInv

LEMMA OperatorRemovesInv ==
  ASSUME DaemonAssumption, DebtInv, NEW n \in Names, NEW k \in Kinds, OperatorRemoves(n, k)
  PROVE  DebtInv'
<1>0. TypeOK /\ HoldersRun /\ AllIsOwed /\ EngagedHoldEngine /\ OffMeansIdle
  BY DEF DebtInv
<1>a. /\ box' = [box EXCEPT ![n][k] = "absent"] /\ by' = [by EXCEPT ![n][k] = Nobody]
      /\ marred' = marred \cup {n}
      /\ UNCHANGED <<proc, told, failed, exit, stray, pc, todo, nets, vols, late>>
  BY DEF OperatorRemoves, Operate, Touch, main
<1>1. /\ box' \in [Names -> [Kinds -> {"absent", "created", "running", "exited"}]]
      /\ \A m \in Names, j \in Kinds : box'[m][j] = IF m = n /\ j = k THEN "absent" ELSE box[m][j]
  BY <1>0, <1>a, BoxUpdate DEF TypeOK
<1>2. /\ by' \in [Names -> [Kinds -> Clients \cup {Nobody}]]
      /\ \A m \in Names, j \in Kinds : by'[m][j] = IF m = n /\ j = k THEN Nobody ELSE by[m][j]
  BY <1>0, <1>a, BoxUpdate DEF TypeOK
<1>3. TypeOK'
  BY <1>0, <1>a, <1>1, <1>2 DEF TypeOK
<1>4. HoldersRun'
  <2> SUFFICES ASSUME NEW m \in Names, NEW j \in Kinds, NEW s \in Clients, by'[m][j] = s
               PROVE  RunName[s] = m /\ InFlight(s)' /\ box'[m][j] # "absent"
    BY DEF HoldersRun
  <2>1. by[m][j] = s /\ box'[m][j] = box[m][j]
    BY <1>1, <1>2 DEF DaemonAssumption
  <2> QED
    BY <1>0, <1>a, <2>1 DEF HoldersRun, InFlight
<1>5. AllIsOwed'
  BY <1>0, <1>a, <1>1, <1>2 DEF AllIsOwed, Owes
<1>6. EngagedHoldEngine'
  BY <1>0, <1>a, <1>2 DEF EngagedHoldEngine, Engaged, DaemonAssumption, Kinds
<1>7. OffMeansIdle'
  BY <1>0, <1>a DEF OffMeansIdle
<1> QED
  BY <1>3, <1>4, <1>5, <1>6, <1>7 DEF DebtInv
-----------------------------------------------------------------------------
(* The process ends: what no run in flight owed is not there. *)
LEMMA HaltInv ==
  ASSUME DaemonAssumption, DebtInv, NEW st \in {"0", "1", "killed"}, Halt(st),
         marred \subseteq marred', late \subseteq late', marred' \subseteq Names, late' \subseteq Names,
         \A r \in Clients : InFlight(r) => RunName[r] \in marred' \cup late'
  PROVE  DebtInv'
<1>0. TypeOK /\ HoldersRun /\ AllIsOwed /\ EngagedHoldEngine /\ OffMeansIdle
  BY DEF DebtInv
<1>a. /\ proc' = "off" /\ exit' = st
      /\ pc' = [r \in Clients |-> "idle"] /\ todo' = [r \in Clients |-> <<>>]
      /\ stray' = {} /\ by' = [n \in Names |-> [k \in Kinds |-> Nobody]]
      /\ UNCHANGED <<told, failed, box, nets, vols>>
  BY DEF Halt
<1>1. \A n \in Names, k \in Kinds : by'[n][k] = Nobody
  BY <1>a
<1>2. TypeOK'
  <2>1. /\ pc' \in [Clients -> {"idle", "cleanup"} \cup Steps]
        /\ todo' \in [Clients -> {T4, T3, T2, T1, T0}]
        /\ by' \in [Names -> [Kinds -> Clients \cup {Nobody}]]
    BY <1>a DEF T0
  <2> QED
    BY <1>0, <1>a, <2>1 DEF TypeOK
<1>3. HoldersRun'
  BY <1>1 DEF HoldersRun, DaemonAssumption
<1>4. \A n \in Names \ (marred' \cup late'), r \in Clients, x \in Things :
        RunName[r] = n => ~Owes(r, x)
  BY OwesMore
<1>5. AllIsOwed'
  <2> SUFFICES ASSUME NEW n \in Names \ (marred' \cup late')
               PROVE  n \notin nets /\ n \notin vols /\ \A k \in Kinds : box[n][k] = "absent"
    BY <1>a DEF AllIsOwed
  <2>0. n \in Names \ (marred \cup late)
    OBVIOUS
  <2>1. n \notin nets /\ n \notin vols
    BY <1>0, <1>4, <2>0 DEF AllIsOwed, Things
  <2>2. ASSUME NEW k \in Kinds, box[n][k] # "absent" PROVE FALSE
    <3>1. PICK r \in Clients : by[n][k] = r /\ Owes(r, k)
      BY <1>0, <2>0, <2>2 DEF AllIsOwed
    <3>2. RunName[r] = n /\ k \in Things
      BY <1>0, <3>1 DEF HoldersRun, Kinds, Things
    <3> QED
      BY <1>4, <3>1, <3>2
  <2> QED
    BY <2>1, <2>2
<1>6. EngagedHoldEngine' /\ OffMeansIdle'
  BY <1>a DEF EngagedHoldEngine, OffMeansIdle, Engaged
<1> QED
  BY <1>2, <1>3, <1>5, <1>6 DEF DebtInv

(* A step of the process alone. *)
LEMMA MainOnlyInv ==
  ASSUME DebtInv, MainOnly, proc' \in {"off", "booting", "serving", "stopping"},
         told' \in BOOLEAN, failed' \in BOOLEAN, exit' \in {"none", "0", "1", "killed"},
         proc' \in {"off", "booting"} => proc \in {"off", "booting"}
  PROVE  DebtInv'
<1>0. TypeOK /\ HoldersRun /\ AllIsOwed /\ EngagedHoldEngine /\ OffMeansIdle
  BY DEF DebtInv
<1>a. UNCHANGED <<pc, todo, box, by, nets, vols, marred, stray, late>>
  BY DEF MainOnly, docker
<1>1. TypeOK'
  BY <1>0, <1>a DEF TypeOK
<1>2. HoldersRun' /\ AllIsOwed' /\ EngagedHoldEngine'
  BY <1>0, <1>a DEF HoldersRun, AllIsOwed, EngagedHoldEngine, InFlight, Owes, Engaged
<1>3. OffMeansIdle'
  BY <1>0, <1>a DEF OffMeansIdle
<1> QED
  BY <1>1, <1>2, <1>3 DEF DebtInv
-----------------------------------------------------------------------------
LEMMA RunStepInv ==
  ASSUME DaemonAssumption, DebtInv, NEW r \in Clients, Request(r) \/ RunStep(r)
  PROVE  DebtInv'
<1>t. TypeOK /\ HoldersRun
  BY DEF DebtInv
<1>n. RunName[r] \in Names
  BY DEF DaemonAssumption
<1>1. CASE Request(r)
  <2>1. /\ SetupMove(r, "network")
        /\ UNCHANGED <<main, box, by, marred, late>> /\ proc = "serving"
        /\ nets' = nets /\ vols' = vols
    BY <1>1 DEF Request, Move, SetupMove, docker, Steps
  <2> QED
    BY <2>1, SetupWithoutBox
<1>2. CASE MakeNetwork(r)
  <2>1. PICK p \in {"volume", "cleanup"} : SetupMove(r, p)
    BY <1>2, SetupMoves DEF MakeNetwork, Steps
  <2>2. /\ UNCHANGED <<main, box, by, marred, late>> /\ pc[r] # "idle"
        /\ nets' = nets \cup {RunName[r]} /\ vols' = vols
    BY <1>2 DEF MakeNetwork
  <2> QED
    BY <2>1, <2>2, SetupWithoutBox
<1>3. CASE MakeVolume(r)
  <2>1. PICK p \in {"engine", "cleanup"} : SetupMove(r, p)
    BY <1>3, SetupMoves DEF MakeVolume, Steps
  <2>2. /\ UNCHANGED <<main, box, by, marred, late>> /\ pc[r] # "idle"
        /\ vols' = vols \cup {RunName[r]} /\ nets' = nets
    BY <1>3 DEF MakeVolume
  <2> QED
    BY <2>1, <2>2, SetupWithoutBox
<1>m. ASSUME NEW k \in Kinds, NEW q \in Steps, MakeBox(r, k, q), pc[r] \in Steps,
             vols' \subseteq vols \cup {RunName[r]},
             k = "engine" => ~Engaged(r), k = "bench" => Engaged(r)
      PROVE  DebtInv'
  <2>1. /\ box[RunName[r]][k] = "absent" /\ UNCHANGED <<main, nets, late>>
        /\ box' = [box EXCEPT ![RunName[r]][k] = "created"]
    BY <1>m DEF MakeBox
  <2>2. CASE by' = [by EXCEPT ![RunName[r]][k] = r] /\ GoOn(r, q) /\ UNCHANGED marred
    <3>1. PICK p \in {q, "cleanup"} : SetupMove(r, p)
      BY <2>2, SetupMoves
    <3> QED
      BY <1>m, <2>1, <2>2, <3>1, MakeBoxInv
  <2>3. CASE Fail(r) /\ marred' = marred \cup {RunName[r]} /\ UNCHANGED by
    <3>1. SetupMove(r, "cleanup")
      BY <2>3, Lists DEF Fail, SetupMove
    <3> QED
      BY <1>m, <2>1, <2>3, <3>1, LostBoxInv
  <2> QED
    BY <1>m, <2>2, <2>3 DEF MakeBox
<1>4. CASE MakeEngine(r)
  <2>1. /\ "engine" \in Kinds /\ "startEngine" \in Steps /\ pc[r] \in Steps /\ ~Engaged(r)
        /\ MakeBox(r, "engine", "startEngine") /\ vols' = vols
    BY <1>4 DEF MakeEngine, Kinds, Steps, Engaged
  <2> QED
    BY <2>1, <1>m
<1>5. CASE MakeBench(r)
  <2>1. /\ "bench" \in Kinds /\ "startBench" \in Steps /\ pc[r] \in Steps /\ Engaged(r)
        /\ MakeBox(r, "bench", "startBench") /\ vols' = vols \cup {RunName[r]}
    BY <1>5 DEF MakeBench, Kinds, Steps, Engaged
  <2> QED
    BY <2>1, <1>m
<1>6. ASSUME NEW k \in Kinds, NEW q \in {"bench", "wait"}, StartBox(r, k, q), Engaged(r)
      PROVE  DebtInv'
  <2>0. TypeOK /\ HoldersRun /\ AllIsOwed /\ EngagedHoldEngine /\ OffMeansIdle
    BY DEF DebtInv
  <2>1. /\ by[RunName[r]][k] = r /\ box' = [box EXCEPT ![RunName[r]][k] = "running"]
        /\ UNCHANGED <<proc, told, failed, exit, stray, by, nets, vols, marred, late>>
    BY <1>6 DEF StartBox, main
  <2>2. /\ pc' \in [Clients -> {"idle", "cleanup"} \cup Steps]
        /\ todo' \in [Clients -> {T4, T3, T2, T1, T0}]
        /\ \A s \in Clients, x \in Things : Owes(s, x) => Owes(s, x)'
        /\ \A s \in Clients : InFlight(s) => InFlight(s)'
        /\ \A s \in Clients : s # r => pc'[s] = pc[s]
    <3>1. q \in Steps /\ (GoOn(r, q) \/ Fail(r))
      BY <1>6 DEF StartBox, Steps
    <3>2. PICK p \in {q, "cleanup"} : SetupMove(r, p)
      BY <3>1, SetupMoves
    <3> QED
      BY <1>t, <3>2, SetupKeepsDebts
  <2>3. /\ box' \in [Names -> [Kinds -> {"absent", "created", "running", "exited"}]]
        /\ \A m \in Names, j \in Kinds :
             box'[m][j] = IF m = RunName[r] /\ j = k THEN "running" ELSE box[m][j]
    BY <1>t, <1>n, <2>1, BoxUpdate DEF TypeOK
  <2>4. box[RunName[r]][k] # "absent"
    BY <1>t, <1>n, <2>1 DEF HoldersRun
  <2>5. \A m \in Names, j \in Kinds : box'[m][j] = "absent" <=> box[m][j] = "absent"
    BY <2>3, <2>4
  <2>6. TypeOK'
    BY <1>t, <2>1, <2>2, <2>3 DEF TypeOK
  <2>7. HoldersRun'
    BY <1>t, <2>1, <2>2, <2>5 DEF HoldersRun
  <2>8. AllIsOwed'
    <3> SUFFICES ASSUME NEW m \in Names \ (marred \cup late)
                 PROVE  /\ \A j \in Kinds : box'[m][j] # "absent" => \E s \in Clients : by[m][j] = s /\ Owes(s, j)'
                        /\ m \in nets => \E s \in Clients : RunName[s] = m /\ Owes(s, "network")'
                        /\ m \in vols => \E s \in Clients : RunName[s] = m /\ Owes(s, "volume")'
      BY <2>1 DEF AllIsOwed
    <3>1. \A j \in Kinds : box'[m][j] # "absent" => \E s \in Clients : by[m][j] = s /\ Owes(s, j)'
      BY <2>0, <2>2, <2>5 DEF AllIsOwed, Kinds, Things
    <3>2. m \in nets => \E s \in Clients : RunName[s] = m /\ Owes(s, "network")'
      BY <2>0, <2>2 DEF AllIsOwed, Things
    <3>3. m \in vols => \E s \in Clients : RunName[s] = m /\ Owes(s, "volume")'
      BY <2>0, <2>2 DEF AllIsOwed, Things
    <3> QED
      BY <3>1, <3>2, <3>3
  <2>9. EngagedHoldEngine'
    <3>1. \A s \in Clients : Engaged(s)' => Engaged(s)
      BY <1>6, <2>2 DEF Engaged
    <3> QED
      BY <2>0, <2>1, <3>1 DEF EngagedHoldEngine
  <2>10. OffMeansIdle'
    <3>1. pc[r] # "idle"
      BY <1>6 DEF Engaged
    <3> QED
      BY <2>0, <2>1, <2>2, <3>1 DEF OffMeansIdle
  <2> QED
    BY <2>6, <2>7, <2>8, <2>9, <2>10 DEF DebtInv
<1>7. CASE StartEngine(r)
  BY <1>6, <1>7 DEF StartEngine, Engaged, Kinds
<1>8. CASE StartBench(r)
  BY <1>6, <1>8 DEF StartBench, Engaged, Kinds
<1>9. CASE LeaveSetup(r)
  <2>1. /\ SetupMove(r, "cleanup") /\ UNCHANGED <<main, box, by, marred, late>>
        /\ pc[r] # "idle" /\ nets' = nets /\ vols' = vols
    BY <1>9, Lists DEF LeaveSetup, Fail, SetupMove, docker, Steps
  <2> QED
    BY <2>1, SetupWithoutBox
<1> QED
  BY <1>1, <1>2, <1>3, <1>4, <1>5, <1>7, <1>8, <1>9, CleanupInv, EndRunInv DEF RunStep

LEMMA OutsideInv ==
  ASSUME DaemonAssumption, DebtInv, NEW n \in Names, NEW k \in Kinds, Outside(n, k)
  PROVE  DebtInv'
<1>t. TypeOK
  BY DEF DebtInv
<1>1. ASSUME NEW from \in SUBSET {"created", "running", "exited"},
             NEW st \in {"created", "running", "exited"}, Operate(n, k, from, st), UNCHANGED by
      PROVE  DebtInv'
  <2>1. /\ box[n][k] # "absent" /\ box' = [box EXCEPT ![n][k] = st] /\ marred' = marred \cup {n}
        /\ UNCHANGED <<proc, told, failed, exit, stray, pc, todo, by, nets, vols, late>>
    BY <1>1 DEF Operate, Touch, main
  <2> QED
    BY <1>t, <2>1, BoxStateInv DEF TypeOK
<1>2. CASE OperatorStarts(n, k)
  BY <1>1, <1>2 DEF OperatorStarts
<1>3. CASE OperatorRestarts(n, k)
  BY <1>1, <1>3 DEF OperatorRestarts
<1>4. CASE OperatorStops(n, k)
  BY <1>1, <1>4 DEF OperatorStops
<1>5. CASE Exits(n, k)
  <2>1. /\ box[n][k] # "absent" /\ box' = [box EXCEPT ![n][k] = "exited"] /\ marred' = marred
        /\ UNCHANGED <<proc, told, failed, exit, stray, pc, todo, by, nets, vols, late>>
    BY <1>5 DEF Exits, Touch, main
  <2> QED
    BY <1>t, <2>1, BoxStateInv DEF TypeOK
<1> QED
  BY <1>2, <1>3, <1>4, <1>5, OperatorRemovesInv DEF Outside

LEMMA ProcessInv ==
  ASSUME DaemonAssumption, DebtInv,
         Main \/ Launch \/ BootFails \/ ServerFails \/ Signal \/ Die
  PROVE  DebtInv'
<1>t. TypeOK /\ OffMeansIdle
  BY DEF DebtInv
<1>c. CutOff \subseteq Names /\ \A r \in Clients : InFlight(r) => RunName[r] \in CutOff
  BY DEF CutOff, DaemonAssumption
<1>1. CASE Listen \/ BeginShutdown \/ Launch \/ ServerFails \/ Signal
  <2>1. /\ MainOnly /\ proc' \in {"off", "booting", "serving", "stopping"}
        /\ told' \in BOOLEAN /\ failed' \in BOOLEAN /\ exit' \in {"none", "0", "1", "killed"}
        /\ proc' \in {"off", "booting"} => proc \in {"off", "booting"}
    BY <1>t, <1>1 DEF TypeOK, Listen, BeginShutdown, Launch, ServerFails, Signal
  <2> QED
    BY <2>1, MainOnlyInv
<1>2. CASE BootFails
  <2>1. \A r \in Clients : ~InFlight(r)
    BY <1>t, <1>2 DEF BootFails, OffMeansIdle, InFlight, Steps
  <2> QED
    BY <1>t, <1>2, <2>1, HaltInv DEF BootFails, TypeOK
<1>3. CASE ShutdownDone
  <2>1. /\ Forsaken \subseteq Names
        /\ \A r \in Clients : InFlight(r) => RunName[r] \in Forsaken
    BY <1>t, <1>3 DEF ShutdownDone, Drained, Forsaken, TypeOK, DaemonAssumption
  <2> QED
    BY <1>t, <1>3, <2>1, HaltInv DEF ShutdownDone, TypeOK
<1>4. CASE ShutdownTimeout
  BY <1>t, <1>4, <1>c, HaltInv DEF ShutdownTimeout, TypeOK
<1>5. CASE Die
  BY <1>t, <1>5, <1>c, HaltInv DEF Die, TypeOK
<1> QED
  BY <1>1, <1>2, <1>3, <1>4, <1>5 DEF Main

(* A handler returns before its run: nobody owes less. *)
LEMMA StreamBreaksInv ==
  ASSUME DebtInv, NEW r \in Clients, StreamBreaks(r) PROVE DebtInv'
<1>0. TypeOK /\ HoldersRun /\ AllIsOwed /\ EngagedHoldEngine /\ OffMeansIdle
  BY DEF DebtInv
<1>a. /\ stray' = stray \cup {r}
      /\ UNCHANGED <<proc, told, failed, exit, pc, todo, box, by, nets, vols, marred, late>>
  BY DEF StreamBreaks, docker
<1>1. TypeOK'
  BY <1>0, <1>a DEF TypeOK
<1>2. HoldersRun' /\ AllIsOwed' /\ EngagedHoldEngine' /\ OffMeansIdle'
  BY <1>0, <1>a DEF HoldersRun, AllIsOwed, EngagedHoldEngine, OffMeansIdle, InFlight, Owes, Engaged
<1> QED
  BY <1>1, <1>2 DEF DebtInv

(* The runs without a handler are in flight until they end, or the process does. *)
LEMMA StraysStep ==
  ASSUME TypeOK, StraysRun, [Next]_dVars PROVE StraysRun'
<1>1. ASSUME stray' \subseteq stray, pc' = pc PROVE StraysRun'
  BY <1>1 DEF StraysRun, InFlight
<1>2. ASSUME NEW r \in Clients, Request(r) \/ RunStep(r) PROVE StraysRun'
  <2>1. ASSUME NEW q \in Steps, stray' = stray, GoOn(r, q) \/ Move(r, q) \/ Fail(r)
        PROVE  StraysRun'
    <3>1. PICK p \in Steps \cup {"cleanup"} : pc' = [pc EXCEPT ![r] = p]
      BY <2>1 DEF GoOn, Move, Fail
    <3>2. \A s \in Clients : pc'[s] = IF s = r THEN p ELSE pc[s]
      BY <3>1 DEF TypeOK
    <3> QED
      BY <2>1, <3>2 DEF StraysRun, InFlight, TypeOK
  <2>2. {"network", "volume", "engine", "startEngine", "bench", "startBench", "wait"} = Steps
    BY DEF Steps
  <2>3. CASE Request(r)
    BY <2>1, <2>2, <2>3 DEF Request, main
  <2>4. CASE MakeNetwork(r) \/ MakeVolume(r)
    BY <2>1, <2>2, <2>4 DEF MakeNetwork, MakeVolume, main
  <2>5. CASE MakeEngine(r) \/ MakeBench(r)
    BY <2>1, <2>2, <2>5 DEF MakeEngine, MakeBench, MakeBox, main
  <2>6. CASE StartEngine(r) \/ StartBench(r)
    BY <2>1, <2>2, <2>6 DEF StartEngine, StartBench, StartBox, main
  <2>7. CASE LeaveSetup(r)
    BY <2>1, <2>2, <2>7 DEF LeaveSetup, main
  <2>8. CASE Cleanup(r)
    BY <1>1, <2>8 DEF Cleanup, main
  <2>9. CASE EndRun(r)
    <3>1. stray' = stray \ {r} /\ pc' = [pc EXCEPT ![r] = "idle"]
      BY <2>9 DEF EndRun, Move
    <3>2. \A s \in Clients : s # r => pc'[s] = pc[s]
      BY <3>1 DEF TypeOK
    <3> QED
      BY <3>1, <3>2 DEF StraysRun, InFlight, TypeOK
  <2> QED
    BY <1>2, <2>3, <2>4, <2>5, <2>6, <2>7, <2>8, <2>9 DEF RunStep
<1>3. ASSUME NEW r \in Clients, StreamBreaks(r) PROVE StraysRun'
  BY <1>3 DEF StreamBreaks, StraysRun, InFlight
<1>4. ASSUME NEW n \in Names, NEW k \in Kinds, Outside(n, k) PROVE StraysRun'
  BY <1>1, <1>4 DEF Outside, OperatorStarts, OperatorRestarts, OperatorStops, OperatorRemoves,
                    Exits, Operate, Touch, main
<1>5. ASSUME NEW st, Halt(st) PROVE StraysRun'
  BY <1>5 DEF Halt, StraysRun
<1>6. CASE Main \/ Launch \/ BootFails \/ ServerFails \/ Signal \/ Die
  <2>1. CASE Listen \/ BeginShutdown \/ Launch \/ ServerFails \/ Signal
    BY <1>1, <2>1 DEF Listen, BeginShutdown, Launch, ServerFails, Signal, MainOnly
  <2>2. CASE ShutdownDone \/ ShutdownTimeout \/ BootFails \/ Die
    BY <1>5, <2>2 DEF ShutdownDone, ShutdownTimeout, BootFails, Die
  <2> QED
    BY <1>6, <2>1, <2>2 DEF Main
<1>7. CASE UNCHANGED dVars
  BY <1>1, <1>7 DEF dVars, main
<1> QED
  BY <1>2, <1>3, <1>4, <1>6, <1>7 DEF Next

LEMMA NextInv == DaemonAssumption /\ DaemonInv /\ [Next]_dVars => DaemonInv'
<1> SUFFICES ASSUME DaemonAssumption, DaemonInv, [Next]_dVars PROVE DaemonInv'
  OBVIOUS
<1>0. DebtInv /\ TypeOK /\ StraysRun
  BY DEF DaemonInv, DebtInv
<1>1. ASSUME UNCHANGED dVars PROVE DebtInv'
  <2>1. UNCHANGED <<proc, told, failed, exit, stray, pc, todo, box, by, nets, vols, marred, late>>
    BY <1>1 DEF dVars, main, docker
  <2> QED
    BY <1>0, <2>1 DEF DebtInv, TypeOK, HoldersRun, AllIsOwed, EngagedHoldEngine, OffMeansIdle,
                      InFlight, Owes, Engaged
<1>2. ASSUME Next PROVE DebtInv'
  BY <1>0, <1>2, RunStepInv, StreamBreaksInv, OutsideInv, ProcessInv DEF Next
<1>3. StraysRun'
  BY <1>0, StraysStep
<1> QED
  BY <1>1, <1>2, <1>3 DEF DaemonInv, DebtInv

(* Types, and who still owes the removal of what, for any number of clients and any
   assignment of run IDs to them. *)
THEOREM DaemonInvariance == Spec => []DaemonInv
  BY InitInv, NextInv, DaemonAssumption, PTL DEF Spec

(* Nothing of a run ID is left in Docker once no run of it is in flight, unless Docker
   refused, the operator interfered, or the daemon ended under a run: killed, out of its
   10 s, or without waiting because the run's handler had returned (cleanupRun). *)
THEOREM NamesClean == Spec => []IdleNameIsClean
<1>1. DaemonInv => IdleNameIsClean
  <2> SUFFICES ASSUME DaemonInv, NEW n \in Names \ (marred \cup late), Idle(n) PROVE Clean(n)
    BY DEF IdleNameIsClean
  <2>0. HoldersRun /\ AllIsOwed
    BY DEF DaemonInv
  <2>1. \A r \in Clients, x \in Things : RunName[r] = n => ~Owes(r, x)
    BY OwesMore DEF Idle
  <2>2. n \notin nets /\ n \notin vols
    BY <2>0, <2>1 DEF AllIsOwed, Things
  <2>3. ASSUME NEW k \in Kinds, box[n][k] # "absent" PROVE FALSE
    <3>1. PICK r \in Clients : by[n][k] = r /\ Owes(r, k)
      BY <2>0, <2>3 DEF AllIsOwed
    <3>2. RunName[r] = n /\ k \in Things
      BY <2>0, <3>1 DEF HoldersRun, Kinds, Things
    <3> QED
      BY <2>1, <3>1, <3>2
  <2> QED
    BY <2>2, <2>3 DEF Clean
<1> QED
  BY <1>1, DaemonInvariance, PTL

(* Of any number of runs with one ID at most one is past the creation of its engine. *)
THEOREM OneAtATime == Spec => []OneRunPerName
<1>1. DaemonInv => OneRunPerName
  BY DEF DaemonInv, EngagedHoldEngine, OneRunPerName
<1> QED
  BY <1>1, DaemonInvariance, PTL
=============================================================================
