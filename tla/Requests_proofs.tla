---------------------------- MODULE Requests_proofs ----------------------------
(***************************************************************************)
(* Proofs about Requests, for every number of requests and of registered   *)
(* checkers: what config.Load returns while its provider fails and         *)
(* recovers, that the status logged is the one sent, and that a health     *)
(* report is true.                                                         *)
(***************************************************************************)
EXTENDS Requests, TLAPS

USE DEF HF, Asked

(* The keys Load asks for. *)
LEMMA KeyNames ==
  Keys = {"auth", "poll", "bonnie/hf_token", "BONNIE_HF_TOKEN", "HF_TOKEN", "rest"}
  BY DEF Keys

(* What a setting can be, key by key. *)
LEMMA SettingValues ==
  /\ Settings("poll") = {"unset", "number", "zero", "text"}
  /\ Settings("rest") = {"unset", "text"}
  /\ Settings("auth") = {"unset", "empty", "text"}
  /\ \A i \in 1 .. 3 : Settings(HF[i]) = {"unset", "empty", "text"}
  BY DEF Settings

(* Load starts with nothing asked and nothing missed. *)
LEMMA LoadStarts == LoadInit => LoadInv
<1> SUFFICES ASSUME LoadInit PROVE LoadInv OBVIOUS
<1>1. LoadTypes
  <2>1. \A k \in Keys : value[k] \in Settings(k)
    BY DEF LoadInit
  <2>2. value \in [Keys -> {"unset", "empty", "text", "number", "zero"}]
    BY DEF LoadInit, Settings
  <2> QED BY <2>1, <2>2, KeyNames DEF LoadInit, NewProvider, LoadTypes, Defaults
<1>2. AskedSoFar
  BY DEF LoadInit, AskedSoFar
<1>3. TokenSoFar
  BY DEF LoadInit, TokenSoFar, TokenAsked, Defaults, Usable
<1>4. LoadIsFaithful
  BY DEF LoadInit, LoadIsFaithful
<1> QED BY <1>1, <1>2, <1>3, <1>4 DEF LoadInv

(* Asking for the API's token. *)
LEMMA AuthStep == LoadInv /\ AskAuth => LoadInv'
<1> SUFFICES ASSUME LoadInv, AskAuth PROVE LoadInv' OBVIOUS
<1> USE KeyNames, SettingValues DEF LoadInv, AskAuth, GoOn, Got, Failed
<1>1. LoadTypes'
  BY DEF LoadTypes
<1>2. AskedSoFar'
  BY DEF LoadTypes, AskedSoFar
<1>3. TokenSoFar'
  BY DEF LoadTypes, TokenSoFar, TokenAsked, Usable
<1>4. LoadIsFaithful'
  BY DEF LoadTypes, LoadIsFaithful, AskedSoFar
<1> QED BY <1>1, <1>2, <1>3, <1>4

(* Asking for the poll interval. *)
LEMMA PollStep == LoadInv /\ AskPoll => LoadInv'
<1> SUFFICES ASSUME LoadInv, AskPoll PROVE LoadInv' OBVIOUS
<1> USE KeyNames, SettingValues DEF LoadInv, AskPoll, GoOn, Got, Failed
<1>1. LoadTypes'
  BY DEF LoadTypes
<1>2. AskedSoFar'
  BY DEF LoadTypes, AskedSoFar
<1>3. TokenSoFar'
  BY DEF LoadTypes, TokenSoFar, TokenAsked, Usable
<1>4. LoadIsFaithful'
  BY DEF LoadTypes, LoadIsFaithful, AskedSoFar
<1> QED BY <1>1, <1>2, <1>3, <1>4

(* What the question for one key of the HuggingFace token changes. *)
LEMMA TokenFacts ==
  ASSUME NEW i \in 1 .. 3, NEW k, k = HF[i], LoadInv, AskToken(i)
  PROVE  /\ at = k /\ at' = Asked[i + 3] /\ UNCHANGED <<bao, value, up>>
         /\ cfg' \in [auth : {"empty", "text"}, poll : {"number"}, hf : {"empty", "text"},
                     from : 0 .. 3, rest : {"default", "text"}]
         /\ cfg'.auth = cfg.auth /\ cfg'.rest = cfg.rest
         /\ \/ /\ cfg.hf = "empty" /\ missed' = missed
               /\ value[k] = "text" /\ cfg'.hf = "text" /\ cfg'.from = i
            \/ /\ cfg.hf = "empty" /\ cfg'.hf = "empty" /\ cfg'.from = 0
               /\ missed' = missed /\ value[k] # "text"
            \/ /\ cfg.hf = "empty" /\ cfg' = cfg
               /\ missed' = missed \cup {k} /\ ~up
            \/ cfg.hf # "empty" /\ cfg' = cfg /\ missed' = missed
<1> USE SettingValues, KeyNames
<1>1. value[k] \in {"unset", "empty", "text"} /\ k \in Keys
  BY DEF LoadInv, LoadTypes
<1>2. cfg \in [auth : {"empty", "text"}, poll : {"number"}, hf : {"empty", "text"},
             from : 0 .. 3, rest : {"default", "text"}] /\ (cfg.hf = "text" <=> cfg.from # 0)
  BY DEF LoadInv, LoadTypes, TokenSoFar
<1>3. at = k /\ at' = Asked[i + 3] /\ UNCHANGED <<bao, value, up>>
  BY DEF AskToken, GoOn
<1>4. CASE StillEmpty(i) /\ Got(k) /\ UNCHANGED missed
          /\ cfg' = [cfg EXCEPT !.hf = value[k], !.from = IF value[k] = "empty" THEN 0 ELSE i]
  <2>1. CASE value[k] = "empty"
    <3>1. cfg' = [cfg EXCEPT !.hf = "empty", !.from = 0]
      BY <1>4, <2>1
    <3> QED BY <1>1, <1>2, <1>3, <1>4, <2>1, <3>1 DEF StillEmpty
  <2>2. CASE value[k] # "empty"
    <3>1. value[k] = "text" /\ cfg' = [cfg EXCEPT !.hf = "text", !.from = i]
      BY <1>1, <1>4, <2>2 DEF Got
    <3>2. cfg.hf = "empty" /\ missed' = missed
      BY <1>4 DEF StillEmpty
    <3>3. cfg'.hf = "text" /\ cfg'.from = i /\ cfg'.auth = cfg.auth /\ cfg'.rest = cfg.rest
      BY <1>2, <3>1
    <3>4. cfg' \in [auth : {"empty", "text"}, poll : {"number"}, hf : {"empty", "text"},
                 from : 0 .. 3, rest : {"default", "text"}]
      <4>1. i \in 0 .. 3
        OBVIOUS
      <4> QED BY <1>2, <3>1, <4>1
    <3> QED BY <1>3, <3>1, <3>2, <3>3, <3>4
  <2> QED BY <2>1, <2>2
<1>5. CASE StillEmpty(i) /\ ~Got(k) /\ Failed(k) /\ UNCHANGED cfg
  <2>1. (missed' = missed \cup {k} /\ ~up) \/ (missed' = missed /\ value[k] = "unset")
    <3>1. CASE value[k] = "unset"
      BY <1>5, <3>1 DEF Failed
    <3>2. CASE value[k] # "unset"
      <4>1. ~up
        BY <1>5, <3>2, Zenon DEF Got
      <4>2. missed' = missed \cup {k}
        BY <1>5, <3>2, <4>1, Zenon DEF Failed
      <4> QED BY <4>1, <4>2
    <3> QED BY <3>1, <3>2
  <2>2. cfg.hf = "empty" /\ cfg' = cfg /\ cfg.from = 0
    BY <1>2, <1>5 DEF StillEmpty
  <2> QED BY <1>2, <1>3, <2>1, <2>2
<1>6. CASE ~StillEmpty(i) /\ UNCHANGED <<cfg, missed>>
  BY <1>1, <1>2, <1>3, <1>6 DEF StillEmpty
<1> QED BY <1>4, <1>5, <1>6 DEF AskToken

(* Asking for one key of the HuggingFace token. *)
LEMMA TokenStep == ASSUME NEW i \in 1 .. 3, LoadInv, AskToken(i) PROVE LoadInv'
<1> DEFINE k == HF[i]
<1>0. k \in Keys /\ k \notin {"auth", "poll", "rest"}
  BY KeyNames
<1> HIDE DEF k
<1>1. k = HF[i]
  BY DEF k
<1>2. LoadTypes'
  <2>1. at' \in Keys
    <3>1. Asked[i + 3] \in Keys
      BY KeyNames
    <3> QED BY <1>1, <3>1, TokenFacts
  <2>4. missed' \subseteq Keys
    <3>1. missed' = missed \/ missed' = missed \cup {k}
      BY <1>1, TokenFacts
    <3> QED BY <1>0, <3>1 DEF LoadInv, LoadTypes
  <2>2. UNCHANGED <<bao, up, value>>
    BY <1>1, TokenFacts
  <2>3. cfg' \in [auth : {"empty", "text"}, poll : {"number"}, hf : {"empty", "text"},
               from : 0 .. 3, rest : {"default", "text"}]
    BY <1>1, TokenFacts
  <2> QED BY <2>1, <2>2, <2>3, <2>4 DEF LoadInv, LoadTypes
<1>3. AskedSoFar'
  <2>1. ~bao' => up' /\ missed' = {}
    BY <1>1, TokenFacts DEF LoadInv, AskedSoFar
  <2>2. cfg'.auth = value'["auth"] /\ value'["auth"] # "unset"
    BY <1>0, <1>1, TokenFacts, KeyNames DEF LoadInv, AskedSoFar
  <2>3. value'["poll"] \in {"unset", "number"} \/ "poll" \in missed'
    BY <1>0, <1>1, TokenFacts, KeyNames DEF LoadInv, AskedSoFar
  <2>4. at' \notin {"auth", "poll", "refused", "serving"}
    BY <1>1, TokenFacts
  <2> QED BY <2>1, <2>2, <2>3, <2>4 DEF AskedSoFar
<1>4. TokenSoFar'
  <2>1. CASE i = 1
    BY <1>1, <2>1, TokenFacts DEF LoadInv, LoadTypes, TokenSoFar, TokenAsked, Usable
  <2>2. CASE i = 2
    BY <1>1, <2>2, TokenFacts DEF LoadInv, LoadTypes, TokenSoFar, TokenAsked, Usable
  <2>3. CASE i = 3
    BY <1>1, <2>3, TokenFacts DEF LoadInv, LoadTypes, TokenSoFar, TokenAsked, Usable
  <2> QED BY <2>1, <2>2, <2>3
<1>5. LoadIsFaithful'
  BY <1>1, <1>3, TokenFacts DEF LoadIsFaithful, AskedSoFar
<1> QED BY <1>2, <1>3, <1>4, <1>5 DEF LoadInv

(* Asking for the remaining settings. *)
LEMMA RestStep == LoadInv /\ AskRest => LoadInv'
<1> SUFFICES ASSUME LoadInv, AskRest PROVE LoadInv' OBVIOUS
<1> USE KeyNames, SettingValues DEF LoadInv, AskRest, GoOn, Got, Failed
<1>1. LoadTypes'
  BY DEF LoadTypes
<1>2. AskedSoFar'
  BY DEF LoadTypes, AskedSoFar
<1>3. TokenSoFar'
  BY DEF LoadTypes, TokenSoFar, TokenAsked, Usable
<1>4. LoadIsFaithful'
  BY <1>2, <1>3, <1>1 DEF LoadTypes, LoadIsFaithful, AskedSoFar, TokenSoFar, TokenAsked
<1> QED BY <1>1, <1>2, <1>3, <1>4

(* An outage changes what the next question gets, not what was taken. *)
LEMMA OutageStep == LoadInv /\ Outage => LoadInv'
<1> SUFFICES ASSUME LoadInv, Outage PROVE LoadInv' OBVIOUS
<1> USE DEF LoadInv, Outage
<1>1. LoadTypes'
  BY DEF LoadTypes
<1>2. AskedSoFar'
  BY DEF LoadTypes, AskedSoFar
<1>3. TokenSoFar'
  BY DEF TokenSoFar, TokenAsked, Usable
<1>4. LoadIsFaithful'
  BY DEF LoadIsFaithful, Usable
<1> QED BY <1>1, <1>2, <1>3, <1>4
--------------------------------------------------------------------------------
(* Steps that leave the configuration alone keep what is known of it. *)
LEMMA LoadStutters == LoadInv /\ UNCHANGED cVars => LoadInv'
  BY DEF LoadInv, cVars, LoadTypes, AskedSoFar, TokenSoFar, TokenAsked, Usable,
         LoadIsFaithful

(* The daemon begins to serve. *)
LEMMA ServeLoad == LoadInv /\ Serve => LoadInv'
<1> SUFFICES ASSUME LoadInv, Serve PROVE LoadInv' OBVIOUS
<1> USE DEF LoadInv, Serve
<1>1. LoadTypes'
  <2>1. \A k \in Keys : value'[k] \in Settings(k)
    BY DEF Settings
  <2>2. cfg' \in [auth : {"empty", "text"}, poll : {"number"}, hf : {"empty", "text"},
               from : 0 .. 3, rest : {"default", "text"}]
    BY DEF LoadTypes, Defaults
  <2> QED BY <2>1, <2>2 DEF LoadTypes
<1>2. AskedSoFar'
  BY DEF AskedSoFar
<1>3. TokenSoFar'
  BY DEF LoadTypes, TokenSoFar, Defaults
<1>4. LoadIsFaithful'
  BY DEF LoadIsFaithful
<1> QED BY <1>1, <1>2, <1>3, <1>4

(* What Move changes. *)
LEMMA Moves ==
  ASSUME NEW q \in Requesters, NEW pos \in Positions, RequestTypes, Move(q, pos)
  PROVE  /\ req' \in [Requesters ->
                       [ep : Endpoints, token : Tokens, pos : Positions, gone : BOOLEAN]]
         /\ \A r \in Requesters : r # q => req'[r] = req[r]
         /\ \A r \in Requesters : req'[r].ep = req[r].ep /\ req'[r].gone = req[r].gone
         /\ \A r \in Requesters : req'[r].token = req[r].token
         /\ req'[q].pos = pos
  BY DEF RequestTypes, Move

(* The first status written is the one sent, and the one noted. *)
LEMMA FirstWrite ==
  ASSUME NEW q \in Requesters, NEW s \in Nat \ {0}, RequestTypes, status[q] = Unsent,
         Write(q, s)
  PROVE  /\ status' \in [Requesters -> [sent : Nat, noted : Nat, logged : Nat]]
         /\ \A r \in Requesters : r # q => status'[r] = status[r]
         /\ status'[q].sent = s /\ status'[q].noted = s
<1>1. CASE s = 200
  <2>1. status[q].sent = 0 /\ status[q].noted = 200
    BY DEF Unsent
  <2>2. status' = [status EXCEPT ![q].sent = 200]
    BY <1>1, <2>1 DEF Write, WriteBody
  <2>3. status'[q].sent = 200 /\ status'[q].noted = 200
    BY <2>1, <2>2 DEF RequestTypes
  <2>4. \A r \in Requesters : r # q => status'[r] = status[r]
    BY <2>2 DEF RequestTypes
  <2>5. status' \in [Requesters -> [sent : Nat, noted : Nat, logged : Nat]]
    BY <2>2 DEF RequestTypes
  <2> QED BY <1>1, <2>3, <2>4, <2>5
<1>2. CASE s # 200
  BY <1>2 DEF RequestTypes, Write, WriteHeader, Unsent
<1> QED BY <1>1, <1>2

(* A request that is answered at once, by a handler or by Auth. *)
LEMMA Answered ==
  ASSUME NEW q \in Requesters, NEW s \in Nat \ {0}, RequestsInv, Write(q, s), Move(q, "log"),
         req[q].pos \in {"auth", "handle"}, req[q].ep \notin Probes,
         Stays, UNCHANGED <<slot, History>>
  PROVE  RequestsInv'
<1> USE DEF RequestsInv, Is
<1>0. "log" \in Positions
  BY DEF Positions
<1>1. status[q] = Unsent
  BY DEF ResponseSoFar
<1>2. LoadInv'
  BY LoadStutters DEF Stays
<1>3. RequestTypes'
  BY <1>0, <1>1, FirstWrite, Moves DEF RequestTypes, Stays, History
<1>4. ResponseSoFar'
  BY <1>0, <1>1, FirstWrite, Moves DEF ResponseSoFar
<1>5. SeenSoFar'
  BY <1>0, Moves DEF SeenSoFar, Stays, History
<1>6. ChecksEmpty'
  BY <1>0, Moves DEF ChecksEmpty, Blank
<1>7. LoggedIsSent'
  BY <1>0, <1>1, FirstWrite, Moves DEF LoggedIsSent, History
<1>8. HealthIsTruthful'
  BY <1>0, <1>1, FirstWrite, Moves DEF HealthIsTruthful, History, Probed
<1> QED BY <1>2, <1>3, <1>4, <1>5, <1>6, <1>7, <1>8

(* A request enters. *)
LEMMA ArriveInv ==
  ASSUME NEW q \in Requesters, NEW ep \in Endpoints, NEW token \in Tokens, RequestsInv,
         Arrive(q, ep, token)
  PROVE  RequestsInv'
<1> USE DEF RequestsInv, Is, Arrive
<1>1. LoadInv'
  BY LoadStutters DEF Stays
<1>2. RequestTypes'
  BY DEF RequestTypes, Stays, Positions
<1>3. ResponseSoFar'
  BY DEF RequestTypes, ResponseSoFar
<1>4. SeenSoFar'
  BY DEF RequestTypes, SeenSoFar, ChecksEmpty, Blank, Stays
<1>5. ChecksEmpty'
  BY DEF RequestTypes, ChecksEmpty, Blank
<1>6. LoggedIsSent'
  BY DEF RequestTypes, LoggedIsSent
<1>7. HealthIsTruthful'
  BY DEF RequestTypes, HealthIsTruthful, Probed
<1> QED BY <1>1, <1>2, <1>3, <1>4, <1>5, <1>6, <1>7

(* Auth lets a request pass, or refuses it. *)
LEMMA AuthInv == ASSUME NEW q \in Requesters, RequestsInv, Auth(q) PROVE RequestsInv'
<1>1. req[q].ep \notin Probes /\ req[q].pos = "auth"
  BY DEF RequestsInv, ResponseSoFar, Auth, Is, Open
<1>2. CASE Write(q, 401) /\ Move(q, "log")
  BY <1>1, <1>2, Answered DEF Auth
<1>3. CASE Move(q, "handle") /\ UNCHANGED status
  <2> USE DEF RequestsInv, Is
  <2>0. "handle" \in Positions
    BY DEF Positions
  <2>1. LoadInv'
    BY LoadStutters DEF Stays, Auth
  <2>2. RequestTypes'
    BY <1>3, <2>0, Moves DEF RequestTypes, Stays, History, Auth
  <2>3. ResponseSoFar'
    BY <1>1, <1>3, <2>0, Moves DEF ResponseSoFar
  <2>4. SeenSoFar'
    BY <1>1, <1>3, <2>0, Moves DEF SeenSoFar, Stays, History, Auth
  <2>5. ChecksEmpty'
    BY <1>1, <1>3, <2>0, Moves DEF ChecksEmpty, Blank, Auth
  <2>6. LoggedIsSent'
    BY <1>1, <1>3, <2>0, Moves DEF LoggedIsSent, History, Auth
  <2>7. HealthIsTruthful'
    BY <1>1, <1>3, <2>0, Moves DEF HealthIsTruthful, History, Probed, Auth
  <2> QED BY <2>1, <2>2, <2>3, <2>4, <2>5, <2>6, <2>7
<1> QED BY <1>2, <1>3 DEF Auth

(* A handler answers at once. *)
LEMMA AnswerInv == ASSUME NEW q \in Requesters, RequestsInv, Answer(q) PROVE RequestsInv'
<1>1. req[q].pos = "handle" /\ req[q].ep \in Plain
  BY DEF Answer, Is
<1>2. req[q].ep \notin Probes
  BY <1>1 DEF Plain, ContainerReplies, Probes
<1>3. PICK s \in Replies(req[q].ep) : Write(q, s)
  BY DEF Answer
<1>4. s \in Nat \ {0}
  BY <1>1, <1>3 DEF Plain, Replies, ContainerReplies, InfoReplies, GpuReplies
<1> QED BY <1>1, <1>2, <1>3, <1>4, Answered DEF Answer

(* The checks of a health request begin. *)
LEMMA BeginChecksInv ==
  ASSUME NEW q \in Requesters, RequestsInv, BeginChecks(q) PROVE RequestsInv'
<1> USE DEF RequestsInv, Is, BeginChecks
<1>0. "checks" \in Positions
  BY DEF Positions
<1>1. LoadInv'
  BY LoadStutters DEF Stays
<1>2. RequestTypes'
  BY <1>0, Moves DEF RequestTypes, Stays, History
<1>3. ResponseSoFar'
  BY <1>0, Moves DEF ResponseSoFar
<1>4. SeenSoFar'
  BY <1>0, Moves DEF SeenSoFar, Stays, History
<1>5. ChecksEmpty'
  BY <1>0, Moves DEF ChecksEmpty, Blank
<1>6. LoggedIsSent'
  BY <1>0, Moves DEF LoggedIsSent, History
<1>7. HealthIsTruthful'
  BY <1>0, Moves DEF HealthIsTruthful, History, Probed
<1> QED BY <1>1, <1>2, <1>3, <1>4, <1>5, <1>6, <1>7

(* One check comes back. *)
LEMMA CheckInv ==
  ASSUME NEW q \in Requesters, NEW c \in Checkers, RequestsInv, CheckReturns(q, c)
  PROVE  RequestsInv'
<1> USE DEF RequestsInv, Is
<1>0. PICK v \in {"up", "down"} :
        /\ slot' = [slot EXCEPT ![q][c] = v]
        /\ v = "up" => health[c] = "well"
        /\ v = "down" => health[c] = "ill" \/ req[q].gone
  BY DEF CheckReturns
<1>1. Stays /\ UNCHANGED <<req, status, History>> /\ req[q].pos = "checks"
  BY DEF CheckReturns
<1>2. LoadInv'
  BY <1>1, LoadStutters DEF Stays
<1>3. slot' \in [Requesters -> [Checkers -> {"none", "up", "down"}]]
  BY <1>0 DEF RequestTypes
<1>4. RequestTypes'
  BY <1>1, <1>3 DEF RequestTypes, Stays, History
<1>5. ResponseSoFar'
  BY <1>1 DEF ResponseSoFar
<1>6. SeenSoFar'
  <2> SUFFICES ASSUME NEW r \in Requesters, NEW d \in Checkers, req[r].pos # "new"
               PROVE  /\ health[d] = "well" => d \in wasWell[r]
                      /\ health[d] # "well" => d \in wasIll[r]
                      /\ slot'[r][d] = "up" => d \in wasWell[r]
                      /\ slot'[r][d] = "down" => req[r].gone \/ d \in wasIll[r]
    BY <1>1 DEF SeenSoFar, Stays, History
  <2>1. CASE r = q /\ d = c
    <3>1. slot'[r][d] = v
      BY <1>0, <2>1 DEF RequestTypes
    <3> QED BY <1>0, <2>1, <3>1 DEF SeenSoFar
  <2>2. CASE r # q \/ d # c
    <3>1. slot'[r][d] = slot[r][d]
      BY <1>0, <2>2 DEF RequestTypes
    <3> QED BY <3>1 DEF SeenSoFar
  <2> QED BY <2>1, <2>2
<1>7. ChecksEmpty'
  BY <1>0, <1>1 DEF RequestTypes, ChecksEmpty, Blank
<1>8. LoggedIsSent'
  BY <1>1 DEF LoggedIsSent, History
<1>9. HealthIsTruthful'
  BY <1>1 DEF HealthIsTruthful, History, Probed
<1> QED BY <1>2, <1>4, <1>5, <1>6, <1>7, <1>8, <1>9

(* The report of a health request. *)
LEMMA ReportInv == ASSUME NEW q \in Requesters, RequestsInv, Report(q) PROVE RequestsInv'
<1> USE DEF RequestsInv, Is
<1>0. "log" \in Positions /\ Move(q, "log") /\ req[q].pos = "checks"
  BY DEF Positions, Report
<1>1. status[q] = Unsent /\ req[q].ep \in Probes
  BY <1>0 DEF ResponseSoFar
<1>2. PICK s \in Nat \ {0} :
        /\ Write(q, s) /\ s \in {200, 503}
        /\ s = 200 => \A c \in Probed(q) : slot[q][c] = "up"
        /\ s = 503 => \E c \in Probed(q) : slot[q][c] # "up"
  BY DEF Report
<1>3. Probed(q) \subseteq Checkers /\ Probed(q)' = Probed(q)
  BY <1>0, Moves, RequestsAssumption DEF Probed
<1>4. LoadInv'
  BY LoadStutters DEF Stays, Report
<1>5. RequestTypes'
  <2>1. slot' \in [Requesters -> [Checkers -> {"none", "up", "down"}]]
    BY DEF RequestTypes, Report, Blank
  <2>2. status' \in [Requesters -> [sent : Nat, noted : Nat, logged : Nat]]
    BY <1>1, <1>2, FirstWrite
  <2>3. req' \in [Requesters ->
                  [ep : Endpoints, token : Tokens, pos : Positions, gone : BOOLEAN]]
    BY <1>0, Moves
  <2> QED BY <2>1, <2>2, <2>3 DEF RequestTypes, Stays, History, Report
<1>6. ResponseSoFar'
  BY <1>0, <1>1, <1>2, FirstWrite, Moves DEF ResponseSoFar
<1>7. SeenSoFar'
  BY <1>0, Moves DEF RequestTypes, SeenSoFar, Stays, History, Report, Blank
<1>8. ChecksEmpty'
  BY <1>0, Moves DEF RequestTypes, ChecksEmpty, Blank, Report
<1>9. LoggedIsSent'
  BY <1>0, <1>1, <1>2, FirstWrite, Moves DEF LoggedIsSent, History, Report
<1>10. HealthIsTruthful'
  <2>1. s = 200 => Probed(q) \subseteq wasWell[q]
    BY <1>0, <1>2, <1>3 DEF SeenSoFar
  <2>2. s = 503 => req[q].gone \/ Probed(q) \cap wasIll[q] # {}
    <3>1. SUFFICES ASSUME s = 503 PROVE req[q].gone \/ Probed(q) \cap wasIll[q] # {}
      OBVIOUS
    <3>2. PICK c \in Probed(q) : slot[q][c] # "up"
      BY <1>2, <3>1
    <3>3. slot[q][c] = "down"
      BY <1>3, <3>2 DEF Report, AllDone, RequestTypes
    <3> QED BY <1>0, <1>3, <3>3 DEF SeenSoFar
  <2>3. status'[q].sent = s /\ \A r \in Requesters : r # q => status'[r] = status[r]
    BY <1>1, <1>2, FirstWrite
  <2>4. UNCHANGED History
    BY DEF Report
  <2> QED BY <1>0, <1>3, <2>1, <2>2, <2>3, <2>4, Moves DEF HealthIsTruthful, History, Probed
<1> QED BY <1>4, <1>5, <1>6, <1>7, <1>8, <1>9, <1>10

(* An event stream begins, or is refused. *)
LEMMA BeginStreamInv ==
  ASSUME NEW q \in Requesters, RequestsInv, BeginStream(q) PROVE RequestsInv'
<1>0. /\ req[q].pos = "handle" /\ req[q].ep \in Streams /\ req[q].ep \notin Probes
      /\ Stays /\ UNCHANGED <<slot, History>>
  BY DEF BeginStream, Is, Streams, Probes
<1>1. CASE WriteHeader(q, 400) /\ Move(q, "log")
  <2>1. Write(q, 400)
    BY <1>1 DEF Write
  <2> QED BY <1>0, <1>1, <2>1, Answered
<1>2. CASE WriteBody(q) /\ Move(q, "stream")
  <2> USE DEF RequestsInv, Is
  <2>0. "stream" \in Positions /\ Write(q, 200) /\ status[q] = Unsent
    BY <1>0, <1>2 DEF Positions, Write, ResponseSoFar
  <2>1. /\ status' \in [Requesters -> [sent : Nat, noted : Nat, logged : Nat]]
        /\ \A r \in Requesters : r # q => status'[r] = status[r]
        /\ status'[q].sent = 200 /\ status'[q].noted = 200
    BY <2>0, FirstWrite
  <2>2. LoadInv'
    BY <1>0, LoadStutters DEF Stays
  <2>3. RequestTypes'
    BY <1>0, <1>2, <2>0, <2>1, Moves DEF RequestTypes, Stays, History
  <2>4. ResponseSoFar'
    BY <1>0, <1>2, <2>0, <2>1, Moves DEF ResponseSoFar
  <2>5. SeenSoFar'
    BY <1>0, <1>2, <2>0, Moves DEF SeenSoFar, Stays, History
  <2>6. ChecksEmpty'
    BY <1>0, <1>2, <2>0, Moves DEF ChecksEmpty, Blank
  <2>7. LoggedIsSent'
    BY <1>0, <1>2, <2>0, <2>1, Moves DEF LoggedIsSent, History
  <2>8. HealthIsTruthful'
    BY <1>0, <1>2, <2>0, <2>1, Moves DEF HealthIsTruthful, History, Probed
  <2> QED BY <2>2, <2>3, <2>4, <2>5, <2>6, <2>7, <2>8
<1> QED BY <1>1, <1>2 DEF BeginStream, RefuseExec

(* An event stream ends. *)
LEMMA EndStreamInv ==
  ASSUME NEW q \in Requesters, RequestsInv, EndStream(q) PROVE RequestsInv'
<1> USE DEF RequestsInv, Is, EndStream, EndLogs, EndExec
<1>0. "log" \in Positions
  BY DEF Positions
<1>1. LoadInv'
  BY LoadStutters DEF Stays
<1>2. RequestTypes'
  BY <1>0, Moves DEF RequestTypes, Stays, History
<1>3. ResponseSoFar'
  BY <1>0, Moves DEF ResponseSoFar
<1>4. SeenSoFar'
  BY <1>0, Moves DEF SeenSoFar, Stays, History
<1>5. ChecksEmpty'
  BY <1>0, Moves DEF ChecksEmpty, Blank
<1>6. LoggedIsSent'
  BY <1>0, Moves DEF LoggedIsSent, History
<1>7. HealthIsTruthful'
  BY <1>0, Moves DEF HealthIsTruthful, History, Probed, ResponseSoFar, Streams, Probes
<1> QED BY <1>1, <1>2, <1>3, <1>4, <1>5, <1>6, <1>7

(* The request is logged. *)
LEMMA LogInv == ASSUME NEW q \in Requesters, RequestsInv, Log(q) PROVE RequestsInv'
<1> USE DEF RequestsInv, Is, Log
<1>0. "done" \in Positions
  BY DEF Positions
<1>1. /\ status' \in [Requesters -> [sent : Nat, noted : Nat, logged : Nat]]
      /\ \A r \in Requesters : r # q => status'[r] = status[r]
      /\ status'[q].sent = status[q].sent /\ status'[q].logged = status[q].noted
  BY DEF RequestTypes
<1>2. LoadInv'
  BY LoadStutters DEF Stays
<1>3. RequestTypes'
  BY <1>0, <1>1, Moves DEF RequestTypes, Stays, History
<1>4. ResponseSoFar'
  BY <1>0, <1>1, Moves DEF ResponseSoFar
<1>5. SeenSoFar'
  BY <1>0, Moves DEF SeenSoFar, Stays, History
<1>6. ChecksEmpty'
  BY <1>0, Moves DEF ChecksEmpty, Blank
<1>7. LoggedIsSent'
  BY <1>0, <1>1, Moves DEF LoggedIsSent, ResponseSoFar, History
<1>8. HealthIsTruthful'
  BY <1>0, <1>1, Moves DEF HealthIsTruthful, History, Probed
<1> QED BY <1>2, <1>3, <1>4, <1>5, <1>6, <1>7, <1>8

(* A status set in one response. *)
LEMMA SendStatus ==
  ASSUME NEW q \in Requesters, NEW s \in Nat, RequestTypes,
         status' = [status EXCEPT ![q].sent = s]
  PROVE  /\ status' \in [Requesters -> [sent : Nat, noted : Nat, logged : Nat]]
         /\ \A r \in Requesters : r # q => status'[r] = status[r]
<1>1. status' \in [Requesters -> [sent : Nat, noted : Nat, logged : Nat]]
  BY DEF RequestTypes
<1>2. \A r \in Requesters : r # q => status'[r] = status[r]
  BY DEF RequestTypes
<1> QED BY <1>1, <1>2

(* A handler panics. *)
LEMMA PanicInv == ASSUME NEW q \in Requesters, RequestsInv, Panic(q) PROVE RequestsInv'
<1> USE DEF RequestsInv, Is
<1>0. "done" \in Positions /\ Move(q, "done") /\ req[q].pos # "new"
  BY DEF Positions, Panic
<1>1. /\ status' \in [Requesters -> [sent : Nat, noted : Nat, logged : Nat]]
      /\ \A r \in Requesters : r # q => status'[r] = status[r]
  <2>1. status[q].sent \in Nat
    BY DEF RequestTypes
  <2>2. status' = [status EXCEPT ![q].sent = IF status[q].sent = 0 THEN 500
                                             ELSE status[q].sent]
    BY DEF Panic
  <2>3. CASE status[q].sent = 0
    <3>1. status' = [status EXCEPT ![q].sent = 500]
      BY <2>2, <2>3
    <3>2. 500 \in Nat /\ RequestTypes
      OBVIOUS
    <3> QED BY <3>1, <3>2, SendStatus, Zenon
  <2>4. CASE status[q].sent # 0
    <3>1. status' = [status EXCEPT ![q].sent = status[q].sent]
      BY <2>2, <2>4
    <3> QED BY <2>1, <3>1, SendStatus
  <2> QED BY <2>3, <2>4
<1>2. slot' = [slot EXCEPT ![q] = Blank] /\ panicked' = panicked \cup {q}
      /\ Stays /\ UNCHANGED <<wasWell, wasIll>>
  BY DEF Panic
<1>3. slot' \in [Requesters -> [Checkers -> {"none", "up", "down"}]]
  BY <1>2 DEF RequestTypes, Blank
<1>4. LoadInv'
  BY <1>2, LoadStutters DEF Stays
<1>5. RequestTypes'
  BY <1>0, <1>1, <1>2, <1>3, Moves DEF RequestTypes, Stays
<1>6. ResponseSoFar'
  BY <1>0, <1>1, Moves DEF ResponseSoFar
<1>7. SeenSoFar'
  BY <1>0, <1>2, Moves DEF RequestTypes, SeenSoFar, Stays, Blank
<1>8. ChecksEmpty'
  BY <1>0, <1>2, Moves DEF RequestTypes, ChecksEmpty, Blank
<1>9. LoggedIsSent'
  BY <1>0, <1>1, <1>2, Moves DEF LoggedIsSent
<1>10. HealthIsTruthful'
  BY <1>0, <1>1, <1>2, Moves DEF HealthIsTruthful, Probed
<1> QED BY <1>4, <1>5, <1>6, <1>7, <1>8, <1>9, <1>10

(* A client goes away. *)
LEMMA LeaveInv == ASSUME NEW q \in Requesters, RequestsInv, Leave(q) PROVE RequestsInv'
<1> USE DEF RequestsInv, Is, Leave
<1>1. /\ req' \in [Requesters ->
                    [ep : Endpoints, token : Tokens, pos : Positions, gone : BOOLEAN]]
      /\ \A r \in Requesters : /\ req'[r].pos = req[r].pos /\ req'[r].ep = req[r].ep
                                 /\ req[r].gone => req'[r].gone
  BY DEF RequestTypes
<1>2. LoadInv'
  BY LoadStutters DEF Stays
<1>3. RequestTypes'
  BY <1>1 DEF RequestTypes, Stays, History
<1>4. ResponseSoFar'
  BY <1>1 DEF ResponseSoFar
<1>5. SeenSoFar'
  BY <1>1 DEF SeenSoFar, Stays, History
<1>6. ChecksEmpty'
  BY <1>1 DEF ChecksEmpty, Blank
<1>7. LoggedIsSent'
  BY <1>1 DEF LoggedIsSent, History
<1>8. HealthIsTruthful'
  BY <1>1 DEF HealthIsTruthful, History, Probed
<1> QED BY <1>2, <1>3, <1>4, <1>5, <1>6, <1>7, <1>8

(* A service fails, hangs or recovers. *)
LEMMA HealthInv == ASSUME NEW c \in Checkers, RequestsInv, HealthChanges(c) PROVE RequestsInv'
<1> USE DEF RequestsInv, Is
<1>0. PICK h \in {"well", "ill", "hung"} :
        /\ health' = [health EXCEPT ![c] = h]
        /\ wasWell' = IF h = "well" THEN [q \in Requesters |-> wasWell[q] \cup {c}] ELSE wasWell
        /\ wasIll' = IF h # "well" THEN [q \in Requesters |-> wasIll[q] \cup {c}] ELSE wasIll
  BY DEF HealthChanges
<1>1. UNCHANGED <<cVars, req, status, slot, panicked>>
  BY DEF HealthChanges
<1>2. /\ wasWell' \in [Requesters -> SUBSET Checkers]
      /\ wasIll' \in [Requesters -> SUBSET Checkers]
  BY <1>0 DEF RequestTypes
<1>3. \A q \in Requesters : /\ wasWell[q] \subseteq wasWell'[q] /\ wasIll[q] \subseteq wasIll'[q]
                            /\ h = "well" => c \in wasWell'[q]
                            /\ h # "well" => c \in wasIll'[q]
  BY <1>0 DEF RequestTypes
<1>4. LoadInv'
  BY <1>1, LoadStutters
<1>5. RequestTypes'
  BY <1>0, <1>1, <1>2 DEF RequestTypes
<1>6. ResponseSoFar'
  BY <1>1 DEF ResponseSoFar
<1>7. SeenSoFar'
  BY <1>0, <1>1, <1>3 DEF SeenSoFar, RequestTypes
<1>8. ChecksEmpty'
  BY <1>1 DEF ChecksEmpty, Blank
<1>9. LoggedIsSent'
  BY <1>1 DEF LoggedIsSent
<1>10. HealthIsTruthful'
  BY <1>1, <1>3 DEF HealthIsTruthful, Probed
<1> QED BY <1>4, <1>5, <1>6, <1>7, <1>8, <1>9, <1>10

(* The daemon's configuration: no request is there yet, or none is touched. *)
LEMMA ConfigureInv == ASSUME RequestsInv, Configure \/ Serve PROVE RequestsInv'
<1>1. UNCHANGED <<health, req, status, slot, History>>
  BY DEF Configure, Serve
<1>2. LoadInv'
  <2>1. LoadInv
    BY DEF RequestsInv
  <2> QED BY <2>1, AuthStep, PollStep, TokenStep, RestStep, OutageStep, ServeLoad
         DEF Configure, Load
<1> QED BY <1>1, <1>2 DEF RequestsInv, RequestTypes, ResponseSoFar, SeenSoFar, ChecksEmpty,
       LoggedIsSent, HealthIsTruthful, Is, Probed, Blank, History
--------------------------------------------------------------------------------
(* RequestsInv holds in every state: for every configuration, however OpenBao fails while
   it is read, and for any number of requests and checkers. *)
THEOREM RequestsInvariance == Spec => []RequestsInv
<1>1. Init => RequestsInv
  <2> SUFFICES ASSUME Init PROVE RequestsInv OBVIOUS
  <2>1. LoadInv
    BY LoadStarts DEF Init
  <2>2. RequestTypes
    BY DEF Init, RequestTypes, Endpoints, Plain, Tokens, Positions, Unsent, Blank
  <2> QED BY <2>1, <2>2 DEF Init, RequestsInv, ResponseSoFar, SeenSoFar, ChecksEmpty,
         LoggedIsSent, HealthIsTruthful, Is, Open, Probes, Streams
<1>2. RequestsInv /\ [Next]_rVars => RequestsInv'
  <2> SUFFICES ASSUME RequestsInv, [Next]_rVars PROVE RequestsInv' OBVIOUS
  <2>1. CASE Configure \/ Serve
    BY <2>1, ConfigureInv
  <2>2. ASSUME NEW q \in Requesters, Handle(q) PROVE RequestsInv'
    BY <2>2, AuthInv, AnswerInv, BeginChecksInv, ReportInv, BeginStreamInv, EndStreamInv,
       LogInv, CheckInv DEF Handle
  <2>3. ASSUME NEW q \in Requesters, Panic(q) \/ Leave(q) PROVE RequestsInv'
    BY <2>3, PanicInv, LeaveInv
  <2>4. ASSUME NEW q \in Requesters, NEW ep \in Endpoints, NEW token \in Tokens,
               Arrive(q, ep, token) PROVE RequestsInv'
    BY <2>4, ArriveInv
  <2>5. ASSUME NEW c \in Checkers, HealthChanges(c) PROVE RequestsInv'
    BY <2>5, HealthInv
  <2>6. CASE UNCHANGED rVars
    <3>1. LoadInv'
      BY <2>6, LoadStutters DEF RequestsInv, rVars
    <3> QED BY <2>6, <3>1 DEF RequestsInv, RequestTypes, ResponseSoFar, SeenSoFar, ChecksEmpty,
           LoggedIsSent, HealthIsTruthful, Is, Probed, Blank, rVars
  <2> QED BY <2>1, <2>2, <2>3, <2>4, <2>5, <2>6 DEF Next
<1> QED BY <1>1, <1>2, PTL DEF Spec

(* config.Load returns the configured token and takes a default only for what is not set
   or could not be read. *)
THEOREM LoadFaithful == Spec => []LoadIsFaithful
  BY RequestsInvariance, PTL DEF RequestsInv, LoadInv

(* The status Logging records is the one the client was sent. *)
THEOREM LogTrue == Spec => []LoggedIsSent
  BY RequestsInvariance, PTL DEF RequestsInv

(* A health report tells what was true while it was made. *)
THEOREM HealthTrue == Spec => []HealthIsTruthful
  BY RequestsInvariance, PTL DEF RequestsInv
--------------------------------------------------------------------------------
(* Who is served *)

BearerInv == OnlyBearerServed /\ NoneBefore

(* A step of one request that ends at a position where a stranger may be. *)
LEMMA OneMoves ==
  ASSUME NEW q \in Requesters, BearerInv, UNCHANGED <<at, cfg>>,
         \A r \in Requesters : r # q => req'[r] = req[r] /\ status'[r] = status[r],
         req'[q].ep = req[q].ep, req'[q].token = req[q].token, req'[q].pos # "new",
         at = "serving", panicked' \subseteq panicked \cup {q},
         Stranger(q) => /\ req'[q].pos \in {"auth", "log", "done"}
                        /\ status'[q].sent \in {0, 401} /\ q \notin panicked'
  PROVE  BearerInv'
<1>1. \A r \in Requesters : Stranger(r)' => Stranger(r)
  BY DEF Stranger
<1>2. OnlyBearerServed'
  BY <1>1 DEF BearerInv, OnlyBearerServed
<1>3. NoneBefore'
  BY DEF BearerInv, NoneBefore, Is
<1> QED BY <1>2, <1>3 DEF BearerInv

(* A request that is past Auth is not a stranger's, and the daemon serves. *)
LEMMA Within ==
  ASSUME NEW q \in Requesters, BearerInv, req[q].pos \in {"handle", "checks", "stream"}
  PROVE  ~Stranger(q)
  BY DEF BearerInv, OnlyBearerServed

(* What a step does to one request keeps strangers out. *)
LEMMA BearerHandle == ASSUME NEW q \in Requesters, RequestsInv, BearerInv, Handle(q) PROVE BearerInv'
<1> USE DEF Is
<1>0. /\ RequestTypes /\ req[q].pos # "new" /\ at = "serving"
      /\ UNCHANGED <<at, cfg, panicked>>
  <2>1. req[q].pos # "new" /\ UNCHANGED <<at, cfg, panicked>>
    BY DEF Handle, Auth, Answer, BeginChecks, Report, BeginStream, EndStream, Log,
           CheckReturns, Stays, History, cVars
  <2> QED BY <2>1 DEF RequestsInv, BearerInv, NoneBefore
<1>1. ASSUME NEW pos \in Positions \ {"new"}, Move(q, pos),
             \A r \in Requesters : r # q => status'[r] = status[r],
             Stranger(q) => pos \in {"log", "done"} /\ status'[q].sent \in {0, 401}
      PROVE  BearerInv'
  <2>1. Stranger(q) => q \notin panicked
    BY DEF BearerInv, OnlyBearerServed
  <2> QED BY <1>0, <1>1, <2>1, Moves, OneMoves
<1>2. ASSUME NEW s \in Nat, Write(q, s)
      PROVE  /\ \A r \in Requesters : r # q => status'[r] = status[r]
             /\ status'[q].sent \in {s, status[q].sent}
  BY <1>0, <1>2 DEF Write, WriteHeader, WriteBody, RequestTypes
<1>3. CASE Auth(q)
  <2>1. CASE req[q].token = cfg.auth /\ Move(q, "handle") /\ UNCHANGED status
    <3>1. ~Stranger(q)
      BY <1>0, <2>1 DEF Stranger, RequestTypes, Tokens
    <3> QED BY <1>1, <2>1, <3>1 DEF Positions
  <2>2. CASE Write(q, 401) /\ Move(q, "log")
    <3>1. Stranger(q) => status[q].sent \in {0, 401}
      BY DEF BearerInv, OnlyBearerServed
    <3> QED BY <1>1, <1>2, <2>2, <3>1 DEF Positions
  <2> QED BY <1>3, <2>1, <2>2 DEF Auth
<1>4. CASE Answer(q)
  <2>1. PICK s \in Replies(req[q].ep) : Write(q, s)
    BY <1>4 DEF Answer
  <2>2. s \in Nat
    BY <1>4 DEF Answer, Plain, Replies, ContainerReplies, InfoReplies, GpuReplies
  <2>3. ~Stranger(q)
    BY <1>4, Within DEF Answer
  <2> QED BY <1>1, <1>2, <1>4, <2>1, <2>2, <2>3 DEF Answer, Positions
<1>5. CASE BeginChecks(q)
  BY <1>1, <1>5, Within DEF BeginChecks, Positions
<1>6. CASE Report(q)
  <2>1. PICK s \in {200, 503} : Write(q, s)
    BY <1>6 DEF Report
  <2> QED BY <1>1, <1>2, <1>6, <2>1, Within DEF Report, Positions
<1>7. CASE BeginStream(q)
  <2>1. ~Stranger(q)
    BY <1>7, Within DEF BeginStream
  <2>2. \A r \in Requesters : r # q => status'[r] = status[r]
    BY <1>0, <1>7 DEF BeginStream, RefuseExec, WriteHeader, WriteBody, RequestTypes
  <2> QED BY <1>1, <1>7, <2>1, <2>2 DEF BeginStream, RefuseExec, Positions
<1>8. CASE EndStream(q)
  BY <1>1, <1>8, Within DEF EndStream, EndLogs, EndExec, Positions
<1>9. CASE Log(q)
  <2>1. /\ \A r \in Requesters : r # q => status'[r] = status[r]
        /\ status'[q].sent = status[q].sent
    BY <1>0, <1>9 DEF Log, RequestTypes
  <2>2. Stranger(q) => status[q].sent \in {0, 401}
    BY DEF BearerInv, OnlyBearerServed
  <2> QED BY <1>1, <1>9, <2>1, <2>2 DEF Log, Positions
<1>10. ASSUME NEW c \in Checkers, CheckReturns(q, c) PROVE BearerInv'
  <2>1. UNCHANGED <<req, status>>
    BY <1>10 DEF CheckReturns
  <2> QED BY <1>0, <2>1 DEF BearerInv, OnlyBearerServed, NoneBefore, Stranger
<1> QED BY <1>3, <1>4, <1>5, <1>6, <1>7, <1>8, <1>9, <1>10 DEF Handle

(* Every step keeps strangers out. *)
LEMMA BearerStep == ASSUME RequestsInv, BearerInv, [Next]_rVars PROVE BearerInv'
<1> USE DEF Is
<1>0. RequestTypes
  BY DEF RequestsInv
<1>1. CASE Configure
  <2>1. at # "serving" /\ UNCHANGED <<req, status, panicked>>
    BY <1>1, KeyNames DEF Configure, Load, AskAuth, AskPoll, AskToken, AskRest, Outage, History
  <2>2. \A q \in Requesters : Is(q, "new") /\ req[q].ep \in Open
    BY <2>1 DEF BearerInv, NoneBefore
  <2> QED BY <2>1, <2>2 DEF BearerInv, OnlyBearerServed, NoneBefore, Stranger
<1>2. CASE Serve
  <2>1. UNCHANGED <<req, status, panicked>> /\ at' = "serving" /\ at # "serving"
    BY <1>2 DEF Serve, History
  <2>2. \A q \in Requesters : req[q].ep \in Open
    BY <2>1 DEF BearerInv, NoneBefore
  <2> QED BY <2>1, <2>2 DEF BearerInv, OnlyBearerServed, NoneBefore, Stranger
<1>3. ASSUME NEW q \in Requesters, Handle(q) PROVE BearerInv'
  BY <1>3, BearerHandle
<1>4. ASSUME NEW q \in Requesters, Panic(q) PROVE BearerInv'
  <2>1. /\ req[q].pos \in {"handle", "checks", "stream"} /\ UNCHANGED <<at, cfg>>
        /\ Move(q, "done") /\ panicked' = panicked \cup {q}
        /\ \A r \in Requesters : r # q => status'[r] = status[r]
    BY <1>0, <1>4 DEF Panic, Stays, cVars, RequestTypes
  <2>2. ~Stranger(q) /\ at = "serving" /\ "done" \in Positions
    BY <2>1, Within DEF BearerInv, NoneBefore, Positions
  <2> QED BY <1>0, <2>1, <2>2, Moves, OneMoves
<1>5. ASSUME NEW q \in Requesters, Leave(q) PROVE BearerInv'
  <2>1. /\ UNCHANGED <<at, cfg, status, panicked>>
        /\ \A r \in Requesters : /\ req'[r].ep = req[r].ep /\ req'[r].token = req[r].token
                                 /\ req'[r].pos = req[r].pos
    BY <1>0, <1>5 DEF Leave, Stays, cVars, History, RequestTypes
  <2> QED BY <2>1 DEF BearerInv, OnlyBearerServed, NoneBefore, Stranger
<1>6. ASSUME NEW q \in Requesters, NEW ep \in Endpoints, NEW token \in Tokens,
             Arrive(q, ep, token) PROVE BearerInv'
  <2>1. /\ at = "serving" /\ req[q].pos = "new" /\ UNCHANGED <<at, cfg, status, panicked>>
        /\ \A r \in Requesters : r # q => req'[r] = req[r]
        /\ req'[q].ep = ep /\ req'[q].pos = IF ep \in Open THEN "handle" ELSE "auth"
    BY <1>0, <1>6 DEF Arrive, Stays, cVars, RequestTypes
  <2>2. status[q].sent = 0
    BY <2>1 DEF RequestsInv, ResponseSoFar, Unsent
  <2>3. q \notin panicked
    BY <2>1 DEF BearerInv, NoneBefore
  <2>4. OnlyBearerServed'
    BY <2>1, <2>2, <2>3 DEF BearerInv, OnlyBearerServed, Stranger
  <2>5. NoneBefore'
    BY <2>1 DEF BearerInv, NoneBefore
  <2> QED BY <2>4, <2>5 DEF BearerInv
<1>7. ASSUME NEW c \in Checkers, HealthChanges(c) PROVE BearerInv'
  BY <1>7 DEF HealthChanges, cVars, BearerInv, OnlyBearerServed, NoneBefore, Stranger
<1>8. CASE UNCHANGED rVars
  BY <1>8 DEF rVars, cVars, BearerInv, OnlyBearerServed, NoneBefore, Stranger
<1> QED BY <1>1, <1>2, <1>3, <1>4, <1>5, <1>6, <1>7, <1>8 DEF Next

(* Only the bearer of the configured token is served by a protected endpoint, whatever the
   configuration, for any number of requests. *)
THEOREM BearerOnly == Spec => []OnlyBearerServed
<1>1. Init => BearerInv
  BY DEF Init, BearerInv, OnlyBearerServed, NoneBefore, Stranger, Is, Open
<1>2. RequestsInv /\ BearerInv /\ [Next]_rVars => BearerInv'
  BY BearerStep
<1>3. BearerInv => OnlyBearerServed
  BY DEF BearerInv
<1> QED BY RequestsInvariance, <1>1, <1>2, <1>3, PTL DEF Spec
================================================================================
