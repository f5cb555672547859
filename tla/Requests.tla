------------------------------- MODULE Requests -------------------------------
(***************************************************************************)
(* Requests to the daemon from the router to the log record: Recovery,     *)
(* Logging and Auth (api/router.go, api/middleware), the health endpoints  *)
(* with the concurrent checks of their registry, and the other handlers of *)
(* system, GPU, containers and exec.  Those of models and benchmark runs   *)
(* are in ModelStore and PairedRun.                                        *)
(*                                                                         *)
(* A response is its status: net/http sends the first one written, and 200 *)
(* when a body or a flush comes first; Logging notes the last one written. *)
(***************************************************************************)
EXTENDS Config

CONSTANTS
  Requesters,   \* requests, one each
  Checkers,     \* the checkers that are registered
  Docker        \* the one of them, and of /ready, that pings Docker

ASSUME RequestsAssumption == Docker \in Checkers

VARIABLES
  health,       \* each checked service (external): well, ill, or not answering
  req,          \* each request: endpoint, token, position, is its client gone
  status,       \* each response: the status sent, noted by Logging, and logged
  slot,         \* RunAll's results: each check of each request
  wasWell, wasIll,  \* history: the services that were well, and that were not, at some
                \* time since the request began
  panicked      \* history: the requests whose handler panicked

rVars == <<cVars, health, req, status, slot, wasWell, wasIll, panicked>>

(* What a handler that answers at once can answer.  System information and GPU snapshots
   never fail to be read: what is missing is left empty. *)
InfoReplies == {200}
GpuReplies  == {200}
ContainerReplies ==
  [list |-> {200, 500}, inspect |-> {200, 404}, create |-> {201, 400, 500},
   change |-> {200, 500}, remove |-> {204, 500}]
Replies(ep) ==
  CASE ep = "info"                   -> InfoReplies
    [] ep \in {"metrics", "gpu"}     -> GpuReplies
    [] ep \in {"unknown", "noroute"} -> {404, 405}
    [] OTHER                         -> ContainerReplies[ep]

Plain     == DOMAIN ContainerReplies \cup {"info", "metrics", "gpu", "unknown", "noroute"}
Probes    == {"health", "ready"}
Streams   == {"logs", "exec"}
Endpoints == Plain \cup Probes \cup Streams
Open      == Probes \cup {"metrics", "unknown"}   \* served without a token; what is
                                                  \* unknown below /api/v1 is "noroute"

Unsent == [sent |-> 0, noted |-> 200, logged |-> 0]
Blank  == [c \in Checkers |-> "none"]

Init ==
  /\ LoadInit
  /\ health = [c \in Checkers |-> "well"]
  /\ req = [q \in Requesters |-> [ep |-> "unknown", token |-> "absent", pos |-> "new",
                                  gone |-> FALSE]]
  /\ status = [q \in Requesters |-> Unsent] /\ slot = [q \in Requesters |-> Blank]
  /\ wasWell = [q \in Requesters |-> {}] /\ wasIll = [q \in Requesters |-> {}]
  /\ panicked = {}

History == <<wasWell, wasIll, panicked>>
-----------------------------------------------------------------------------
Move(q, pos) == req' = [req EXCEPT ![q].pos = pos]
Is(q, pos)   == req[q].pos = pos

(* WriteHeader: Logging's writer notes the status, net/http sends the first. *)
WriteHeader(q, s) ==
  status' = [status EXCEPT ![q].noted = s, ![q].sent = IF @ = 0 THEN s ELSE @]
(* Write or Flush without it. *)
WriteBody(q) == status' = [status EXCEPT ![q].sent = IF @ = 0 THEN 200 ELSE @]
Write(q, s)  == IF s = 200 THEN WriteBody(q) ELSE WriteHeader(q, s)

(* The daemon serves; its configuration is no longer looked into but for the token. *)
Serve ==
  /\ at = "loaded" /\ at' = "serving"
  /\ cfg' = [Defaults EXCEPT !.auth = cfg.auth] /\ missed' = {} /\ up' = TRUE
  /\ bao' = FALSE /\ value' = [k \in Keys |-> "unset"]
  /\ UNCHANGED <<health, req, status, slot, History>>

Stays == UNCHANGED <<cVars, health>>

Arrive(q, ep, token) ==
  /\ at = "serving" /\ Is(q, "new")
  /\ req' = [req EXCEPT ![q] = [ep |-> ep, token |-> token, gone |-> FALSE,
                pos |-> IF ep \in Open THEN "handle" ELSE "auth"]]
  /\ wasWell' = [wasWell EXCEPT ![q] = {c \in Checkers : health[c] = "well"}]
  /\ wasIll' = [wasIll EXCEPT ![q] = {c \in Checkers : health[c] # "well"}]
  /\ Stays /\ UNCHANGED <<status, slot, panicked>>

(* Auth: a header that is missing, of another form or with another token is refused.  The
   comparison is one of strings: an empty configured token is matched by an empty one. *)
AuthFallsThrough(q) ==           \* mutated: no return after the 401
  /\ Is(q, "auth") /\ Stays /\ UNCHANGED <<slot, History>>
  /\ Move(q, "handle")
  /\ IF req[q].token = cfg.auth THEN UNCHANGED status ELSE Write(q, 401)
Auth(q) ==
  /\ Is(q, "auth") /\ Stays /\ UNCHANGED <<slot, History>>
  /\ \/ req[q].token = cfg.auth /\ Move(q, "handle") /\ UNCHANGED status
     \/ req[q].token # cfg.auth /\ Write(q, 401) /\ Move(q, "log")

(* A handler that answers at once. *)
Answer(q) ==
  /\ Is(q, "handle") /\ req[q].ep \in Plain
  /\ \E s \in Replies(req[q].ep) : Write(q, s)
  /\ Move(q, "log") /\ Stays /\ UNCHANGED <<slot, History>>
-----------------------------------------------------------------------------
(* The health endpoints: RunAll starts a goroutine for every checker and waits for all
   of them; Ready pings Docker. *)
Probed(q) == IF req[q].ep = "health" THEN Checkers ELSE {Docker}

BeginChecks(q) ==
  /\ Is(q, "handle") /\ req[q].ep \in Probes
  /\ Move(q, "checks") /\ Stays /\ UNCHANGED <<status, slot, History>>

(* A check gives the state of its service, or an error once the client is gone. *)
CheckForgets(q, c) ==            \* mutated: a check that fails does not call Done
  /\ Is(q, "checks") /\ c \in Probed(q) /\ slot[q][c] = "none"
  /\ health[c] = "well" /\ slot' = [slot EXCEPT ![q][c] = "up"]
  /\ Stays /\ UNCHANGED <<req, status, History>>
CheckReturns(q, c) ==
  /\ Is(q, "checks") /\ c \in Probed(q) /\ slot[q][c] = "none"
  /\ \/ health[c] = "well" /\ slot' = [slot EXCEPT ![q][c] = "up"]
     \/ (health[c] = "ill" \/ req[q].gone) /\ slot' = [slot EXCEPT ![q][c] = "down"]
  /\ Stays /\ UNCHANGED <<req, status, History>>

AnyDone(q) == \E c \in Probed(q) : slot[q][c] # "none"   \* mutated: the first is enough
AllDone(q) == \A c \in Probed(q) : slot[q][c] # "none"

Report(q) ==
  /\ Is(q, "checks") /\ AllDone(q)
  /\ Write(q, IF \A c \in Probed(q) : slot[q][c] = "up" THEN 200 ELSE 503)
  /\ slot' = [slot EXCEPT ![q] = Blank] /\ Move(q, "log")
  /\ Stays /\ UNCHANGED History
-----------------------------------------------------------------------------
(* Event streams: a bad request is refused before the first flush, which sends 200; what
   fails after it, the command or the log stream, ends the stream. *)
RefuseExec(q) == req[q].ep = "exec" /\ WriteHeader(q, 400) /\ Move(q, "log")

BeginStream(q) ==
  /\ Is(q, "handle") /\ req[q].ep \in Streams /\ Stays /\ UNCHANGED <<slot, History>>
  /\ RefuseExec(q) \/ (WriteBody(q) /\ Move(q, "stream"))

EndLogs(q) == req[q].ep = "logs" /\ Move(q, "log")
EndExec(q) == req[q].ep = "exec" /\ Move(q, "log")

EndWithError(q) ==               \* mutated: writeError when the stream fails
  /\ Is(q, "stream") /\ (UNCHANGED status \/ WriteHeader(q, 500)) /\ Move(q, "log")
  /\ Stays /\ UNCHANGED <<slot, History>>
EndStream(q) ==
  /\ Is(q, "stream") /\ UNCHANGED status /\ (EndLogs(q) \/ EndExec(q))
  /\ Stays /\ UNCHANGED <<slot, History>>
-----------------------------------------------------------------------------
(* Logging, when the handler returns. *)
Log(q) ==
  /\ Is(q, "log") /\ status' = [status EXCEPT ![q].logged = status[q].noted]
  /\ Move(q, "done") /\ Stays /\ UNCHANGED <<slot, History>>

(* A handler panics: Recovery writes 500 past Logging, which does not come to its
   record.  After a flush the status is sent already.  (A check of RunAll has a goroutine
   of its own: its panic ends the process.) *)
Panic(q) ==
  /\ Is(q, "handle") \/ Is(q, "stream") \/ (Is(q, "checks") /\ req[q].ep = "ready")
  /\ status' = [status EXCEPT ![q].sent = IF @ = 0 THEN 500 ELSE @]
  /\ slot' = [slot EXCEPT ![q] = Blank] /\ panicked' = panicked \cup {q}
  /\ Move(q, "done") /\ Stays /\ UNCHANGED <<wasWell, wasIll>>

(* The client goes away: the request's context is done (external). *)
Leave(q) ==
  /\ req[q].pos \notin {"new", "done"} /\ ~req[q].gone
  /\ req' = [req EXCEPT ![q].gone = TRUE]
  /\ Stays /\ UNCHANGED <<status, slot, History>>

(* A service fails, hangs or recovers (external). *)
HealthChanges(c) ==
  /\ at = "serving"
  /\ \E h \in {"well", "ill", "hung"} \ {health[c]} :
       /\ health' = [health EXCEPT ![c] = h]
       /\ wasWell' = IF h = "well" THEN [q \in Requesters |-> wasWell[q] \cup {c}] ELSE wasWell
       /\ wasIll' = IF h # "well" THEN [q \in Requesters |-> wasIll[q] \cup {c}] ELSE wasIll
  /\ UNCHANGED <<cVars, req, status, slot, panicked>>

Handle(q) ==
  \/ Auth(q) \/ Answer(q) \/ BeginChecks(q) \/ Report(q) \/ BeginStream(q) \/ EndStream(q)
  \/ Log(q) \/ \E c \in Checkers : CheckReturns(q, c)

Configure == (Load \/ Outage) /\ UNCHANGED <<health, req, status, slot, History>>

(* What a request bears: no token, some other one, the empty one, or the text configured. *)
Tokens == {"absent", "wrong", "empty", "text"}

Next ==
  \/ Configure \/ Serve
  \/ \E q \in Requesters :
       \/ Handle(q) \/ Panic(q) \/ Leave(q)
       \/ \E ep \in Endpoints, token \in Tokens : Arrive(q, ep, token)
  \/ \E c \in Checkers : HealthChanges(c)

Spec == Init /\ [][Next]_rVars

(* All that handlers wait for has the request's context: it returns once the client is
   gone.  Before, Docker or a command may take for ever; a command also after, as os/exec
   waits for every process that has inherited its output. *)
Free(q) == req[q].gone /\ req[q].ep # "exec"
FairSpec == Spec /\ \A q \in Requesters : WF_rVars(Free(q) /\ Handle(q))
-----------------------------------------------------------------------------
(* Properties *)

(* The status in the log is the one the client was sent. *)
LoggedIsSent ==
  \A q \in Requesters : Is(q, "done") /\ q \notin panicked =>
    status[q].logged = status[q].sent /\ status[q].sent # 0

(* A health report tells what was true while it was made, however the concurrent checks
   and the services' failures interleave: 200 only if each service asked for was well
   at some time, 503 only if one was not, or the client did not wait. *)
HealthIsTruthful ==
  \A q \in Requesters :
    req[q].ep \in Probes /\ req[q].pos \in {"log", "done"} /\ q \notin panicked =>
      /\ status[q].sent = 200 => Probed(q) \subseteq wasWell[q]
      /\ status[q].sent = 503 => req[q].gone \/ Probed(q) \cap wasIll[q] # {}

(* A protected endpoint does nothing for a request that does not bear the very token
   config.Load came by, and says nothing but 401, whether handlers panic and clients
   leave.  A configured token that is empty is such a token, too. *)
Stranger(q) == req[q].ep \notin Open /\ req[q].token # cfg.auth
OnlyBearerServed ==
  \A q \in Requesters : Stranger(q) =>
    req[q].pos \in {"auth", "log", "done"} /\ status[q].sent \in {0, 401} /\ q \notin panicked

(* A request whose client has gone comes to its end, also if a service does not answer,
   so that it does not hold up the daemon's shutdown; only a command may go on. *)
GoneIsOver == \A q \in Requesters : Free(q) ~> Is(q, "done")
-----------------------------------------------------------------------------
(* Why these hold: what a response has come to at each position, and what a check that
   is in can have seen. *)

Positions == {"new", "auth", "handle", "checks", "stream", "log", "done"}

(* Every variable has its type. *)
RequestTypes ==
  /\ health \in [Checkers -> {"well", "ill", "hung"}]
  /\ req \in [Requesters -> [ep : Endpoints, token : Tokens, pos : Positions, gone : BOOLEAN]]
  /\ status \in [Requesters -> [sent : Nat, noted : Nat, logged : Nat]]
  /\ slot \in [Requesters -> [Checkers -> {"none", "up", "down"}]]
  /\ wasWell \in [Requesters -> SUBSET Checkers] /\ wasIll \in [Requesters -> SUBSET Checkers]
  /\ panicked \subseteq Requesters

ResponseSoFar ==
  \A q \in Requesters :
    /\ req[q].pos \in {"new", "auth", "handle", "checks"} => status[q] = Unsent
    /\ req[q].pos \in {"stream", "log"} => status[q].sent = status[q].noted /\ status[q].sent # 0
    /\ Is(q, "stream") => req[q].ep \in Streams
    /\ Is(q, "checks") => req[q].ep \in Probes
    /\ Is(q, "auth") => req[q].ep \notin Open

SeenSoFar ==
  \A q \in Requesters, c \in Checkers :
    ~Is(q, "new") =>
      /\ health[c] = "well" => c \in wasWell[q]
      /\ health[c] # "well" => c \in wasIll[q]
      /\ slot[q][c] = "up" => c \in wasWell[q]
      /\ slot[q][c] = "down" => req[q].gone \/ c \in wasIll[q]

ChecksEmpty == \A q \in Requesters : ~Is(q, "checks") => slot[q] = Blank

(* No request is there before the daemon serves. *)
NoneBefore ==
  \A q \in Requesters :
    (at # "serving" => Is(q, "new")) /\ (Is(q, "new") => req[q].ep \in Open /\ q \notin panicked)

(* What every step preserves. *)
RequestsInv ==
  /\ LoadInv /\ RequestTypes /\ ResponseSoFar /\ SeenSoFar /\ ChecksEmpty
  /\ LoggedIsSent /\ HealthIsTruthful
=============================================================================
