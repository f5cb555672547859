-------------------------------- MODULE Config --------------------------------
(***************************************************************************)
(* How the daemon comes by its configuration: the choice of the secrets    *)
(* provider (cmd/bonnie/main.go, flagcommons/secrets/factory.go), what the *)
(* two providers answer (env.go, openbao.go), and config.Load, which asks  *)
(* for one setting after the other while OpenBao may fail and recover.     *)
(*                                                                         *)
(* A setting is unset, empty, or what its use can tell apart: a positive   *)
(* number, zero, some text.  "rest" stands for the settings that are read  *)
(* with a default and not looked into.                                     *)
(***************************************************************************)
EXTENDS Naturals, Sequences

VARIABLES
  bao,       \* the provider is OpenBao: its address and token are both set
  value,     \* the settings the provider holds
  up,        \* the provider answers
  at,        \* the setting Load asks for next, or how it ended
  cfg,       \* the settings it has so far
  missed     \* history: settings that were there and could not be read

cVars == <<bao, value, up, at, cfg, missed>>

HF    == <<"bonnie/hf_token", "BONNIE_HF_TOKEN", "HF_TOKEN">>
Asked == <<"auth", "poll", HF[1], HF[2], HF[3], "rest">>
Keys  == {Asked[i] : i \in 1 .. 6}

Settings(k) ==
  CASE k = "poll" -> {"unset", "number", "zero", "text"}
    [] k = "rest" -> {"unset", "text"}
    [] OTHER      -> {"unset", "empty", "text"}

Defaults == [auth |-> "empty", poll |-> "number", hf |-> "empty", from |-> 0,
             rest |-> "default"]

(* OpenBao if its address and token are both set, the environment otherwise. *)
NewProvider == bao \in BOOLEAN

LoadInit ==
  /\ NewProvider /\ up = TRUE /\ at = "auth" /\ cfg = Defaults /\ missed = {}
  /\ value \in {f \in [Keys -> UNION {Settings(k) : k \in Keys}] :
                  \A k \in Keys : f[k] \in Settings(k)}

(* Get: an error if the setting is not there or the provider does not answer. *)
Got(k)    == value[k] # "unset" /\ up
Failed(k) == missed' = IF value[k] # "unset" /\ ~up THEN missed \cup {k} ELSE missed

GoOn(next) == at' = next /\ UNCHANGED <<bao, value, up>>

(* The token is required; every other setting has a default, which GetOrDefault also
   answers with when the provider fails. *)
AskAuth ==
  /\ at = "auth" /\ Failed("auth")
  /\ \/ Got("auth") /\ cfg' = [cfg EXCEPT !.auth = value["auth"]] /\ GoOn("poll")
     \/ ~Got("auth") /\ GoOn("refused") /\ UNCHANGED cfg

(* strconv.Atoi, and the interval must be positive. *)
AskPoll ==
  /\ at = "poll" /\ Failed("poll") /\ UNCHANGED cfg
  /\ GoOn(IF Got("poll") /\ value["poll"] # "number" THEN "refused" ELSE HF[1])

(* The next key is asked only if this one gave nothing. *)
LastWins(i) == TRUE                             \* mutated: a later key overrides
StillEmpty(i) == cfg.hf = "empty"

AskToken(i) ==
  LET k == HF[i] IN
  /\ at = k
  /\ GoOn(Asked[i + 3])
  /\ \/ /\ StillEmpty(i) /\ Got(k) /\ UNCHANGED missed
        /\ cfg' = [cfg EXCEPT !.hf = value[k], !.from = IF value[k] = "empty" THEN 0 ELSE i]
     \/ StillEmpty(i) /\ ~Got(k) /\ Failed(k) /\ UNCHANGED cfg
     \/ ~StillEmpty(i) /\ UNCHANGED <<cfg, missed>>

(* The five settings read with a default alone (log level and format, listen address,
   Docker host, storage directory) are one question: none depends on another. *)
AskRest ==
  /\ at = "rest" /\ Failed("rest") /\ GoOn("loaded")
  /\ cfg' = [cfg EXCEPT !.rest = IF Got("rest") THEN value["rest"] ELSE @]

Load == AskAuth \/ AskPoll \/ (\E i \in 1 .. 3 : AskToken(i)) \/ AskRest

(* OpenBao fails or recovers; the environment is always there (external). *)
Outage == bao /\ at \in Keys /\ up' = ~up /\ UNCHANGED <<bao, value, at, cfg, missed>>
-----------------------------------------------------------------------------
(* Properties *)

Usable(i) == value[HF[i]] = "text" /\ HF[i] \notin missed

(* What Load returns, whenever the provider failed in between: the token that opens the
   API is the configured one, the HuggingFace token is that of the first of its keys
   that has one and could be read ("prefer bonnie/hf_token, then BONNIE_HF_TOKEN, then
   HF_TOKEN", config.go), and a default stands only for what is not set or could not
   be read; without failures nothing is left out. *)
LoadIsFaithful ==
  /\ at = "loaded" =>
       /\ cfg.auth = value["auth"] /\ value["auth"] # "unset"
       /\ value["poll"] \in {"unset", "number"} \/ "poll" \in missed
       /\ \A i \in 1 .. 3 : cfg.from = i => Usable(i) /\ \A j \in 1 .. i - 1 : ~Usable(j)
       /\ cfg.from = 0 => \A i \in 1 .. 3 : ~Usable(i)
       /\ cfg.hf = "text" <=> cfg.from # 0
       /\ cfg.rest = "text" \/ value["rest"] = "unset" \/ "rest" \in missed
  /\ at = "refused" =>
       \/ value["auth"] = "unset" \/ "auth" \in missed
       \/ value["poll"] \in {"zero", "text"} /\ "poll" \notin missed
  /\ ~bao => missed = {}
-----------------------------------------------------------------------------
(* Why it holds: how far Load has come, and what it can have taken. *)

(* The i-th key of the HuggingFace token has been asked for. *)
TokenAsked(i) ==
  at \in {"rest", "loaded"} \cup (IF i = 1 THEN {HF[2], HF[3]} ELSE IF i = 2 THEN {HF[3]} ELSE {})

LoadTypes ==
  /\ bao \in BOOLEAN /\ up \in BOOLEAN /\ missed \subseteq Keys
  /\ at \in Keys \cup {"refused", "loaded", "serving"}
  /\ \A k \in Keys : value[k] \in Settings(k)
  /\ value \in [Keys -> {"unset", "empty", "text", "number", "zero"}]
  /\ cfg \in [auth : {"empty", "text"}, poll : {"number"}, hf : {"empty", "text"},
             from : 0 .. 3, rest : {"default", "text"}]

AskedSoFar ==
  /\ ~bao => up /\ missed = {}
  /\ at \notin {"auth", "refused", "serving"} =>
       cfg.auth = value["auth"] /\ value["auth"] # "unset"
  /\ at \notin {"auth", "poll", "refused", "serving"} =>
       value["poll"] \in {"unset", "number"} \/ "poll" \in missed
  /\ at \in {"auth", "poll"} => "poll" \notin missed

TokenSoFar ==
  /\ at # "serving" => \A i \in 1 .. 3 :
       /\ cfg.from = i => TokenAsked(i) /\ Usable(i) /\ \A j \in 1 .. i - 1 : ~Usable(j)
       /\ cfg.from = 0 /\ TokenAsked(i) => ~Usable(i)
       /\ HF[i] \in missed => TokenAsked(i)
  /\ cfg.hf = "text" <=> cfg.from # 0

LoadInv == LoadTypes /\ AskedSoFar /\ TokenSoFar /\ LoadIsFaithful
=============================================================================
