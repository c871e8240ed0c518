------------------------------ MODULE FrontEnd ------------------------------
(***************************************************************************)
(* The HTTP front end (cmd/talos-mcp/main.go: buildHTTPMux, runServer;     *)
(* cmd/talos-mcp/middleware.go): each request passes the rate limiter, the *)
(* body limit, the token check and, if it is a POST, the semaphore, before *)
(* it reaches the MCP handler; /healthz bypasses all of them.  A signal    *)
(* shuts the server down; the goroutine that does is not waited for.       *)
(*                                                                         *)
(* What a handler does is left to the module that composes this one.       *)
(***************************************************************************)
EXTENDS Integers, FiniteSets

CONSTANTS
    Clients,        \* HTTP requests, each sent once
    HttpRequests,   \* what they may be
    Settings,       \* the limits as the environment gives them
    Unset           \* a limit that is not given, or is no number

AllHttpRequests ==
    [method : {"GET", "POST", "DELETE", "PROBE"}, token : BOOLEAN, big : BOOLEAN]

ASSUME FrontEndAssumption ==
    /\ HttpRequests \subseteq AllHttpRequests
    /\ Settings \subseteq [rate : Int \cup {Unset}, burst : Int \cup {Unset},
                           conc : Int \cup {Unset}]
    /\ Unset \notin Int

VARIABLES
    limits,     \* newHTTPTransportConfig
    tokens,     \* what is left in the bucket of the rate limiter
    sem,        \* the weight that is taken from the semaphore
    http,       \* each request: its place in the chain, what it is, its status
    proc        \* the process: "up", "stopping" or "down"

httpVars == <<limits, tokens, sem, http, proc>>

-----------------------------------------------------------------------------
(* A limit that is not given, or does not parse, has its default; no number *)
(* is refused, be it zero or less.                                          *)
EnvInt(value, fallback) == IF value = Unset THEN fallback ELSE value

NewTransportConfig(s) ==
    [rate  |-> EnvInt(s.rate, 10),
     burst |-> EnvInt(s.burst, 20),
     conc  |-> EnvInt(s.conc, 20)]

(* A bucket is full at the start; a burst of zero or less allows nothing. *)
Full(l) == IF l.burst > 0 THEN l.burst ELSE 0

NoHttp == [method |-> "GET", token |-> FALSE, big |-> FALSE]

HttpInit ==
    /\ limits \in {NewTransportConfig(s) : s \in Settings}
    /\ tokens = Full(limits)
    /\ sem = 0
    /\ http = [r \in Clients |-> [pc |-> "new", req |-> NoHttp, status |-> 0]]
    /\ proc = "up"

At(r, pc) == http[r].pc = pc
Goto(r, pc) == http' = [http EXCEPT ![r].pc = pc]
Reply(r, status) ==
    http' = [http EXCEPT ![r].pc = "done", ![r].status = status]

Running == proc # "down"
IsPost(r) == http[r].req.method = "POST"

-----------------------------------------------------------------------------
(* The listener takes a request while the server is up. *)
RateLimit(r, q) ==
    /\ proc = "up"
    /\ At(r, "new")
    /\ q.method # "PROBE"
    /\ http' = [http EXCEPT ![r] =
                  [pc |-> IF tokens > 0 THEN "auth" ELSE "done", req |-> q,
                   status |-> IF tokens > 0 THEN 0 ELSE 429]]
    /\ tokens' = IF tokens > 0 THEN tokens - 1 ELSE tokens
    /\ UNCHANGED <<limits, sem, proc>>

Refill ==
    /\ Running
    /\ limits.rate > 0
    /\ tokens < Full(limits)
    /\ tokens' = tokens + 1
    /\ UNCHANGED <<limits, sem, http, proc>>

RequireBearerToken(r) ==
    /\ Running
    /\ At(r, "auth")
    /\ IF http[r].req.token THEN Goto(r, "gate") ELSE Reply(r, 401)
    /\ UNCHANGED <<limits, tokens, sem, proc>>

(* LimitConcurrency: only a POST takes a slot, and it takes it before its   *)
(* body is read.                                                            *)
Admit(r) ==
    /\ Running
    /\ At(r, "gate")
    /\ IsPost(r) => sem < limits.conc
    /\ sem' = IF IsPost(r) THEN sem + 1 ELSE sem
    /\ Goto(r, IF IsPost(r) THEN "reading" ELSE "inside")
    /\ UNCHANGED <<limits, tokens, proc>>

Shed(r) ==
    /\ Running
    /\ At(r, "gate")
    /\ IsPost(r) /\ sem >= limits.conc
    /\ Reply(r, 503)
    /\ UNCHANGED <<limits, tokens, sem, proc>>

(* The body of a POST has come, or more of it than the limit: nothing makes *)
(* the client send it, the server having no ReadTimeout.                    *)
BodyArrives(r) ==
    /\ Running
    /\ At(r, "reading")
    /\ Goto(r, "inside")
    /\ UNCHANGED <<limits, tokens, sem, proc>>

(* Mutant: a slot is given back only when there is an answer. *)
Released_Answered(r, status) ==
    IF IsPost(r) /\ status # 0 THEN sem - 1 ELSE sem
Released(r, status) == IF IsPost(r) THEN sem - 1 ELSE sem

(* The requests that have passed the semaphore. *)
InHandler == {r \in Clients : http[r].pc \in {"reading", "inside"}}

(* The handler returns, with an answer or, status 0, because the client has *)
(* gone; the slot is given back however it returns.                         *)
Leave(r, status) ==
    /\ Running
    /\ r \in InHandler
    /\ sem' = Released(r, status)
    /\ Reply(r, status)
    /\ UNCHANGED <<limits, tokens, proc>>

(* A POST that is longer than the limit fails when it is read. *)
TooBig(r) == IsPost(r) /\ http[r].req.big
RefuseBody(r) == At(r, "inside") /\ TooBig(r) /\ Leave(r, 400)

-----------------------------------------------------------------------------
(* /healthz: no token, no limiter, no slot. *)
Probe(r, q) ==
    /\ proc = "up"
    /\ At(r, "new")
    /\ q.method = "PROBE"
    /\ http' = [http EXCEPT ![r] = [pc |-> "probing", req |-> q, status |-> 0]]
    /\ UNCHANGED <<limits, tokens, sem, proc>>

ProbeAnswered(r) ==
    /\ Running
    /\ At(r, "probing")
    /\ Reply(r, 200)
    /\ UNCHANGED <<limits, tokens, sem, proc>>

(* The RPC fails, or five seconds pass. *)
(* Mutant: the probe has no timeout. *)
ProbeFails_NoTimeout(r) == FALSE /\ UNCHANGED httpVars
ProbeFails(r) ==
    /\ Running
    /\ At(r, "probing")
    /\ Reply(r, 503)
    /\ UNCHANGED <<limits, tokens, sem, proc>>

-----------------------------------------------------------------------------
Signal ==
    /\ proc = "up"
    /\ proc' = "stopping"
    /\ UNCHANGED <<limits, tokens, sem, http>>

(* ListenAndServe returns as soon as Shutdown has closed the listener, and  *)
(* main with it; whatever is under way is cut off.                          *)
Exit ==
    /\ proc = "stopping"
    /\ proc' = "down"
    /\ http' = [r \in Clients |->
                  IF http[r].pc \in {"new", "done"} THEN http[r]
                  ELSE [http[r] EXCEPT !.pc = "cut"]]
    /\ sem' = 0
    /\ UNCHANGED <<limits, tokens>>

(* The process is started again, with the same environment. *)
Restart ==
    /\ proc = "down"
    /\ proc' = "up"
    /\ tokens' = Full(limits)
    /\ UNCHANGED <<limits, sem, http>>

Receive(r) == \E q \in HttpRequests : RateLimit(r, q) \/ Probe(r, q)

(* The steps of a request up to its handler. *)
Chain(r) ==
    \/ RequireBearerToken(r)
    \/ Admit(r)
    \/ Shed(r)
    \/ RefuseBody(r)
    \/ ProbeFails(r)

-----------------------------------------------------------------------------
Holders == {r \in InHandler : IsPost(r)}

(* Every slot of the semaphore is held by a POST with the right token that  *)
(* is in the handler, none is lost, and there are no more of them than the  *)
(* limit, none if it is zero or less.                                       *)
SlotsAccounted ==
    /\ sem = Cardinality(Holders)
    /\ sem <= (IF limits.conc > 0 THEN limits.conc ELSE 0)
    /\ \A r \in InHandler : http[r].req.token

HttpStates ==
    [pc : {"new", "auth", "gate", "reading", "inside", "probing", "done", "cut"},
     req : HttpRequests \cup {NoHttp}, status : {0, 200, 400, 401, 429, 503}]

HttpTypeOK ==
    /\ limits \in {NewTransportConfig(s) : s \in Settings}
    /\ tokens \in 0 .. Full(limits)
    /\ sem \in Nat
    /\ http \in [Clients -> HttpStates]
    /\ proc \in {"up", "stopping", "down"}
    /\ \A r \in Clients : http[r].pc = "gate" => http[r].req.token
=============================================================================
