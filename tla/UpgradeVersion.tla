--------------------------- MODULE UpgradeVersion ---------------------------
(***************************************************************************)
(* internal/tools/lifecycle.go: talos_upgrade (HandleUpgrade) and          *)
(* talos_rollback (HandleRollback), with the path rule of internal/version *)
(* and the cluster version that internal/talos/client.go caches under an   *)
(* RWMutex (GetClusterVersion, InvalidateVersionCache).                    *)
(*                                                                         *)
(* A version is <<major, minor, patch>>.  A node that accepts an upgrade   *)
(* runs it after a restart of its own.  One action is one step between two *)
(* points where another goroutine can run: an RPC at the node, its answer, *)
(* a lock operation.                                                       *)
(*                                                                         *)
(* Left out: what preserve, stage, force and the reboot mode ask of the    *)
(* node; warnings and progress notifications.                              *)
(***************************************************************************)
EXTENDS Naturals, Sequences

CONSTANTS
    Calls,      \* tool calls, and reads of the cluster version
    Nodes,      \* Talos nodes
    Endpoint,   \* the node a request without node metadata goes to
    Versions,   \* versions of Talos
    None,       \* no version
    NoCall,     \* nobody holds the write lock
    SkipCheck,  \* TALOS_MCP_SKIP_VERSION_CHECK
    Requests    \* the requests each call may make

(* tagged: the image's tag parses as a version, which is then image.  sound: *)
(* the call is confirmed and its image and reboot mode are valid.            *)
AllRequests == [kind : {"upgrade", "rollback", "version"}, nodes : Seq(Nodes),
                image : Versions, tagged : BOOLEAN, sound : BOOLEAN, allowed : BOOLEAN]

ASSUME VersionAssumption ==
    /\ Versions \subseteq Nat \X Nat \X Nat
    /\ Versions # {}
    /\ Endpoint \in Nodes
    /\ None \notin Versions
    /\ NoCall \notin Calls
    /\ SkipCheck \in BOOLEAN
    /\ Requests \in [Calls -> SUBSET AllRequests]

VARIABLES
    pc,         \* each call: where its handler is
    req,        \* its arguments
    seen,       \* the version it has fetched, or is answered with
    took,       \* the nodes that accepted its RPC
    cache,      \* versionCached
    readers,    \* calls that hold versionMu for reading
    writer,     \* the call that holds it for writing
    running,    \* each node: the version it runs,
    next,       \* the one it starts with next,
    last,       \* and the one it ran before
    current,    \* history: versions of the endpoint since the cache was last cleared
    window      \* history: versions each call may rely on

callVars == <<pc, req, seen, took>>
lockVars == <<cache, readers, writer>>
nodeVars == <<running, next, last>>
pastVars == <<current, window>>
vars == <<callVars, lockVars, nodeVars, pastVars>>

Pcs == {"idle", "checking", "issuing", "clearing", "rlocking", "reading",
        "locking", "fetching", "storing", "refused", "failed", "ok"}
Finished == {"refused", "failed", "ok"}

TypeOK ==
    /\ pc \in [Calls -> Pcs]
    /\ req \in [Calls -> AllRequests]
    /\ seen \in [Calls -> Versions \cup {None}]
    /\ took \in [Calls -> SUBSET Nodes]
    /\ cache \in Versions \cup {None}
    /\ readers \subseteq Calls
    /\ writer \in Calls \cup {NoCall}
    /\ running \in [Nodes -> Versions]
    /\ next \in [Nodes -> Versions]
    /\ last \in [Nodes -> Versions \cup {None}]
    /\ current \subseteq Versions
    /\ window \in [Calls -> SUBSET Versions]

(* main.go:169: the version is cached at start-up, or that fetch failed. *)
Init ==
    /\ pc = [c \in Calls |-> "idle"]
    /\ req \in [Calls -> UNION {Requests[c] : c \in Calls}]
    /\ \A c \in Calls : req[c] \in Requests[c]
    /\ seen = [c \in Calls |-> None]
    /\ took = [c \in Calls |-> {}]
    /\ readers = {}
    /\ writer = NoCall
    /\ running \in [Nodes -> Versions]
    /\ next = running
    /\ last = [n \in Nodes |-> None]
    /\ cache \in {None, running[Endpoint]}
    /\ current = {running[Endpoint]}
    /\ window = [c \in Calls |-> {}]

-----------------------------------------------------------------------------
(* internal/version *)
Less(v, w) ==
    \/ v[1] < w[1]
    \/ v[1] = w[1] /\ v[2] < w[2]
    \/ v[1] = w[1] /\ v[2] = w[2] /\ v[3] < w[3]

(* Mutant: the same version is let through. *)
ValidPath_Same(v, w) == w[1] = v[1] /\ ~Less(w, v) /\ w[2] - v[2] <= 1
(* ValidateUpgradePath from v to w. *)
ValidPath(v, w) == w[1] = v[1] /\ ~(Less(w, v) \/ w = v) /\ w[2] - v[2] <= 1

-----------------------------------------------------------------------------
Targets(c) == {req[c].nodes[i] : i \in DOMAIN req[c].nodes}
(* The node whose version counts for the call. *)
Asked(c) == IF req[c].kind = "upgrade" THEN req[c].nodes[1] ELSE Endpoint

Goto(c, p) == pc' = [pc EXCEPT ![c] = p]

(* The guards of HandleUpgrade and HandleRollback. *)
Admitted(r) ==
    r.kind # "version" => r.sound /\ r.nodes # <<>> /\ r.allowed

(* The version is not checked: skipped, or the tag says nothing. *)
Unchecked(r) == r.kind = "rollback" \/ SkipCheck \/ ~r.tagged

Refuse(c) ==
    /\ pc[c] = "idle" /\ ~Admitted(req[c])
    /\ Goto(c, "refused")
    /\ UNCHANGED <<req, seen, took, lockVars, nodeVars, pastVars>>

Begin(c) ==
    /\ pc[c] = "idle" /\ Admitted(req[c])
    /\ Goto(c, IF req[c].kind = "version" THEN "rlocking"
               ELSE IF Unchecked(req[c]) THEN "issuing" ELSE "checking")
    /\ window' = [window EXCEPT ![c] = IF req[c].kind = "version" THEN current
                                       ELSE {running[Asked(c)]}]
    /\ UNCHANGED <<req, seen, took, lockVars, nodeVars, current>>

(* Mutant: the upgrade is checked against the cached version. *)
NodeVersion_Cached(c) == IF cache # None THEN cache ELSE running[Asked(c)]
(* GetNodeVersion of the first node: never the cache. *)
NodeVersion(c) == running[Asked(c)]

Check(c) ==
    /\ pc[c] = "checking"
    /\ seen' = [seen EXCEPT ![c] = NodeVersion(c)]
    /\ Goto(c, IF ValidPath(seen'[c], req[c].image) THEN "issuing" ELSE "refused")
    /\ UNCHANGED <<req, took, lockVars, nodeVars, pastVars>>

(* The node's version cannot be fetched: a warning, and on. *)
CheckFails(c) ==
    /\ pc[c] = "checking"
    /\ Goto(c, "issuing")
    /\ UNCHANGED <<req, seen, took, lockVars, nodeVars, pastVars>>

(* The RPC goes to all nodes at once; some may accept it and others fail,   *)
(* and the answer may be lost.  A node can roll back to what it ran before. *)
Issue(c) ==
    /\ pc[c] = "issuing"
    /\ \E A \in SUBSET {n \in Targets(c) : req[c].kind = "upgrade" \/ last[n] # None} :
          /\ took' = [took EXCEPT ![c] = A]
          /\ next' = [n \in Nodes |->
                        IF n \notin A THEN next[n]
                        ELSE IF req[c].kind = "upgrade" THEN req[c].image ELSE last[n]]
          /\ \/ A = Targets(c) /\ Goto(c, "clearing")
             \/ Goto(c, "failed")
    /\ UNCHANGED <<req, seen, lockVars, running, last, pastVars>>

(* A node starts the version it has been given. *)
Restart(n) ==
    /\ next[n] # running[n]
    /\ running' = [running EXCEPT ![n] = next[n]]
    /\ last' = [last EXCEPT ![n] = running[n]]
    /\ current' = IF n = Endpoint THEN current \cup {next[n]} ELSE current
    /\ window' = [c \in Calls |->
                    IF pc[c] \notin {"idle"} \cup Finished /\ Asked(c) = n
                    THEN window[c] \cup {next[n]} ELSE window[c]]
    /\ UNCHANGED <<callVars, lockVars, next>>

-----------------------------------------------------------------------------
(* sync.RWMutex: who waits to write keeps new readers out. *)
WaitsToWrite(c) == pc[c] \in {"locking", "clearing"}
CanRead == writer = NoCall /\ \A d \in Calls : ~WaitsToWrite(d)
CanWrite == writer = NoCall /\ readers = {}

(* Mutant: the cache is cleared without the lock. *)
CanClear_Always == TRUE
CanClear == CanWrite

(* InvalidateVersionCache, and the handler's answer. *)
Clear(c) ==
    /\ pc[c] = "clearing" /\ CanClear
    /\ cache' = None
    /\ current' = {running[Endpoint]}
    /\ Goto(c, "ok")
    /\ UNCHANGED <<req, seen, took, readers, writer, nodeVars, window>>

RLock(c) ==
    /\ pc[c] = "rlocking" /\ CanRead
    /\ readers' = readers \cup {c}
    /\ Goto(c, "reading")
    /\ UNCHANGED <<req, seen, took, cache, writer, nodeVars, pastVars>>

(* Mutant: the read lock is kept over the slow path. *)
Released_Kept(c) == IF cache = None THEN readers ELSE readers \ {c}
Released(c) == readers \ {c}

(* The fast path: a hit is the answer. *)
ReadCache(c) ==
    /\ pc[c] = "reading"
    /\ readers' = Released(c)
    /\ seen' = [seen EXCEPT ![c] = cache]
    /\ Goto(c, IF cache # None THEN "ok" ELSE "locking")
    /\ UNCHANGED <<req, took, cache, writer, nodeVars, pastVars>>

(* Mutant: no second look at the cache. *)
Filled_NotAsked == FALSE
Filled == cache # None

(* The slow path: somebody may have filled the cache in between. *)
Lock(c) ==
    /\ pc[c] = "locking" /\ CanWrite
    /\ \/ /\ Filled
          /\ seen' = [seen EXCEPT ![c] = cache]
          /\ Goto(c, "ok")
          /\ UNCHANGED writer
       \/ /\ ~Filled
          /\ writer' = c
          /\ Goto(c, "fetching")
          /\ UNCHANGED seen
    /\ UNCHANGED <<req, took, cache, readers, nodeVars, pastVars>>

(* The endpoint answers the Version RPC ... *)
Fetch(c) ==
    /\ pc[c] = "fetching"
    /\ seen' = [seen EXCEPT ![c] = running[Endpoint]]
    /\ Goto(c, "storing")
    /\ UNCHANGED <<req, took, lockVars, nodeVars, pastVars>>

(* ... or does not, or with nothing that can be parsed. *)
FetchFails(c) ==
    /\ pc[c] = "fetching"
    /\ writer' = NoCall
    /\ Goto(c, "failed")
    /\ UNCHANGED <<req, seen, took, cache, readers, nodeVars, pastVars>>

Store(c) ==
    /\ pc[c] = "storing"
    /\ cache' = seen[c]
    /\ writer' = NoCall
    /\ Goto(c, "ok")
    /\ UNCHANGED <<req, seen, took, readers, nodeVars, pastVars>>

-----------------------------------------------------------------------------
Tool(c) == Refuse(c) \/ Begin(c) \/ Check(c) \/ CheckFails(c) \/ Issue(c) \/ Clear(c)
Reader(c) == RLock(c) \/ ReadCache(c) \/ Lock(c) \/ Fetch(c) \/ FetchFails(c) \/ Store(c)

Next ==
    \/ \E c \in Calls : Tool(c) \/ Reader(c)
    \/ \E n \in Nodes : Restart(n)

Spec == Init /\ [][Next]_vars

(* A call that has begun goes on; RPCs return (client.go:35-39).  Clients    *)
(* need not call, nor nodes restart.                                         *)
Proceeds(c) == pc[c] # "idle" /\ (Tool(c) \/ Reader(c))
Fairness == \A c \in Calls : WF_vars(Proceeds(c))

FairSpec == Spec /\ Fairness

-----------------------------------------------------------------------------
(* The rule as the README gives it (93-95) and ValidateUpgradePath's        *)
(* comment: the same major version, the same or the next minor version, and *)
(* strictly newer.                                                          *)
PathRule(v, w) ==
    /\ w[1] = v[1]
    /\ \/ w[2] = v[2] /\ w[3] > v[3]
       \/ w[2] = v[2] + 1

(* No node accepts an upgrade that broke the rule for the version its first *)
(* node reported, unless the check was switched off or had nothing to       *)
(* compare; none accepts anything from a call that is not admitted.         *)
PathChecked ==
    \A c \in Calls : took[c] # {} =>
        /\ Admitted(req[c])
        /\ took[c] \subseteq Targets(c)
        /\ ~Unchecked(req[c]) /\ seen[c] # None => PathRule(seen[c], req[c].image)

(* An upgrade is checked against a version its first node ran during the    *)
(* call; and whoever asks for the cluster version after a tool has cleared  *)
(* the cache is given one that the endpoint has run since that moment, not  *)
(* one fetched before it, however the fetches, restarts and other calls     *)
(* interleave (client.go:85-89, 121-122).  The comments promise more: that  *)
(* the node runs the new version by then (lifecycle.go:422, 460) and that   *)
(* what is fetched is fresh (client.go:141-143).  That does not hold: a     *)
(* reader between the clearing and the restart caches the old version.      *)
NothingStale == \A c \in Calls : seen[c] # None => seen[c] \in window[c]

(* The cluster version is fetched only when none is cached, by one call at  *)
(* a time (client.go:101-103).                                              *)
OneFetch ==
    \A c, d \in Calls : pc[c] \in {"fetching", "storing"} =>
        cache = None /\ (pc[d] \in {"fetching", "storing"} => c = d)

(* Every call that has begun is answered; the lock, held over an RPC, stops *)
(* nobody for good.                                                         *)
Answered == \A c \in Calls : pc[c] # "idle" ~> pc[c] \in Finished

-----------------------------------------------------------------------------
(* The inductive invariant. *)

(* Who holds versionMu. *)
Held ==
    /\ \A c \in Calls : writer = c <=> pc[c] \in {"fetching", "storing"}
    /\ \A c \in Calls : c \in readers <=> pc[c] = "reading"
    /\ writer # NoCall => readers = {} /\ cache = None

(* Which calls are where. *)
Places ==
    \A c \in Calls :
        /\ pc[c] \notin {"idle", "refused"} => Admitted(req[c])
        /\ pc[c] \in {"rlocking", "reading", "locking", "fetching", "storing"} <=>
              req[c].kind = "version" /\ pc[c] \notin {"idle"} \cup Finished
        /\ pc[c] \in {"idle", "checking", "rlocking", "reading", "locking", "fetching"} =>
              seen[c] = None
        /\ pc[c] = "storing" => seen[c] # None
        /\ pc[c] \notin {"clearing", "failed", "ok"} => took[c] = {}

(* What calls have been given, and will be given, is not too old.           *)
Recent ==
    /\ running[Endpoint] \in current
    /\ cache # None => cache \in current
    /\ \A c \in Calls : pc[c] \notin {"idle"} \cup Finished =>
          /\ running[Asked(c)] \in window[c]
          /\ req[c].kind = "version" => current \subseteq window[c]
    /\ \A c \in Calls : pc[c] = "storing" => seen[c] \in current

(* An upgrade that passed its check followed the rule. *)
Passed ==
    \A c \in Calls :
        pc[c] \in {"issuing", "clearing", "failed", "ok"} /\ req[c].kind = "upgrade"
            /\ seen[c] # None => PathRule(seen[c], req[c].image)

IInv ==
    /\ TypeOK
    /\ Held
    /\ Places
    /\ Recent
    /\ Passed
    /\ PathChecked
    /\ NothingStale
    /\ OneFetch
=============================================================================
