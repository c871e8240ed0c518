------------------------ MODULE UpgradeVersionProofs ------------------------
(***************************************************************************)
(* Proofs about UpgradeVersion, for any calls, nodes and versions.         *)
(***************************************************************************)
EXTENDS UpgradeVersion, TLAPS

(* ValidateUpgradePath decides the rule, for all versions.                   *)
THEOREM PathRuleDecided ==
    ASSUME NEW v \in Nat \X Nat \X Nat, NEW w \in Nat \X Nat \X Nat
    PROVE  ValidPath(v, w) <=> PathRule(v, w)
<1>1. /\ v[1] \in Nat /\ v[2] \in Nat /\ v[3] \in Nat
      /\ w[1] \in Nat /\ w[2] \in Nat /\ w[3] \in Nat
  OBVIOUS
<1>2. w = v <=> w[1] = v[1] /\ w[2] = v[2] /\ w[3] = v[3]
  OBVIOUS
<1>3. Less(w, v) \/ w = v <=>
        \/ w[1] < v[1]
        \/ w[1] = v[1] /\ w[2] < v[2]
        \/ w[1] = v[1] /\ w[2] = v[2] /\ w[3] <= v[3]
  BY <1>1, <1>2 DEF Less
<1> QED BY <1>1, <1>3 DEF ValidPath, PathRule

(* The guards that lead to a lookup of a node say which node. *)
LEMMA AskedIsNode ==
    ASSUME TypeOK, NEW c \in Calls, Admitted(req[c])
    PROVE  Asked(c) \in Nodes /\ Targets(c) \subseteq Nodes
<1>1. req[c] \in AllRequests /\ req[c].nodes \in Seq(Nodes)
  BY DEF TypeOK, AllRequests
<1>2. req[c].kind = "upgrade" => req[c].nodes[1] \in Nodes
  BY <1>1 DEF Admitted
<1> QED BY <1>1, <1>2, VersionAssumption DEF Asked, Targets

(* The invariant holds when the server has started. *)
LEMMA InitIInv == Init => IInv
<1> SUFFICES ASSUME Init PROVE IInv
  OBVIOUS
<1> USE VersionAssumption DEF Init
<1>1. TypeOK
  <2>1. \A c \in Calls : req[c] \in AllRequests
    OBVIOUS
  <2>2. req \in [Calls -> AllRequests]
    BY <2>1
  <2>3. running \in [Nodes -> Versions] /\ running[Endpoint] \in Versions
    OBVIOUS
  <2> QED BY <2>2, <2>3 DEF TypeOK, Pcs
<1>2. Held /\ Places
  BY DEF Held, Places, Finished
<1>3. Recent /\ Passed /\ PathChecked /\ NothingStale /\ OneFetch
  BY DEF Recent, Passed, PathChecked, NothingStale, OneFetch
<1> QED BY <1>1, <1>2, <1>3 DEF IInv

-----------------------------------------------------------------------------
(* The guards. *)
LEMMA GuardsKeepIInv ==
    ASSUME IInv, NEW c \in Calls, Refuse(c) \/ Begin(c)
    PROVE  IInv'
<1> USE DEF IInv
<1>1. /\ UNCHANGED <<req, seen, took, cache, readers, writer, running, next, last, current>>
      /\ pc[c] = "idle"
      /\ \E p \in {"refused", "rlocking", "issuing", "checking"} : pc' = [pc EXCEPT ![c] = p]
      /\ \A d \in Calls : d # c => window'[d] = window[d] /\ pc'[d] = pc[d]
  BY DEF Refuse, Begin, Goto, lockVars, nodeVars, pastVars, TypeOK
<1>2. \A d \in Calls : Asked(d)' = Asked(d) /\ Targets(d)' = Targets(d)
  BY <1>1 DEF Asked, Targets
<1>3. seen[c] = None /\ took[c] = {}
  BY <1>1 DEF Places
<1>4. (pc'[c] = "refused" /\ window' = window) \/ Begin(c)
  BY <1>1 DEF Refuse, Goto, pastVars, TypeOK
<1>5. Begin(c) =>
        /\ Admitted(req[c])
        /\ pc'[c] = "rlocking" <=> req[c].kind = "version"
        /\ window'[c] = IF req[c].kind = "version" THEN current ELSE {running[Asked(c)]}
        /\ pc'[c] \in {"rlocking", "issuing", "checking"}
  BY <1>1 DEF Begin, Goto, TypeOK
<1>6. TypeOK'
  <2>1. window' \in [Calls -> SUBSET Versions]
    <3>1. CASE Refuse(c)
      BY <3>1 DEF Refuse, pastVars, TypeOK
    <3>2. CASE Begin(c)
      <4>1. Asked(c) \in Nodes
        BY <3>2, <1>5, AskedIsNode
      <4> QED BY <3>2, <4>1 DEF Begin, TypeOK
    <3> QED BY <3>1, <3>2
  <2>2. pc' \in [Calls -> Pcs]
    BY <1>1 DEF TypeOK, Pcs
  <2> QED BY <1>1, <2>1, <2>2 DEF TypeOK
<1>7. Held'
  BY <1>1 DEF Held, TypeOK
<1>8. Places'
  BY <1>1, <1>3, <1>4, <1>5 DEF Places, TypeOK, Finished
<1>9. Recent'
  <2>1. \A d \in Calls : d # c /\ pc'[d] \notin {"idle"} \cup Finished => running'[Asked(d)'] \in window'[d] /\ (req'[d].kind = "version" => current' \subseteq window'[d])
    BY <1>1, <1>2 DEF Recent
  <2>2. pc'[c] \notin {"idle"} \cup Finished => running'[Asked(c)'] \in window'[c] /\ (req'[c].kind = "version" => current' \subseteq window'[c])
    BY <1>1, <1>2, <1>4, <1>5 DEF Recent, Asked, Finished
  <2>3. \A d \in Calls : pc'[d] = "storing" => pc[d] = "storing" /\ seen'[d] = seen[d]
    BY <1>1, <1>4, <1>5 DEF TypeOK
  <2> QED BY <1>1, <1>2, <2>1, <2>2, <2>3 DEF Recent
<1>10. Passed' /\ PathChecked' /\ NothingStale' /\ OneFetch'
  BY <1>1, <1>2, <1>3, <1>4, <1>5 DEF Passed, PathChecked, NothingStale, OneFetch
<1> QED BY <1>6, <1>7, <1>8, <1>9, <1>10

(* The check of the path. *)
LEMMA CheckKeepsIInv ==
    ASSUME IInv, NEW c \in Calls, Check(c) \/ CheckFails(c)
    PROVE  IInv'
<1> USE DEF IInv
<1>1. /\ UNCHANGED <<req, took, cache, readers, writer, running, next, last, current, window>>
      /\ pc[c] = "checking"
      /\ \A d \in Calls : d # c => seen'[d] = seen[d] /\ pc'[d] = pc[d]
      /\ pc'[c] \in {"issuing", "refused"}
  BY DEF Check, CheckFails, Goto, lockVars, nodeVars, pastVars, TypeOK
<1>2. \A d \in Calls : Asked(d)' = Asked(d) /\ Targets(d)' = Targets(d)
  BY <1>1 DEF Asked, Targets
<1>3. /\ Admitted(req[c]) /\ took[c] = {} /\ seen[c] = None /\ req[c].kind # "version"
      /\ running[Asked(c)] \in window[c] /\ Asked(c) \in Nodes
  BY <1>1, AskedIsNode DEF Places, Recent, Finished
<1>4. /\ seen'[c] = None \/ seen'[c] = running[Asked(c)]
      /\ pc'[c] = "issuing" /\ seen'[c] # None => PathRule(seen'[c], req[c].image)
  <2>1. req[c].image \in Nat \X Nat \X Nat /\ running[Asked(c)] \in Nat \X Nat \X Nat
    BY <1>3, VersionAssumption DEF TypeOK, AllRequests
  <2>2. CASE Check(c)
    BY <2>1, <2>2, <1>3, PathRuleDecided DEF Check, Goto, NodeVersion, TypeOK
  <2>3. CASE CheckFails(c)
    BY <2>3, <1>3 DEF CheckFails
  <2> QED BY <2>2, <2>3
<1>5. TypeOK'
  <2>1. pc' \in [Calls -> Pcs] /\ seen' \in [Calls -> Versions \cup {None}]
    BY <1>1, <1>3 DEF Check, CheckFails, Goto, NodeVersion, TypeOK, Pcs
  <2> QED BY <1>1, <2>1 DEF TypeOK
<1>6. Held'
  BY <1>1 DEF Held
<1>7. Places'
  BY <1>1, <1>3 DEF Places, Finished
<1>8. Recent'
  BY <1>1, <1>2, <1>3 DEF Recent, Finished
<1>9. Passed' /\ PathChecked' /\ NothingStale' /\ OneFetch'
  BY <1>1, <1>2, <1>3, <1>4 DEF Passed, PathChecked, NothingStale, OneFetch
<1> QED BY <1>5, <1>6, <1>7, <1>8, <1>9

(* The RPC that upgrades or rolls back. *)
LEMMA IssueKeepsIInv ==
    ASSUME IInv, NEW c \in Calls, Issue(c)
    PROVE  IInv'
<1> USE DEF IInv
<1>1. /\ UNCHANGED <<req, seen, cache, readers, writer, running, last, current, window>>
      /\ pc[c] = "issuing"
      /\ \A d \in Calls : d # c => took'[d] = took[d] /\ pc'[d] = pc[d]
      /\ pc'[c] \in {"clearing", "failed"}
      /\ took'[c] \subseteq Targets(c)
  BY DEF Issue, Goto, lockVars, pastVars, TypeOK
<1>2. \A d \in Calls : Asked(d)' = Asked(d) /\ Targets(d)' = Targets(d)
  BY <1>1 DEF Asked, Targets
<1>3. /\ Admitted(req[c]) /\ req[c].kind # "version"
      /\ running[Asked(c)] \in window[c] /\ Targets(c) \subseteq Nodes
  BY <1>1, AskedIsNode DEF Places, Recent, Finished
<1>4. TypeOK'
  <2>1. PICK A \in SUBSET {n \in Targets(c) : req[c].kind = "upgrade" \/ last[n] # None} :
            /\ took' = [took EXCEPT ![c] = A]
            /\ next' = [n \in Nodes |-> IF n \notin A THEN next[n]
                          ELSE IF req[c].kind = "upgrade" THEN req[c].image ELSE last[n]]
    BY DEF Issue
  <2>2. took' \in [Calls -> SUBSET Nodes]
    BY <2>1, <1>3 DEF TypeOK
  <2>3. next' \in [Nodes -> Versions]
    BY <2>1 DEF TypeOK, AllRequests
  <2>4. pc' \in [Calls -> Pcs]
    BY DEF Issue, Goto, TypeOK, Pcs
  <2> QED BY <1>1, <2>2, <2>3, <2>4 DEF TypeOK
<1>5. Held'
  BY <1>1 DEF Held
<1>6. Places'
  BY <1>1, <1>3 DEF Places, Finished
<1>7. Recent'
  BY <1>1, <1>2, <1>3 DEF Recent, Finished
<1>8. Passed' /\ NothingStale' /\ OneFetch'
  BY <1>1, <1>2 DEF Passed, NothingStale, OneFetch
<1>9. PathChecked'
  <2>1. ~Unchecked(req[c]) /\ seen[c] # None => PathRule(seen[c], req[c].image)
    BY <1>1, <1>3 DEF Passed, Unchecked, TypeOK, AllRequests
  <2> QED BY <1>1, <1>2, <1>3, <2>1 DEF PathChecked
<1> QED BY <1>4, <1>5, <1>6, <1>7, <1>8, <1>9

(* A node restarts: whoever relies on it may now be given its new version.   *)
LEMMA RestartKeepsIInv ==
    ASSUME IInv, NEW n \in Nodes, Restart(n)
    PROVE  IInv'
<1> USE DEF IInv
<1> DEFINE Live(d) == pc[d] \notin {"idle"} \cup Finished
<1>1. /\ UNCHANGED <<pc, req, seen, took, cache, readers, writer, next>>
      /\ running' = [running EXCEPT ![n] = next[n]]
      /\ current' = IF n = Endpoint THEN current \cup {next[n]} ELSE current
      /\ \A d \in Calls : window'[d] = IF Live(d) /\ Asked(d) = n THEN window[d] \cup {next[n]} ELSE window[d]
  BY DEF Restart, callVars, lockVars
<1>2. \A d \in Calls : Asked(d)' = Asked(d) /\ Targets(d)' = Targets(d)
  BY <1>1 DEF Asked, Targets
<1>3. TypeOK'
  <2>1. next[n] \in Versions /\ running[n] \in Versions
    BY DEF TypeOK
  <2>2. running' \in [Nodes -> Versions] /\ last' \in [Nodes -> Versions \cup {None}]
    BY <2>1 DEF Restart, TypeOK
  <2>3. window' \in [Calls -> SUBSET Versions]
    BY <2>1 DEF Restart, TypeOK
  <2> QED BY <1>1, <2>1, <2>2, <2>3 DEF TypeOK
<1>4. Held' /\ Places' /\ Passed' /\ OneFetch'
  BY <1>1 DEF Held, Places, Passed, OneFetch
<1>5. PathChecked' /\ NothingStale'
  BY <1>1, <1>2 DEF PathChecked, NothingStale
<1>6. Recent'
  <2>1. running'[Endpoint] \in current' /\ current \subseteq current'
    BY <1>1, VersionAssumption DEF Recent, TypeOK
  <2>2. \A d \in Calls : Live(d) => running'[Asked(d)] \in window'[d]
    <3> SUFFICES ASSUME NEW d \in Calls, Live(d)
                 PROVE  running'[Asked(d)] \in window'[d]
      OBVIOUS
    <3>1. running[Asked(d)] \in window[d] /\ Asked(d) \in Nodes
      BY AskedIsNode DEF Recent, Places, Finished
    <3> QED BY <1>1, <3>1 DEF TypeOK
  <2>3. \A d \in Calls : Live(d) /\ req[d].kind = "version" => current' \subseteq window'[d]
    <3> SUFFICES ASSUME NEW d \in Calls, Live(d), req[d].kind = "version"
                 PROVE  current' \subseteq window'[d]
      OBVIOUS
    <3>1. Asked(d) = Endpoint /\ current \subseteq window[d]
      BY DEF Asked, Recent
    <3> QED BY <1>1, <3>1
  <2> QED BY <1>1, <1>2, <2>1, <2>2, <2>3 DEF Recent
<1> QED BY <1>3, <1>4, <1>5, <1>6

-----------------------------------------------------------------------------
(* The cache is cleared. *)
LEMMA ClearKeepsIInv ==
    ASSUME IInv, NEW c \in Calls, Clear(c)
    PROVE  IInv'
<1> USE DEF IInv
<1>1. /\ UNCHANGED <<req, seen, took, readers, writer, running, next, last, window>>
      /\ pc[c] = "clearing" /\ pc'[c] = "ok" /\ writer = NoCall
      /\ \A d \in Calls : d # c => pc'[d] = pc[d]
      /\ cache' = None /\ current' = {running[Endpoint]}
  BY DEF Clear, CanClear, CanWrite, Goto, nodeVars, TypeOK
<1>2. \A d \in Calls : Asked(d)' = Asked(d) /\ Targets(d)' = Targets(d)
  BY <1>1 DEF Asked, Targets
<1>3. \A d \in Calls : pc[d] \notin {"fetching", "storing"}
  BY <1>1, VersionAssumption DEF Held
<1>4. TypeOK'
  BY <1>1, VersionAssumption DEF Clear, Goto, TypeOK, Pcs
<1>5. Held' /\ Places'
  BY <1>1, <1>3 DEF Held, Places, Finished
<1>6. Recent'
  <2>1. \A d \in Calls : pc'[d] \notin {"idle"} \cup Finished => running[Asked(d)] \in window[d] /\ (req[d].kind = "version" => {running[Endpoint]} \subseteq window[d])
    BY <1>1 DEF Recent, Finished, Asked
  <2> QED BY <1>1, <1>2, <1>3, <2>1 DEF Recent
<1>7. Passed' /\ PathChecked' /\ NothingStale' /\ OneFetch'
  BY <1>1, <1>2, <1>3 DEF Passed, PathChecked, NothingStale, OneFetch
<1> QED BY <1>4, <1>5, <1>6, <1>7

(* A reader of the cached version, until it has the lock to itself. *)
LEMMA ReaderKeepsIInv ==
    ASSUME IInv, NEW c \in Calls, RLock(c) \/ ReadCache(c) \/ Lock(c)
    PROVE  IInv'
<1> USE DEF IInv
<1>1. /\ UNCHANGED <<req, took, cache, running, next, last, current, window>>
      /\ \A d \in Calls : d # c => seen'[d] = seen[d] /\ pc'[d] = pc[d]
      /\ pc[c] \in {"rlocking", "reading", "locking"}
  BY DEF RLock, ReadCache, Lock, Goto, nodeVars, pastVars, TypeOK
<1>2. \A d \in Calls : Asked(d)' = Asked(d) /\ Targets(d)' = Targets(d)
  BY <1>1 DEF Asked, Targets
<1>3. /\ Admitted(req[c]) /\ took[c] = {} /\ seen[c] = None /\ req[c].kind = "version"
      /\ running[Asked(c)] \in window[c] /\ current \subseteq window[c]
      /\ cache # None => cache \in window[c]
  BY <1>1 DEF Places, Recent, Finished
<1>4. /\ pc'[c] \in {"reading", "locking", "fetching", "ok"}
      /\ pc'[c] # "ok" => seen'[c] = None
      /\ seen'[c] = None \/ seen'[c] = cache
  BY <1>1, <1>3 DEF RLock, ReadCache, Lock, Filled, Goto, TypeOK
<1>5. TypeOK'
  BY <1>1 DEF RLock, ReadCache, Lock, Released, Goto, TypeOK, Pcs
<1>6. Held'
  <2>1. CASE RLock(c)
    BY <1>1, <2>1, VersionAssumption DEF RLock, CanRead, Goto, Held, TypeOK
  <2>2. CASE ReadCache(c)
    BY <1>1, <2>2, VersionAssumption DEF ReadCache, Released, Goto, Held, TypeOK
  <2>3. CASE Lock(c)
    BY <1>1, <2>3, VersionAssumption DEF Lock, CanWrite, Filled, Goto, Held, TypeOK
  <2> QED BY <2>1, <2>2, <2>3
<1>7. Places'
  BY <1>1, <1>3, <1>4 DEF Places, Finished
<1>8. Recent'
  BY <1>1, <1>2, <1>3, <1>4 DEF Recent, Finished
<1>9. Passed' /\ PathChecked' /\ NothingStale'
  BY <1>1, <1>2, <1>3, <1>4 DEF Passed, PathChecked, NothingStale
<1>10. OneFetch'
  <2>1. pc'[c] = "fetching" => cache = None /\ writer = NoCall
    BY <1>1 DEF RLock, ReadCache, Lock, CanWrite, Filled, Goto, TypeOK
  <2> QED BY <1>1, <1>4, <2>1, VersionAssumption DEF OneFetch, Held
<1> QED BY <1>5, <1>6, <1>7, <1>8, <1>9, <1>10

(* The reader that holds the lock fetches and stores. *)
LEMMA FetchKeepsIInv ==
    ASSUME IInv, NEW c \in Calls, Fetch(c) \/ FetchFails(c) \/ Store(c)
    PROVE  IInv'
<1> USE DEF IInv
<1>1. /\ UNCHANGED <<req, took, readers, running, next, last, current, window>>
      /\ \A d \in Calls : d # c => seen'[d] = seen[d] /\ pc'[d] = pc[d]
      /\ pc[c] \in {"fetching", "storing"}
  BY DEF Fetch, FetchFails, Store, Goto, lockVars, nodeVars, pastVars, TypeOK
<1>2. \A d \in Calls : Asked(d)' = Asked(d) /\ Targets(d)' = Targets(d)
  BY <1>1 DEF Asked, Targets
<1>3. /\ Admitted(req[c]) /\ took[c] = {} /\ req[c].kind = "version" /\ writer = c /\ c # NoCall
      /\ running[Asked(c)] \in window[c] /\ current \subseteq window[c]
      /\ running[Endpoint] \in current /\ running[Endpoint] # None
      /\ cache = None /\ readers = {}
  <2>1. writer = c /\ c # NoCall /\ cache = None /\ readers = {}
    <3>1. c # NoCall
      BY VersionAssumption
    <3>2. writer = c
      BY <1>1 DEF Held
    <3> QED BY <3>1, <3>2 DEF Held
  <2>2. Admitted(req[c]) /\ took[c] = {} /\ req[c].kind = "version"
    BY <1>1 DEF Places, Finished
  <2>3. running[Asked(c)] \in window[c] /\ current \subseteq window[c] /\ running[Endpoint] \in current
    <3>1. pc[c] \notin {"idle"} \cup Finished
      BY <1>1 DEF Finished
    <3> QED BY <2>2, <3>1 DEF Recent
  <2>4. running[Endpoint] # None
    BY VersionAssumption DEF TypeOK
  <2> QED BY <2>1, <2>2, <2>3, <2>4
<1>4. \A d \in Calls : d # c => pc[d] \notin {"fetching", "storing"}
  BY <1>3 DEF Held
<1>5. \/ pc'[c] = "storing" /\ seen'[c] = running[Endpoint] /\ UNCHANGED <<cache, writer>>
      \/ pc'[c] = "failed" /\ seen'[c] = None /\ cache' = None /\ writer' = NoCall
      \/ pc'[c] = "ok" /\ seen'[c] = seen[c] /\ seen[c] \in current /\ cache' = seen[c] /\ writer' = NoCall
  BY <1>1, <1>3 DEF Fetch, FetchFails, Store, Goto, lockVars, TypeOK, Places, Recent
<1>6. TypeOK'
  <2>1. pc' = [pc EXCEPT ![c] = "storing"] \/ pc' = [pc EXCEPT ![c] = "failed"] \/ pc' = [pc EXCEPT ![c] = "ok"]
    BY DEF Fetch, FetchFails, Store, Goto
  <2>2. pc' \in [Calls -> Pcs]
    BY <2>1 DEF TypeOK, Pcs
  <2>3. /\ seen' = seen \/ seen' = [seen EXCEPT ![c] = running[Endpoint]]
        /\ cache' = cache \/ cache' = seen[c]
        /\ writer' = writer \/ writer' = NoCall
    BY DEF Fetch, FetchFails, Store, lockVars
  <2>4. running[Endpoint] \in Versions
    BY VersionAssumption DEF TypeOK
  <2>5. seen' \in [Calls -> Versions \cup {None}] /\ cache' \in Versions \cup {None}
    BY <2>3, <2>4 DEF TypeOK
  <2>6. writer' \in Calls \cup {NoCall}
    BY <2>3 DEF TypeOK
  <2> QED BY <1>1, <2>2, <2>5, <2>6 DEF TypeOK
<1>7. Held'
  <2>1. \A d \in Calls : writer' = d <=> pc'[d] \in {"fetching", "storing"}
    <3>1. \A d \in Calls : d # NoCall
      BY VersionAssumption
    <3> QED BY <1>1, <1>3, <1>4, <1>5, <3>1
  <2>2. \A d \in Calls : d \in readers' <=> pc'[d] = "reading"
    BY <1>1, <1>3, <1>5 DEF Held
  <2>3. writer' # NoCall => readers' = {} /\ cache' = None
    BY <1>1, <1>3, <1>5
  <2> QED BY <2>1, <2>2, <2>3 DEF Held
<1>8. Places'
  BY <1>1, <1>3, <1>5 DEF Places, Finished
<1>9. Recent'
  <2>1. cache' # None => cache' \in current'
    BY <1>1, <1>3, <1>5
  <2>2. \A d \in Calls : pc'[d] \notin {"idle"} \cup Finished => running'[Asked(d)'] \in window'[d] /\ (req'[d].kind = "version" => current' \subseteq window'[d])
    BY <1>1, <1>2, <1>3 DEF Recent
  <2>3. \A d \in Calls : pc'[d] = "storing" => seen'[d] \in current'
    BY <1>1, <1>3, <1>4, <1>5
  <2> QED BY <1>1, <1>3, <2>1, <2>2, <2>3 DEF Recent
<1>10. Passed' /\ PathChecked' /\ NothingStale' /\ OneFetch'
  BY <1>1, <1>2, <1>3, <1>4, <1>5 DEF Passed, PathChecked, NothingStale, OneFetch
<1> QED BY <1>6, <1>7, <1>8, <1>9, <1>10

(* Every step keeps the invariant. *)
LEMMA NextIInv == IInv /\ [Next]_vars => IInv'
<1> SUFFICES ASSUME IInv, [Next]_vars PROVE IInv'
  OBVIOUS
<1>1. CASE \E c \in Calls : Tool(c)
  BY <1>1, GuardsKeepIInv, CheckKeepsIInv, IssueKeepsIInv, ClearKeepsIInv DEF Tool
<1>2. CASE \E c \in Calls : Reader(c)
  BY <1>2, ReaderKeepsIInv, FetchKeepsIInv DEF Reader
<1>3. CASE \E n \in Nodes : Restart(n)
  BY <1>3, RestartKeepsIInv
<1>4. CASE UNCHANGED vars
  <2>1. UNCHANGED <<pc, req, seen, took, cache, readers, writer, running, next, last, current, window>>
    BY <1>4 DEF vars, callVars, lockVars, nodeVars, pastVars
  <2>2. \A c \in Calls : Asked(c)' = Asked(c) /\ Targets(c)' = Targets(c)
    BY <2>1 DEF Asked, Targets
  <2> QED BY <2>1, <2>2 DEF IInv, TypeOK, Held, Places, Recent, Passed, PathChecked, NothingStale, OneFetch
<1> QED BY <1>1, <1>2, <1>3, <1>4 DEF Next

(* IInv holds in every reachable state, for any calls, nodes and versions.   *)
THEOREM Invariance == Spec => []IInv
  BY InitIInv, NextIInv, PTL DEF Spec

(* No node accepts an unchecked upgrade, but where the check is switched off *)
(* or has nothing to compare (lifecycle.go:388-404).                         *)
THEOREM UpgradesAreChecked == Spec => []PathChecked
<1>1. IInv => PathChecked
  BY DEF IInv
<1> QED BY <1>1, Invariance, PTL

(* No upgrade is checked against, and no reader given, a version from before *)
(* the call and before the last clearing of the cache (client.go:91-149).    *)
THEOREM VersionsAreRecent == Spec => []NothingStale
<1>1. IInv => NothingStale
  BY DEF IInv
<1> QED BY <1>1, Invariance, PTL

(* One fetch at a time, and none while a version is cached (client.go:       *)
(* 101-109).                                                                 *)
THEOREM FetchedOnce == Spec => []OneFetch
<1>1. IInv => OneFetch
  BY DEF IInv
<1> QED BY <1>1, Invariance, PTL
=============================================================================
