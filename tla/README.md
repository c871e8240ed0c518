# Verification of talos-mcp

TLA+ models of talos-mcp: the subscription manager, the tools that change a node's
configuration, the reboot that is followed to its end, the upgrade with the version cache
it clears, the way of a tool call from the server's environment through its gates to a
node, the HTTP front end with the files its requests write, and the tools that collect a
stream. TLC checks them on small instances. TLAPS proves every safety property that a
passing run checks, and that the manager and the configuration tools implement abstract
specifications, for every value of the constants.

## 1. The system

talos-mcp is an MCP server in Go between MCP clients (over stdio or HTTP) and Talos
Linux nodes (gRPC and COSI). The MCP SDK runs every request in a goroutine of its own; a
handler keeps almost nothing between requests. What is kept, and shared:

| component | state | operations | hard behaviour |
| --- | --- | --- | --- |
| Subscription manager (`internal/subscriptions/manager.go`) | `subs`, `sessions` under `mu`; a root context; a goroutine, a context and a limiter for each subscription | subscribe, unsubscribe, session cleanup, shutdown; the watch loop | network call before the lock, cancels after it; `select` that may ignore a cancel; batches with errors inside; disconnects in the middle of a request |
| Subscription wiring (`cmd/talos-mcp/main.go:241-300`) | the SDK's table of subscribed sessions | hooks of the SDK; `ResourceUpdated` to all sessions of a URI | two tables that change at different moments; a change between a read and the start of the watch |
| Configuration tools (`internal/tools/lifecycle.go:468-910`) | `patchMu`: a mutex for each node name (`helpers.go:40-61`) | patch, apply, insecure apply | read-modify-write over the network; names that alias; cancelled requests the node still executes |
| Reboot (`lifecycle.go:85-337`) | boot IDs read before; a goroutine for each listed node; a deadline | guards, pre-read, RPC, three phases of probes, verdict | errors that stand for "node is down"; partial failure; deadline racing late answers |
| Upgrade, rollback, version cache (`lifecycle.go:339-466`, `talos/client.go:85-149`, `version/`) | `versionCached` under an RW mutex | upgrade path check, RPC, invalidation | version read before the RPC; cache cleared before the node restarts |
| Configuration of the server (`internal/config`, `main.go:60-240`) | the profile, lists and limits, set once | presets and overrides, what it refuses to start with | what an override leaves of a preset; ceilings of ranges |
| Allowlists and addresses (`talos/nodes.go`, `talos/insecure.go`) | none | `CheckNode`, `CanonicalIP`, pinned dial | one node, many spellings; a certificate that changes |
| Tool gates and audit (`internal/tools`) | none | confirm, allowlists, privileged gates, audit and outcome lines | each handler repeats the gates in an order of its own; an RPC executed after the call was given up |
| HTTP front end (`cmd/talos-mcp/main.go`, `middleware.go`) | token bucket, semaphore | rate limit, body limit, load shedding, `/healthz`, shutdown | limits at their edge; shutdown with requests in flight |
| Files the tools write (`etcd.go`, `secret_file.go`) | files on disk | snapshot, secret file | two writers of one path, cleanup of a partial file, the end of the process |
| Tools that collect (`logs.go`, `files.go`, `system.go`) | the lines so far | logs, dmesg, events, list and read files, health | limits; errors of single nodes in the stream; streams that break or never end |
| Patch blocklist, etcd preflight | none | | boundaries |
| Resource reading (`internal/resources`) | none | two RPCs, a list cut at 100 items | a cut that is not marked |
| Completions, prompts, marshalling | none | a conversion | |

How they meet: a subscribe request goes SDK → `Subscribe` → COSI, and the watch goroutine
goes back through `Server.ResourceUpdated` to clients; the SDK's `InitializedHandler`
starts one supervisor for each session; `main` calls `Shutdown` on its way out. All tool
handlers share one `talos.Client`, and with it the version cache, and the `patchMu` map.

What makes each correct: the manager must leak no goroutine, cancel no subscription it
should not and leave nothing of a session that has gone, and a client must not miss a
change for a reason the code does not accept; a configuration change must not be lost or
made without authority, and the answer must say what happened; a reboot must be reported
only if it took place, and the call must end; an upgrade must follow the path rule for
the version its first node runs, and nobody may be told a version from before the cache was
cleared. No node may execute what the operator's environment does not permit, however it is
written, and the outcome line must tell what happened; no slot of the front end may be
lost, and whoever is let in is answered; a file that is reported must be there and whole, and
what was collected before a stream broke must not be answered as if it were all.

## 2. Modules

| module | what it is |
| --- | --- |
| `SubscriptionManager` | `manager.go`, every step between two points at which another goroutine can run |
| `SubscriptionService` | what the Manager promises: subscriptions opened and closed at once, watches that end when they must |
| `SubscriptionDelivery` | EXTENDS the manager with the SDK's table, the clients and the resources on the nodes |
| `ConfigUpdate` | `HandlePatchConfig`, `HandleApplyConfig`, `handleApplyConfigInsecure` and the mutex |
| `ConfigService` | what they promise: changes made one at a time, each on top of the one before |
| `RebootWait` | `HandleReboot`, `readBootID`, `waitForNodeReboot` |
| `UpgradeVersion` | `HandleUpgrade`, `HandleRollback`, the path rule, `GetClusterVersion` and `InvalidateVersionCache` |
| `ServerConfig` | what the environment becomes: profile, allowlists, META keys, refusal to start |
| `ToolGates` | EXTENDS `ServerConfig` with registration, guards, dial, RPCs, audit and outcome lines of fourteen kinds of call |
| `FrontEnd` | the middleware chain, `/healthz`, signal, exit and restart |
| `SnapshotFiles` | `HandleEtcdSnapshot` and `WriteSecretFile` on a directory |
| `ServedSnapshots` | composes the two: a POST in the handler calls a tool that writes a file |
| `Collectors` | the six tools that read a stream of several nodes, the path allowlist, and the read of a resource |
| `SubscriptionManagerProofs`, `SubscriptionDeliveryProofs`, `ConfigUpdateProofs`, `RebootWaitProofs`, `UpgradeVersionProofs`, `ToolGatesProofs`, `ServedSnapshotsProofs`, `CollectorsProofs` | theorems and proofs |
| `MC*` | instances for TLC |

### SubscriptionManager

| state | code |
| --- | --- |
| `subs`, `sessions` | the two maps; a subscription struct is the identity of its watch |
| `rootDone`, `cancelled` | `rootCtx` and each `watchCtx` |
| `calls` | Subscribe and Unsubscribe handlers in flight, with the key and the `sub` they hold |
| `sess`, `doomed` | the session as its supervisor sees it, and the `cancels` slice of `cleanupSession` |
| `wpc`, `wkey`, `buf`, `batch`, `tokens` | program counter, key, channel, rest of the batch and limiter of each `runWatch` goroutine |

One action is one critical section of `mu`, one CancelFunc called, one `select`, or one
event forwarded. `subscribe` is thus `BeginSubscribe` (up to and including the RPC that
resolves the type), then `RejectSubscribe`, `DuplicateSubscribe` or `OpenSubscription`,
then `ReturnSubscribe`. `sub.cancel()` (199) and each cancel of `cleanupSession` (219-221)
come after the unlock, and so are actions of their own: other requests run in between.
The limiter is counted in whole tokens; `Refill` is the passing of time. The channels'
capacities (8 and 32) only slow COSI down and are left out: a full channel delays the
publisher, which may be late here anyway. `MaxPending` bounds the batches that wait in a channel;
how many are published in all is not bounded. The branch "server not bound" (297-300) cannot be
reached, because `main` binds the server before it runs it.

`SubscriptionDelivery` adds what stands on both sides. SDK and COSI are external and
modelled from their use: the SDK registers a session after the handler has
returned (package comment, `manager.go:11-16`); a single-resource watch first sends the
present state, an aggregated one sends nothing; `ResourceUpdated` is addressed to every session of
a URI, and `Deliver` chooses whom it reaches: it may return an error, which `forwardEvent` only logs
after the token is spent (`manager.go:301-303`), and then some of them, or all, are not told.
`missed` is who lost an event that way or to the limiter, since it last read. The client follows the README: it reads once after its subscribe is answered, and
again after each notification; it does not have two requests for one URI in flight.
`sent` counts, since the limiters last refilled, what each session got for a URI from each
watch; it stops at `MaxSent`, one more than any property mentions.

### ConfigUpdate

A configuration is the set of calls whose change it carries: a patch submits what it
fetched and itself, a file only itself. `holder` is `patchMu`, keyed as in the code by
the name as written (`KeyOf`), so names can alias: `Target` says which node a name reaches.
The steps are the guards (`Refuse`, `Admit`), `Lock`, `Fetch`, `Apply`, `Reply` and the
failures between them. All returns of the locked part unlock, as the `defer` does. A
request cancelled during the RPC returns at once (`Cancel`), and the node may execute the
RPC later (`Land`). `replaced` is history: the changes that a full configuration, applied after
them, has replaced; one that was applied before excuses nothing. A `dry` call goes through the same steps and changes nothing. The
allowlists and the path blocklist are constants and a field of the request: how they are
computed is not part of this module.

### RebootWait

A boot ID is the number of boots. The handler goes `idle`, `reading` (the loop of 176-183,
in any order), `issuing`, `waiting`, `answered`; each listed position has a goroutine with
the three phases as program counter, the select between two probes included. The deadline
(`expired`) may pass at any moment of the wait; the 5 s limit of a probe is a probe that
fails, which is possible at any time (`Blips`). Nodes go down because they accepted the
reboot or on their own (`Crashes`), come back, or stay down. `timeout = "spent"` is a
zero or negative duration, which the code parses and accepts.

### UpgradeVersion

| state | code |
| --- | --- |
| `pc`, `req`, `seen`, `took` | each call: where it is, its arguments, the version it fetched or is answered with, the nodes that accepted its RPC |
| `cache`, `readers`, `writer` | `versionCached` and `versionMu`; a waiting writer keeps new readers out, as `sync.RWMutex` does |
| `running`, `next`, `last` | each node: the version it runs, the one it starts with next, the one before |
| `current`, `window` | history: versions of the endpoint since the cache was last cleared, and those each call may rely on |

A tool call passes its guards (`Refuse`, `Begin`), has the version of the first listed node
fetched and compared (`Check`), or goes on with a warning if the fetch fails
(`CheckFails`), sends the RPC to all nodes (`Issue`) and clears the cache (`Clear`). The
check reads the node and not the cache, and only the first node: `PathChecked` says no
more than that. A reader takes `RLock`, `ReadCache`, and on a miss `Lock`, `Fetch`,
`Store`, with the write lock held over the RPC. Readers in the program are the start-up
(`main.go:169`) and each session's `initialized` (`main.go:277`). Nodes restart later, and
the cache is cleared before they do: what a reader is promised is a version the
endpoint ran since the last clearing, not the present one (`NothingStale`). The comments in the code
promise more, which it does not keep (section 5). Preserve, stage, force and
the reboot mode are passed on to the node and are not told apart.

### ServerConfig and ToolGates

`ServerConfig` has no variables. A node list is a set of entries: a name or address as it is
written, a range, a blank, or a malformed one. `ParseIP` and `Lower` say what the library
makes of a text, so that one address has several spellings; addresses are numbers of a few
bits, and a range covers those with its prefix, by the real arithmetic. As in `net.IPNet.Contains`
(`AsV4`), an IPv6 range that begins with the prefix of the IPv4-mapped addresses (`MappedPrefix`) covers IPv4
addresses, and none of IPv6; its ceiling is that of the family it is written in, as in `insecure.go:76-86`. A META key is a
prefix and digits, and its value is computed, octal-looking and out of range ones refused.

| state | code |
| --- | --- |
| `env`, `cfg`, `server` | the environment, the `Handlers` struct made of it, whether `main` serves |
| `call` | each call: its place in the handler, arguments, number of the RPC, answer |
| `log` | audit and outcome lines of each call, in order |
| `flight`, `executed` | messages to nodes, and those a node has executed |
| `cert` | the certificate of each node, which a restart in maintenance mode replaces |

The guards of a handler are a set of records with their rank, the outcome they record and
whether they fail; `Refuse` answers with the first that fails. `Enter` writes the audit
line, `Return` the deferred outcome line of the tools that have one. An RPC is a message to
each node it is for, which the node executes some time later, also after the call's deadline
has passed. `get` and the read of a resource make two RPCs, `validate` none. The guards of
reboot, upgrade, rollback and `patch_config` are in their own modules; `apply_config` is in
both, here with its gates, in `ConfigUpdate` with its mutex and its effect.

### FrontEnd, SnapshotFiles, ServedSnapshots

| state | code |
| --- | --- |
| `limits` | `newHTTPTransportConfig`; a number that is zero or negative is taken as it is (`middleware.go:95`) |
| `tokens`, `sem` | the limiter's bucket and the semaphore |
| `http`, `proc` | each request's place in the chain and its status; the process |
| `dir`, `data` | the file each path names, the pieces of each file |
| `job` | each call that writes a file: its place, its file, what it has written |
| `opener`, `mixed` | history: who opened each file last, which calls shared a path |

A POST takes its slot before its body is read: it is "reading" until the body has come
(`BodyArrives`), which may be never, the server having no `ReadTimeout`.

A file is not its path: a call writes to the file it opened, while its cleanup removes
whatever the path names. `os.Remove` is best effort: `Unlink` may leave the path, and the call is then "left" instead of
"failed". A Sync or Close that fails loses any of the pieces (`FlushFails`); a snapshot stays then
as it is, a secret is removed if it can be. A crash of the host, which loses what was not synced, is not modelled. `Serve` starts a tool for a POST in the handler; the tool goes on
when the client has left (`Gone`), and the POST gives its slot back. `Die` ends the process
under whatever is running, since nobody waits for the goroutine that shuts the server down
(`main.go:429`); files stay, and `Restart` serves again. No tool calls `WriteSecretFile` in this commit;
it is modelled as a tool would call it.

### Collectors

The nodes of a stream send lines, in any order between nodes; in three tools a failed node
says so in a message of the stream. Each tool has its own way to take a line: all of them (events,
health), the last ones (the ring of dmesg), the first ones (logs, which stops at
the limit, files, lists and the items of a resource, which stop at the first one too many). `Deadline` is 30
seconds, what health may wait and some more, or the five seconds of events, whose end is taken for
success because the handler's comment says that it comes back as an error of the
context. The read of a resource has no deadline, and `Returns` says nothing of it. The path allowlist is `filepath.Clean` on both sides and a prefix at the border of
a name.

## 3. Runs

| run | what it asks | states |
| --- | --- | --- |
| `ManagerSafety` | maps agree, no orphaned goroutine, no stray cancel, nothing survives a cleanup | 416,316 |
| `ManagerLiveness` | the inductive invariant; watchers end although batches keep coming; sessions end; refinement with fairness | 48,806 |
| `DeliverySessions` | the two tables agree; no silently missed change; the fan-out bound; the shape of the wiring | 2.8M |
| `ConfigWrites` | no lost change, answers can be believed, the inductive invariant | 225,232 |
| `ConfigLinear` | only authorised changes; refinement of `ConfigService`; whoever waits gets an answer | 38,730 |
| `RebootFollowed` | reports are true; order of pre-read and reboot; every call answered; the inductive invariant | 44,397 |
| `UpgradeVersion` | upgrades were checked; nobody is told a stale version; one fetch at a time; every call answered; the inductive invariant | 501,449 |
| `Gates` | nothing unauthorised is executed; outcome lines are honest; spelling is irrelevant; calls with a deadline return; the inductive invariant | 19,296 |
| `ServedSnapshots` | no slot lost; what failures, exits and restarts leave on disk; reports are true; everyone is answered; the inductive invariant | 594,029 |
| `Collectors` | a result says what the stream said; streams are opened only where permitted; every call with a deadline returns | 14,569 |
| `EveryNodeReached`, `UnverifiedReboot` | two statements of docs and comments that the code does not keep | counterexamples |

Bounds, and why they are enough.

- `ManagerSafety`: two sessions, both kinds of URI, two requests at a time, two watches.
  The races of the manager are between two requests for one key, a request and a cleanup,
  or two subscriptions of one key in turn; each has two parties. No events: they touch neither
  map. Symmetric in sessions, watches and handlers.
- `ManagerLiveness`: one session, both kinds of URI, one watch, batches of up to two events, so
  that a batch has an event before and after each kind of event, and no end of them: there is
  always another batch for the watch to choose instead of its cancelled context. One waits in the
  channel at a time, which is enough for the choice to be there at every `select`. Watches share no
  state but the maps, and two of them, with two requests, are in `ManagerSafety`.
- `DeliverySessions`: two sessions on both URIs, two watches, one change or stream
  event (`MaxEvents`), with a batch waiting behind the initial one. A change is missed or not by where it falls among the steps of one subscription;
  the second session adds the fan-out. One request at a time; overlap is in `ManagerSafety`.
- `ConfigWrites`: three calls of every kind to one node that may start in maintenance mode,
  with cancellation: one to lose its update, one to overwrite it, one to land late. Or they
  patch another node by its two names, where updates are lost: without the exceptions for
  such a node (`OneName`) TLC finds `UpdatesKept` violated.
- `ConfigLinear`: three calls, refused ones included, with a blocklist and both
  allowlists, two nodes, without cancellation: a cancelled handler unlocks while the node
  still executes its RPC, so the service is not implemented. `UpdatesKept` names that exception.
- `RebootFollowed`: every request on two nodes: none, one, one listed twice, two; each
  node boots at most twice, so a node can reboot, and reboot again during the wait.
- `UpgradeVersion`: three calls (a reader, a reader or an upgrade of the endpoint, and any
  call), so that a reader can hold the lock, another wait for it, and a tool clear the cache
  between them; two nodes, three minor versions in a row. The patch and major borders of
  the rule are not in the run: `PathRuleDecided` proves the rule for all versions.
- `Gates`: 19 environments (every profile, overrides on and off, lists in every form, and
  each reason not to start, and ranges of IPv4 written as IPv6) under some sixty requests, with two nodes of several
  names, some of them two spellings of one. One call: calls share nothing but the configuration, and the
  theorems are for any number.
- `ServedSnapshots`: two requests, behind one slot, none, or two with a bucket that is not
  refilled, and one path, so that they meet there; two pieces of data, so that there is a
  partial file. The process may end and restart any number of times. Bodies may never come, and every removal
  and flush may fail.
- `Collectors`: one call, since calls share nothing; two of three nodes with up to three
  lines each (the third is not permitted), limits of 1, 2 and 3, so that the stream is
  below, at and above the limit.

`MaxPending`, `MaxBatch`, `MaxEvents` (in `SubscriptionDelivery`), `MaxBoots` and `MaxSend` bound
queues and counters in guards; the number of `Watches`
bounds how many subscriptions are opened (`Room`). Deadlock is checked in `ServedSnapshots`, whose
server can always be stopped and started. The other systems stop when their calls are made,
their clients gone or their bounds used up.

### Fairness

- A handler runs to its end. The RPC it waits for returns, because gRPC keepalive closes a
  dead connection (`client.go:35-39`); that a live node answers is an assumption.
- A supervisor whose session is drained cleans it up and calls every cancel it holds.
- A watch goroutine takes a batch that is in its channel, and forwards what it holds (`LoopStep`). The start of a watch is
  only known to return once its context is cancelled.
- `select` picks at random among the ready cases, so a `ctx.Done()` that stays ready is
  taken in the end: strong fairness for `ObserveDone`, and for the two selects of the
  reboot's goroutines. Weak fairness would not do: the context is seen at the `select` only, which
  the goroutine leaves with every batch, and with it `RemovedStops` is violated.
- A `sync.Mutex` hands itself to a waiter that starves: strong fairness for `Lock`.
- A call of `UpgradeVersion` that has begun takes its next step if it can; each call is
  made once, so nobody can be overtaken at the lock for ever and weak fairness is enough.
- A call of `ToolGates` takes its steps, and one of the tools with a deadline gives up in the
  end (`Timed`); the others may wait for a node for ever, as the code lets them.
- The front end's chain, its tools and the exit after a signal run; a probe has its five
  seconds and a snapshot its five minutes, so neither needs a node. Local files answer. Clients owe no body (`BodyArrives` has no fairness): a
  POST whose body does not come, nor its client's departure, stays in its handler and keeps its slot, and
  `EveryoneAnswered` says so. It does assume that an answer can be written: there is no `WriteTimeout`.
- A collector opens its stream, or is refused one, and its deadline passes.
- The deadline of a reboot passes. Clients, COSI, nodes and time owe nothing else.

## 4. Proofs

All for any constants that satisfy the named assumptions, any number of steps.

- `SubscriptionManagerProofs`: `IInv` is inductive (`Invariance`). The four safety
  properties are not inductive alone: that a cancel due belongs to a watch no
  key maps to needs to know which key each handler and supervisor acts on (`CallShape`,
  `DoomedShape`), and that a running watcher is accounted for needs the same of those that
  have stopped (`Accounted`). From it follow `IndexCorrect`, `NoLeak`, `NoStrayCancel`,
  `NoResurrection` and `TypeCorrect`. The proof that nothing of a session is
  resurrected rests on `Drained`: `ServerSession.Wait` returns after the handlers of the
  connection have; the mutant without it is caught by TLC.
  `ManagerImplementsService`: every step of the Manager is a step of `SubscriptionService`
  or a stutter, through the mapping written as `Service` in `SubscriptionManager`. The
  fairness part of the refinement is checked by TLC only.
- `SubscriptionDeliveryProofs`, from the manager's assumptions and `ReachedAssumption`.
  The manager's `IInv` is kept by whatever is published to any set of watches
  (`PublishKeepsIInv`), and the rest is shown in three parts, each assuming only what it
  reads of the others: the two tables, the client's knowledge, and the tokens. That the
  tables agree between requests (`RegistriesAgree`) is not inductive: it needs where they
  stand during one (`RequestAgrees`), that requests of a client for a key do not overlap
  (`OneRequest`), and that the cleanup of a session happens after its handlers.
  `NoMissedChange` needs that a client in sync is registered and connected
  (`SyncedShape`), hence by the first part subscribed, and that a watch that has not started
  has nothing buffered; then each step that takes an event off its way is a notification, of
  which those it does not reach are `missed`, a drop, or the end of the watch. `FanOutBounded` follows from a stronger sum: what a watch
  has sent and the tokens it has left are never more than its burst
  (`TokenPerNotification`). `DeliveryNoLeak` and `DeliveryImplementsService` carry the
  manager's own theorems over to the composition.
- `ConfigUpdateProofs`: `IInv` (locks are held by those inside; admitted calls passed their
  guards; configurations carry calls that took effect; and what a handler is about to
  submit to a node that has one admitted name was made from its present configuration).
  From it `Authorised`, `NothingLost` and `Believable`, node by node; that a change was replaced
  later is what `replaced` records, and it is never an excuse for a patch that another patch undid: the last two say
  nothing of a node with two names (`OneName`, which the code does not see to), and other
  nodes may have as many as they like. `HandlersImplementService` needs that every node
  has one (`AliasFree`) and that no client cancels during an RPC.
- `RebootWaitProofs`: `IInv` (which boot IDs are known at each stage, that what was read is
  a boot ID the node had, who follows whom), and from it `ReportsAreTrue` and
  `NodesAskedInOrder`, whatever fails.
- `UpgradeVersionProofs`: `PathRuleDecided` (the code's comparisons decide the documented
  rule for all versions), and `IInv`, inductive: who holds the lock (`Held`), which calls
  are where (`Places`), that cache, endpoint and what a reader holds are recent
  (`Recent`), that an upgrade past its check followed the rule (`Passed`). `NothingStale`
  alone is not inductive: a version in a reader's hands could be stored after a clearing, were it
  not for the lock. From it `UpgradesAreChecked`, `VersionsAreRecent` and `FetchedOnce`.
- `ToolGatesProofs`, from `ServerConfigAssumption` and `ToolGatesAssumption` (of the library:
  two spellings of one address or host name reach one node). `IInv` is inductive: a call under way has
  passed its guards (`Progress`), what is in flight or executed was sent by such a call
  and met the pinned certificate (`Traced`), and a finished call's lines and answer fit
  (`Returned`). `Authorised` is stated of the environment and not of the parsed
  configuration, with what a range covers as `net.IPNet.Contains` has it and the ceiling the code applies
  (the ceiling the README promises does not hold, see section 5); between the two stand `AllowlistLists`, `EndpointLists` and `FlagsAreOpted`
  (parsed lists and flags decide what the written ones say), then one lemma for each
  kind of guard. `GateBreaks` shows that each outcome names a rule that was broken, and
  `SameVerdict` that respelling a request changes no guard.
- `ServedSnapshotsProofs`, from `FrontEndAssumption`, `SnapshotFilesAssumption` and
  `ServedSnapshotsAssumption`. A step is one of the front end, of the files, or of both
  (`Halves`), so the invariants of the halves are shown apart and joined by `CallsAdmitted`: a tool
  runs only for a POST that came through the chain, whose body has come. That slots are counted right needs
  cardinalities of sets that change by one element. What is on disk needs that a file keeps one home path
  (`Home`), that a call which did not share its path is alone with its file and has
  written its first pieces (`Alone`), and what was left by the last opener of a file
  nobody has open (`LastOpened`). From it `FilesAreWhole` and `ReportsAreTrue`; both
  except calls that shared a path, and the first also those cut off with the process and those
  that failed and left their file, because its removal, or the flush of a snapshot, had failed.
- `CollectorsProofs`, from `CollectorsAssumption`. An action concerns one call, so the
  invariant is shown call by call with a frame for the others (`OneCallKeeps`). `ResultTrue`
  speaks of calls that have been answered; what makes it inductive is `KeptSoFar`, what is
  kept while the stream is read: all of it, or for dmesg a suffix, which is the whole until
  the ring is full. The ring's step is a lemma on suffixes (`SuffixMoves`), the early stops
  one on prefixes. It gives `CollectedSoFar` and `ResultsAreTrue` for every limit and any
  number of nodes and lines; `CollectedSoFar` also says that a stream is opened only where
  the node and path allowlists let it.

Liveness under fairness is out of the prover's reach and is model-checked only:
`RemovedStops`, `ShutdownStops`, `SessionEnds`, `Answered`, `EveryCallAnswered`,
`TimedAnswered`, `EveryoneAnswered`, `Returns`, and the fairness of `SubscriptionService`.
So is what a recursive definition computes: the theorems use `Clean` (`filepath.Clean`)
only as the same function on both sides of a comparison, and that it resolves ".." and "." as
intended is seen in the `Collectors` run alone.

## 5. Where the code and its documentation differ

Two with a run that shows it:

1. `EveryNodeReached`: the watch context carries no node, so a subscription to another
   node's resource watches the endpoint's own.
2. `UnverifiedReboot`: any probe error counts as the node going down, and a boot ID that
   cannot be read counts as a success, so "rebooted" can be answered of a node that was not.

Others met while modelling, which the models contain and no run singles out:

- `lifecycle.go:422` and `460` clear the cached version because "the node is now on the new version"
  (the previous one), and `client.go:141-143` promises fresh data after it. The node has only
  accepted the RPC: whoever asks before it restarts caches the old version again, for
  good. What holds is `NothingStale`.
- `README.md:73` refuses IPv4 masks below 16 in the insecure allowlist. A range of IPv4 addresses
  written as IPv6, `::ffff:0:0/96`, is measured against the ceiling of IPv6 (`insecure.go:76-86`) and
  covers all of IPv4 (`nodes.go:68`). `Authorised` holds with the ceiling of the family a range is written
  in, and `Gates` starts a server with such a range.
- A watch that ends on an error keeps its entry in `subs` (`manager.go:285`), although the
  package comment (7-10) says open subscriptions are watched; a later subscribe is answered
  as a duplicate. `NoSilentStale` names it as an exception.
- The limiter belongs to a subscription (`manager.go:105`), where `README.md:80` speaks of a rate for a
  session and URI; a notification goes to every session of the URI. What holds is `FanOutBound`.
- A `ResourceUpdated` that fails is logged and not repeated, its token spent (`manager.go:301-303`),
  so a change is lost although `README.md:227` says clients are told whenever there is one:
  `NoSilentStale` names it as an exception.
- An upgrade that fails on some nodes after others accepted it returns without clearing the cache
  (`lifecycle.go:416`). Nothing says what the cache holds then, and no property does.
- Two names of one node are two locks (`lifecycle.go:559`), so the race that
  `helpers.go:56-57` excludes remains between them. The properties except such a node (`OneName`).
- `helpers.go:227` speaks of a paired line for every audit line; service actions, reboot, upgrade,
  rollback, patch and reset write none, and the outcome line carries neither the nodes nor the
  correlation field that 208-210 join by. `OutcomeHonest` is about `Paired`, the tools that do.
- Limits of zero or less are accepted (`middleware.go:95`): no slot, or an empty bucket.
- A request that names no node goes to the default nodes, which are not checked against
  the allowlist (`nodes.go`); `Authorised` and `Collectors` say so.
- Two snapshots to one path write to one file, and the cleanup of one removes the
  other's (`etcd.go:123-140`): the set `mixed`. The process exits under requests in flight
  (`main.go:429`): the state `cut`. An ignored error of `os.Remove` (`etcd.go:131`, `secret_file.go:74-90`) or a
  snapshot's failed Sync or Close (`etcd.go:135-141`) leaves a partial file: the state `left`.
- A client that stalls the body of its POST keeps its slot (`middleware.go:82-88`,
  `main.go:422-426`): with as many of them as slots, every other POST is answered 503.
- `max_lines` of dmesg has no bound, and its ring is allocated at once (`logs.go:191`); memory is not modelled.

`NoSilentStale` names what a subscriber gives up besides these: the last change of a burst
that the limiter drops, and a change between its read and the start of an aggregated watch.

## 6. Not modelled, and the plan

Not modelled for good: conversions (marshalling, completions, prompts) and packaging, which
keep no state; the etcd preflight, which nothing calls; the verdict of the patch blocklist, which is a field
of a request in `ConfigUpdate`, because what a patch changes is decided by a library outside the
repository. The handshake between `initialize` and `initialized`, and the sessions of the
HTTP transport, belong to the SDK. Apply modes that activate later (`staged`, `try`) need
the node's semantics. A resource kind that never resolves (`manager.go:148`) is outside the
fairness assumed.

Every safety property the passing runs check is a theorem. What could still be
stated and proved:

1. That the delivery is complete within one subscription: between two reads with no
   drop, every change is followed by a notification, as an abstract specification of the
   client's view that `SubscriptionDelivery` implements.
2. That `ToolGates` implements a server that executes exactly what the environment permits,
   as an abstract specification beside `Authorised`.
