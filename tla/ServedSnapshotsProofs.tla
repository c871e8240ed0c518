----------------------- MODULE ServedSnapshotsProofs -----------------------
(***************************************************************************)
(* Proofs about ServedSnapshots.  A step is a step of the front end (or    *)
(* none) and a step of the files (or none), so each half of the inductive  *)
(* invariant is preserved on its own; the two meet in the token that came  *)
(* with each call.                                                         *)
(***************************************************************************)
EXTENDS ServedSnapshots, FiniteSetTheorems, TLAPS

HttpStep ==
    \/ \E r \in Clients :
          \/ Receive(r) \/ RequireBearerToken(r) \/ Admit(r) \/ Shed(r)
          \/ BodyArrives(r) \/ ProbeFails(r) \/ ProbeAnswered(r)
          \/ Leave(r, 0) \/ Leave(r, 200) \/ Leave(r, 400)
    \/ Refill \/ Signal \/ Exit \/ Restart
    \/ UNCHANGED httpVars

FileStep ==
    \/ \E c \in Jobs : (\E q \in FileRequests : Call(c, q)) \/ Body(c) \/ Fault(c)
    \/ CutJobs
    \/ UNCHANGED fileVars

(* Each step of the composition is a step of both halves. *)
LEMMA Halves == [Next]_vars => HttpStep /\ FileStep
<1> SUFFICES ASSUME [Next]_vars PROVE HttpStep /\ FileStep
    OBVIOUS
<1>1. CASE UNCHANGED vars
    BY <1>1 DEF vars, HttpStep, FileStep
<1>2. ASSUME NEW r \in Clients, \/ Receive(r) \/ Http(r) \/ BodyArrives(r)
                               \/ ProbeAnswered(r) \/ End(r) \/ Gone(r),
             UNCHANGED fileVars
      PROVE  HttpStep /\ FileStep
    BY <1>2 DEF HttpStep, FileStep, Http, Chain, RefuseBody, End, Gone
<1>3. ASSUME NEW c \in Jobs, Serve(c) \/ Answer(c) \/ Tool(c)
      PROVE  HttpStep /\ FileStep
    BY <1>3, ServedSnapshotsAssumption DEF HttpStep, FileStep, Serve, Answer, Tool
<1>4. CASE (Refill \/ Signal \/ Restart) /\ UNCHANGED fileVars
    BY <1>4 DEF HttpStep, FileStep
<1>5. CASE Die
    BY <1>5 DEF Die, HttpStep, FileStep
<1> QED
    BY <1>1, <1>2, <1>3, <1>4, <1>5 DEF Next, Http, End, Gone

-----------------------------------------------------------------------------
(* The front end. *)
LEMMA LimitsAreNumbers ==
    ASSUME NEW s \in Settings
    PROVE  LET l == NewTransportConfig(s) IN l.rate \in Int /\ l.burst \in Int /\ l.conc \in Int
BY FrontEndAssumption DEF NewTransportConfig, EnvInt

LEMMA LimitsInt ==
    HttpTypeOK => limits.rate \in Int /\ limits.burst \in Int /\ limits.conc \in Int
BY LimitsAreNumbers DEF HttpTypeOK, HttpStates

HttpInv ==
    /\ HttpTypeOK
    /\ SlotsAccounted
    /\ proc = "down" => InHandler = {}
    /\ IsFiniteSet(Holders)

LEMMA HttpBegins == HttpInit => HttpInv
<1> SUFFICES ASSUME HttpInit PROVE HttpInv
    OBVIOUS
<1>1. PICK s \in Settings : limits = NewTransportConfig(s)
    BY DEF HttpInit
<1>2. limits.burst \in Int /\ limits.conc \in Int
    BY <1>1, LimitsAreNumbers
<1>3. HttpTypeOK
    BY <1>1, <1>2 DEF HttpInit, HttpTypeOK, HttpStates, Full
<1>4. InHandler = {} /\ Holders = {}
    BY DEF HttpInit, InHandler, Holders, At
<1>5. SlotsAccounted
    BY <1>2, <1>4, FS_EmptySet DEF SlotsAccounted, HttpInit
<1> QED
    BY <1>3, <1>4, <1>5, FS_EmptySet DEF HttpInv

(* The slots that are taken are a finite set of handlers. *)
LEMMA SlotOfHolder ==
    ASSUME HttpInv, NEW r \in InHandler
    PROVE  /\ IsPost(r) => sem - 1 \in Nat
           /\ \A status : Released(r, status) \in Nat
<1>1. CASE IsPost(r)
    <2>1. r \in Holders
        BY <1>1 DEF Holders
    <2>2. Cardinality(Holders) # 0 /\ Cardinality(Holders) \in Nat
        BY <2>1, FS_EmptySet, FS_CardinalityType DEF HttpInv
    <2> QED
        BY <2>2, <1>1 DEF HttpInv, SlotsAccounted, Released
<1>2. CASE ~IsPost(r)
    BY <1>2 DEF HttpInv, HttpTypeOK, HttpStates, Released
<1> QED
    BY <1>1, <1>2

LEMMA HttpTyped == HttpInv /\ HttpStep => HttpTypeOK'
<1> SUFFICES ASSUME HttpInv, HttpStep PROVE HttpTypeOK'
    OBVIOUS
<1>1. HttpTypeOK /\ limits.burst \in Int /\ limits.conc \in Int
    BY LimitsInt DEF HttpInv
<1> USE <1>1 DEF HttpTypeOK, HttpStates, Full
<1>2. ASSUME NEW r \in Clients, Receive(r)
      PROVE  HttpTypeOK'
    <2> PICK q \in HttpRequests : RateLimit(r, q) \/ Probe(r, q)
        BY <1>2 DEF Receive
    <2>1. CASE RateLimit(r, q)
        BY <2>1 DEF RateLimit, At
    <2>2. CASE Probe(r, q)
        BY <2>2 DEF Probe, At
    <2> QED
        BY <2>1, <2>2
<1>3. ASSUME NEW r \in Clients, RequireBearerToken(r) PROVE HttpTypeOK'
    BY <1>3 DEF RequireBearerToken, At, Goto, Reply
<1>4. ASSUME NEW r \in Clients, Admit(r) PROVE HttpTypeOK'
    BY <1>4 DEF Admit, At, Goto
<1>5. ASSUME NEW r \in Clients, Shed(r) \/ BodyArrives(r) \/ ProbeFails(r) \/ ProbeAnswered(r)
      PROVE  HttpTypeOK'
    BY <1>5 DEF Shed, BodyArrives, Goto, ProbeFails, ProbeAnswered, At, Reply
<1>6. ASSUME NEW r \in Clients, Leave(r, 0) \/ Leave(r, 200) \/ Leave(r, 400)
      PROVE  HttpTypeOK'
    <2>1. sem' \in Nat
        BY <1>6, SlotOfHolder DEF Leave
    <2>2. Reply(r, 0) \/ Reply(r, 200) \/ Reply(r, 400)
        BY <1>6 DEF Leave
    <2>3. UNCHANGED <<limits, tokens, proc>>
        BY <1>6 DEF Leave
    <2> QED
        BY <2>1, <2>2, <2>3 DEF Reply
<1>7. CASE Refill \/ Signal \/ Exit \/ Restart
    BY <1>7 DEF Refill, Signal, Exit, Restart
<1>8. CASE UNCHANGED httpVars
    BY <1>8 DEF httpVars
<1> QED
    BY <1>2, <1>3, <1>4, <1>5, <1>6, <1>7, <1>8 DEF HttpStep

(* A slot is taken with the step into the handler and given back with the  *)
(* step out of it.                                                         *)
LEMMA HttpKept == HttpInv /\ HttpStep => HttpInv'
<1> SUFFICES ASSUME HttpInv, HttpStep PROVE HttpInv'
    OBVIOUS
<1> DEFINE Accounts == SlotsAccounted /\ (proc = "down" => InHandler = {}) /\ IsFiniteSet(Holders)
<1>1. HttpTypeOK /\ Accounts /\ HttpTypeOK' /\ limits.conc \in Int
    BY HttpTyped, LimitsInt DEF HttpInv
<1> SUFFICES Accounts'
    BY <1>1 DEF HttpInv
<1>2. ASSUME InHandler' = InHandler, Holders' = Holders, sem' = sem, limits' = limits,
             \A r \in InHandler : http'[r].req = http[r].req,
             proc' = "down" => proc = "down"
      PROVE  Accounts'
    BY <1>1, <1>2 DEF SlotsAccounted
<1>3. ASSUME NEW r \in Clients,
             Receive(r) \/ RequireBearerToken(r) \/ Shed(r) \/ ProbeFails(r) \/ ProbeAnswered(r)
      PROVE  Accounts'
    <2>1. /\ r \notin InHandler /\ r \notin InHandler'
          /\ \A o \in Clients \ {r} : http'[o] = http[o]
          /\ UNCHANGED <<sem, limits, proc>>
        BY <1>1, <1>3 DEF Receive, RateLimit, Probe, RequireBearerToken, Shed, ProbeFails,
                          ProbeAnswered, Goto, Reply, At, InHandler, HttpTypeOK, HttpStates
    <2>2. InHandler' = InHandler /\ Holders' = Holders
        BY <2>1 DEF InHandler, Holders, At, IsPost
    <2> QED
        BY <1>2, <2>1, <2>2 DEF InHandler
<1>9. ASSUME NEW r \in Clients, BodyArrives(r)
      PROVE  Accounts'
    <2>1. /\ r \in InHandler /\ r \in InHandler' /\ http'[r].req = http[r].req
          /\ \A o \in Clients \ {r} : http'[o] = http[o]
          /\ UNCHANGED <<sem, limits, proc>>
        BY <1>1, <1>9 DEF BodyArrives, Goto, At, InHandler, HttpTypeOK, HttpStates
    <2>2. InHandler' = InHandler /\ Holders' = Holders
        BY <2>1 DEF InHandler, Holders, IsPost
    <2> QED
        BY <1>2, <2>1, <2>2 DEF InHandler
<1>4. ASSUME NEW r \in Clients, Admit(r)
      PROVE  Accounts'
    <2>1. /\ At(r, "gate") /\ r \in InHandler' /\ http'[r].req = http[r].req
          /\ \A o \in Clients \ {r} : http'[o] = http[o]
          /\ UNCHANGED <<limits, proc>>
          /\ http[r].req.token
          /\ proc # "down"
        BY <1>1, <1>4 DEF Admit, Goto, At, InHandler, HttpTypeOK, HttpStates, Running
    <2>2. InHandler' = InHandler \cup {r} /\ r \notin Holders
        BY <2>1 DEF InHandler, Holders, At
    <2>3. \A o \in InHandler' : http'[o].req.token
        BY <1>1, <2>1, <2>2 DEF SlotsAccounted, InHandler
    <2>4. CASE IsPost(r)
        <3>1. Holders' = Holders \cup {r}
            BY <2>1, <2>4 DEF Holders, InHandler, At, IsPost
        <3>2. Cardinality(Holders') = Cardinality(Holders) + 1 /\ IsFiniteSet(Holders')
            BY <1>1, <2>2, <3>1, FS_AddElement
        <3>3. sem' = sem + 1 /\ sem < limits.conc /\ sem \in Nat
            BY <1>1, <1>4, <2>4 DEF Admit, HttpTypeOK, HttpStates
        <3> QED
            BY <1>1, <2>1, <2>3, <3>2, <3>3 DEF SlotsAccounted
    <2>5. CASE ~IsPost(r)
        <3>1. Holders' = Holders
            BY <2>1, <2>5 DEF Holders, InHandler, At, IsPost
        <3> QED
            BY <1>1, <1>4, <2>1, <2>3, <2>5, <3>1 DEF SlotsAccounted, Admit
    <2> QED
        BY <2>4, <2>5
<1>5. ASSUME NEW r \in Clients, NEW code, Leave(r, code)
      PROVE  Accounts'
    <2>1. /\ r \in InHandler /\ r \notin InHandler'
          /\ \A o \in Clients \ {r} : http'[o] = http[o]
          /\ UNCHANGED <<limits, proc>>
        BY <1>1, <1>5 DEF Leave, Reply, InHandler, HttpTypeOK, HttpStates
    <2>2. InHandler' = InHandler \ {r}
        BY <2>1 DEF InHandler, At
    <2>3. \A o \in InHandler' : http'[o].req.token
        BY <1>1, <2>1, <2>2 DEF SlotsAccounted, InHandler
    <2>4. Holders' = Holders \ {r}
        BY <2>1 DEF Holders, InHandler, At, IsPost
    <2>5. IsFiniteSet(Holders') /\ Cardinality(Holders') = (IF r \in Holders THEN Cardinality(Holders) - 1 ELSE Cardinality(Holders))
        BY <1>1, <2>4, FS_RemoveElement
    <2>6. r \in Holders <=> IsPost(r)
        BY <2>1 DEF Holders, InHandler
    <2>7. sem' = (IF IsPost(r) THEN sem - 1 ELSE sem) /\ sem \in Nat
        BY <1>1, <1>5 DEF Leave, Released, HttpTypeOK, HttpStates
    <2> QED
        BY <1>1, <2>1, <2>2, <2>3, <2>5, <2>6, <2>7 DEF SlotsAccounted
<1>6. CASE Refill \/ Signal \/ Restart
    <2>1. UNCHANGED <<http, sem, limits>> /\ (proc' = "down" => proc = "down")
        BY <1>6 DEF Refill, Signal, Restart
    <2> QED
        BY <1>2, <2>1 DEF InHandler, Holders, At, IsPost
<1>7. CASE Exit
    <2>1. InHandler' = {} /\ Holders' = {}
        BY <1>7 DEF Exit, InHandler, Holders, At
    <2>2. sem' = 0 /\ limits' = limits
        BY <1>7 DEF Exit
    <2> QED
        BY <1>1, <2>1, <2>2, FS_EmptySet DEF SlotsAccounted
<1>8. CASE UNCHANGED httpVars
    BY <1>2, <1>8 DEF httpVars, InHandler, Holders, At, IsPost
<1> QED
    BY <1>3, <1>4, <1>5, <1>6, <1>7, <1>8, <1>9 DEF HttpStep

-----------------------------------------------------------------------------
(* The files. *)
FileInv == FileTypeOK /\ FilesAccounted

LEMMA FileBegins == FileInit => FileInv
<1> SUFFICES ASSUME FileInit PROVE FileInv
    OBVIOUS
<1> USE SnapshotFilesAssumption DEF Inodes
<1>1. FileTypeOK
    BY DEF FileInit, FileTypeOK, JobStates, Whole, Empty, JobAt
<1>2. Opened = {} /\ \A c \in Jobs : JobAt(c, "idle") /\ job[c].done = 0
    BY DEF FileInit, Opened, JobAt
<1>3. \A p \in Paths : dir[p] # NoFile => dir[p] = p /\ opener[p] = p /\ data[p] = Whole(p)
    BY DEF FileInit
<1>4. Homes /\ Alone
    BY <1>2, <1>3 DEF Homes, Alone, Files, Home, JobAt
<1>5. \A p \in Paths : p \notin Jobs
    OBVIOUS
<1>6. \A p \in Paths : dir[p] # NoFile => LastOpened(p, dir[p], opener[dir[p]])
    BY <1>2, <1>3, <1>5 DEF LastOpened
<1> QED
    BY <1>1, <1>4, <1>6 DEF FileInv, FilesAccounted

LEMMA PathIsPath == ASSUME FileTypeOK, NEW c \in Jobs, ~JobAt(c, "idle") PROVE PathOf(c) \in Paths
BY SnapshotFilesAssumption DEF FileTypeOK, JobStates, AllFileRequests, PathOf

(* A call that has begun moves on; its request stays. *)
LEMMA Moved ==
    ASSUME FileTypeOK, NEW c \in Jobs, ~JobAt(c, "idle"),
           NEW pc \in {"ready", "writing", "synced", "ok", "failed", "left", "cut"},
           job' = [job EXCEPT ![c].pc = pc]
    PROVE  /\ job' \in [Jobs -> JobStates]
           /\ \A d \in Jobs : job'[d] = IF d = c THEN [job[c] EXCEPT !.pc = pc] ELSE job[d]
           /\ job'[c].pc = pc /\ job'[c].req = job[c].req
           /\ job'[c].file = job[c].file /\ job'[c].done = job[c].done
           /\ \A d \in Jobs : ~JobAt(d, "idle")' => job'[d].req \in FileRequests
<1>1. job \in [Jobs -> JobStates] /\ job[c] \in JobStates
    BY DEF FileTypeOK
<1>2. \A d \in Jobs : job'[d] = IF d = c THEN [job[c] EXCEPT !.pc = pc] ELSE job[d]
    BY <1>1
<1>3. job'[c] \in JobStates
    BY <1>1, <1>2 DEF JobStates
<1>4. /\ job'[c].pc = pc /\ job'[c].req = job[c].req
      /\ job'[c].file = job[c].file /\ job'[c].done = job[c].done
    BY <1>1, <1>2 DEF JobStates
<1>5. job' \in [Jobs -> JobStates]
    BY <1>1, <1>3
<1>6. \A d \in Jobs : ~JobAt(d, "idle")' => job'[d].req \in FileRequests
    BY <1>2, <1>4 DEF FileTypeOK, JobAt
<1> QED
    BY <1>2, <1>4, <1>5, <1>6

(* One field of one entry changes: of the calls' states f, into g. *)
LEMMA PcSet ==
    ASSUME NEW c \in Jobs, NEW f \in [Jobs -> JobStates], NEW g,
           NEW pc \in {"called", "writing"}, g = [f EXCEPT ![c].pc = pc]
    PROVE  /\ g \in [Jobs -> JobStates] /\ \A d \in Jobs \ {c} : g[d] = f[d]
           /\ g[c].pc = pc /\ g[c].req = f[c].req /\ g[c].file = f[c].file /\ g[c].done = f[c].done
BY DEF JobStates

LEMMA ReqSet ==
    ASSUME NEW c \in Jobs, NEW f \in [Jobs -> JobStates], NEW g,
           NEW r \in FileRequests, g = [f EXCEPT ![c].req = r]
    PROVE  /\ g \in [Jobs -> JobStates] /\ \A d \in Jobs \ {c} : g[d] = f[d]
           /\ g[c].req = r /\ g[c].pc = f[c].pc /\ g[c].file = f[c].file /\ g[c].done = f[c].done
BY DEF JobStates

LEMMA FileSet ==
    ASSUME NEW c \in Jobs, NEW f \in [Jobs -> JobStates], NEW g,
           NEW i \in Inodes, g = [f EXCEPT ![c].file = i]
    PROVE  /\ g \in [Jobs -> JobStates] /\ \A d \in Jobs \ {c} : g[d] = f[d]
           /\ g[c].file = i /\ g[c].pc = f[c].pc /\ g[c].req = f[c].req /\ g[c].done = f[c].done
BY DEF JobStates

(* What Call and Open change of the calls' states. *)
LEMMA CalledFields ==
    ASSUME NEW c \in Jobs, job \in [Jobs -> JobStates], NEW r \in FileRequests
    PROVE  job' = [job EXCEPT ![c].pc = "called", ![c].req = r] =>
               /\ job' \in [Jobs -> JobStates]
               /\ \A d \in Jobs \ {c} : job'[d] = job[d]
               /\ job'[c].req = r /\ job'[c].pc = "called"
               /\ job'[c].file = job[c].file /\ job'[c].done = job[c].done
<1>1. PICK f : f = [job EXCEPT ![c].pc = "called"]
    OBVIOUS
<1>2. /\ f \in [Jobs -> JobStates] /\ \A d \in Jobs \ {c} : f[d] = job[d]
      /\ f[c].pc = "called" /\ f[c].file = job[c].file /\ f[c].done = job[c].done
    BY <1>1, PcSet
<1>3. job' = [job EXCEPT ![c].pc = "called", ![c].req = r] => job' = [f EXCEPT ![c].req = r]
    BY <1>1
<1>4. job' = [f EXCEPT ![c].req = r] =>
          /\ job' \in [Jobs -> JobStates] /\ \A d \in Jobs \ {c} : job'[d] = f[d]
          /\ job'[c].req = r /\ job'[c].pc = f[c].pc /\ job'[c].file = f[c].file /\ job'[c].done = f[c].done
    BY <1>2, ReqSet
<1> QED
    BY <1>2, <1>3, <1>4

LEMMA OpenedFields ==
    ASSUME NEW c \in Jobs, job \in [Jobs -> JobStates], NEW i \in Inodes
    PROVE  job' = [job EXCEPT ![c].pc = "writing", ![c].file = i] =>
               /\ job' \in [Jobs -> JobStates]
               /\ \A d \in Jobs \ {c} : job'[d] = job[d]
               /\ job'[c].pc = "writing" /\ job'[c].file = i
               /\ job'[c].req = job[c].req /\ job'[c].done = job[c].done
<1>1. PICK f : f = [job EXCEPT ![c].pc = "writing"]
    OBVIOUS
<1>2. /\ f \in [Jobs -> JobStates] /\ \A d \in Jobs \ {c} : f[d] = job[d]
      /\ f[c].pc = "writing" /\ f[c].req = job[c].req /\ f[c].done = job[c].done
    BY <1>1, PcSet
<1>3. job' = [job EXCEPT ![c].pc = "writing", ![c].file = i] => job' = [f EXCEPT ![c].file = i]
    BY <1>1
<1>4. job' = [f EXCEPT ![c].file = i] =>
          /\ job' \in [Jobs -> JobStates] /\ \A d \in Jobs \ {c} : job'[d] = f[d]
          /\ job'[c].file = i /\ job'[c].pc = f[c].pc /\ job'[c].req = f[c].req /\ job'[c].done = f[c].done
    BY <1>2, FileSet
<1> QED
    BY <1>2, <1>3, <1>4

(* A call whose copy or flush fails: its path is removed, or it leaves what *)
(* it wrote; only its own file has lost something.                          *)
LEMMA Failing ==
    ASSUME FileTypeOK, NEW c \in Jobs, CopyFails(c) \/ FlushFails(c)
    PROVE  /\ c \in Opened /\ UNCHANGED <<opener, mixed>>
           /\ \E pc \in {"failed", "left"} :
                 /\ JobGoto(c, pc)
                 /\ dir' = IF pc = "failed" THEN [dir EXCEPT ![PathOf(c)] = NoFile] ELSE dir
           /\ data' \in [Inodes -> [1 .. Chunks -> Inodes \cup {NoFile}]]
           /\ \A f \in Inodes \ {job[c].file} : data'[f] = data[f]
<1>1. c \in Opened /\ UNCHANGED <<opener, mixed>>
    BY DEF CopyFails, FlushFails, Copied, Opened, JobAt
<1>2. Unlink(c) \/ (dir' = dir /\ JobGoto(c, "left"))
    BY DEF CopyFails, FlushFails
<1>3. data \in [Inodes -> [1 .. Chunks -> Inodes \cup {NoFile}]]
    BY DEF FileTypeOK
<1>4. CASE CopyFails(c)
    BY <1>1, <1>2, <1>3, <1>4 DEF CopyFails, Unlink
<1>5. CASE FlushFails(c)
    <2>1. PICK g : /\ data' = [data EXCEPT ![job[c].file] = g]
                   /\ job[c].file \in Inodes => g \in [1 .. Chunks -> Inodes \cup {NoFile}]
        <3>1. PICK lost \in SUBSET (1 .. Chunks) :
                  data' = [data EXCEPT ![job[c].file] =
                              [k \in 1 .. Chunks |-> IF k \in lost THEN NoFile ELSE @[k]]]
            BY <1>5 DEF FlushFails
        <3>2. PICK g : g = [k \in 1 .. Chunks |-> IF k \in lost THEN NoFile ELSE data[job[c].file][k]]
            OBVIOUS
        <3>3. data' = [data EXCEPT ![job[c].file] = g]
            BY <3>1, <3>2
        <3>4. job[c].file \in Inodes => g \in [1 .. Chunks -> Inodes \cup {NoFile}]
            BY <1>3, <3>2
        <3> QED
            BY <3>3, <3>4
    <2>2. /\ data' \in [Inodes -> [1 .. Chunks -> Inodes \cup {NoFile}]]
          /\ \A f \in Inodes \ {job[c].file} : data'[f] = data[f]
        BY <1>3, <2>1
    <2> QED
        BY <1>1, <1>2, <2>2 DEF Unlink
<1> QED
    BY <1>4, <1>5

LEMMA FileTyped == FileTypeOK /\ FileStep => FileTypeOK'
<1> SUFFICES ASSUME FileTypeOK, FileStep PROVE FileTypeOK'
    OBVIOUS
<1>0. ASSUME NEW c \in Jobs, NEW pc \in {"ready", "writing", "synced", "ok", "failed", "left", "cut"},
             ~JobAt(c, "idle"), JobGoto(c, pc), UNCHANGED <<opener, mixed>>,
             dir' \in [Paths -> Inodes \cup {NoFile}],
             data' \in [Inodes -> [1 .. Chunks -> Inodes \cup {NoFile}]]
      PROVE  FileTypeOK'
    <2>1. /\ job' \in [Jobs -> JobStates]
          /\ \A d \in Jobs : ~JobAt(d, "idle")' => job'[d].req \in FileRequests
        BY <1>0, Moved DEF JobGoto
    <2> QED
        BY <1>0, <2>1 DEF FileTypeOK
<1>00. dir \in [Paths -> Inodes \cup {NoFile}] /\ data \in [Inodes -> [1 .. Chunks -> Inodes \cup {NoFile}]]
    BY DEF FileTypeOK
<1> USE DEF FileTypeOK, JobStates, JobAt, JobGoto, Inodes
<1>1. ASSUME NEW c \in Jobs, NEW q \in FileRequests, Call(c, q) PROVE FileTypeOK'
    <2>1. job' = [job EXCEPT ![c].pc = "called", ![c].req = q] /\ UNCHANGED <<dir, data, opener, mixed>>
        BY <1>1 DEF Call
    <2> HIDE DEF JobStates
    <2>2. job' \in [Jobs -> JobStates] /\ job'[c].req = q
        BY <2>1, CalledFields
    <2>3. \A d \in Jobs \ {c} : job'[d] = job[d]
        BY <2>1, CalledFields
    <2> QED
        BY <2>1, <2>2, <2>3
<1>2. ASSUME NEW c \in Jobs, RefuseJob(c) \/ Ready(c) \/ OpenFails(c) PROVE FileTypeOK'
    <2>1. ~JobAt(c, "idle") /\ UNCHANGED <<dir, data, opener, mixed>>
        BY <1>2 DEF RefuseJob, Ready, OpenFails
    <2>2. JobGoto(c, "failed") \/ JobGoto(c, "ready")
        BY <1>2 DEF RefuseJob, Ready, OpenFails
    <2> HIDE DEF FileTypeOK, JobAt, JobGoto
    <2> QED
        BY <1>0, <1>00, <2>1, <2>2
<1>3. ASSUME NEW c \in Jobs, Open(c) PROVE FileTypeOK'
    <2> DEFINE there == dir[PathOf(c)]
               file == IF there = NoFile THEN c ELSE there
    <2>1. PathOf(c) \in Paths
        BY <1>3, PathIsPath DEF Open
    <2>2. file \in Inodes
        BY <2>1
    <2>3. Empty \in [1 .. Chunks -> Inodes \cup {NoFile}]
        BY DEF Empty
    <2>4. /\ dir' = [dir EXCEPT ![PathOf(c)] = file]
          /\ data' = [data EXCEPT ![file] = Empty]
          /\ opener' = [opener EXCEPT ![file] = c]
          /\ job' = [job EXCEPT ![c].pc = "writing", ![c].file = file]
          /\ mixed' \subseteq Jobs
          /\ JobAt(c, "ready")
        BY <1>3 DEF Open, OpenAt, Opened
    <2> HIDE DEF there, file
    <2>5. dir' \in [Paths -> Inodes \cup {NoFile}] /\ opener' \in [Inodes -> Inodes]
        BY <2>2, <2>4
    <2>6. data' \in [Inodes -> [1 .. Chunks -> Inodes \cup {NoFile}]]
        BY <2>2, <2>3, <2>4
    <2> HIDE DEF JobStates
    <2>7. job' \in [Jobs -> JobStates] /\ job'[c].req = job[c].req
        BY <2>2, <2>4, OpenedFields
    <2>8. \A d \in Jobs \ {c} : job'[d] = job[d]
        BY <2>2, <2>4, OpenedFields
    <2> QED
        BY <2>4, <2>5, <2>6, <2>7, <2>8
<1>4. ASSUME NEW c \in Jobs, Write(c) PROVE FileTypeOK'
    <2>1. job[c].done + 1 \in 1 .. Chunks
        BY <1>4, SnapshotFilesAssumption DEF Write
    <2>2. /\ data' = [data EXCEPT ![job[c].file][job[c].done + 1] = c]
          /\ job' = [job EXCEPT ![c].done = job[c].done + 1]
          /\ JobAt(c, "writing") /\ UNCHANGED <<dir, opener, mixed>>
        BY <1>4 DEF Write
    <2>3. data' \in [Inodes -> [1 .. Chunks -> Inodes \cup {NoFile}]]
        BY <2>1, <2>2
    <2>4. job[c].done + 1 \in 0 .. Chunks
        BY <2>1
    <2> QED
        BY <2>2, <2>3, <2>4
<1>5. ASSUME NEW c \in Jobs, CopyFails(c) \/ FlushFails(c) PROVE FileTypeOK'
    <2>1. PICK pc \in {"failed", "left"} :
              /\ JobGoto(c, pc)
              /\ dir' = IF pc = "failed" THEN [dir EXCEPT ![PathOf(c)] = NoFile] ELSE dir
        BY <1>5, Failing
    <2>2. /\ ~JobAt(c, "idle") /\ UNCHANGED <<opener, mixed>>
          /\ data' \in [Inodes -> [1 .. Chunks -> Inodes \cup {NoFile}]]
        BY <1>5, Failing DEF Opened
    <2> HIDE DEF FileTypeOK, JobAt, JobGoto
    <2>3. dir' \in [Paths -> Inodes \cup {NoFile}]
        BY <1>00, <2>1
    <2> QED
        BY <1>0, <2>1, <2>2, <2>3
<1>6. ASSUME NEW c \in Jobs, Sync(c) \/ Close(c) PROVE FileTypeOK'
    <2>1. ~JobAt(c, "idle") /\ UNCHANGED <<dir, data, opener, mixed>>
        BY <1>6 DEF Sync, Close, Copied
    <2>2. JobGoto(c, "synced") \/ JobGoto(c, "ok")
        BY <1>6 DEF Sync, Close
    <2> HIDE DEF FileTypeOK, JobAt, JobGoto
    <2> QED
        BY <1>0, <1>00, <2>1, <2>2
<1>7. CASE CutJobs
    BY <1>7 DEF CutJobs
<1>8. CASE UNCHANGED fileVars
    BY <1>8 DEF fileVars
<1> QED
    BY <1>1, <1>2, <1>3, <1>4, <1>5, <1>6, <1>7, <1>8 DEF FileStep, Body, Fault

(* A step of a call that has no file yet and gets none. *)
LEMMA Quiet ==
    ASSUME FileInv, FileTypeOK', UNCHANGED <<dir, data, opener, mixed>>,
           NEW c \in Jobs, c \notin Past, c \notin Opened', job'[c].done = 0,
           \A d \in Jobs \ {c} : job'[d] = job[d]
    PROVE  FilesAccounted'
<1> USE SnapshotFilesAssumption DEF FileInv, FileTypeOK, JobStates, FilesAccounted, JobAt, PathOf
<1>1. c \notin Opened /\ c \notin Files /\ Opened' = Opened /\ Past \subseteq Past'
    BY DEF Opened, Past, Files
<1>2. \A f \in Files : f \in Files' /\ Home(f)' = Home(f)
    BY <1>1 DEF Files, Home, Past
<1>3. \A d \in Opened : d # c /\ d \in Jobs /\ job'[d] = job[d]
    BY <1>1 DEF Opened
<1>4. Homes'
    BY <1>1, <1>2, <1>3 DEF Homes
<1>5. Alone'
    <2>1. \A d \in Jobs : JobAt(d, "synced")' => d \in Opened
        BY <1>1 DEF Opened
    <2>2. \A d \in Jobs \ Past' : d \in Jobs \ Past
        BY <1>1
    <2>3. ASSUME NEW d \in Opened' \ mixed'
          PROVE  /\ dir'[PathOf(d)'] = job'[d].file
                 /\ opener'[job'[d].file] = d
                 /\ \A k \in 1 .. job'[d].done : data'[job'[d].file][k] = d
        BY <1>1, <1>3, <2>3 DEF Alone
    <2>4. \A d, e \in Opened' : d # e /\ PathOf(d)' = PathOf(e)' => d \in mixed'
        BY <1>1, <1>3 DEF Alone
    <2>5. \A d \in Jobs : JobAt(d, "synced")' => job'[d].done = Chunks
        BY <1>3, <2>1 DEF Alone
    <2>6. \A d \in Jobs \ Past' : job'[d].done = 0
        BY <2>2 DEF Alone
    <2> HIDE DEF FileInv, FileTypeOK, JobStates, FilesAccounted, PathOf
    <2> QED
        BY <2>3, <2>4, <2>5, <2>6 DEF Alone
<1>6. ASSUME NEW p \in Paths, NEW f, NEW w, LastOpened(p, f, w)
      PROVE  LastOpened(p, f, w)'
    <2>1. w \in Jobs => w # c /\ job'[w] = job[w]
        BY <1>6 DEF LastOpened
    <2> QED
        BY <1>1, <1>3, <1>6, <2>1 DEF LastOpened, IsSecret
<1> QED
    BY <1>4, <1>5, <1>6

(* A call that has its path open, or several that are cut, end; the files  *)
(* stay, and so do the paths, but for that of a call that removes it.      *)
LEMMA CutKept == FileInv /\ CutJobs => FilesAccounted'
<1> SUFFICES ASSUME FileInv, CutJobs PROVE FilesAccounted'
    OBVIOUS
<1> USE SnapshotFilesAssumption DEF FileInv, FileTypeOK, JobStates, FilesAccounted, JobAt, PathOf
<1>1. /\ \A d \in Jobs : /\ job'[d].req = job[d].req /\ job'[d].done = job[d].done
                         /\ job'[d].pc = IF job[d].pc \in {"called", "ready", "writing", "synced"}
                                         THEN "cut" ELSE job[d].pc
      /\ UNCHANGED <<dir, data, opener, mixed>>
    BY DEF CutJobs
<1>2. Opened' = {} /\ Past \subseteq Past'
    BY <1>1 DEF Opened, Past
<1>3. Homes'
    <2>1. \A f \in Files : f \in Files' /\ Home(f)' = Home(f)
        BY <1>1, <1>2 DEF Files, Home, Past
    <2> QED
        BY <1>1, <1>2, <2>1 DEF Homes
<1>4. Alone'
    BY <1>1, <1>2 DEF Alone, Past
<1>5. ASSUME NEW p \in Paths, NEW f, NEW w, LastOpened(p, f, w)
      PROVE  LastOpened(p, f, w)'
    <2>1. w \in Opened => w \in Jobs /\ job'[w].pc = "cut"
        BY <1>1 DEF Opened
    <2>2. w \in Jobs => /\ job[w].pc \in {"cut", "left"} => job'[w].pc = job[w].pc
                        /\ job'[w].pc = "failed" => job[w].pc = "failed"
        BY <1>1
    <2> QED
        BY <1>1, <1>2, <1>5, <2>1, <2>2 DEF LastOpened, IsSecret
<1> QED
    BY <1>1, <1>3, <1>4, <1>5

(* One call ends: it has written all of a file, removed its path, or left   *)
(* its file with what is in it.                                             *)
LEMMA EndKept ==
    ASSUME FileInv, FileTypeOK', NEW c \in Opened,
           NEW pc \in {"ok", "failed", "left"}, job' = [job EXCEPT ![c].pc = pc],
           dir' = IF pc = "failed" THEN [dir EXCEPT ![PathOf(c)] = NoFile] ELSE dir,
           pc = "ok" => job[c].done = Chunks /\ data' = data,
           \A f \in Inodes \ {job[c].file} : data'[f] = data[f],
           UNCHANGED <<opener, mixed>>
    PROVE  FilesAccounted'
<1> USE SnapshotFilesAssumption DEF FileInv, FileTypeOK, JobStates, FilesAccounted, JobAt, PathOf
<1>1. /\ c \in Jobs /\ c \in Past /\ Opened' = Opened \ {c} /\ Past' = Past
      /\ \A d \in Jobs \ {c} : job'[d] = job[d]
      /\ job'[c].req = job[c].req /\ job'[c].done = job[c].done /\ job'[c].file = job[c].file
      /\ job'[c].pc = pc /\ PathOf(c) \in Paths
    BY PathIsPath DEF Opened, Past
<1>2. \A d \in Jobs : PathOf(d)' = PathOf(d) /\ IsSecret(d)' = IsSecret(d)
    BY <1>1 DEF IsSecret
<1>3. Files' = Files /\ \A f \in Files : Home(f)' = Home(f)
    BY <1>1, <1>2 DEF Files, Home, Past
<1>4. \A p \in Paths : dir'[p] # NoFile =>
          dir'[p] = dir[p] /\ (p = PathOf(c) => pc # "failed")
    BY <1>1
<1>5. Homes'
    BY <1>1, <1>2, <1>3, <1>4 DEF Homes, Opened
<1>6. Alone'
    <2>1. \A d \in Opened' \ mixed' : dir'[PathOf(d)] = dir[PathOf(d)]
        <3> TAKE d \in Opened' \ mixed'
        <3>1. d \in Opened /\ d # c /\ d \notin mixed /\ PathOf(d) # PathOf(c)
            BY <1>1 DEF Alone
        <3>2. PathOf(d) \in Paths
            BY <3>1, PathIsPath DEF Opened
        <3> QED
            BY <3>1, <3>2
    <2>2. \A d \in Opened' : job'[d] = job[d] /\ d \in Opened
        BY <1>1 DEF Opened
    <2>3. \A d \in Jobs : JobAt(d, "synced")' => JobAt(d, "synced") /\ d # c
        BY <1>1
    <2>4. \A d \in Opened' \ mixed' : data'[job[d].file] = data[job[d].file]
        <3> TAKE d \in Opened' \ mixed'
        <3>1. d \in Opened /\ d # c /\ d \notin mixed /\ PathOf(d) # PathOf(c)
            BY <1>1 DEF Alone
        <3>2. job[d].file \in Inodes /\ job[d].file # job[c].file
            BY <3>1 DEF Homes, Files, Past, Inodes
        <3> QED
            BY <3>2
    <2> QED
        BY <1>1, <1>2, <2>1, <2>2, <2>3, <2>4 DEF Alone
<1>7. ASSUME NEW p \in Paths, NEW f, NEW w, dir'[p] # NoFile, f = dir[p], w = opener[f]
      PROVE  LastOpened(p, f, w)'
    <2>1. LastOpened(p, f, w)
        BY <1>4, <1>7
    <2>2. w \in Jobs => w \in Past' /\ PathOf(w)' = p
        BY <1>1, <1>2, <2>1 DEF LastOpened
    <2>3. \A d \in Opened' : job'[d].file = f => d = w \/ w \in mixed'
        BY <1>1, <2>1 DEF LastOpened, Opened
    <2>4. CASE w = c
        <3>1. p = PathOf(c) /\ pc \in {"ok", "left"}
            BY <1>1, <1>4, <1>7, <2>1, <2>4 DEF LastOpened
        <3>2. c \in mixed \/ pc = "left" \/ data'[f] = Whole(c)
            <4> SUFFICES ASSUME c \notin mixed, pc = "ok" PROVE data[f] = Whole(c)
                BY <3>1
            <4>1. f = job[c].file /\ \A k \in 1 .. Chunks : data[f][k] = c
                BY <1>7, <3>1 DEF Alone
            <4>2. f \in Inodes
                BY <1>4, <1>7
            <4> QED
                BY <4>1, <4>2 DEF Whole
        <3> QED
            BY <1>1, <1>2, <2>1, <2>2, <2>3, <2>4, <3>1, <3>2 DEF LastOpened
    <2>5. CASE w # c
        <3>1. w \in Opened => w \in Opened'
            BY <1>1, <2>5
        <3>2. w \in Jobs => job'[w] = job[w]
            BY <1>1, <2>5
        <3>3. w \in mixed \/ data'[f] = data[f]
            <4>1. f \in Inodes
                BY <1>4, <1>7
            <4>2. f = job[c].file => w \in mixed
                BY <2>1, <2>5 DEF LastOpened
            <4> QED
                BY <4>1, <4>2
        <3> QED
            BY <1>2, <2>1, <2>2, <2>3, <3>1, <3>2, <3>3 DEF LastOpened
    <2> QED
        BY <2>4, <2>5
<1>8. \A p \in Paths : dir'[p] # NoFile => LastOpened(p, dir[p], opener[dir[p]])'
    BY <1>4, <1>7
<1> QED
    BY <1>5, <1>6, <1>8

(* A call that has written all of its file flushes it. *)
LEMMA SyncKept == ASSUME FileInv, FileTypeOK', NEW c \in Jobs, Sync(c) PROVE FilesAccounted'
<1>01. /\ job[c].pc = "writing" /\ job[c].done = Chunks /\ JobGoto(c, "synced") /\ ~JobAt(c, "idle")
      /\ UNCHANGED <<dir, data, opener, mixed>>
    BY DEF Sync, Copied, JobAt
<1>02. /\ \A d \in Jobs \ {c} : job'[d] = job[d]
      /\ job'[c].pc = "synced" /\ job'[c].req = job[c].req
      /\ job'[c].file = job[c].file /\ job'[c].done = job[c].done
    BY <1>01, Moved DEF FileInv, JobGoto
<1>1. /\ \A d \in Jobs : job'[d].req = job[d].req /\ job'[d].file = job[d].file /\ job'[d].done = job[d].done
      /\ \A d \in Jobs \ {c} : job'[d] = job[d]
      /\ job[c].pc = "writing" /\ job'[c].pc = "synced" /\ job[c].done = Chunks
      /\ UNCHANGED <<dir, data, opener, mixed>>
    BY <1>01, <1>02
<1>03. /\ Homes /\ Alone
      /\ \A p \in Paths : dir[p] # NoFile => LastOpened(p, dir[p], opener[dir[p]])
    BY DEF FileInv, FilesAccounted
<1> USE DEF JobAt, PathOf
<1>2. Opened' = Opened /\ Past' = Past
    BY <1>1 DEF Opened, Past
<1>3. Homes'
    <2>1. Files' = Files /\ \A f \in Files : Home(f)' = Home(f)
        BY <1>1, <1>2 DEF Files, Home, Past
    <2>2. \A d \in Opened : PathOf(d)' = PathOf(d) /\ job'[d].file = job[d].file
        BY <1>1 DEF Opened
    <2> HIDE DEF PathOf
    <2> QED
        BY <1>1, <1>2, <1>03, <2>1, <2>2 DEF Homes
<1>4. Alone'
    <2>1. \A d \in Opened : PathOf(d)' = PathOf(d) /\ job'[d].file = job[d].file /\ job'[d].done = job[d].done
        BY <1>1 DEF Opened
    <2>2. \A d \in Jobs : JobAt(d, "synced")' => d = c \/ JobAt(d, "synced")
        BY <1>1
    <2>3. \A d \in Jobs : job'[d].done = job[d].done
        BY <1>1
    <2> HIDE DEF JobAt, PathOf
    <2> QED
        BY <1>1, <1>2, <1>03, <2>1, <2>2, <2>3 DEF Alone
<1>5. ASSUME NEW p \in Paths, NEW f, NEW w, LastOpened(p, f, w)
      PROVE  LastOpened(p, f, w)'
    <2>1. /\ w \in Jobs => PathOf(w)' = PathOf(w) /\ (IsSecret(w)' <=> IsSecret(w))
          /\ w \in Jobs /\ job[w].pc \in {"cut", "left"} => job'[w].pc = job[w].pc
          /\ w \in Jobs /\ JobAt(w, "failed")' => JobAt(w, "failed")
          /\ \A d \in Opened : job'[d].file = job[d].file
        BY <1>1 DEF IsSecret, Opened
    <2> HIDE DEF JobAt, PathOf
    <2> QED
        BY <1>1, <1>2, <1>5, <2>1 DEF LastOpened
<1>6. \A p \in Paths : dir'[p] # NoFile => LastOpened(p, dir[p], opener[dir[p]])'
    BY <1>1, <1>5, <1>03
<1> QED
    BY <1>3, <1>4, <1>6 DEF FilesAccounted

(* A piece goes to a file that is whole only if its last opener is mixed.  *)
LEMMA WriteKept == ASSUME FileInv, FileTypeOK', NEW c \in Jobs, Write(c) PROVE FilesAccounted'
<1> USE SnapshotFilesAssumption DEF FileInv, FileTypeOK, JobStates, FilesAccounted, JobAt, PathOf
<1> DEFINE k == job[c].done + 1
           file == job[c].file
<1>1. /\ job' = [job EXCEPT ![c].done = k] /\ k \in 1 .. Chunks
      /\ data' = [data EXCEPT ![file][k] = c]
      /\ UNCHANGED <<dir, opener, mixed>>
      /\ c \in Opened /\ job[c].pc = "writing" /\ file \in Inodes
    BY DEF Write, Opened, Homes, Files, Past, Inodes
<1>2. /\ \A d \in Jobs \ {c} : job'[d] = job[d]
      /\ \A d \in Jobs : job'[d].pc = job[d].pc /\ job'[d].req = job[d].req /\ job'[d].file = job[d].file
      /\ job'[c].done = k
    BY <1>1
<1> HIDE DEF k
<1>3. Opened' = Opened /\ Past' = Past
    BY <1>2 DEF Opened, Past
<1>4. Homes'
    <2>1. Files' = Files /\ \A f \in Files : Home(f)' = Home(f)
        BY <1>2, <1>3 DEF Files, Home, Past
    <2> QED
        BY <1>1, <1>2, <1>3, <2>1 DEF Homes, Opened
<1>5. \A d \in Opened \ mixed : job[d].file = file => d = c
    <2> SUFFICES ASSUME NEW d \in Opened \ mixed, job[d].file = file PROVE d = c
        OBVIOUS
    <2>1. dir[PathOf(d)] = file /\ opener[file] = d
        BY DEF Alone
    <2>2. PathOf(d) \in Paths
        BY PathIsPath DEF Opened
    <2>3. LastOpened(PathOf(d), file, d)
        <3>1. file # NoFile
            BY <1>1, SnapshotFilesAssumption DEF Inodes
        <3> QED
            BY <2>1, <2>2, <3>1
    <2> QED
        BY <1>1, <2>3 DEF LastOpened
<1>6. \A f \in Inodes \ {file} : data'[f] = data[f]
    BY <1>1
<1>7. Alone'
    <2>1. ASSUME NEW d \in Opened \ mixed, NEW n \in 1 .. job'[d].done
          PROVE  data'[job[d].file][n] = d
        <3>1. job[d].file \in Inodes
            BY DEF Opened, Homes, Files, Past, Inodes
        <3>2. CASE d = c
            <4>1. n = k \/ n \in 1 .. job[c].done
                BY <1>1, <1>2, <3>2 DEF k
            <4> QED
                BY <1>1, <3>2, <4>1 DEF Alone
        <3>3. CASE d # c
            BY <1>2, <1>5, <1>6, <3>1, <3>3 DEF Alone, Opened
        <3> QED
            BY <3>2, <3>3
    <2>2. \A d \in Jobs : JobAt(d, "synced")' => d # c
        BY <1>1, <1>2
    <2>3. c \in Past
        BY <1>1 DEF Past
    <2> QED
        BY <1>1, <1>2, <1>3, <2>1, <2>2, <2>3 DEF Alone, Opened
<1>8. ASSUME NEW p \in Paths, NEW f, NEW w, dir[p] # NoFile, f = dir[p], w = opener[f]
      PROVE  LastOpened(p, f, w)'
    <2>1. LastOpened(p, f, w) /\ f \in Inodes
        BY <1>8
    <2>2. w \in mixed \cup Opened \/ data'[f] = data[f]
        BY <1>1, <1>6, <2>1 DEF LastOpened
    <2>3. w \in Jobs => PathOf(w)' = PathOf(w) /\ IsSecret(w)' = IsSecret(w) /\ job'[w].pc = job[w].pc
        BY <1>2 DEF IsSecret
    <2>4. \A d \in Opened : job'[d].file = job[d].file
        BY <1>2 DEF Opened
    <2> QED
        BY <1>1, <1>3, <2>1, <2>2, <2>3, <2>4 DEF LastOpened
<1> QED
    BY <1>1, <1>4, <1>7, <1>8

(* Whoever opens a path opens it last, alone unless another has it open.   *)
LEMMA OpenKept == ASSUME FileInv, FileTypeOK', NEW c \in Jobs, Open(c) PROVE FilesAccounted'
<1>00. PICK path, file :
          /\ path = PathOf(c)
          /\ file = IF dir[path] = NoFile THEN c ELSE dir[path]
          /\ job' = [job EXCEPT ![c].pc = "writing", ![c].file = file]
          /\ mixed' = IF OpenAt(path) = {} THEN mixed ELSE mixed \cup {c} \cup OpenAt(path)
          /\ dir' = [dir EXCEPT ![path] = file]
          /\ data' = [data EXCEPT ![file] = Empty]
          /\ opener' = [opener EXCEPT ![file] = c]
    <2> DEFINE path == PathOf(c)
               file == IF dir[path] = NoFile THEN c ELSE dir[path]
    <2>1. /\ path = PathOf(c)
          /\ file = IF dir[path] = NoFile THEN c ELSE dir[path]
        OBVIOUS
    <2>2. /\ job' = [job EXCEPT ![c].pc = "writing", ![c].file = file]
          /\ mixed' = IF OpenAt(path) = {} THEN mixed ELSE mixed \cup {c} \cup OpenAt(path)
          /\ dir' = [dir EXCEPT ![path] = file]
          /\ data' = [data EXCEPT ![file] = Empty]
          /\ opener' = [opener EXCEPT ![file] = c]
        BY DEF Open
    <2> HIDE DEF path, file
    <2> QED
        BY <2>1, <2>2, Zenon
<1>01. path \in Paths /\ JobAt(c, "ready") /\ job[c].done = 0 /\ job \in [Jobs -> JobStates]
    BY <1>00, PathIsPath DEF Open, FileInv, FileTypeOK, FilesAccounted, Alone, JobAt, Past
<1>02. file \in Inodes
    BY <1>00, <1>01 DEF FileInv, FileTypeOK, Inodes
<1>03. path = PathOf(c) /\ file = (IF dir[path] = NoFile THEN c ELSE dir[path])
       /\ mixed' = IF OpenAt(path) = {} THEN mixed ELSE mixed \cup {c} \cup OpenAt(path)
    BY <1>00
<1>04. job' = [job EXCEPT ![c].pc = "writing", ![c].file = file]
    BY <1>00
<1>05. /\ \A d \in Jobs \ {c} : job'[d] = job[d]
       /\ job'[c].pc = "writing" /\ job'[c].req = job[c].req /\ job'[c].file = file /\ job'[c].done = 0
    BY <1>01, <1>02, <1>04, OpenedFields
<1>06. /\ \A p \in Paths \ {path} : dir'[p] = dir[p]
       /\ \A f \in Inodes \ {file} : opener'[f] = opener[f] /\ data'[f] = data[f]
       /\ dir'[path] = file /\ opener'[file] = c
    BY <1>00, <1>01, <1>02 DEF FileInv, FileTypeOK
<1> USE <1>03, SnapshotFilesAssumption DEF FileInv, FileTypeOK, FilesAccounted, JobAt, PathOf
<1>1. /\ JobAt(c, "ready") /\ MayOpen(c)
      /\ mixed' = IF OpenAt(path) = {} THEN mixed ELSE mixed \cup {c} \cup OpenAt(path)
    BY <1>01 DEF Open
<1>2. path \in Paths /\ c \notin Past /\ c \notin Opened /\ c \notin Files /\ job[c].done = 0
    BY <1>01, <1>1 DEF Past, Opened, Files
<1>3. /\ \A d \in Jobs \ {c} : job'[d] = job[d]
      /\ job'[c].pc = "writing" /\ job'[c].req = job[c].req /\ job'[c].file = file /\ job'[c].done = 0
    BY <1>05
<1>4. Opened' = Opened \cup {c} /\ Past' = Past \cup {c} /\ Files' = Files \cup {c}
    BY <1>3 DEF Opened, Past, Files
<1>5. /\ \A f \in Files : Home(f)' = Home(f)
      /\ file \in Files' /\ Home(file)' = path /\ (file \in Files => Home(file) = path)
    <2>1. \A f \in Files : Home(f)' = Home(f)
        BY <1>2, <1>3 DEF Home, Files, Past
    <2>2. CASE dir[path] = NoFile
        BY <1>2, <1>3, <1>4, <2>1, <2>2 DEF Home
    <2>3. CASE dir[path] # NoFile
        BY <1>2, <1>4, <2>1, <2>3 DEF Homes
    <2> QED
        BY <2>1, <2>2, <2>3
<1>6. file \in Inodes /\ Files \subseteq Inodes
    BY <1>2 DEF Inodes, Files, Past
<1>7. /\ \A p \in Paths \ {path} : dir'[p] = dir[p]
      /\ \A f \in Inodes \ {file} : opener'[f] = opener[f] /\ data'[f] = data[f]
      /\ dir'[path] = file /\ opener'[file] = c
    BY <1>06
<1>8. Homes'
    <2>1. ASSUME NEW p \in Paths, NEW f, f = dir'[p], f # NoFile PROVE f \in Files' /\ Home(f)' = p
        <3>1. CASE p = path
            BY <1>5, <1>7, <2>1, <3>1
        <3>2. CASE p # path
            BY <1>4, <1>5, <1>7, <2>1, <3>2 DEF Homes
        <3> QED
            BY <3>1, <3>2
    <2>2. ASSUME NEW d \in Opened' PROVE job'[d].file \in Files' /\ Home(job[d].file)' = PathOf(d)'
        <3>1. CASE d = c
            BY <1>3, <1>5, <3>1
        <3>2. CASE d # c
            <4>1. d \in Opened /\ job'[d] = job[d] /\ job[d].file \in Files
                BY <1>3, <1>4, <2>2, <3>2 DEF Opened, Homes
            <4> QED
                BY <1>4, <1>5, <4>1 DEF Homes
        <3> QED
            BY <3>1, <3>2
    <2> QED
        BY <2>1, <2>2 DEF Homes
<1>9. /\ \A d \in Opened : PathOf(d) = path => d \in mixed' /\ c \in mixed'
      /\ mixed \subseteq mixed'
    BY <1>1 DEF OpenAt
<1>10. \A d \in Opened : d # c /\ d \in Jobs /\ job'[d] = job[d] /\ PathOf(d)' = PathOf(d)
    BY <1>2, <1>3 DEF Opened
<1>11. \A d \in Opened : job[d].file = file => PathOf(d) = path
    BY <1>2, <1>5 DEF Homes
<1>12. Alone'
    <2>1. ASSUME NEW d \in Opened', NEW e \in Opened', d # e, PathOf(d)' = PathOf(e)'
          PROVE  d \in mixed'
        BY <1>3, <1>4, <1>9, <1>10, <2>1 DEF Alone
    <2>2. ASSUME NEW d \in Opened' \ mixed'
          PROVE  /\ dir'[PathOf(d)'] = job'[d].file
                 /\ opener'[job'[d].file] = d
                 /\ \A k \in 1 .. job'[d].done : data'[job'[d].file][k] = d
        <3>1. CASE d = c
            BY <1>3, <1>7, <3>1
        <3>2. CASE d # c
            <4>1. d \in Opened \ mixed /\ job'[d] = job[d] /\ PathOf(d)' = PathOf(d)
                BY <1>4, <1>9, <1>10, <3>2
            <4>2. PathOf(d) # path /\ PathOf(d) \in Paths /\ job[d].file # file
                BY <1>9, <1>11, <2>2, <4>1, PathIsPath DEF Opened
            <4>3. job[d].file \in Inodes
                BY <1>6, <4>1 DEF Homes
            <4> QED
                BY <1>7, <4>1, <4>2, <4>3 DEF Alone
        <3> QED
            BY <3>1, <3>2
    <2>3. \A d \in Jobs : JobAt(d, "synced")' => d # c /\ job'[d] = job[d]
        BY <1>3
    <2>4. \A d \in Jobs \ Past' : d # c /\ d \in Jobs \ Past
        BY <1>4
    <2> QED
        BY <1>3, <2>1, <2>2, <2>3, <2>4 DEF Alone
<1>13. LastOpened(path, file, c)'
    <2>1. c \in Past' /\ PathOf(c)' = path /\ c \in Opened'
        BY <1>3, <1>4
    <2>2. ASSUME NEW d \in Opened', job'[d].file = file PROVE d = c \/ c \in mixed'
        BY <1>4, <1>9, <1>10, <1>11, <2>2
    <2>3. IsSecret(c)' => file = c
        BY <1>1, <1>3 DEF MayOpen, IsSecret
    <2> QED
        BY <1>3, <2>1, <2>2, <2>3 DEF LastOpened
<1>14. ASSUME NEW p \in Paths \ {path}, NEW f, NEW w, dir'[p] # NoFile, f = dir'[p], w = opener'[f]
       PROVE  LastOpened(p, f, w)'
    <2>1. dir[p] = f /\ f \in Files /\ Home(f) = p
        BY <1>7, <1>14 DEF Homes
    <2>2. f # file /\ f \in Inodes
        BY <1>5, <1>6, <2>1
    <2>3. LastOpened(p, f, w)
        BY <1>7, <1>14, <2>1, <2>2
    <2>4. w \in Jobs => w # c /\ job'[w] = job[w] /\ PathOf(w)' = PathOf(w)
        BY <1>2, <1>3, <2>3 DEF LastOpened
    <2>5. ASSUME NEW d \in Opened', job'[d].file = f PROVE d = w \/ w \in mixed'
        BY <1>3, <1>4, <1>9, <1>10, <2>2, <2>3, <2>5 DEF LastOpened
    <2>6. w \in mixed \cup Opened => w \in mixed' \cup Opened'
        BY <1>4, <1>9
    <2> QED
        BY <1>4, <1>7, <2>2, <2>3, <2>4, <2>5, <2>6 DEF LastOpened, IsSecret
<1>15. \A p \in Paths : dir'[p] # NoFile => LastOpened(p, dir[p], opener[dir[p]])'
    BY <1>7, <1>13, <1>14
<1> QED
    BY <1>8, <1>12, <1>15

LEMMA FileKept == FileInv /\ FileStep => FileInv'
<1> SUFFICES ASSUME FileInv, FileStep PROVE FileInv'
    OBVIOUS
<1>1. FileTypeOK /\ FileTypeOK' /\ FilesAccounted
    BY FileTyped DEF FileInv
<1> SUFFICES FilesAccounted'
    BY <1>1 DEF FileInv
<1>2. ASSUME NEW c \in Jobs,
             (\E q \in FileRequests : Call(c, q)) \/ RefuseJob(c) \/ Ready(c) \/ OpenFails(c)
      PROVE  FilesAccounted'
    <2>1. /\ c \notin Past
          /\ job'[c].pc \in {"called", "failed", "ready"} /\ job'[c].done = job[c].done
          /\ \A d \in Jobs \ {c} : job'[d] = job[d]
          /\ UNCHANGED <<dir, data, opener, mixed>>
        BY <1>1, <1>2 DEF Call, RefuseJob, Ready, OpenFails, JobAt, JobGoto, Past, FileTypeOK, JobStates
    <2>2. job'[c].done = 0 /\ c \notin Opened'
        BY <1>1, <2>1 DEF FilesAccounted, Alone, Opened
    <2> QED
        BY <1>1, <2>1, <2>2, Quiet
<1>3. ASSUME NEW c \in Jobs, Open(c) PROVE FilesAccounted'
    BY <1>1, <1>3, OpenKept
<1>4. ASSUME NEW c \in Jobs, Write(c) PROVE FilesAccounted'
    BY <1>1, <1>4, WriteKept
<1>5. ASSUME NEW c \in Jobs, Sync(c) PROVE FilesAccounted'
    BY <1>1, <1>5, SyncKept
<1>6. ASSUME NEW c \in Jobs, CopyFails(c) \/ FlushFails(c) PROVE FilesAccounted'
    <2>1. PICK pc \in {"failed", "left"} :
              /\ job' = [job EXCEPT ![c].pc = pc]
              /\ dir' = IF pc = "failed" THEN [dir EXCEPT ![PathOf(c)] = NoFile] ELSE dir
        BY <1>1, <1>6, Failing DEF JobGoto
    <2>2. /\ c \in Opened /\ UNCHANGED <<opener, mixed>>
          /\ \A f \in Inodes \ {job[c].file} : data'[f] = data[f]
        BY <1>1, <1>6, Failing
    <2> QED
        BY <1>1, <2>1, <2>2, EndKept
<1>7. ASSUME NEW c \in Jobs, Close(c) PROVE FilesAccounted'
    <2>1. /\ c \in Opened /\ job' = [job EXCEPT ![c].pc = "ok"]
          /\ job[c].done = Chunks /\ UNCHANGED <<dir, data, opener, mixed>>
        BY <1>1, <1>7 DEF Close, JobAt, JobGoto, Opened, FilesAccounted, Alone
    <2> QED
        BY <1>1, <2>1, EndKept
<1>8. CASE CutJobs
    BY <1>8, CutKept
<1>9. CASE UNCHANGED fileVars
    BY <1>1, <1>9 DEF fileVars, FilesAccounted, Homes, Alone, LastOpened, Files, Past, Home, Opened,
                      PathOf, IsSecret, JobAt
<1> QED
    BY <1>2, <1>3, <1>4, <1>5, <1>6, <1>7, <1>8, <1>9 DEF FileStep, Body, Fault

-----------------------------------------------------------------------------
(* A call under way came with a POST that had the token. *)
CallsAdmitted ==
    \A c \in Jobs : ~JobAt(c, "idle") => ~At(c, "new") /\ http[c].req.token /\ IsPost(c)

IndInv == HttpInv /\ FileInv /\ CallsAdmitted

(* What a request is does not change once it is received. *)
LEMMA RequestStays ==
    ASSUME HttpInv, HttpStep, NEW r \in Clients, ~At(r, "new")
    PROVE  ~At(r, "new")' /\ http'[r].req = http[r].req
<1> USE DEF HttpInv, HttpTypeOK, HttpStates, At, Goto, Reply
<1>1. ASSUME NEW o \in Clients, Receive(o) PROVE o # r /\ http'[r] = http[r]
    BY <1>1 DEF Receive, RateLimit, Probe
<1>2. ASSUME NEW o \in Clients,
             \/ RequireBearerToken(o) \/ Admit(o) \/ Shed(o) \/ BodyArrives(o)
             \/ ProbeFails(o) \/ ProbeAnswered(o)
             \/ Leave(o, 0) \/ Leave(o, 200) \/ Leave(o, 400)
      PROVE  ~At(r, "new")' /\ http'[r].req = http[r].req
    <2>1. ASSUME NEW pc \in {"gate", "reading", "inside"}, Goto(o, pc)
          PROVE  ~At(r, "new")' /\ http'[r].req = http[r].req
        BY <2>1
    <2>2. ASSUME NEW code, Reply(o, code)
          PROVE  ~At(r, "new")' /\ http'[r].req = http[r].req
        BY <2>2
    <2> HIDE DEF HttpInv, HttpTypeOK, HttpStates, At, Goto, Reply
    <2>3. \/ \E pc \in {"gate", "reading", "inside"} : Goto(o, pc)
          \/ \E code : Reply(o, code)
        BY <1>2 DEF RequireBearerToken, Admit, Shed, BodyArrives, ProbeFails, ProbeAnswered, Leave
    <2> QED
        BY <2>1, <2>2, <2>3
<1>3. CASE Refill \/ Signal \/ Restart \/ UNCHANGED httpVars
    BY <1>3 DEF Refill, Signal, Restart, httpVars
<1>4. CASE Exit
    BY <1>4 DEF Exit
<1> QED
    BY <1>1, <1>2, <1>3, <1>4 DEF HttpStep

LEMMA CallsKept == IndInv /\ [Next]_vars => CallsAdmitted'
<1> SUFFICES ASSUME IndInv, [Next]_vars, NEW c \in Jobs, ~JobAt(c, "idle")'
             PROVE  ~At(c, "new")' /\ http'[c].req.token /\ IsPost(c)'
    BY DEF CallsAdmitted
<1>1. HttpInv /\ FileInv /\ CallsAdmitted /\ HttpStep /\ FileStep /\ c \in Clients
    BY Halves, ServedSnapshotsAssumption DEF IndInv
<1>2. CASE ~JobAt(c, "idle")
    BY <1>1, <1>2, RequestStays DEF CallsAdmitted, IsPost
<1>3. CASE JobAt(c, "idle")
    <2>1. Serve(c)
        <3>1. ASSUME NEW d \in Jobs, Tool(d) PROVE FALSE
            <4>1. job'[c] = job[c] \/ d = c
                BY <1>1, <3>1 DEF Tool, Body, Fault, Ready, Open, Write, Sync, Close, RefuseJob,
                       OpenFails, CopyFails, FlushFails, Unlink, Copied, JobAt, JobGoto,
                       FileInv, FileTypeOK
            <4>2. ~JobAt(d, "idle")
                BY <3>1 DEF Tool, Body, Fault, Ready, Open, Write, Sync, Close, RefuseJob,
                       OpenFails, CopyFails, FlushFails, Copied, JobAt
            <4> QED
                BY <1>3, <4>1, <4>2 DEF JobAt
        <3>2. ASSUME NEW d \in Jobs, Serve(d) PROVE d = c
            BY <1>1, <1>3, <3>2 DEF Serve, Call, JobAt, FileInv, FileTypeOK, JobStates
        <3>3. ASSUME UNCHANGED job PROVE FALSE
            BY <1>3, <3>3 DEF JobAt
        <3>4. ASSUME Die PROVE FALSE
            BY <1>1, <1>3, <3>4 DEF Die, CutJobs, JobAt, FileInv, FileTypeOK, JobStates
        <3> QED
            BY <3>1, <3>2, <3>3, <3>4 DEF Next, vars, fileVars, Answer, End, Gone, Http
    <2>2. At(c, "inside") /\ IsPost(c) /\ UNCHANGED httpVars
        BY <2>1 DEF Serve, Carries
    <2>3. http[c].req.token
        BY <1>1, <2>2 DEF HttpInv, SlotsAccounted, InHandler, At
    <2> QED
        BY <2>2, <2>3 DEF httpVars, At, IsPost
<1> QED
    BY <1>2, <1>3

LEMMA Inductive == Spec => []IndInv
<1>1. Init => IndInv
    BY HttpBegins, FileBegins DEF Init, IndInv, CallsAdmitted, FileInit, JobAt
<1>2. IndInv /\ [Next]_vars => IndInv'
    BY Halves, HttpKept, FileKept, CallsKept DEF IndInv
<1> QED
    BY <1>1, <1>2, PTL DEF Spec

(* The variables keep their types; no slot of the semaphore is lost or     *)
(* given twice, and the limit is kept; every call came with a POST that    *)
(* had the token; and what the files hold is accounted for.                *)
THEOREM Invariance == Spec => []IInv
<1>1. IndInv => IInv
    BY DEF IndInv, HttpInv, FileInv, CallsAdmitted, IInv
<1> QED
    BY <1>1, Inductive, PTL

(* However many calls write to however many paths, and wherever the        *)
(* process is ended: a file that nobody has open is whole, but for the     *)
(* cases that LeftBehind names, the removal or flush that failed among     *)
(* them; and a call whose removal did not fail has left nothing.           *)
THEOREM FilesAreWhole == Spec => []LeftBehind
<1>1. IndInv => LeftBehind
    <2> SUFFICES ASSUME IndInv, NEW p \in Paths, dir[p] # NoFile, OpenAt(p) = {}
                 PROVE  LET w == opener[dir[p]] IN
                        /\ \/ data[dir[p]] = Whole(w)
                           \/ w \in mixed
                           \/ w \in Jobs /\ job[w].pc \in {"cut", "left"}
                        /\ w \in Jobs => ~JobAt(w, "failed")
                        /\ w \in Jobs /\ IsSecret(w) => dir[p] = w
        BY DEF LeftBehind
    <2>1. LastOpened(p, dir[p], opener[dir[p]])
        BY DEF IndInv, FileInv, FilesAccounted
    <2>2. opener[dir[p]] \notin Opened
        BY <2>1 DEF LastOpened, OpenAt, Opened
    <2> QED
        BY <2>1, <2>2 DEF LastOpened
<1> QED
    BY <1>1, Inductive, PTL

(* A call reports a file when the path names it and it is the whole stream *)
(* of that call, unless another call had the path open meanwhile.          *)
THEOREM ReportsAreTrue == Spec => ReportedIsThere
<1> DEFINE Reports ==
        \A c \in Jobs :
            job[c].pc # "ok" /\ job'[c].pc = "ok" /\ c \notin mixed' =>
                /\ dir'[PathOf(c)] = job[c].file
                /\ data'[job[c].file] = Whole(c)
<1>1. IndInv /\ [Next]_vars => [Reports]_fileVars
    <2> SUFFICES ASSUME IndInv, FileStep, NEW c \in Jobs,
                        job[c].pc # "ok", job'[c].pc = "ok", c \notin mixed'
                 PROVE  dir'[PathOf(c)] = job[c].file /\ data'[job[c].file] = Whole(c)
        BY Halves
    <2>1. FileTypeOK /\ FilesAccounted
        BY DEF IndInv, FileInv
    <2>2. Close(c)
        <3>1. ASSUME NEW d \in Jobs, NEW q \in FileRequests, Call(d, q) PROVE FALSE
            BY <2>1, <3>1 DEF Call, FileTypeOK, JobStates
        <3>2. ASSUME NEW d \in Jobs, (Body(d) /\ ~Close(d)) \/ Fault(d) PROVE FALSE
            <4>1. \A pc : job' = [job EXCEPT ![d].pc = pc] => pc = "ok"
                BY <2>1 DEF FileTypeOK, JobStates
            <4>2. CASE RefuseJob(d) \/ Ready(d) \/ OpenFails(d) \/ Sync(d) \/ CopyFails(d) \/ FlushFails(d)
                BY <4>1, <4>2 DEF RefuseJob, Ready, OpenFails, Sync, CopyFails, FlushFails, Unlink, JobGoto
            <4>3. CASE Open(d)
                <5>1. \A file : job' = [job EXCEPT ![d].pc = "writing", ![d].file = file] => FALSE
                    BY <2>1 DEF FileTypeOK, JobStates
                <5> QED
                    BY <4>3, <5>1 DEF Open
            <4>4. CASE Write(d)
                <5>1. \A n : job' = [job EXCEPT ![d].done = n] => FALSE
                    BY <2>1 DEF FileTypeOK, JobStates
                <5> QED
                    BY <4>4, <5>1 DEF Write
            <4> QED
                BY <3>2, <4>2, <4>3, <4>4 DEF Body, Fault
        <3>3. ASSUME NEW d \in Jobs, Close(d) PROVE d = c
            BY <2>1, <3>3 DEF Close, JobGoto, FileTypeOK, JobStates
        <3>4. ~CutJobs /\ ~UNCHANGED fileVars
            BY <2>1 DEF CutJobs, fileVars, FileTypeOK, JobStates
        <3> QED
            BY <3>1, <3>2, <3>3, <3>4 DEF FileStep
    <2>3. c \in Opened \ mixed /\ job[c].done = Chunks /\ UNCHANGED <<dir, data, mixed>>
        BY <2>1, <2>2 DEF Close, Opened, JobAt, FilesAccounted, Alone
    <2>4. job[c].file \in Inodes
        BY <2>1, <2>3 DEF FilesAccounted, Homes, Files, Past, Inodes
    <2>5. /\ dir[PathOf(c)] = job[c].file
          /\ \A k \in 1 .. Chunks : data[job[c].file][k] = c
        BY <2>1, <2>3 DEF FilesAccounted, Alone
    <2> QED
        BY <2>1, <2>3, <2>4, <2>5 DEF FileTypeOK, JobStates, Whole
<1> QED
    BY <1>1, Inductive, PTL DEF Spec, ReportedIsThere
=============================================================================
