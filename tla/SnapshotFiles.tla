--------------------------- MODULE SnapshotFiles ----------------------------
(***************************************************************************)
(* The files the server writes on its own host: talos_etcd_snapshot        *)
(* (HandleEtcdSnapshot in internal/tools/etcd.go) and WriteSecretFile      *)
(* (internal/tools/secret_file.go), which no tool calls in this commit.    *)
(*                                                                         *)
(* A directory gives each path a file or none; a call that has a file open *)
(* writes to that file whatever becomes of the path.  A file is named by   *)
(* the call that created it, or by its path if it was there before; its    *)
(* data are Chunks pieces, each written by one call.  Paths are those that *)
(* are absolute and clean; a link counts as a file.                        *)
(***************************************************************************)
EXTENDS Integers

CONSTANTS
    Jobs,       \* calls, each made once
    Paths,      \* local paths
    Chunks,     \* the pieces of a stream
    NoFile,     \* no file, or no data
    FileRequests

AllFileRequests ==
    [kind : {"snapshot", "secret"}, path : Paths, sound : BOOLEAN]

ASSUME SnapshotFilesAssumption ==
    /\ Chunks \in Nat
    /\ FileRequests \subseteq AllFileRequests
    /\ Jobs \cap Paths = {}
    /\ NoFile \notin Jobs \cup Paths

VARIABLES
    dir,        \* the file each path names
    data,       \* the pieces of each file
    opener,     \* who opened each file last
    job,        \* each call: its place, its request, its file, pieces written
    mixed       \* calls that had a path open together with another one

fileVars == <<dir, data, opener, job, mixed>>

-----------------------------------------------------------------------------
Inodes == Jobs \cup Paths
Empty == [k \in 1 .. Chunks |-> NoFile]
Whole(w) == [k \in 1 .. Chunks |-> w]

NoJob == [kind |-> "snapshot", path |-> NoFile, sound |-> FALSE]

FileInit ==
    /\ dir \in {d \in [Paths -> Paths \cup {NoFile}] : \A p \in Paths : d[p] \in {p, NoFile}}
    /\ data = [i \in Inodes |-> IF i \in Paths THEN Whole(i) ELSE Empty]
    /\ opener = [i \in Inodes |-> i]
    /\ job = [c \in Jobs |-> [pc |-> "idle", req |-> NoJob, file |-> NoFile, done |-> 0]]
    /\ mixed = {}

JobAt(c, pc) == job[c].pc = pc
JobGoto(c, pc) == job' = [job EXCEPT ![c].pc = pc]
IsSecret(c) == job[c].req.kind = "secret"
PathOf(c) == job[c].req.path

(* The calls that have a file open, by a path. *)
Opened == {c \in Jobs : job[c].pc \in {"writing", "synced"}}
OpenAt(p) == {c \in Opened : PathOf(c) = p}

-----------------------------------------------------------------------------
Call(c, q) ==
    /\ JobAt(c, "idle")
    /\ job' = [job EXCEPT ![c].pc = "called", ![c].req = q]
    /\ UNCHANGED <<dir, data, opener, mixed>>

(* Its guards; the RPC fails; Lstat finds something, or fails. *)
RefuseJob(c) ==
    /\ JobAt(c, "called")
    /\ JobGoto(c, "failed")
    /\ UNCHANGED <<dir, data, opener, mixed>>

(* The snapshot stream is there; Lstat finds nothing. *)
Ready(c) ==
    /\ JobAt(c, "called")
    /\ job[c].req.sound
    /\ IsSecret(c) => dir[PathOf(c)] = NoFile
    /\ JobGoto(c, "ready")
    /\ UNCHANGED <<dir, data, opener, mixed>>

(* os.Create truncates the file that is there; O_EXCL wants none. *)
(* Mutant: the file is opened without O_EXCL. *)
MayOpen_Always(c) == TRUE
MayOpen(c) == IsSecret(c) => dir[PathOf(c)] = NoFile

Open(c) ==
    LET there == dir[PathOf(c)]
        file == IF there = NoFile THEN c ELSE there
    IN
    /\ JobAt(c, "ready")
    /\ MayOpen(c)
    /\ dir' = [dir EXCEPT ![PathOf(c)] = file]
    /\ data' = [data EXCEPT ![file] = Empty]
    /\ opener' = [opener EXCEPT ![file] = c]
    /\ job' = [job EXCEPT ![c].pc = "writing", ![c].file = file]
    /\ mixed' = IF OpenAt(PathOf(c)) = {} THEN mixed
                ELSE mixed \cup {c} \cup OpenAt(PathOf(c))

OpenFails(c) ==
    /\ JobAt(c, "ready")
    /\ JobGoto(c, "failed")
    /\ UNCHANGED <<dir, data, opener, mixed>>

(* io.Copy, a piece at a time, at the offset of this call's descriptor. *)
Write(c) ==
    LET k == job[c].done + 1 IN
    /\ JobAt(c, "writing")
    /\ k <= Chunks
    /\ data' = [data EXCEPT ![job[c].file][k] = c]
    /\ job' = [job EXCEPT ![c].done = k]
    /\ UNCHANGED <<dir, opener, mixed>>

(* The call fails and its path is removed, whatever file that names; an     *)
(* error of os.Remove is ignored, and the file stays.                       *)
Unlink(c) ==
    \/ dir' = [dir EXCEPT ![PathOf(c)] = NoFile] /\ JobGoto(c, "failed")
    \/ dir' = dir /\ JobGoto(c, "left")

(* The stream or the disk fails, or five minutes pass. *)
(* Mutant: the partial file is not removed. *)
CopyFails_Left(c) ==
    /\ JobAt(c, "writing")
    /\ JobGoto(c, "failed")
    /\ UNCHANGED <<dir, data, opener, mixed>>
CopyFails(c) ==
    /\ JobAt(c, "writing")
    /\ Unlink(c)
    /\ UNCHANGED <<data, opener, mixed>>

(* Mutant: a stream that ends early is taken for a whole one. *)
Copied_Short(c) == JobAt(c, "writing")
Copied(c) == JobAt(c, "writing") /\ job[c].done = Chunks

Sync(c) ==
    /\ Copied(c)
    /\ JobGoto(c, "synced")
    /\ UNCHANGED <<dir, data, opener, mixed>>

Close(c) ==
    /\ JobAt(c, "synced")
    /\ JobGoto(c, "ok")
    /\ UNCHANGED <<dir, data, opener, mixed>>

(* Sync or Close fails: pieces of the file need not reach the disk.  A       *)
(* secret is removed, a snapshot stays.                                     *)
FlushFails(c) ==
    /\ Copied(c) \/ JobAt(c, "synced")
    /\ \E lost \in SUBSET (1 .. Chunks) :
          data' = [data EXCEPT ![job[c].file] =
                      [k \in 1 .. Chunks |-> IF k \in lost THEN NoFile ELSE @[k]]]
    /\ IF IsSecret(c) THEN Unlink(c) ELSE dir' = dir /\ JobGoto(c, "left")
    /\ UNCHANGED <<opener, mixed>>

Body(c) ==
    \/ Ready(c)
    \/ Open(c)
    \/ Write(c)
    \/ Sync(c)
    \/ Close(c)

Fault(c) ==
    \/ RefuseJob(c)
    \/ OpenFails(c)
    \/ CopyFails(c)
    \/ FlushFails(c)

(* The process ends: descriptors are closed, files stay. *)
CutJobs ==
    /\ job' = [c \in Jobs |-> IF job[c].pc \in {"called", "ready", "writing", "synced"}
                              THEN [job[c] EXCEPT !.pc = "cut"] ELSE job[c]]
    /\ UNCHANGED <<dir, data, opener, mixed>>

-----------------------------------------------------------------------------
(* "left": the call has failed, and what it wrote may still be there. *)
Returned(c) == job[c].pc \in {"ok", "failed", "left"}

(* When nobody has a path open, the file it names is the whole data of the  *)
(* call that opened it last, or was there before, unless that call shared   *)
(* the path, was cut off with the process, or failed and left its file      *)
(* because os.Remove, or the flush of a snapshot, had failed; nothing is    *)
(* left of a call that failed otherwise, whoever shared the path with it;   *)
(* and a secret is in a file of its own.                                    *)
LeftBehind ==
    \A p \in Paths :
        LET w == opener[dir[p]] IN
        dir[p] # NoFile /\ OpenAt(p) = {} =>
            /\ \/ data[dir[p]] = Whole(w)
               \/ w \in mixed
               \/ w \in Jobs /\ job[w].pc \in {"cut", "left"}
            /\ w \in Jobs => ~JobAt(w, "failed")
            /\ w \in Jobs /\ IsSecret(w) => dir[p] = w

(* A call that reports a file has written all of it: at the moment it       *)
(* reports, the path names the file, and the file is its whole stream,      *)
(* unless another call had the path open meanwhile.                         *)
ReportedIsThere ==
    [][\A c \in Jobs :
          job[c].pc # "ok" /\ job'[c].pc = "ok" /\ c \notin mixed' =>
              /\ dir'[PathOf(c)] = job[c].file
              /\ data'[job[c].file] = Whole(c)]_fileVars

JobStates ==
    [pc : {"idle", "called", "ready", "writing", "synced", "ok", "failed", "left", "cut"},
     req : FileRequests \cup {NoJob}, file : Inodes \cup {NoFile}, done : 0 .. Chunks]

FileTypeOK ==
    /\ dir \in [Paths -> Inodes \cup {NoFile}]
    /\ data \in [Inodes -> [1 .. Chunks -> Inodes \cup {NoFile}]]
    /\ opener \in [Inodes -> Inodes]
    /\ job \in [Jobs -> JobStates]
    /\ mixed \subseteq Jobs
    /\ \A c \in Jobs : ~JobAt(c, "idle") => job[c].req \in FileRequests

(* What makes LeftBehind inductive.  A file has one path all its life, the  *)
(* one its creator was called with.                                         *)
Past == {c \in Jobs : job[c].pc \notin {"idle", "called", "ready"}}
Files == Paths \cup Past
Home(f) == IF f \in Paths THEN f ELSE PathOf(f)

Homes ==
    /\ \A p \in Paths : dir[p] # NoFile => dir[p] \in Files /\ Home(dir[p]) = p
    /\ \A c \in Opened : job[c].file \in Files /\ Home(job[c].file) = PathOf(c)

(* Two calls that have one path open know of it; a call that is alone has   *)
(* the file its path names, opened it last and has written it so far, from  *)
(* the first piece to, once it is synced, the last.                         *)
Alone ==
    /\ \A c, d \in Opened : c # d /\ PathOf(c) = PathOf(d) => c \in mixed
    /\ \A c \in Opened \ mixed :
          /\ dir[PathOf(c)] = job[c].file
          /\ opener[job[c].file] = c
          /\ \A k \in 1 .. job[c].done : data[job[c].file][k] = c
    /\ \A c \in Jobs : JobAt(c, "synced") => job[c].done = Chunks
    /\ \A c \in Jobs \ Past : job[c].done = 0

(* The last to open the file a path names was called with that path, writes *)
(* it alone if it is not mixed, and has made it whole if it has reported.   *)
LastOpened(p, f, w) ==
    /\ w \in Jobs => w \in Past /\ PathOf(w) = p
    /\ \A d \in Opened : job[d].file = f => d = w \/ w \in mixed
    /\ \/ w \in mixed \cup Opened
       \/ data[f] = Whole(w)
       \/ w \in Jobs /\ job[w].pc \in {"cut", "left"}
    /\ w \in Jobs => ~JobAt(w, "failed")
    /\ w \in Jobs /\ IsSecret(w) => f = w

FilesAccounted ==
    /\ Homes
    /\ Alone
    /\ \A p \in Paths : dir[p] # NoFile => LastOpened(p, dir[p], opener[dir[p]])
=============================================================================
