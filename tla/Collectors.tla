----------------------------- MODULE Collectors -----------------------------
(***************************************************************************)
(* The tools that collect a stream from one or more nodes and answer with  *)
(* a bounded part of it (internal/tools/): talos_logs, talos_dmesg,        *)
(* talos_events, talos_list_files, talos_read_file and talos_health; and   *)
(* the read of a COSI resource (internal/resources/cosi.go), whose list    *)
(* comes in one answer that is gone through item by item.                  *)
(*                                                                         *)
(* Each node sends its lines (entries, pieces of a file, messages) in its  *)
(* order, the lines of several nodes in any; a node may end with an error  *)
(* that is a message of the stream, and the stream may break.  The k-th    *)
(* line of a node n is <<n, k>>.                                           *)
(***************************************************************************)
EXTENDS Integers, Sequences, FiniteSets, SequencesExt

CONSTANTS
    Calls,          \* calls, each made once
    Nodes,          \* nodes, by name
    Default,        \* the nodes of talosconfig
    Permitted,      \* what the node allowlist lets through
    AllowedPaths,   \* TALOS_MCP_ALLOWED_PATHS, as it is written
    DefaultLimit,   \* the limit where the request gives none
    MaxEntries,     \* maxListEntries
    MaxResults,     \* maxListResults
    MaxSend,        \* bound: lines a node sends
    Requests

AllRequests ==
    [tool : {"logs", "dmesg", "events", "list_files", "read_file", "health",
             "read_resource"},
     nodes : SUBSET Nodes, others : SUBSET Nodes, limit : Int, sound : BOOLEAN,
     path : [abs : BOOLEAN, names : Seq(STRING)]]

ASSUME CollectorsAssumption ==
    /\ Default \in (SUBSET Nodes) \ {{}}
    /\ {DefaultLimit, MaxEntries, MaxResults} \subseteq Nat \ {0}
    /\ MaxSend \in Nat
    /\ Requests \subseteq AllRequests
    /\ \A r \in Requests :
          r.tool = "read_resource" => \E n \in Nodes : r.nodes = {n}

VARIABLES
    call,       \* each call: its place, its request and what it answers
    kept,       \* the lines it has collected
    errors,     \* the nodes whose error it has collected
    seen,       \* every line it has been sent
    told,       \* the nodes whose error it has been sent
    left,       \* what each node still has to send
    failing     \* the nodes that end with an error

vars == <<call, kept, errors, seen, told, left, failing>>

-----------------------------------------------------------------------------
(* filepath.Clean; the path that has no name is ".". *)
NoPath == [abs |-> FALSE, names |-> <<>>]
Clean(p) ==
    LET upTo[i \in 0 .. Len(p.names)] ==
            IF i = 0 THEN <<>>
            ELSE LET s == upTo[i - 1]  x == p.names[i] IN
                 IF x = "." THEN s
                 ELSE IF x # ".." THEN Append(s, x)
                 ELSE IF s # <<>> /\ Last(s) # ".." THEN Front(s)
                 ELSE IF p.abs THEN s ELSE Append(s, x)
    IN  [p EXCEPT !.names = upTo[Len(p.names)]]

ParseAllowedPaths == {Clean(p) : p \in AllowedPaths}

(* "." is a prefix of itself only. *)
Under(p, prefix) ==
    \/ p = prefix
    \/ /\ p.abs = prefix.abs
       /\ prefix.abs \/ prefix.names # <<>>
       /\ IsPrefix(prefix.names, p.names)

(* Mutant: the path is compared as it is written. *)
PathAllowed_AsWritten(p) ==
    AllowedPaths = {} \/ \E q \in ParseAllowedPaths : Under(p, q)
PathAllowed(p) ==
    AllowedPaths = {} \/ \E q \in ParseAllowedPaths : Under(Clean(p), q)

-----------------------------------------------------------------------------
OnFiles == {"list_files", "read_file"}

(* The nodes a request is for. *)
Targets(r) == IF r.nodes = {} THEN Default ELSE r.nodes

(* list_files lists the root where the request has no path. *)
Written(r) ==
    IF r.tool = "list_files" /\ r.path = NoPath THEN [abs |-> TRUE, names |-> <<>>]
    ELSE r.path

(* Those that stop at the first line that is too many. *)
Capped == OnFiles \cup {"read_resource"}

(* list_files and the read of a resource have limits of their own. *)
LimitOf(r) ==
    IF r.tool = "list_files" THEN MaxEntries
    ELSE IF r.tool = "read_resource" THEN MaxResults
    ELSE IF r.limit > 0 THEN r.limit ELSE DefaultLimit

(* sound: the service is named, wait_timeout and the URI parse.             *)
Admitted(r) ==
    /\ r.sound
    /\ r.tool \in OnFiles => PathAllowed(Written(r))
    /\ r.nodes \subseteq Permitted
    /\ r.tool = "health" => r.others \subseteq Permitted

(* The tools whose streams carry the errors of single nodes. *)
ByNode == {"logs", "dmesg", "list_files"}

-----------------------------------------------------------------------------
None == [tool |-> "logs", nodes |-> {}, others |-> {}, limit |-> 0, sound |-> FALSE,
         path |-> NoPath]

Init ==
    /\ call = [c \in Calls |-> [pc |-> "idle", req |-> None, truncated |-> FALSE,
                                answer |-> "none"]]
    /\ kept = [c \in Calls |-> <<>>]
    /\ errors = [c \in Calls |-> {}]
    /\ seen = [c \in Calls |-> <<>>]
    /\ told = [c \in Calls |-> {}]
    /\ left = [c \in Calls |-> [n \in Nodes |-> 0]]
    /\ failing = [c \in Calls |-> {}]

Enter(c, r) ==
    /\ call[c].pc = "idle"
    /\ call' = [call EXCEPT ![c].pc = "checking", ![c].req = r]
    /\ UNCHANGED <<kept, errors, seen, told, left, failing>>

Answer(c, answer) == call' = [call EXCEPT ![c].pc = "done", ![c].answer = answer]

Refuse(c) ==
    /\ call[c].pc = "checking"
    /\ ~Admitted(call[c].req)
    /\ Answer(c, "error")
    /\ UNCHANGED <<kept, errors, seen, told, left, failing>>

(* The stream is opened, or is not; what the nodes will send is settled. *)
Ask(c) ==
    LET r == call[c].req IN
    /\ call[c].pc = "checking"
    /\ Admitted(r)
    /\ call' = [call EXCEPT ![c].pc = "reading"]
    /\ left' \in {[left EXCEPT ![c] = [n \in Nodes |-> IF n \in Targets(r) THEN m[n] ELSE 0]] :
                      m \in [Nodes -> 0 .. MaxSend]}
    /\ failing' \in {[failing EXCEPT ![c] = f] :
                      f \in SUBSET (IF r.tool \in ByNode THEN Targets(r) ELSE {})}
    /\ UNCHANGED <<kept, errors, seen, told>>

AskFails(c) ==
    /\ call[c].pc = "checking"
    /\ Admitted(call[c].req)
    /\ Answer(c, "error")
    /\ UNCHANGED <<kept, errors, seen, told, left, failing>>

-----------------------------------------------------------------------------
(* A line arrives. *)
Receive(c, n) ==
    /\ call[c].pc = "reading"
    /\ left[c][n] > 0
    /\ left' = [left EXCEPT ![c][n] = @ - 1]
    /\ seen' = [seen EXCEPT ![c] = Append(@, <<n, Cardinality(
                    {i \in DOMAIN seen[c] : seen[c][i][1] = n}) + 1>>)]

Collect(c, lines) == kept' = [kept EXCEPT ![c] = lines]

(* events and health: every line. *)
TakeAll(c, n) ==
    /\ call[c].req.tool \in {"events", "health"}
    /\ Receive(c, n)
    /\ Collect(c, seen'[c])
    /\ UNCHANGED <<call, errors, told, failing>>

(* dmesg: the last lines, oldest first. *)
(* Mutant: the new line overwrites the last one. *)
Ring_Last(lines, line, limit) ==
    IF Len(lines) < limit THEN Append(lines, line) ELSE Append(Front(lines), line)
Ring(lines, line, limit) ==
    IF Len(lines) < limit THEN Append(lines, line) ELSE Append(Tail(lines), line)

TakeLast(c, n) ==
    /\ call[c].req.tool = "dmesg"
    /\ Receive(c, n)
    /\ Collect(c, Ring(kept[c], Last(seen'[c]), LimitOf(call[c].req)))
    /\ UNCHANGED <<call, errors, told, failing>>

(* logs: the first lines; it stops reading when it has them. *)
TakeFirst(c, n) ==
    /\ call[c].req.tool = "logs"
    /\ Receive(c, n)
    /\ Collect(c, Append(kept[c], Last(seen'[c])))
    /\ IF Len(kept'[c]) >= LimitOf(call[c].req) THEN Answer(c, "result")
       ELSE UNCHANGED call
    /\ UNCHANGED <<errors, told, failing>>

(* Files and resources: the first lines; it stops at the first one that is  *)
(* too many.                                                                *)
Overflows(c) == Len(kept[c]) >= LimitOf(call[c].req)
TakeUpTo(c, n) ==
    /\ call[c].req.tool \in Capped
    /\ Receive(c, n)
    /\ IF Overflows(c)
       THEN call' = [call EXCEPT ![c].pc = "done", ![c].answer = "result",
                                 ![c].truncated = TRUE] /\ UNCHANGED kept
       ELSE Collect(c, Append(kept[c], Last(seen'[c]))) /\ UNCHANGED call
    /\ UNCHANGED <<errors, told, failing>>

Recv(c, n) == TakeAll(c, n) \/ TakeLast(c, n) \/ TakeFirst(c, n) \/ TakeUpTo(c, n)

(* The error of one node, after its lines, is a message of the stream. *)
IsTold(c, n) ==
    /\ call[c].pc = "reading"
    /\ n \in failing[c] \ told[c]
    /\ left[c][n] = 0
    /\ told' = [told EXCEPT ![c] = @ \cup {n}]
    /\ UNCHANGED <<call, kept, seen, left, failing>>

(* Mutant: the last error only is kept. *)
NodeFails_Last(c, n) == IsTold(c, n) /\ errors' = [errors EXCEPT ![c] = {n}]
NodeFails(c, n) == IsTold(c, n) /\ errors' = [errors EXCEPT ![c] = @ \cup {n}]

Ended(c) == told[c] = failing[c] /\ \A n \in Nodes : left[c][n] = 0

(* io.EOF.  EventsWatch does not end. *)
EndOfStream(c) ==
    /\ call[c].pc = "reading"
    /\ call[c].req.tool # "events"
    /\ Ended(c)
    /\ Answer(c, "result")
    /\ UNCHANGED <<kept, errors, seen, told, left, failing>>

(* Mutant: what was collected is answered when the stream breaks. *)
StreamFails_Partial(c) ==
    /\ call[c].pc = "reading"
    /\ Answer(c, "result")
    /\ UNCHANGED <<kept, errors, seen, told, left, failing>>
StreamFails(c) ==
    /\ call[c].pc = "reading"
    /\ Answer(c, "error")
    /\ UNCHANGED <<kept, errors, seen, told, left, failing>>

(* Thirty seconds pass, or what health may wait and some more: the stream   *)
(* breaks.  For events, five seconds are all it is for.  The read of a      *)
(* resource has no deadline of its own.                                     *)
HasDeadline(c) == call[c].req.tool # "read_resource"
(* Mutant: the stream is read under the caller's context. *)
Deadline_None(c) == FALSE /\ UNCHANGED vars
Deadline(c) ==
    /\ call[c].pc = "reading"
    /\ HasDeadline(c)
    /\ Answer(c, IF call[c].req.tool = "events" THEN "result" ELSE "error")
    /\ UNCHANGED <<kept, errors, seen, told, left, failing>>

Open(c) == Refuse(c) \/ Ask(c) \/ AskFails(c)

Next ==
    \E c \in Calls :
        \/ \E r \in Requests : Enter(c, r)
        \/ Open(c)
        \/ \E n \in Nodes : Recv(c, n) \/ NodeFails(c, n)
        \/ EndOfStream(c)
        \/ StreamFails(c)
        \/ Deadline(c)

Spec == Init /\ [][Next]_vars

(* A handler runs and its deadline passes; no node has to send anything. *)
Fairness ==
    \A c \in Calls : WF_vars(HasDeadline(c) /\ Open(c)) /\ WF_vars(Deadline(c))
FairSpec == Spec /\ Fairness

-----------------------------------------------------------------------------
(* The types of the variables. *)
States ==
    [pc : {"idle", "checking", "reading", "done"}, req : Requests \cup {None},
     truncated : BOOLEAN, answer : {"none", "result", "error"}]
Lines == Nodes \X Nat

TypeOK ==
    /\ call \in [Calls -> States]
    /\ {kept, seen} \subseteq [Calls -> Seq(Lines)]
    /\ left \in [Calls -> [Nodes -> 0 .. MaxSend]]
    /\ {failing, told, errors} \subseteq [Calls -> SUBSET Nodes]

(* A stream is opened only where each node the request names is permitted   *)
(* (default nodes are not checked), for a path that leads below an allowed  *)
(* one.                                                                     *)
OpenedAsPermitted(c) ==
    LET r == call[c].req IN
    /\ r.nodes \cup (IF r.tool = "health" THEN r.others ELSE {}) \subseteq Permitted
    /\ r.tool \in OnFiles /\ AllowedPaths # {} =>
          \E q \in AllowedPaths : Under(Clean(Written(r)), Clean(q))

(* What is kept while the stream is read: all of it, or dmesg's last lines. *)
KeptSoFar(c) ==
    LET r == call[c].req IN
    /\ r.tool # "dmesg" => kept[c] = seen[c]
    /\ r.tool = "dmesg" => IsSuffix(kept[c], seen[c])
    /\ r.tool = "dmesg" /\ kept[c] # seen[c] => Len(kept[c]) = LimitOf(r)
    /\ r.tool = "logs" => Len(kept[c]) < LimitOf(r)
    /\ r.tool \in {"dmesg"} \cup Capped => Len(kept[c]) <= LimitOf(r)

(* The inductive invariant behind ResultTrue, which it is inductive with.   *)
IInv ==
    /\ TypeOK
    /\ \A c \in Calls :
          /\ call[c].pc = "reading" \/ call[c].answer = "result" => OpenedAsPermitted(c)
          /\ call[c].pc # "done" => call[c].answer = "none" /\ ~call[c].truncated
          /\ call[c].pc \in {"idle", "checking"} =>
                kept[c] = <<>> /\ seen[c] = <<>> /\ told[c] = {}
          /\ call[c].pc = "reading" => KeptSoFar(c)
          /\ errors[c] = told[c]

(* A result says what the stream said.  Health and dmesg answer only when   *)
(* they have read all of it, to its end; dmesg has the last lines, the      *)
(* others the first, in their order and no more than the limit; a listing,  *)
(* a file or a resource is marked truncated just when there was more; and   *)
(* each node that said it failed is named, which is every one that did      *)
(* unless reading stopped at the limit.                                     *)
TrueResult(c) ==
    LET r == call[c].req
        all == r.tool \in {"events", "health"}
        full == Len(kept[c]) = LimitOf(r)
    IN  /\ r.tool \in {"dmesg", "health"} => Ended(c)
        /\ all => kept[c] = seen[c]
        /\ ~all => Len(kept[c]) <= LimitOf(r)
        /\ ~all /\ kept[c] # seen[c] => full
        /\ IF r.tool = "dmesg" THEN IsSuffix(kept[c], seen[c])
           ELSE IsPrefix(kept[c], seen[c])
        /\ r.tool \in Capped =>
              (call[c].truncated <=> Len(seen[c]) > Len(kept[c]))
        /\ errors[c] = told[c]
        /\ r.tool # "events" /\ ~Ended(c) => full /\ r.tool \in {"logs"} \cup Capped
        /\ r.tool \in Capped /\ ~call[c].truncated => Ended(c)

ResultTrue == \A c \in Calls : call[c].answer = "result" => TrueResult(c)

(* Every call with a deadline is answered, whatever the nodes do. *)
Asked(c) == call[c].pc # "idle" /\ HasDeadline(c)
Answered(c) == call[c].pc = "done"
Returns == \A c \in Calls : Asked(c) ~> Answered(c)
=============================================================================
