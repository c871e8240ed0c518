-------------------------- MODULE CollectorsProofs --------------------------
(***************************************************************************)
(* Proofs about Collectors for every set of calls, nodes, requests and     *)
(* limits: what a tool answers is what the nodes sent.  An action concerns *)
(* one call, so the inductive invariant is a predicate of single calls;    *)
(* Same is its frame.  The lemmas on sequences say what Append does  *)
(* to a prefix, and what dropping the first and appending one does to a    *)
(* suffix.                                                                 *)
(***************************************************************************)
EXTENDS Collectors, SequenceTheorems, FiniteSetTheorems, TLAPS

-----------------------------------------------------------------------------
(* Sequences. *)

(* A sequence is a prefix of itself, and of itself with one more.           *)
LEMMA PrefixOfMore ==
    ASSUME NEW S, NEW s \in Seq(S), NEW x \in S
    PROVE  IsPrefix(s, s) /\ IsPrefix(s, Append(s, x))
<1>1. Len(s) \in Nat /\ Len(Append(s, x)) = Len(s) + 1 /\ Append(s, x) \in Seq(S)
  OBVIOUS
<1>2. SubSeq(Append(s, x), 1, Len(s)) = SubSeq(s, 1, Len(s))
  <2>1. /\ SubSeq(s, 1, Len(s)) = [i \in 1..Len(s) |-> s[i]]
        /\ SubSeq(Append(s, x), 1, Len(s)) = [i \in 1..Len(s) |-> Append(s, x)[i]]
    BY <1>1
  <2>2. \A i \in 1..Len(s) : Append(s, x)[i] = s[i]
    BY <1>1
  <2> QED BY <2>1, <2>2
<1> QED BY <1>1, <1>2 DEF IsPrefix

(* A suffix, element by element. *)
LEMMA SuffixIs ==
    ASSUME NEW S, NEW s \in Seq(S), NEW t \in Seq(S)
    PROVE  IsSuffix(s, t) <=>
             /\ Len(s) <= Len(t)
             /\ \A i \in 1..Len(s) : s[i] = t[Len(t) - Len(s) + i]
<1>1. /\ Len(s) \in Nat /\ Len(t) \in Nat
      /\ Reverse(s) = [i \in 1..Len(s) |-> s[(Len(s) - i) + 1]]
      /\ Reverse(t) = [i \in 1..Len(t) |-> t[(Len(t) - i) + 1]]
  BY DEF Reverse
<1>2. /\ Reverse(s) \in Seq(S) /\ Len(Reverse(s)) = Len(s)
      /\ Reverse(t) \in Seq(S) /\ Len(Reverse(t)) = Len(t)
  <2>1. ASSUME NEW q \in Seq(S), Reverse(q) = [i \in 1..Len(q) |-> q[(Len(q) - i) + 1]]
        PROVE  Reverse(q) \in Seq(S) /\ Len(Reverse(q)) = Len(q)
    <3>1. \A i \in 1..Len(q) : (Len(q) - i) + 1 \in 1..Len(q)
      OBVIOUS
    <3>2. \A i \in 1..Len(q) : q[(Len(q) - i) + 1] \in S
      BY <3>1
    <3> QED BY <2>1, <3>2
  <2> QED BY <1>1, <2>1
<1>3. CASE Len(s) > Len(t)
  BY <1>1, <1>2, <1>3 DEF IsSuffix, IsPrefix
<1>4. CASE Len(s) <= Len(t)
  <2>1. IsSuffix(s, t) <=> SubSeq(Reverse(s), 1, Len(s)) = SubSeq(Reverse(t), 1, Len(s))
    BY <1>2, <1>4 DEF IsSuffix, IsPrefix
  <2>2. /\ SubSeq(Reverse(s), 1, Len(s)) = [i \in 1..Len(s) |-> Reverse(s)[i]]
        /\ SubSeq(Reverse(t), 1, Len(s)) = [i \in 1..Len(s) |-> Reverse(t)[i]]
    BY <1>1, <1>2, <1>4
  <2>3. IsSuffix(s, t) <=> \A i \in 1..Len(s) : Reverse(s)[i] = Reverse(t)[i]
    BY <2>1, <2>2
  <2>4. ASSUME NEW i \in 1..Len(s)
        PROVE  /\ Reverse(s)[i] = s[(Len(s) - i) + 1]
               /\ Reverse(t)[i] = t[(Len(t) - i) + 1]
    BY <1>1, <1>4
  <2>5. ASSUME IsSuffix(s, t), NEW i \in 1..Len(s)
        PROVE  s[i] = t[Len(t) - Len(s) + i]
    <3>1. PICK j \in 1..Len(s) : j = Len(s) - i + 1
      BY <1>1
    <3>2. (Len(s) - j) + 1 = i /\ (Len(t) - j) + 1 = Len(t) - Len(s) + i
      BY <1>1, <3>1
    <3> QED BY <2>3, <2>4, <2>5, <3>2
  <2>6. ASSUME \A i \in 1..Len(s) : s[i] = t[Len(t) - Len(s) + i], NEW j \in 1..Len(s)
        PROVE  Reverse(s)[j] = Reverse(t)[j]
    <3>1. PICK i \in 1..Len(s) : i = (Len(s) - j) + 1
      BY <1>1
    <3>2. (Len(t) - j) + 1 = Len(t) - Len(s) + i
      BY <1>1, <3>1
    <3> QED BY <2>4, <2>6, <3>1, <3>2
  <2> QED BY <1>4, <2>3, <2>5, <2>6
<1> QED BY <1>1, <1>3, <1>4

(* A sequence is a suffix of itself. *)
LEMMA SuffixOfItself == ASSUME NEW S, NEW s \in Seq(S) PROVE IsSuffix(s, s)
<1>1. Len(s) \in Nat /\ \A i \in 1..Len(s) : Len(s) - Len(s) + i = i
  OBVIOUS
<1> QED BY <1>1, SuffixIs

(* The ring: a suffix without its first and with the next is the suffix of  *)
(* the longer sequence.                                                     *)
LEMMA SuffixMoves ==
    ASSUME NEW S, NEW s \in Seq(S), NEW t \in Seq(S), NEW x \in S,
           s # <<>>, IsSuffix(s, t)
    PROVE  /\ Append(Tail(s), x) \in Seq(S)
           /\ Len(Append(Tail(s), x)) = Len(s)
           /\ IsSuffix(Append(Tail(s), x), Append(t, x))
<1> PICK u : u = Append(Tail(s), x)
  OBVIOUS
<1> PICK v : v = Append(t, x)
  OBVIOUS
<1> PICK n : n = Len(s)
  OBVIOUS
<1> PICK m : m = Len(t)
  OBVIOUS
<1>1. n \in Nat /\ n > 0 /\ m \in Nat /\ n <= m
  BY SuffixIs
<1>2. /\ Tail(s) \in Seq(S) /\ Len(Tail(s)) = n - 1
      /\ \A i \in 1..(n - 1) : Tail(s)[i] = s[i + 1]
  BY HeadTailProperties
<1>3. /\ u \in Seq(S) /\ Len(u) = n /\ u[n] = x
      /\ \A i \in 1..(n - 1) : u[i] = s[i + 1]
  BY <1>1, <1>2, AppendProperties
<1>4. /\ v \in Seq(S) /\ Len(v) = m + 1 /\ v[m + 1] = x
      /\ \A i \in 1..m : v[i] = t[i]
  BY <1>1, AppendProperties
<1>5. ASSUME NEW i \in 1..n PROVE u[i] = v[(m + 1) - n + i]
  <2>1. CASE i = n
    <3>1. (m + 1) - n + i = m + 1
      BY <1>1, <2>1
    <3> QED BY <1>3, <1>4, <2>1, <3>1
  <2>2. CASE i # n
    <3>1. i \in 1..(n - 1) /\ i + 1 \in 1..n
      BY <1>1, <2>2
    <3>2. s[i + 1] = t[m - n + (i + 1)]
      BY <3>1, SuffixIs
    <3>3. (m + 1) - n + i = m - n + (i + 1) /\ m - n + (i + 1) \in 1..m
      BY <1>1, <3>1
    <3> QED BY <1>3, <1>4, <3>1, <3>2, <3>3
  <2> QED BY <2>1, <2>2
<1>6. Len(u) <= Len(v) /\ \A i \in 1..Len(u) : u[i] = v[Len(v) - Len(u) + i]
  <2>1. ASSUME NEW i \in 1..Len(u) PROVE u[i] = v[Len(v) - Len(u) + i]
    <3>1. i \in 1..n /\ Len(v) - Len(u) + i = (m + 1) - n + i
      BY <1>3, <1>4, <2>1
    <3> QED BY <1>5, <3>1
  <2>2. Len(u) <= Len(v)
    BY <1>1, <1>3, <1>4
  <2> QED BY <2>1, <2>2
<1>7. IsSuffix(u, v)
  BY <1>3, <1>4, <1>6, SuffixIs
<1> QED BY <1>3, <1>7

-----------------------------------------------------------------------------
(* The invariant, call by call. *)
CallInv(c) ==
    /\ call[c].pc = "reading" \/ call[c].answer = "result" => OpenedAsPermitted(c)
    /\ call[c].pc # "done" => call[c].answer = "none" /\ ~call[c].truncated
    /\ call[c].pc \in {"idle", "checking"} =>
          kept[c] = <<>> /\ seen[c] = <<>> /\ told[c] = {}
    /\ call[c].pc = "reading" => KeptSoFar(c)
    /\ errors[c] = told[c]
    /\ call[c].answer = "result" => TrueResult(c)

CInv == IInv /\ ResultTrue

LEMMA CInvIs == CInv <=> TypeOK /\ \A c \in Calls : CallInv(c)
<1>1. CInv => TypeOK /\ \A c \in Calls : CallInv(c)
  BY DEF CInv, IInv, ResultTrue, CallInv
<1>2. TypeOK /\ (\A c \in Calls : CallInv(c)) => CInv
  BY DEF CInv, IInv, ResultTrue, CallInv
<1> QED BY <1>1, <1>2

(* The parts of the state that belong to one call are as they were. *)
Same(d) ==
    /\ call'[d] = call[d]
    /\ kept'[d] = kept[d]
    /\ errors'[d] = errors[d]
    /\ seen'[d] = seen[d]
    /\ told'[d] = told[d]
    /\ left'[d] = left[d]
    /\ failing'[d] = failing[d]

(* The frame: a call that a step leaves alone keeps its invariant. *)
LEMMA SameKeepsCall == ASSUME NEW d, Same(d), CallInv(d) PROVE CallInv(d)'
<1>1. Ended(d)' <=> Ended(d)
  BY DEF Same, Ended
<1>2. OpenedAsPermitted(d) => OpenedAsPermitted(d)'
  BY DEF Same, OpenedAsPermitted
<1>3. KeptSoFar(d) => KeptSoFar(d)'
  BY DEF Same, KeptSoFar
<1>4. TrueResult(d) => TrueResult(d)'
  BY <1>1 DEF Same, TrueResult
<1> QED BY <1>2, <1>3, <1>4 DEF Same, CallInv

LEMMA OneCallKeeps ==
    ASSUME CInv, NEW c \in Calls, TypeOK', CallInv(c)',
           \A d \in Calls \ {c} : Same(d)
    PROVE  CInv'
<1>1. \A d \in Calls : CallInv(d)'
  <2>1. ASSUME NEW d \in Calls \ {c} PROVE CallInv(d)'
    BY <2>1, SameKeepsCall, CInvIs
  <2> QED BY <2>1
<1> QED BY <1>1 DEF CInv, IInv, ResultTrue, CallInv

(* What an answer does to the record of a call. *)
LEMMA AnswerRecord ==
    ASSUME call \in [Calls -> States], NEW c \in Calls,
           NEW a \in {"none", "result", "error"}, Answer(c, a)
    PROVE  /\ call' \in [Calls -> States]
           /\ call'[c].pc = "done" /\ call'[c].answer = a
           /\ call'[c].req = call[c].req /\ call'[c].truncated = call[c].truncated
           /\ \A d \in Calls \ {c} : call'[d] = call[d]
<1>1. PICK k \in States : k = call[c]
  OBVIOUS
<1>2. PICK h : h = [[k EXCEPT !.pc = "done"] EXCEPT !.answer = a]
  OBVIOUS
<1>3. /\ h \in States /\ h.pc = "done" /\ h.answer = a
      /\ h.req = k.req /\ h.truncated = k.truncated
  BY <1>2 DEF States
<1>4. call' = [call EXCEPT ![c] = h]
  BY <1>1, <1>2 DEF Answer
<1> QED BY <1>1, <1>3, <1>4

-----------------------------------------------------------------------------
(* The limits, and the collecting tools. *)
Tools == {"logs", "dmesg", "events", "list_files", "read_file", "health", "read_resource"}

LEMMA RequestsHaveLimits ==
    ASSUME NEW r \in Requests \cup {None}
    PROVE  r.tool \in Tools /\ LimitOf(r) \in Nat \ {0}
<1>1. r.tool \in Tools /\ r.limit \in Int
  <2>1. CASE r \in Requests
    BY <2>1, CollectorsAssumption DEF CollectorsAssumption, AllRequests, Tools
  <2>2. CASE r = None
    BY <2>2 DEF None, Tools
  <2> QED BY <2>1, <2>2
<1>2. {DefaultLimit, MaxEntries, MaxResults} \subseteq Nat \ {0}
  BY CollectorsAssumption DEF CollectorsAssumption
<1> QED BY <1>1, <1>2 DEF LimitOf

(* What the invariant says of one call, spelled out. *)
LEMMA CallFacts ==
    ASSUME CInv, NEW c \in Calls
    PROVE  /\ call \in [Calls -> States] /\ call[c] \in States
           /\ kept \in [Calls -> Seq(Lines)] /\ kept[c] \in Seq(Lines)
           /\ seen \in [Calls -> Seq(Lines)] /\ seen[c] \in Seq(Lines)
           /\ left \in [Calls -> [Nodes -> 0 .. MaxSend]]
           /\ failing \in [Calls -> SUBSET Nodes]
           /\ told \in [Calls -> SUBSET Nodes]
           /\ errors \in [Calls -> SUBSET Nodes]
           /\ call[c].req \in Requests \cup {None}
           /\ CallInv(c)
<1>1. TypeOK /\ CallInv(c)
  BY CInvIs
<1>2. /\ call \in [Calls -> States]
      /\ kept \in [Calls -> Seq(Lines)] /\ seen \in [Calls -> Seq(Lines)]
      /\ left \in [Calls -> [Nodes -> 0 .. MaxSend]]
      /\ failing \in [Calls -> SUBSET Nodes]
      /\ told \in [Calls -> SUBSET Nodes]
      /\ errors \in [Calls -> SUBSET Nodes]
  BY <1>1, Zenon DEF TypeOK
<1>3. call[c] \in States /\ kept[c] \in Seq(Lines) /\ seen[c] \in Seq(Lines)
  BY <1>2
<1>4. call[c].req \in Requests \cup {None}
  BY <1>3 DEF States
<1> QED BY <1>1, <1>2, <1>3, <1>4

-----------------------------------------------------------------------------
(* The steps of one call. *)

(* A call that answers without a result answers what no one must trust.     *)
LEMMA ErrorKeeps ==
    ASSUME CInv, NEW c \in Calls, Answer(c, "error"),
           UNCHANGED <<kept, errors, seen, told, left, failing>>
    PROVE  CInv'
<1>1. /\ call' \in [Calls -> States]
      /\ call'[c].pc = "done" /\ call'[c].answer = "error"
      /\ \A d \in Calls \ {c} : call'[d] = call[d]
  BY CallFacts, AnswerRecord
<1>2. TypeOK'
  BY <1>1, CInvIs DEF TypeOK
<1>3. CallInv(c)'
  BY <1>1, CallFacts DEF CallInv
<1>4. \A d \in Calls \ {c} : Same(d)
  BY <1>1 DEF Same
<1> QED BY <1>2, <1>3, <1>4, OneCallKeeps

(* A request arrives. *)
LEMMA EnterKeeps ==
    ASSUME CInv, NEW c \in Calls, NEW r \in Requests, Enter(c, r)
    PROVE  CInv'
<1>0. /\ call[c].pc = "idle"
      /\ call' = [call EXCEPT ![c].pc = "checking", ![c].req = r]
      /\ UNCHANGED <<kept, errors, seen, told, left, failing>>
  BY DEF Enter
<1>1. PICK k \in States : k = call[c]
  BY CallFacts
<1>2. PICK h : h = [[k EXCEPT !.pc = "checking"] EXCEPT !.req = r]
  OBVIOUS
<1>3. /\ h \in States /\ h.pc = "checking"
      /\ h.answer = k.answer /\ h.truncated = k.truncated
  BY <1>2 DEF States
<1>4. call' = [call EXCEPT ![c] = h] /\ call \in [Calls -> States]
  BY <1>0, <1>1, <1>2, CallFacts
<1>5. call' \in [Calls -> States] /\ call'[c] = h /\ \A d \in Calls \ {c} : call'[d] = call[d]
  BY <1>3, <1>4
<1>6. TypeOK'
  BY <1>0, <1>5, CInvIs DEF TypeOK
<1>7. CallInv(c)'
  <2>1. /\ k.answer = "none" /\ ~k.truncated
        /\ kept[c] = <<>> /\ seen[c] = <<>> /\ told[c] = {} /\ errors[c] = told[c]
    BY <1>0, <1>1, CallFacts DEF CallInv
  <2> QED BY <1>0, <1>3, <1>5, <2>1 DEF CallInv
<1>8. \A d \in Calls \ {c} : Same(d)
  BY <1>0, <1>5 DEF Same
<1> QED BY <1>6, <1>7, <1>8, OneCallKeeps

(* The guards let a request through. *)
LEMMA AdmittedIsPermitted ==
    ASSUME NEW c, Admitted(call[c].req)
    PROVE  OpenedAsPermitted(c)
  BY DEF Admitted, OpenedAsPermitted, PathAllowed, ParseAllowedPaths

(* The stream is opened: nothing is kept, and nothing was sent.             *)
LEMMA AskKeeps ==
    ASSUME CInv, NEW c \in Calls, Ask(c)
    PROVE  CInv'
<1>0. /\ call[c].pc = "checking" /\ Admitted(call[c].req)
      /\ call' = [call EXCEPT ![c].pc = "reading"]
      /\ UNCHANGED <<kept, errors, seen, told>>
  BY DEF Ask
<1>1. PICK k \in States : k = call[c]
  BY CallFacts
<1>2. PICK h : h = [k EXCEPT !.pc = "reading"]
  OBVIOUS
<1>3. /\ h \in States /\ h.pc = "reading" /\ h.req = k.req
      /\ h.answer = k.answer /\ h.truncated = k.truncated
  BY <1>2 DEF States
<1>4. call' = [call EXCEPT ![c] = h] /\ call \in [Calls -> States]
  BY <1>0, <1>1, <1>2, CallFacts
<1>5. call' \in [Calls -> States] /\ call'[c] = h /\ \A d \in Calls \ {c} : call'[d] = call[d]
  BY <1>3, <1>4
<1>6. /\ left' \in [Calls -> [Nodes -> 0 .. MaxSend]]
      /\ \A d \in Calls \ {c} : left'[d] = left[d]
  <2>1. PICK m \in [Nodes -> 0 .. MaxSend] :
            left' = [left EXCEPT ![c] = [n \in Nodes |-> IF n \in Targets(call[c].req)
                                                         THEN m[n] ELSE 0]]
    BY DEF Ask
  <2>2. 0 \in 0 .. MaxSend
    BY CollectorsAssumption DEF CollectorsAssumption
  <2>3. PICK l \in [Nodes -> 0 .. MaxSend] :
            l = [n \in Nodes |-> IF n \in Targets(call[c].req) THEN m[n] ELSE 0]
    BY <2>2
  <2>4. left' = [left EXCEPT ![c] = l] /\ left \in [Calls -> [Nodes -> 0 .. MaxSend]]
    BY <2>1, <2>3, CallFacts
  <2> QED BY <2>4
<1>7. /\ failing' \in [Calls -> SUBSET Nodes]
      /\ \A d \in Calls \ {c} : failing'[d] = failing[d]
  <2>1. PICK f \in SUBSET (IF call[c].req.tool \in ByNode THEN Targets(call[c].req) ELSE {}) :
            failing' = [failing EXCEPT ![c] = f]
    BY DEF Ask
  <2>2. Targets(call[c].req) \subseteq Nodes
    <3>1. call[c].req.nodes \subseteq Nodes
      <4>1. call[c].req \in Requests \cup {None}
        BY CallFacts
      <4>2. \A r \in Requests : r.nodes \subseteq Nodes
        BY CollectorsAssumption DEF CollectorsAssumption, AllRequests
      <4>3. None.nodes = {}
        BY DEF None
      <4> QED BY <4>1, <4>2, <4>3
    <3> QED BY <3>1, CollectorsAssumption DEF CollectorsAssumption, Targets
  <2>3. f \in SUBSET Nodes /\ failing \in [Calls -> SUBSET Nodes]
    BY <2>2, CallFacts
  <2> QED BY <2>1, <2>3
<1>8. TypeOK'
  BY <1>0, <1>5, <1>6, <1>7, CInvIs DEF TypeOK
<1>9. CallInv(c)'
  <2>1. /\ k.answer = "none" /\ ~k.truncated
        /\ kept[c] = <<>> /\ seen[c] = <<>> /\ told[c] = {} /\ errors[c] = told[c]
    BY <1>0, <1>1, CallFacts DEF CallInv
  <2>2. OpenedAsPermitted(c)'
    <3>1. OpenedAsPermitted(c)
      BY <1>0, AdmittedIsPermitted
    <3> QED BY <1>1, <1>3, <1>5, <3>1 DEF OpenedAsPermitted
  <2>3. KeptSoFar(c)'
    <3>1. LimitOf(k.req) \in Nat \ {0}
      BY <1>1, CallFacts, RequestsHaveLimits
    <3>2. IsSuffix(<<>>, <<>>) /\ Len(<<>>) = 0
      <4>1. <<>> \in Seq(Lines) /\ Len(<<>>) = 0
        OBVIOUS
      <4>2. \A s \in Seq(Lines) : IsSuffix(s, s)
        BY SuffixOfItself
      <4> QED BY <4>1, <4>2
    <3>3. kept'[c] = <<>> /\ seen'[c] = <<>> /\ call'[c].req = k.req
      BY <1>0, <1>3, <1>5, <2>1
    <3>4. /\ Len(kept'[c]) < LimitOf(call'[c].req)
          /\ Len(kept'[c]) <= LimitOf(call'[c].req)
      BY <3>1, <3>2, <3>3
    <3> QED BY <3>2, <3>3, <3>4, Zenon DEF KeptSoFar
  <2> QED BY <1>0, <1>3, <1>5, <2>1, <2>2, <2>3 DEF CallInv
<1>10. \A d \in Calls \ {c} : Same(d)
  BY <1>0, <1>5, <1>6, <1>7 DEF Same
<1> QED BY <1>8, <1>9, <1>10, OneCallKeeps

-----------------------------------------------------------------------------
(* Reading the stream. *)

(* A line is the next of what the call has been sent. *)
LEMMA ReceiveFacts ==
    ASSUME CInv, NEW c \in Calls, NEW n \in Nodes, Receive(c, n)
    PROVE  /\ call[c].pc = "reading" /\ KeptSoFar(c)
           /\ seen' \in [Calls -> Seq(Lines)]
           /\ left' \in [Calls -> [Nodes -> 0 .. MaxSend]]
           /\ \A d \in Calls \ {c} : seen'[d] = seen[d] /\ left'[d] = left[d]
           /\ \E x \in Lines : seen'[c] = Append(seen[c], x) /\ Last(seen'[c]) = x
<1>1. call[c].pc = "reading" /\ KeptSoFar(c)
  BY CallFacts DEF Receive, CallInv
<1>2. /\ left' \in [Calls -> [Nodes -> 0 .. MaxSend]]
      /\ \A d \in Calls \ {c} : left'[d] = left[d]
  <2>1. PICK l \in [Nodes -> 0 .. MaxSend] : l = left[c]
    BY CallFacts
  <2>2. l[n] \in 0 .. MaxSend /\ l[n] > 0
    BY <2>1 DEF Receive
  <2>3. l[n] - 1 \in 0 .. MaxSend
    BY <2>2, CollectorsAssumption DEF CollectorsAssumption
  <2>4. PICK m \in [Nodes -> 0 .. MaxSend] : m = [l EXCEPT ![n] = @ - 1]
    BY <2>3
  <2>5. left' = [left EXCEPT ![c] = m] /\ left \in [Calls -> [Nodes -> 0 .. MaxSend]]
    BY <2>1, <2>4, CallFacts DEF Receive
  <2> QED BY <2>5
<1>3. PICK x : x = <<n, Cardinality({i \in DOMAIN seen[c] : seen[c][i][1] = n}) + 1>>
  OBVIOUS
<1>4. x \in Lines
  <2>1. PICK I : I = {i \in DOMAIN seen[c] : seen[c][i][1] = n}
    OBVIOUS
  <2>2. I \subseteq 1 .. Len(seen[c]) /\ Len(seen[c]) \in Nat
    BY <2>1, CallFacts
  <2>3. IsFiniteSet(1 .. Len(seen[c]))
    BY <2>2, FS_Interval
  <2>4. IsFiniteSet(I)
    BY <2>2, <2>3, FS_Subset
  <2>5. Cardinality(I) \in Nat
    BY <2>4, FS_CardinalityType
  <2>6. x = <<n, Cardinality(I) + 1>>
    BY <1>3, <2>1
  <2> QED BY <2>5, <2>6 DEF Lines
<1>5. PICK s \in Seq(Lines) : s = seen[c]
  BY CallFacts
<1>6. /\ Append(s, x) \in Seq(Lines) /\ Last(Append(s, x)) = x
  BY <1>4, <1>5, AppendProperties DEF Last
<1>7. seen' = [seen EXCEPT ![c] = Append(s, x)] /\ seen \in [Calls -> Seq(Lines)]
  BY <1>3, <1>5, CallFacts DEF Receive
<1> QED BY <1>1, <1>2, <1>4, <1>5, <1>6, <1>7

(* A line that does not end the call: what is kept must be right so far.    *)
LEMMA ReadOnKeeps ==
    ASSUME CInv, NEW c \in Calls, NEW n \in Nodes, Receive(c, n),
           NEW q \in Seq(Lines), Collect(c, q),
           UNCHANGED <<call, errors, told, failing>>,
           KeptSoFar(c)'
    PROVE  CInv'
<1>1. /\ kept' \in [Calls -> Seq(Lines)]
      /\ \A d \in Calls \ {c} : kept'[d] = kept[d]
  BY CallFacts DEF Collect
<1>2. TypeOK'
  BY <1>1, ReceiveFacts, CInvIs DEF TypeOK
<1>3. CallInv(c)'
  <2>1. /\ call[c].pc = "reading" /\ call[c].answer = "none" /\ ~call[c].truncated
        /\ errors[c] = told[c] /\ OpenedAsPermitted(c)
    BY CallFacts, ReceiveFacts DEF CallInv
  <2>2. OpenedAsPermitted(c)'
    BY <2>1 DEF OpenedAsPermitted
  <2> QED BY <2>1, <2>2 DEF CallInv
<1>4. \A d \in Calls \ {c} : Same(d)
  BY <1>1, ReceiveFacts DEF Same
<1> QED BY <1>2, <1>3, <1>4, OneCallKeeps

(* events and health keep every line. *)
LEMMA TakeAllKeeps ==
    ASSUME CInv, NEW c \in Calls, NEW n \in Nodes, TakeAll(c, n)
    PROVE  CInv'
<1>1. /\ call[c].req.tool \in {"events", "health"} /\ Receive(c, n)
      /\ Collect(c, seen'[c]) /\ UNCHANGED <<call, errors, told, failing>>
  BY DEF TakeAll
<1>2. seen'[c] \in Seq(Lines) /\ kept'[c] = seen'[c]
  BY <1>1, ReceiveFacts, CallFacts DEF Collect
<1>3. KeptSoFar(c)'
  BY <1>1, <1>2 DEF KeptSoFar, Capped, OnFiles
<1> QED BY <1>1, <1>2, <1>3, ReadOnKeeps

(* dmesg: the ring holds the last lines. *)
LEMMA TakeLastKeeps ==
    ASSUME CInv, NEW c \in Calls, NEW n \in Nodes, TakeLast(c, n)
    PROVE  CInv'
<1>1. /\ call[c].req.tool = "dmesg" /\ Receive(c, n)
      /\ Collect(c, Ring(kept[c], Last(seen'[c]), LimitOf(call[c].req)))
      /\ UNCHANGED <<call, errors, told, failing>>
  BY DEF TakeLast
<1>2. PICK x \in Lines : seen'[c] = Append(seen[c], x) /\ Last(seen'[c]) = x
  BY <1>1, ReceiveFacts
<1>3. PICK s \in Seq(Lines) : s = kept[c]
  BY CallFacts
<1>4. PICK t \in Seq(Lines) : t = seen[c]
  BY CallFacts
<1>5. PICK m \in Nat \ {0} : m = LimitOf(call[c].req)
  BY CallFacts, RequestsHaveLimits
<1>6. IsSuffix(s, t) /\ (s # t => Len(s) = m) /\ Len(s) <= m
  BY <1>1, <1>3, <1>4, <1>5, ReceiveFacts DEF KeptSoFar
<1>7. PICK q : q = Ring(s, x, m)
  OBVIOUS
<1>8. /\ q \in Seq(Lines) /\ IsSuffix(q, Append(t, x))
      /\ (q # Append(t, x) => Len(q) = m) /\ Len(q) <= m
  <2>1. CASE Len(s) < m
    <3>1. s = t /\ q = Append(s, x)
      BY <1>6, <1>7, <2>1 DEF Ring
    <3>2. Append(s, x) \in Seq(Lines) /\ Len(Append(s, x)) = Len(s) + 1 /\ Len(s) \in Nat
      OBVIOUS
    <3>3. IsSuffix(Append(s, x), Append(s, x))
      BY <3>2, SuffixOfItself
    <3> QED BY <2>1, <3>1, <3>2, <3>3
  <2>2. CASE ~(Len(s) < m)
    <3>1. Len(s) = m /\ s # <<>> /\ q = Append(Tail(s), x)
      BY <1>6, <1>7, <2>2 DEF Ring
    <3> QED BY <1>6, <3>1, SuffixMoves
  <2> QED BY <2>1, <2>2
<1>9. Collect(c, q) /\ kept'[c] = q /\ seen'[c] = Append(t, x)
  BY <1>1, <1>2, <1>3, <1>4, <1>5, <1>7, CallFacts DEF Collect
<1>10. KeptSoFar(c)'
  BY <1>1, <1>5, <1>8, <1>9 DEF KeptSoFar, Capped, OnFiles
<1> QED BY <1>1, <1>8, <1>9, <1>10, ReadOnKeeps

(* A line that is the last one read: what is answered must be true.         *)
LEMMA LastReadKeeps ==
    ASSUME CInv, NEW c \in Calls, NEW n \in Nodes, Receive(c, n),
           call' \in [Calls -> States], call'[c].pc = "done",
           call'[c].req = call[c].req, kept' \in [Calls -> Seq(Lines)],
           \A d \in Calls \ {c} : call'[d] = call[d] /\ kept'[d] = kept[d],
           UNCHANGED <<errors, told, failing>>,
           TrueResult(c)'
    PROVE  CInv'
<1>1. TypeOK'
  BY ReceiveFacts, CInvIs DEF TypeOK
<1>2. CallInv(c)'
  <2>1. errors[c] = told[c] /\ OpenedAsPermitted(c)
    BY CallFacts, ReceiveFacts DEF CallInv
  <2>2. OpenedAsPermitted(c)'
    BY <2>1 DEF OpenedAsPermitted
  <2> QED BY <2>1, <2>2 DEF CallInv
<1>3. \A d \in Calls \ {c} : Same(d)
  BY ReceiveFacts DEF Same
<1> QED BY <1>1, <1>2, <1>3, OneCallKeeps

(* logs: the first lines, and an answer with the one that reaches the limit. *)
LEMMA TakeFirstKeeps ==
    ASSUME CInv, NEW c \in Calls, NEW n \in Nodes, TakeFirst(c, n)
    PROVE  CInv'
<1>1. /\ call[c].req.tool = "logs" /\ Receive(c, n)
      /\ Collect(c, Append(kept[c], Last(seen'[c])))
      /\ UNCHANGED <<errors, told, failing>>
  BY DEF TakeFirst
<1>2. PICK x \in Lines : seen'[c] = Append(seen[c], x) /\ Last(seen'[c]) = x
  BY <1>1, ReceiveFacts
<1>3. PICK s \in Seq(Lines) : s = kept[c]
  BY CallFacts
<1>4. PICK m \in Nat \ {0} : m = LimitOf(call[c].req)
  BY CallFacts, RequestsHaveLimits
<1>5. seen[c] = s /\ Len(s) < m
  BY <1>1, <1>3, <1>4, ReceiveFacts DEF KeptSoFar
<1>6. PICK q \in Seq(Lines) : q = Append(s, x)
  <2>1. Append(s, x) \in Seq(Lines)
    BY AppendProperties
  <2> QED BY <2>1
<1>7. Len(q) = Len(s) + 1 /\ Len(s) \in Nat
  BY <1>6
<1>8. Collect(c, q) /\ kept'[c] = q /\ seen'[c] = q
  BY <1>1, <1>2, <1>3, <1>5, <1>6, CallFacts DEF Collect
<1>9. CASE Len(q) >= m
  <2>1. Answer(c, "result")
    BY <1>4, <1>8, <1>9 DEF TakeFirst
  <2>2. /\ call' \in [Calls -> States] /\ call'[c].pc = "done"
        /\ call'[c].req = call[c].req
        /\ \A d \in Calls \ {c} : call'[d] = call[d]
    BY <2>1, CallFacts, AnswerRecord
  <2>3. Len(q) = m
    BY <1>5, <1>7, <1>9
  <2>4. errors'[c] = told'[c]
    BY <1>1, CallFacts DEF CallInv
  <2>5. IsPrefix(q, q)
    BY <1>2, PrefixOfMore
  <2>6. Len(kept'[c]) = LimitOf(call'[c].req) /\ call'[c].req.tool = "logs"
    BY <1>1, <1>4, <1>8, <2>2, <2>3
  <2>7. Len(kept'[c]) <= LimitOf(call'[c].req)
    BY <1>4, <1>8, <2>2, <2>3
  <2>8. TrueResult(c)'
    BY <1>8, <2>4, <2>5, <2>6, <2>7 DEF TrueResult, Capped, OnFiles
  <2>9. kept' \in [Calls -> Seq(Lines)] /\ \A d \in Calls \ {c} : kept'[d] = kept[d]
    BY <1>8, CallFacts DEF Collect
  <2> QED BY <1>1, <2>2, <2>8, <2>9, LastReadKeeps
<1>10. CASE ~(Len(q) >= m)
  <2>1. UNCHANGED call
    BY <1>4, <1>8, <1>10 DEF TakeFirst
  <2>2. Len(kept'[c]) < LimitOf(call'[c].req) /\ call'[c].req.tool = "logs"
    BY <1>1, <1>4, <1>7, <1>8, <1>10, <2>1
  <2>3. KeptSoFar(c)'
    BY <1>8, <2>2 DEF KeptSoFar, Capped, OnFiles
  <2> QED BY <1>1, <1>8, <2>1, <2>3, ReadOnKeeps
<1> QED BY <1>9, <1>10

(* Files and resources: the line that is too many ends the call, and marks  *)
(* its answer.                                                              *)
LEMMA TakeUpToKeeps ==
    ASSUME CInv, NEW c \in Calls, NEW n \in Nodes, TakeUpTo(c, n)
    PROVE  CInv'
<1>1. /\ call[c].req.tool \in Capped /\ Receive(c, n)
      /\ UNCHANGED <<errors, told, failing>>
  BY DEF TakeUpTo
<1>2. PICK x \in Lines : seen'[c] = Append(seen[c], x) /\ Last(seen'[c]) = x
  BY <1>1, ReceiveFacts
<1>3. PICK s \in Seq(Lines) : s = kept[c]
  BY CallFacts
<1>4. PICK m \in Nat \ {0} : m = LimitOf(call[c].req)
  BY CallFacts, RequestsHaveLimits
<1>5. seen[c] = s /\ Len(s) <= m
  BY <1>1, <1>3, <1>4, ReceiveFacts DEF KeptSoFar, Capped, OnFiles
<1>6. PICK q \in Seq(Lines) : q = Append(s, x)
  <2>1. Append(s, x) \in Seq(Lines)
    BY AppendProperties
  <2> QED BY <2>1
<1>7. Len(q) = Len(s) + 1 /\ Len(s) \in Nat
  BY <1>6
<1>8. seen'[c] = q
  BY <1>2, <1>5, <1>6
<1>9. CASE Overflows(c)
  <2>1. /\ call' = [call EXCEPT ![c].pc = "done", ![c].answer = "result",
                                ![c].truncated = TRUE]
        /\ UNCHANGED kept
    BY <1>9 DEF TakeUpTo
  <2>2. Len(s) = m
    BY <1>3, <1>4, <1>5, <1>7, <1>9 DEF Overflows
  <2>3. PICK k \in States : k = call[c]
    BY CallFacts
  <2>4. PICK h : h = [[[k EXCEPT !.pc = "done"] EXCEPT !.answer = "result"]
                         EXCEPT !.truncated = TRUE]
    OBVIOUS
  <2>5. /\ h \in States /\ h.pc = "done" /\ h.answer = "result"
        /\ h.req = k.req /\ h.truncated
    BY <2>4 DEF States
  <2>6. call' = [call EXCEPT ![c] = h] /\ call \in [Calls -> States]
    BY <2>1, <2>3, <2>4, CallFacts
  <2>7. /\ call' \in [Calls -> States] /\ call'[c] = h
        /\ \A d \in Calls \ {c} : call'[d] = call[d]
    BY <2>5, <2>6
  <2>8. errors'[c] = told'[c]
    BY <1>1, CallFacts DEF CallInv
  <2>9. IsPrefix(s, q)
    BY <1>2, <1>6, PrefixOfMore
  <2>10. kept'[c] = s /\ call'[c].req = call[c].req /\ call'[c].truncated
    BY <1>3, <2>1, <2>3, <2>5, <2>7
  <2>11. /\ Len(kept'[c]) = LimitOf(call'[c].req)
         /\ Len(kept'[c]) <= LimitOf(call'[c].req)
         /\ Len(seen'[c]) > Len(kept'[c])
    BY <1>4, <1>7, <1>8, <2>2, <2>10
  <2>12. TrueResult(c)'
    <3>1. call'[c].req.tool \in Capped
      BY <1>1, <2>10
    <3> QED BY <1>8, <2>8, <2>9, <2>10, <2>11, <3>1 DEF TrueResult, Capped, OnFiles
  <2>13. kept' \in [Calls -> Seq(Lines)] /\ \A d \in Calls \ {c} : kept'[d] = kept[d]
    BY <2>1, CallFacts
  <2> QED BY <1>1, <2>5, <2>7, <2>10, <2>12, <2>13, LastReadKeeps
<1>10. CASE ~Overflows(c)
  <2>1. Collect(c, Append(kept[c], Last(seen'[c]))) /\ UNCHANGED call
    BY <1>10 DEF TakeUpTo
  <2>2. Collect(c, q) /\ kept'[c] = q
    BY <1>2, <1>3, <1>6, <2>1, CallFacts DEF Collect
  <2>3. Len(q) <= m
    BY <1>3, <1>4, <1>5, <1>7, <1>10 DEF Overflows
  <2>4. Len(kept'[c]) <= LimitOf(call'[c].req) /\ call'[c].req.tool \in Capped
    BY <1>1, <1>4, <2>1, <2>2, <2>3
  <2>5. KeptSoFar(c)'
    BY <1>8, <2>2, <2>4 DEF KeptSoFar, Capped, OnFiles
  <2> QED BY <1>1, <2>1, <2>2, <2>5, ReadOnKeeps
<1> QED BY <1>9, <1>10

-----------------------------------------------------------------------------
(* The end of the stream. *)

(* The error of a node is named in the answer. *)
LEMMA NodeFailsKeeps ==
    ASSUME CInv, NEW c \in Calls, NEW n \in Nodes, NodeFails(c, n)
    PROVE  CInv'
<1>1. /\ call[c].pc = "reading"
      /\ told' = [told EXCEPT ![c] = @ \cup {n}]
      /\ errors' = [errors EXCEPT ![c] = @ \cup {n}]
      /\ UNCHANGED <<call, kept, seen, left, failing>>
  BY DEF NodeFails, IsTold
<1>2. /\ told' \in [Calls -> SUBSET Nodes] /\ errors' \in [Calls -> SUBSET Nodes]
      /\ \A d \in Calls \ {c} : told'[d] = told[d] /\ errors'[d] = errors[d]
      /\ told'[c] = told[c] \cup {n} /\ errors'[c] = errors[c] \cup {n}
  BY <1>1, CallFacts
<1>3. TypeOK'
  BY <1>1, <1>2, CInvIs DEF TypeOK
<1>4. CallInv(c)'
  <2>1. /\ call[c].answer = "none" /\ ~call[c].truncated
        /\ errors[c] = told[c] /\ OpenedAsPermitted(c) /\ KeptSoFar(c)
    BY <1>1, CallFacts DEF CallInv
  <2>2. OpenedAsPermitted(c)' /\ KeptSoFar(c)'
    BY <1>1, <2>1 DEF OpenedAsPermitted, KeptSoFar
  <2> QED BY <1>1, <1>2, <2>1, <2>2 DEF CallInv
<1>5. \A d \in Calls \ {c} : Same(d)
  BY <1>1, <1>2 DEF Same
<1> QED BY <1>3, <1>4, <1>5, OneCallKeeps

(* What is answered at the end of the stream, or for events at the end of   *)
(* the time they are watched, is all that was sent.                         *)
LEMMA ResultKeeps ==
    ASSUME CInv, NEW c \in Calls, call[c].pc = "reading",
           Ended(c) \/ call[c].req.tool = "events", Answer(c, "result"),
           UNCHANGED <<kept, errors, seen, told, left, failing>>
    PROVE  CInv'
<1>1. /\ call' \in [Calls -> States]
      /\ call'[c].pc = "done" /\ call'[c].answer = "result"
      /\ call'[c].req = call[c].req /\ call'[c].truncated = call[c].truncated
      /\ \A d \in Calls \ {c} : call'[d] = call[d]
  BY CallFacts, AnswerRecord
<1>2. TypeOK'
  BY <1>1, CInvIs DEF TypeOK
<1>3. /\ ~call[c].truncated /\ errors[c] = told[c]
      /\ OpenedAsPermitted(c) /\ KeptSoFar(c)
  BY CallFacts DEF CallInv
<1>4. PICK s \in Seq(Lines) : s = kept[c]
  BY CallFacts
<1>5. PICK t \in Seq(Lines) : t = seen[c]
  BY CallFacts
<1>6. PICK m \in Nat \ {0} : m = LimitOf(call[c].req)
  BY CallFacts, RequestsHaveLimits
<1>7. PICK a \in Tools : a = call[c].req.tool
  BY CallFacts, RequestsHaveLimits
<1>8. /\ a # "dmesg" => s = t
      /\ a = "dmesg" => IsSuffix(s, t) /\ (s # t => Len(s) = m)
      /\ a = "logs" => Len(s) < m
      /\ a \in {"dmesg"} \cup Capped => Len(s) <= m
  BY <1>3, <1>4, <1>5, <1>6, <1>7 DEF KeptSoFar
<1>9. a \notin {"events", "health"} => Len(s) <= m
  <2>1. Len(s) \in Nat
    OBVIOUS
  <2>2. CASE a = "logs"
    BY <1>8, <2>1, <2>2
  <2>3. CASE a \in {"dmesg"} \cup Capped
    BY <1>8, <2>3
  <2> QED BY <2>2, <2>3 DEF Tools, Capped, OnFiles
<1>10. s = t => IsPrefix(s, t) /\ ~(Len(t) > Len(s))
  <2>1. SubSeq(s, 1, Len(s)) = s /\ Len(s) \in Nat
    OBVIOUS
  <2> QED BY <2>1 DEF IsPrefix
<1>11. Ended(c)' <=> Ended(c)
  BY DEF Ended
<1>12. TrueResult(c)'
  <2>1. CASE a = "dmesg"
    <3>1. a \notin {"events", "health"} /\ a \notin Capped /\ Ended(c)'
      BY <1>7, <1>11, <2>1 DEF Capped, OnFiles
    <3> QED BY <1>1, <1>3, <1>4, <1>5, <1>6, <1>7, <1>8, <1>9, <2>1, <3>1 DEF TrueResult
  <2>2. CASE a # "dmesg"
    <3>1. a # "events" => Ended(c)'
      BY <1>7, <1>11
    <3> QED BY <1>1, <1>3, <1>4, <1>5, <1>6, <1>7, <1>8, <1>9, <1>10, <2>2, <3>1
            DEF TrueResult, Capped, OnFiles
  <2> QED BY <2>1, <2>2
<1>13. CallInv(c)'
  <2>1. OpenedAsPermitted(c)'
    BY <1>1, <1>3 DEF OpenedAsPermitted
  <2> QED BY <1>1, <1>3, <1>12, <2>1 DEF CallInv
<1>14. \A d \in Calls \ {c} : Same(d)
  BY <1>1 DEF Same
<1> QED BY <1>2, <1>13, <1>14, OneCallKeeps

-----------------------------------------------------------------------------
(* The steps, and the theorems. *)

LEMMA CInit == Init => CInv
<1>1. ASSUME Init PROVE TypeOK
  <2>1. [pc |-> "idle", req |-> None, truncated |-> FALSE, answer |-> "none"] \in States
    BY DEF States
  <2>2. <<>> \in Seq(Lines) /\ 0 \in 0 .. MaxSend
    BY CollectorsAssumption DEF CollectorsAssumption
  <2> QED BY <1>1, <2>1, <2>2 DEF Init, TypeOK
<1>2. ASSUME Init, NEW c \in Calls PROVE CallInv(c)
  BY <1>2 DEF Init, CallInv
<1> QED BY <1>1, <1>2, CInvIs

LEMMA CNext == ASSUME CInv, [Next]_vars PROVE CInv'
<1>1. ASSUME NEW c \in Calls, NEW r \in Requests, Enter(c, r) PROVE CInv'
  BY <1>1, EnterKeeps
<1>2. ASSUME NEW c \in Calls, Open(c) PROVE CInv'
  <2>1. CASE Refuse(c)
    BY <2>1, ErrorKeeps DEF Refuse
  <2>2. CASE Ask(c)
    BY <2>2, AskKeeps
  <2>3. CASE AskFails(c)
    BY <2>3, ErrorKeeps DEF AskFails
  <2> QED BY <1>2, <2>1, <2>2, <2>3 DEF Open
<1>3. ASSUME NEW c \in Calls, NEW n \in Nodes, Recv(c, n) PROVE CInv'
  BY <1>3, TakeAllKeeps, TakeLastKeeps, TakeFirstKeeps, TakeUpToKeeps DEF Recv
<1>4. ASSUME NEW c \in Calls, NEW n \in Nodes, NodeFails(c, n) PROVE CInv'
  BY <1>4, NodeFailsKeeps
<1>5. ASSUME NEW c \in Calls, EndOfStream(c) PROVE CInv'
  BY <1>5, ResultKeeps DEF EndOfStream
<1>6. ASSUME NEW c \in Calls, StreamFails(c) PROVE CInv'
  BY <1>6, ErrorKeeps DEF StreamFails
<1>7. ASSUME NEW c \in Calls, Deadline(c) PROVE CInv'
  <2>1. CASE call[c].req.tool = "events"
    BY <1>7, <2>1, ResultKeeps DEF Deadline
  <2>2. CASE call[c].req.tool # "events"
    BY <1>7, <2>2, ErrorKeeps DEF Deadline
  <2> QED BY <2>1, <2>2
<1>8. CASE UNCHANGED vars
  <2>1. \A d \in Calls : Same(d)
    BY <1>8 DEF vars, Same
  <2>2. \A d \in Calls : CallInv(d)'
    BY <2>1, SameKeepsCall, CInvIs
  <2>3. TypeOK'
    BY <1>8, CInvIs DEF vars, TypeOK
  <2> QED BY <2>2, <2>3 DEF CInv, IInv, ResultTrue, CallInv
<1> QED BY <1>1, <1>2, <1>3, <1>4, <1>5, <1>6, <1>7, <1>8 DEF Next

(* The inductive invariant with what it is there for. *)
THEOREM CollectorsInvariance == Spec => []CInv
<1> QED BY CInit, CNext, PTL DEF Spec

(* While a stream is read, what is kept is what came or the last of it, the *)
(* stream was opened where the allowlists let it, and no error of a node is *)
(* lost.                                                                    *)
THEOREM CollectedSoFar == Spec => []IInv
<1>1. CInv => IInv
  BY DEF CInv
<1> QED BY <1>1, CollectorsInvariance, PTL

(* A result says what the stream said: the first lines or the last, in      *)
(* order, marked where it was cut, with the nodes that failed, and never    *)
(* one of a stream that broke.                                              *)
THEOREM ResultsAreTrue == Spec => []ResultTrue
<1>1. CInv => ResultTrue
  BY DEF CInv
<1> QED BY <1>1, CollectorsInvariance, PTL
=============================================================================
