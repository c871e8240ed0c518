-------------------------- MODULE ServedSnapshots --------------------------
(***************************************************************************)
(* The front end and the files together: a POST that reaches the MCP       *)
(* handler may call a tool that writes a file.  The SDK runs the tool in a *)
(* goroutine of its own: it goes on when the client of the POST is gone,   *)
(* and it ends with the process, wherever it is.                           *)
(***************************************************************************)
EXTENDS FrontEnd, SnapshotFiles

ASSUME ServedSnapshotsAssumption == Jobs \subseteq Clients

vars == <<httpVars, fileVars>>

Init == HttpInit /\ FileInit

(* The POST of a call of ours; others are left to the SDK. *)
Carries(r) == r \in Jobs /\ IsPost(r) /\ ~TooBig(r)

Serve(c) ==
    /\ Running
    /\ At(c, "inside") /\ Carries(c)
    /\ \E q \in FileRequests : Call(c, q)
    /\ UNCHANGED httpVars

Answer(c) ==
    /\ At(c, "inside") /\ Carries(c)
    /\ Returned(c)
    /\ Leave(c, 200)
    /\ UNCHANGED fileVars

(* A notification is accepted, a stream or a session comes to its end. *)
End(r) ==
    /\ At(r, "inside") /\ ~Carries(r) /\ ~TooBig(r)
    /\ Leave(r, 200)
    /\ UNCHANGED fileVars

Gone(r) == Leave(r, 0) /\ UNCHANGED fileVars

Http(r) == Chain(r) /\ UNCHANGED fileVars

Tool(c) == Running /\ (Body(c) \/ Fault(c)) /\ UNCHANGED httpVars

Die == Exit /\ CutJobs

Next ==
    \/ \E r \in Clients :
          \/ Receive(r) /\ UNCHANGED fileVars
          \/ Http(r)
          \/ BodyArrives(r) /\ UNCHANGED fileVars
          \/ ProbeAnswered(r) /\ UNCHANGED fileVars
          \/ End(r)
          \/ Gone(r)
    \/ \E c \in Jobs : Serve(c) \/ Answer(c) \/ Tool(c)
    \/ Refill /\ UNCHANGED fileVars
    \/ Signal /\ UNCHANGED fileVars
    \/ Die
    \/ Restart /\ UNCHANGED fileVars

Spec == Init /\ [][Next]_vars

(* Goroutines run; a probe has five seconds and a snapshot five minutes, so *)
(* neither needs the node to answer; local files do, and an answer can be   *)
(* written.  Nobody has to send a request, or the body of one; refill is    *)
(* not needed, and no client has to leave.                                  *)
Fairness ==
    /\ \A r \in Clients : WF_vars(Http(r))
    /\ \A c \in Jobs :
          WF_vars(Serve(c)) /\ WF_vars(Answer(c)) /\ WF_vars(Tool(c))
    /\ WF_vars(Die)

FairSpec == Spec /\ Fairness

-----------------------------------------------------------------------------
(* The type of the variables; every slot is held by a POST with the right   *)
(* token that is in the handler, none is lost, and there are no more than   *)
(* the limit; a call under way came with such a POST; and what the files    *)
(* hold is accounted for.                                                   *)
IInv ==
    /\ HttpTypeOK
    /\ FileTypeOK
    /\ SlotsAccounted
    /\ proc = "down" => InHandler = {}
    /\ \A c \in Jobs : ~JobAt(c, "idle") => ~At(c, "new") /\ http[c].req.token /\ IsPost(c)
    /\ FilesAccounted

Pending(r) ==
    \/ http[r].pc \in {"auth", "gate", "probing"}
    \/ At(r, "inside") /\ r \in Jobs /\ IsPost(r)
Settled(r) ==
    \/ http[r].pc \in {"done", "cut"}
    \/ At(r, "inside") /\ ~IsPost(r)
    \/ At(r, "reading")

(* A probe is answered though the node is not, the limiter is empty and the *)
(* slots are taken, by bodies that never come too; a request that has been  *)
(* let in is answered, gets its stream, waits for the body that its own     *)
(* client has yet to send, or is cut off with the process, which does end   *)
(* after a signal, whatever it is doing.                                    *)
EveryoneAnswered ==
    /\ \A r \in Clients : Pending(r) ~> Settled(r)
    /\ proc = "stopping" ~> proc = "down"
=============================================================================
