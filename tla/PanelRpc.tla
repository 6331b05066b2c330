------------------------------ MODULE PanelRpc ------------------------------
(***************************************************************************)
(* The LED panel reached over ssh (engine/panel_rpc_client.py and            *)
(* tools/panel_server/panel_server_stdio.py).  Threads share one ssh         *)
(* subprocess under _lock: write a line, read a line.  The connection may be *)
(* cut, or its process die, at any moment; the next call spawns a fresh one  *)
(* while the server of the old one may still be at work.                     *)
(***************************************************************************)
EXTENDS Naturals, Sequences

CONSTANTS
  Threads,     \* callers: the GUI thread and the cameras' threads
  MaxRequests, \* bound: ids handed out by next_id
  MaxSpawns,   \* bound: ssh subprocesses
  MaxStray     \* bound: lines on stdout that are no response

ASSUME BoundsAssumption == MaxRequests \in Nat /\ MaxSpawns \in Nat /\ MaxStray \in Nat

Ids    == 1..MaxRequests
Spawns == 1..MaxSpawns
Stray  == [id |-> 0, well |-> FALSE]

VARIABLES
  at,        \* where each thread is in _call
  request,   \* its request_id
  process,   \* _state["process"], 0 for None
  nextId,    \* _state["next_id"]
  ssh,       \* each subprocess; "cut" if the network is gone and ssh has not noticed
  inbox,     \* request lines the server has not read
  work,      \* the request its server is carrying out, 0 for none
  replies,   \* response lines in the pipe
  strays,    \* lines of other origin written so far
  ran,       \* history: the runs of each request, and how the first ended
  answer,    \* history: what each request's caller was told
  closing    \* close(), at app exit

client  == <<at, request, process, nextId>>
pipes   == <<ssh, inbox, work, replies, strays>>
history == <<ran, answer>>
vars    == <<client, pipes, history, closing>>

TypeOK ==
  /\ at \in [Threads -> {"out", "waits", "connected", "sent"}]
  /\ request \in [Threads -> 0..MaxRequests]
  /\ process \in 0..MaxSpawns
  /\ nextId \in 1..(MaxRequests + 1)
  /\ ssh \in [Spawns -> {"none", "up", "cut", "dead"}]
  /\ inbox \in [Spawns -> Seq(Ids)]
  /\ work \in [Spawns -> 0..MaxRequests]
  /\ replies \in [Spawns -> Seq([id : 0..MaxRequests, well : BOOLEAN])]
  /\ strays \in 0..MaxStray
  /\ ran \in [Ids -> {"no", "well", "badly", "twice"}]
  /\ answer \in [Ids -> {"none", "returned", "raised"}]
  /\ closing \in {"no", "waits", "done"}

Init ==
  /\ at = [t \in Threads |-> "out"] /\ request = [t \in Threads |-> 0]
  /\ process = 0 /\ nextId = 1
  /\ ssh = [p \in Spawns |-> "none"]
  /\ inbox = [p \in Spawns |-> <<>>] /\ replies = [p \in Spawns |-> <<>>]
  /\ work = [p \in Spawns |-> 0] /\ strays = 0
  /\ ran = [i \in Ids |-> "no"] /\ answer = [i \in Ids |-> "none"]
  /\ closing = "no"

-----------------------------------------------------------------------------
(* The client.                                                              *)

Unlocked == TRUE  \* mutant

\* _lock is held from _ensure_connected to the answer.
LockFree == \A t \in Threads : at[t] \in {"out", "waits"}

Usable(p) == p # 0 /\ ssh[p] \in {"up", "cut"}

Ask(t) ==
  /\ at[t] = "out" /\ nextId \in Ids
  /\ at' = [at EXCEPT ![t] = "waits"]
  /\ UNCHANGED <<request, process, nextId, pipes, history, closing>>

Spawn(p) ==
  /\ ssh[p] = "none" /\ \A q \in Spawns : q < p => ssh[q] # "none"
  /\ ssh' = [ssh EXCEPT ![p] = "up"]
  /\ process' = p
  /\ UNCHANGED <<inbox, work, replies, strays>>

IncrementFirst(t) == nextId' = nextId + 1 /\ request' = [request EXCEPT ![t] = nextId']  \* mutant

TakeId(t) == request' = [request EXCEPT ![t] = nextId] /\ nextId' = nextId + 1

(* _ensure_connected: a process that has not exited is kept, or a new one   *)
(* spawned; then the next id.                                               *)
Connect(t) ==
  /\ at[t] = "waits" /\ LockFree /\ nextId \in Ids
  /\ IF Usable(process) THEN UNCHANGED <<process, pipes>> ELSE \E p \in Spawns : Spawn(p)
  /\ at' = [at EXCEPT ![t] = "connected"]
  /\ TakeId(t)
  /\ UNCHANGED <<history, closing>>

\* Never configured, or no ssh to start.
ConnectRaises(t) ==
  /\ at[t] = "waits" /\ LockFree /\ ~Usable(process)
  /\ at' = [at EXCEPT ![t] = "out"]
  /\ UNCHANGED <<request, process, nextId, pipes, history, closing>>

\* Bytes written into a cut connection go nowhere.
Write(t) ==
  /\ at[t] = "connected" /\ Usable(process)
  /\ inbox' = IF ssh[process] = "up"
              THEN [inbox EXCEPT ![process] = Append(@, request[t])] ELSE inbox
  /\ at' = [at EXCEPT ![t] = "sent"]
  /\ UNCHANGED <<request, process, nextId, ssh, work, replies, strays, history, closing>>

Tell(t, what) ==
  /\ answer' = [answer EXCEPT ![request[t]] = what]
  /\ at' = [at EXCEPT ![t] = "out"]
  /\ request' = [request EXCEPT ![t] = 0]
  /\ UNCHANGED <<process, nextId, ran, closing>>

\* A broken pipe.
WriteRaises(t) ==
  /\ at[t] = "connected" /\ ~Usable(process)
  /\ Tell(t, "raised")
  /\ UNCHANGED pipes

ReadUnchecked(t) ==  \* mutant: whatever answer comes first
  /\ at[t] = "sent" /\ replies[process] # <<>>
  /\ Tell(t, IF Head(replies[process]).well THEN "returned" ELSE "raised")
  /\ replies' = [replies EXCEPT ![process] = Tail(@)]
  /\ UNCHANGED <<ssh, inbox, work, strays>>

(* One line is read; it is this call's answer if it parses, has the id and   *)
(* is no error.                                                             *)
Read(t) ==
  /\ at[t] = "sent" /\ replies[process] # <<>>
  /\ LET line == Head(replies[process]) IN
       Tell(t, IF line.id = request[t] /\ line.well THEN "returned" ELSE "raised")
  /\ replies' = [replies EXCEPT ![process] = Tail(@)]
  /\ UNCHANGED <<ssh, inbox, work, strays>>

ReadGivesUp(t) ==  \* mutant: a timeout on reading
  /\ at[t] = "sent" /\ replies[process] = <<>>
  /\ Tell(t, "raised")
  /\ UNCHANGED pipes

\* End of file.
ReadRaises(t) ==
  /\ at[t] = "sent" /\ replies[process] = <<>> /\ ~Usable(process)
  /\ Tell(t, "raised")
  /\ UNCHANGED pipes

-----------------------------------------------------------------------------
(* The server: handle_request, one line at a time until end of file.         *)

Take(p) ==
  /\ work[p] = 0 /\ inbox[p] # <<>>
  /\ work' = [work EXCEPT ![p] = Head(inbox[p])]
  /\ inbox' = [inbox EXCEPT ![p] = Tail(@)]
  /\ UNCHANGED <<client, ssh, replies, strays, history, closing>>

\* The method returns or raises; the response is lost unless the connection is up.
Finish(p) ==
  /\ work[p] # 0
  /\ \E how \in {"well", "badly"} :
       /\ ran' = [ran EXCEPT ![work[p]] = IF @ = "no" THEN how ELSE "twice"]
       /\ replies' = IF ssh[p] = "up"
                     THEN [replies EXCEPT ![p] = Append(@, [id |-> work[p], well |-> how = "well"])]
                     ELSE replies
  /\ work' = [work EXCEPT ![p] = 0]
  /\ UNCHANGED <<client, ssh, inbox, strays, answer, closing>>

\* _query leaves LED-Panel.exe the server's own stdout; _run does not.
StrayLine(p) ==
  /\ ssh[p] = "up" /\ work[p] # 0 /\ strays < MaxStray
  /\ replies' = [replies EXCEPT ![p] = Append(@, Stray)]
  /\ strays' = strays + 1
  /\ UNCHANGED <<client, ssh, inbox, work, history, closing>>

-----------------------------------------------------------------------------
(* The network and the ssh process.                                         *)

Cut(p) ==
  /\ ssh[p] = "up" /\ ssh' = [ssh EXCEPT ![p] = "cut"]
  /\ UNCHANGED <<client, inbox, work, replies, strays, history, closing>>

(* ssh exits; what it had not delivered may be lost, and the server may go   *)
(* with it or carry on with what it has.                                    *)
Ends(p) ==
  /\ ssh' = [ssh EXCEPT ![p] = "dead"]
  /\ \/ UNCHANGED <<inbox, work>>
     \/ inbox' = [inbox EXCEPT ![p] = <<>>] /\ UNCHANGED work
     \/ inbox' = [inbox EXCEPT ![p] = <<>>] /\ work' = [work EXCEPT ![p] = 0]
  /\ UNCHANGED <<replies, strays>>

SshDies(p) == Usable(p) /\ Ends(p) /\ UNCHANGED <<client, history, closing>>

NoKeepalive(p) == FALSE /\ UNCHANGED vars  \* mutant

\* ServerAliveInterval, three times.
SshNotices(p) == ssh[p] = "cut" /\ Ends(p) /\ UNCHANGED <<client, history, closing>>

CallClose ==
  /\ closing = "no" /\ closing' = "waits"
  /\ UNCHANGED <<client, pipes, history>>

\* close(), under the lock: terminate, wait, kill, forget.
Close ==
  /\ closing = "waits" /\ LockFree
  /\ IF Usable(process) THEN Ends(process) ELSE UNCHANGED pipes
  /\ process' = 0 /\ closing' = "done"
  /\ UNCHANGED <<at, request, nextId, history>>

Next ==
  \/ \E t \in Threads : \/ Ask(t) \/ Connect(t) \/ ConnectRaises(t) \/ Write(t) \/ WriteRaises(t)
                        \/ Read(t) \/ ReadRaises(t)
  \/ \E p \in Spawns : \/ Take(p) \/ Finish(p) \/ StrayLine(p)
                       \/ Cut(p) \/ SshDies(p) \/ SshNotices(p)
  \/ CallClose \/ Close

Spec == Init /\ [][Next]_vars

(* Threads run; methods of the panel end (LED-Panel.exe has a timeout); ssh *)
(* notices a cut connection.  The lock goes to a waiting thread at last.     *)
FairSpec ==
  /\ Spec
  /\ \A t \in Threads : SF_vars(Connect(t)) /\ WF_vars(Write(t)) /\ WF_vars(WriteRaises(t))
                          /\ WF_vars(Read(t)) /\ WF_vars(ReadRaises(t))
  /\ \A p \in Spawns : WF_vars(Take(p)) /\ WF_vars(Finish(p)) /\ WF_vars(SshNotices(p))
  /\ SF_vars(Close)

-----------------------------------------------------------------------------
(* Properties.                                                              *)

Promise == INSTANCE RemoteCall WITH
  Requests <- Ids,
  asked    <- 1..(nextId - 1)

(* A call that returned ran once with success while its caller waited; no   *)
(* cut, death, respawn or stray line makes a command run twice, or a call   *)
(* take another's answer for its own.                                       *)
KeepsPromise == Promise!Spec

Silent(p) == inbox[p] = <<>> /\ work[p] = 0 /\ replies[p] = <<>>

(* Between calls the connection in use is in step: as long as nothing else  *)
(* wrote to the server's stdout, no request or answer of an earlier call is  *)
(* left in it for the next caller to read.                                  *)
InStep == (LockFree /\ Usable(process) /\ ssh[process] = "up" /\ strays = 0) => Silent(process)

(* A server other than the one in use works only on a request whose caller  *)
(* was told that the connection was lost: abandoned work was never reported *)
(* as done.                                                                 *)
AbandonedWorkWasRaised ==
  \A p \in Spawns \ {process} : work[p] # 0 => answer[work[p]] = "raised"

(* Every call returns or raises: no death of a server, of ssh or of the     *)
(* network leaves a thread, or the app's exit, waiting for ever under the    *)
(* lock.                                                                    *)
CallsEnd ==
  /\ \A t \in Threads : at[t] \in {"connected", "sent"} ~> at[t] = "out"
  /\ closing = "waits" ~> closing = "done"
=============================================================================
