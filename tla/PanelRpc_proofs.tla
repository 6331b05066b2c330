--------------------------- MODULE PanelRpc_proofs ---------------------------
(***************************************************************************)
(* What holds of PanelRpc for any set of threads and any bounds on requests, *)
(* ssh processes and stray lines: its types, InStep, AbandonedWorkWasRaised  *)
(* and the refinement of RemoteCall, all from the inductive invariant        *)
(* RpcInv.                                                                  *)
(***************************************************************************)
EXTENDS PanelRpc, SequenceTheorems, TLAPS

-----------------------------------------------------------------------------
(* The inductive invariant.                                                 *)

Calling(t) == at[t] \in {"connected", "sent"}

(* The lock: one call at a time, the one with the last id handed out, over a *)
(* connection that is not forgotten meanwhile; every earlier call was        *)
(* answered, and no later id is known to anyone.                            *)
CallInv ==
  /\ \A t, u \in Threads : Calling(t) /\ Calling(u) => t = u
  /\ \A t \in Threads : Calling(t) =>
       /\ request[t] = nextId - 1 /\ request[t] \in Ids
       /\ answer[request[t]] = "none"
       /\ process \in Spawns
  /\ \A i \in Ids : i < nextId /\ answer[i] = "none" =>
       \E t \in Threads : Calling(t) /\ request[t] = i
  /\ \A i \in Ids : i >= nextId => answer[i] = "none" /\ ran[i] = "no"

\* Request i is under way at server p: in its pipe, or being carried out.
Waiting(p, i) == \E k \in 1..Len(inbox[p]) : inbox[p][k] = i
UnderWay(p, i) == Waiting(p, i) \/ work[p] = i

(* A request is in one place only and never sent twice.                     *)
OnceInv ==
  /\ \A p \in Spawns, i \in Ids : UnderWay(p, i) => i < nextId /\ ran[i] = "no"
  /\ \A p, q \in Spawns, i \in Ids : UnderWay(p, i) /\ UnderWay(q, i) => p = q
  /\ \A p \in Spawns, i \in Ids : ~(Waiting(p, i) /\ work[p] = i)
  /\ \A p \in Spawns : \A k, l \in 1..Len(inbox[p]) : inbox[p][k] = inbox[p][l] => k = l
  /\ \A t \in Threads : at[t] = "connected" =>
       /\ ran[request[t]] = "no"
       /\ \A p \in Spawns : ~UnderWay(p, request[t])

(* What a caller is told is what happened.                                  *)
TruthInv ==
  /\ \A p \in Spawns : \A k \in 1..Len(replies[p]) :
       replies[p][k].well => replies[p][k].id \in Ids /\ ran[replies[p][k].id] = "well"
  /\ \A i \in Ids : answer[i] = "returned" => ran[i] = "well"

(* The connections: one not yet spawned is silent, and at one no longer in   *)
(* use every request is answered.                                           *)
SshInv ==
  /\ \A p \in Spawns : ssh[p] = "none" => p # process /\ Silent(p)
  /\ \A p \in Spawns \ {process}, i \in Ids : UnderWay(p, i) => answer[i] # "none"

\* Exactly one line is on its way between the caller and the server.
OneLine(p) ==
  \/ Len(inbox[p]) = 1 /\ work[p] = 0 /\ replies[p] = <<>>
  \/ inbox[p] = <<>> /\ work[p] # 0 /\ replies[p] = <<>>
  \/ inbox[p] = <<>> /\ work[p] = 0 /\ Len(replies[p]) = 1

StepInv ==
  \A p \in Spawns : (p = process /\ ssh[p] = "up" /\ strays = 0) =>
    /\ \A t \in Threads : at[t] = "sent" => OneLine(p)
    /\ (\A t \in Threads : at[t] # "sent") => Silent(p)

RpcInv == TypeOK /\ CallInv /\ OnceInv /\ TruthInv /\ SshInv /\ StepInv

-----------------------------------------------------------------------------
(* Initially.                                                               *)

LEMMA InitTypeOK == Init => TypeOK
<1> SUFFICES ASSUME Init PROVE TypeOK
  OBVIOUS
<1>1. <<>> \in Seq(Ids) /\ <<>> \in Seq([id : 0..MaxRequests, well : BOOLEAN])
  OBVIOUS
<1>2. 1 \in 1..(MaxRequests + 1) /\ 0 \in 0..MaxRequests /\ 0 \in 0..MaxSpawns /\ 0 \in 0..MaxStray
  BY BoundsAssumption
<1> QED  BY <1>1, <1>2 DEF Init, TypeOK

LEMMA InitRpcInv == Init => RpcInv
<1> SUFFICES ASSUME Init PROVE RpcInv
  OBVIOUS
<1>1. CallInv
  BY BoundsAssumption DEF Init, CallInv, Calling, Ids
<1>2. OnceInv
  BY BoundsAssumption DEF Init, OnceInv, UnderWay, Waiting, Ids, Spawns
<1>3. TruthInv
  BY BoundsAssumption DEF Init, TruthInv, Ids, Spawns
<1>4. SshInv /\ StepInv
  BY BoundsAssumption DEF Init, SshInv, StepInv, UnderWay, Waiting, Silent, Ids, Spawns
<1> QED  BY <1>1, <1>2, <1>3, <1>4, InitTypeOK DEF RpcInv

-----------------------------------------------------------------------------
(* Types.                                                                   *)

LEMMA EndsTyped ==
  ASSUME TypeOK, NEW p \in Spawns, Ends(p)
  PROVE  /\ ssh' \in [Spawns -> {"none", "up", "cut", "dead"}]
         /\ inbox' \in [Spawns -> Seq(Ids)]
         /\ work' \in [Spawns -> 0..MaxRequests]
<1>1. <<>> \in Seq(Ids) /\ 0 \in 0..MaxRequests
  BY BoundsAssumption
<1> QED  BY <1>1 DEF TypeOK, Ends

(* Each step keeps every variable in its range.                             *)
LEMMA NextTypeOK == TypeOK /\ CallInv /\ [Next]_vars => TypeOK'
<1> SUFFICES ASSUME TypeOK, CallInv, [Next]_vars PROVE TypeOK'
  OBVIOUS
<1> USE BoundsAssumption DEF client, pipes, history
<1>1. ASSUME NEW t \in Threads, Ask(t) \/ ConnectRaises(t) PROVE TypeOK'
  BY <1>1 DEF TypeOK, Ask, ConnectRaises
<1>2. ASSUME NEW t \in Threads, Connect(t) PROVE TypeOK'
  <2>1. /\ ssh' \in [Spawns -> {"none", "up", "cut", "dead"}] /\ process' \in 0..MaxSpawns
        /\ UNCHANGED <<inbox, work, replies, strays>>
    <3>1. CASE UNCHANGED <<process, ssh, inbox, work, replies, strays>>
      BY <3>1 DEF TypeOK
    <3>2. ASSUME NEW p \in Spawns, Spawn(p)
          PROVE  ssh' \in [Spawns -> {"none", "up", "cut", "dead"}] /\ process' \in 0..MaxSpawns
                 /\ UNCHANGED <<inbox, work, replies, strays>>
      <4>1. p \in 0..MaxSpawns
        BY DEF Spawns
      <4> QED  BY <3>2, <4>1 DEF TypeOK, Spawn
    <3> QED  BY <1>2, <3>1, <3>2 DEF Connect
  <2>2. /\ at' \in [Threads -> {"out", "waits", "connected", "sent"}]
        /\ request' \in [Threads -> 0..MaxRequests] /\ nextId' \in 1..(MaxRequests + 1)
    BY <1>2 DEF TypeOK, Connect, TakeId, Ids
  <2> QED  BY <1>2, <2>1, <2>2 DEF TypeOK, Connect
<1>3. ASSUME NEW t \in Threads, Write(t) PROVE TypeOK'
  <2>1. inbox' \in [Spawns -> Seq(Ids)]
    BY <1>3 DEF TypeOK, Write, CallInv, Calling
  <2> QED  BY <1>3, <2>1 DEF TypeOK, Write
<1>4. ASSUME NEW t \in Threads, WriteRaises(t) \/ ReadRaises(t) PROVE TypeOK'
  <2>1. Tell(t, "raised") /\ UNCHANGED <<ssh, inbox, work, replies, strays>>
    BY <1>4 DEF WriteRaises, ReadRaises
  <2>2. /\ at' \in [Threads -> {"out", "waits", "connected", "sent"}]
        /\ request' \in [Threads -> 0..MaxRequests]
        /\ answer' \in [Ids -> {"none", "returned", "raised"}]
    <3>1. 0 \in 0..MaxRequests
      OBVIOUS
    <3> QED  BY <2>1, <3>1 DEF TypeOK, Tell
  <2> QED  BY <2>1, <2>2 DEF TypeOK, Tell
<1>5. ASSUME NEW t \in Threads, Read(t) PROVE TypeOK'
  <2>1. replies' \in [Spawns -> Seq([id : 0..MaxRequests, well : BOOLEAN])]
    BY <1>5, HeadTailProperties DEF TypeOK, Read, CallInv, Calling
  <2>2. answer' \in [Ids -> {"none", "returned", "raised"}]
    BY <1>5 DEF TypeOK, Read, Tell
  <2>3. at' \in [Threads -> {"out", "waits", "connected", "sent"}]
        /\ request' \in [Threads -> 0..MaxRequests]
    BY <1>5 DEF TypeOK, Read, Tell
  <2> QED  BY <1>5, <2>1, <2>2, <2>3 DEF TypeOK, Read, Tell
<1>6. ASSUME NEW p \in Spawns, Take(p) PROVE TypeOK'
  <2>1. Head(inbox[p]) \in Ids /\ Tail(inbox[p]) \in Seq(Ids)
    BY <1>6, HeadTailProperties DEF TypeOK, Take
  <2>2. work' \in [Spawns -> 0..MaxRequests]
    BY <1>6, <2>1 DEF TypeOK, Take, Ids
  <2>3. inbox' \in [Spawns -> Seq(Ids)]
    BY <1>6, <2>1 DEF TypeOK, Take
  <2> QED  BY <1>6, <2>2, <2>3 DEF TypeOK, Take
<1>7. ASSUME NEW p \in Spawns, Finish(p) PROVE TypeOK'
  <2>1. PICK how \in {"well", "badly"} :
          /\ ran' = [ran EXCEPT ![work[p]] = IF @ = "no" THEN how ELSE "twice"]
          /\ replies' = IF ssh[p] = "up"
                        THEN [replies EXCEPT ![p] = Append(@, [id |-> work[p], well |-> how = "well"])]
                        ELSE replies
    BY <1>7 DEF Finish
  <2>2. [id |-> work[p], well |-> how = "well"] \in [id : 0..MaxRequests, well : BOOLEAN]
    BY DEF TypeOK
  <2>3. replies' \in [Spawns -> Seq([id : 0..MaxRequests, well : BOOLEAN])]
    BY <2>1, <2>2, AppendProperties DEF TypeOK
  <2>4. ran' \in [Ids -> {"no", "well", "badly", "twice"}]
    BY <2>1 DEF TypeOK
  <2>5. work' \in [Spawns -> 0..MaxRequests]
    BY <1>7 DEF TypeOK, Finish
  <2> QED  BY <1>7, <2>3, <2>4, <2>5 DEF TypeOK, Finish
<1>8. ASSUME NEW p \in Spawns, StrayLine(p) PROVE TypeOK'
  <2>1. replies' \in [Spawns -> Seq([id : 0..MaxRequests, well : BOOLEAN])]
    <3>1. Stray \in [id : 0..MaxRequests, well : BOOLEAN]
      BY DEF Stray
    <3> QED  BY <1>8, <3>1, AppendProperties DEF TypeOK, StrayLine
  <2>2. strays' \in 0..MaxStray
    BY <1>8 DEF TypeOK, StrayLine
  <2> QED  BY <1>8, <2>1, <2>2 DEF TypeOK, StrayLine
<1>9. ASSUME NEW p \in Spawns, Cut(p) PROVE TypeOK'
  BY <1>9 DEF TypeOK, Cut
<1>10. ASSUME NEW p \in Spawns, SshDies(p) \/ SshNotices(p) PROVE TypeOK'
  <2>1. Ends(p) /\ UNCHANGED <<replies, strays, client, history, closing>>
    BY <1>10 DEF SshDies, SshNotices, Ends
  <2> QED  BY <2>1, EndsTyped DEF TypeOK
<1>11. CASE CallClose
  BY <1>11 DEF TypeOK, CallClose
<1>12. CASE Close
  <2>1. CASE Usable(process)
    <3>1. Ends(process) /\ process \in Spawns
      BY <1>12, <2>1 DEF Close, Usable, TypeOK, Spawns
    <3>2. UNCHANGED <<at, request, nextId, ran, answer, replies, strays>>
          /\ process' = 0 /\ closing' = "done"
      BY <1>12, <3>1 DEF Close, Ends
    <3>3. process' \in 0..MaxSpawns /\ closing' \in {"no", "waits", "done"}
      BY <3>2
    <3> QED  BY <3>1, <3>2, <3>3, EndsTyped DEF TypeOK
  <2>2. CASE ~Usable(process)
    <3>1. UNCHANGED <<at, request, nextId, ran, answer, ssh, inbox, work, replies, strays>>
          /\ process' = 0 /\ closing' = "done"
      BY <1>12, <2>2 DEF Close
    <3>2. process' \in 0..MaxSpawns /\ closing' \in {"no", "waits", "done"}
      BY <3>1
    <3> QED  BY <3>1, <3>2 DEF TypeOK
  <2> QED  BY <2>1, <2>2
<1>13. CASE UNCHANGED vars
  BY <1>13 DEF TypeOK, vars
<1> QED
  BY <1>1, <1>2, <1>3, <1>4, <1>5, <1>6, <1>7, <1>8, <1>9, <1>10, <1>11, <1>12, <1>13 DEF Next
-----------------------------------------------------------------------------
(* The lock.                                                                *)

LEMMA LockMeans == TypeOK => (LockFree <=> \A t \in Threads : ~Calling(t))
BY DEF TypeOK, LockFree, Calling

(* A call that is told its result gives the lock back, with every id handed *)
(* out answered.                                                            *)
LEMMA TellCallInv ==
  ASSUME TypeOK, CallInv, NEW t \in Threads, NEW what \in {"returned", "raised"},
         Calling(t), Tell(t, what)
  PROVE  CallInv'
<1>1. /\ request[t] = nextId - 1 /\ request[t] \in Ids
      /\ \A u \in Threads : Calling(u) => u = t
  BY DEF CallInv
<1>2. \A u \in Threads : ~Calling(u)'
  BY <1>1 DEF TypeOK, Tell, Calling
<1>3. answer'[request[t]] = what /\ \A i \in Ids : i # request[t] => answer'[i] = answer[i]
  BY <1>1 DEF TypeOK, Tell
<1>4. \A i \in Ids : ~(i < nextId' /\ answer'[i] = "none")
  BY <1>1, <1>3 DEF CallInv, Tell
<1>5. \A i \in Ids : i >= nextId' => answer'[i] = "none" /\ ran'[i] = "no"
  BY <1>1, <1>3 DEF CallInv, Tell, TypeOK, Ids
<1> QED  BY <1>2, <1>4, <1>5 DEF CallInv

(* A step outside the lock, or one inside that only goes on, keeps it.      *)
LEMMA FrameCallInv ==
  ASSUME TypeOK, CallInv, UNCHANGED <<request, nextId, ran, answer>>,
         process' = process \/ LockFree,
         \A t \in Threads : Calling(t)' <=> Calling(t)
  PROVE  CallInv'
<1>1. CASE process' = process
  BY <1>1 DEF CallInv
<1>2. CASE LockFree
  BY <1>2, LockMeans DEF CallInv
<1> QED  BY <1>1, <1>2

LEMMA NextCallInv == TypeOK /\ CallInv /\ OnceInv /\ [Next]_vars => CallInv'
<1> SUFFICES ASSUME TypeOK, CallInv, OnceInv, [Next]_vars PROVE CallInv'
  OBVIOUS
<1> USE DEF client, pipes, history
<1>1. ASSUME NEW t \in Threads, Ask(t) \/ ConnectRaises(t) PROVE CallInv'
  <2>1. \A u \in Threads : Calling(u)' <=> Calling(u)
    BY <1>1 DEF TypeOK, Ask, ConnectRaises, Calling
  <2> QED  BY <1>1, <2>1, FrameCallInv DEF Ask, ConnectRaises
<1>2. ASSUME NEW t \in Threads, Connect(t) PROVE CallInv'
  <2>1. /\ \A u \in Threads : Calling(u)' => u = t
        /\ Calling(t)' /\ request'[t] = nextId /\ nextId' = nextId + 1
    BY <1>2, LockMeans DEF TypeOK, Connect, TakeId, Calling
  <2>2. nextId \in Ids /\ nextId \in Nat /\ UNCHANGED <<ran, answer>>
    BY <1>2 DEF Connect, Ids
  <2>3. process' \in Spawns
    BY <1>2 DEF Connect, Spawn, Usable, TypeOK, Spawns
  <2>4. \A i \in Ids : i < nextId => answer[i] # "none"
    BY <1>2, LockMeans DEF Connect, CallInv
  <2>5. answer[nextId] = "none"
    BY <2>2 DEF CallInv
  <2>6. \A i \in Ids : i < nextId' /\ answer'[i] = "none" => i = nextId
    BY <2>1, <2>2, <2>4 DEF Ids
  <2>7. \A i \in Ids : i >= nextId' => answer'[i] = "none" /\ ran'[i] = "no"
    BY <2>1, <2>2 DEF CallInv, Ids
  <2> QED  BY <2>1, <2>2, <2>3, <2>5, <2>6, <2>7 DEF CallInv
<1>3. ASSUME NEW t \in Threads, Write(t) PROVE CallInv'
  <2>1. \A u \in Threads : Calling(u)' <=> Calling(u)
    BY <1>3 DEF TypeOK, Write, Calling
  <2> QED  BY <1>3, <2>1, FrameCallInv DEF Write
<1>4. ASSUME NEW t \in Threads, WriteRaises(t) \/ ReadRaises(t) \/ Read(t) PROVE CallInv'
  <2>1. Calling(t)
    BY <1>4 DEF WriteRaises, ReadRaises, Read, Calling
  <2>2. \E what \in {"returned", "raised"} : Tell(t, what)
    BY <1>4 DEF WriteRaises, ReadRaises, Read
  <2> QED  BY <2>1, <2>2, TellCallInv
<1>5. ASSUME NEW p \in Spawns, Finish(p) PROVE CallInv'
  <2>1. work[p] \in Ids /\ work[p] < nextId
    BY <1>5 DEF TypeOK, Finish, OnceInv, UnderWay, Ids
  <2>2. \A i \in Ids : i # work[p] => ran'[i] = ran[i]
    BY <1>5 DEF TypeOK, Finish
  <2>3. \A i \in Ids : i >= nextId' => answer'[i] = "none" /\ ran'[i] = "no"
    BY <1>5, <2>1, <2>2 DEF Finish, CallInv, Ids, TypeOK
  <2> QED  BY <1>5, <2>3 DEF Finish, CallInv, Calling
<1>6. ASSUME NEW p \in Spawns,
             Take(p) \/ StrayLine(p) \/ Cut(p) \/ SshDies(p) \/ SshNotices(p)
      PROVE CallInv'
  BY <1>6 DEF Take, StrayLine, Cut, SshDies, SshNotices, CallInv, Calling
<1>7. CASE CallClose
  BY <1>7 DEF CallClose, CallInv, Calling
<1>8. CASE Close
  <2>1. LockFree /\ \A t \in Threads : Calling(t)' <=> Calling(t)
    BY <1>8 DEF Close, Calling
  <2> QED  BY <1>8, <2>1, FrameCallInv DEF Close
<1>9. CASE UNCHANGED vars
  BY <1>9 DEF vars, CallInv, Calling
<1> QED
  BY <1>1, <1>2, <1>3, <1>4, <1>5, <1>6, <1>7, <1>8, <1>9 DEF Next

-----------------------------------------------------------------------------
(* One place for one request.                                               *)

(* Requests only leave the pipes, in order, when a connection ends: what is *)
(* lost is not under way any more, and nothing else changes.                *)
LEMMA EndsLoses ==
  ASSUME TypeOK, NEW p \in Spawns, Ends(p)
  PROVE  /\ \A q \in Spawns : inbox'[q] = inbox[q] \/ inbox'[q] = <<>>
         /\ \A q \in Spawns : work'[q] = work[q] \/ work'[q] = 0
         /\ \A q \in Spawns : q # p => ssh'[q] = ssh[q] /\ inbox'[q] = inbox[q] /\ work'[q] = work[q]
         /\ ssh'[p] = "dead" /\ UNCHANGED <<replies, strays>>
BY DEF TypeOK, Ends

LEMMA LosingOnceInv ==
  ASSUME TypeOK, CallInv, OnceInv, UNCHANGED <<ran, nextId>>,
         \A q \in Spawns : inbox'[q] = inbox[q] \/ inbox'[q] = <<>>,
         \A q \in Spawns : work'[q] = work[q] \/ work'[q] = 0,
         \A t \in Threads : at'[t] = "connected" => at[t] = "connected" /\ request'[t] = request[t]
  PROVE  OnceInv'
<1>1. \A q \in Spawns, i \in Ids : Waiting(q, i)' => Waiting(q, i)
  BY DEF Waiting
<1>2. \A q \in Spawns, i \in Ids : UnderWay(q, i)' => UnderWay(q, i)
  BY <1>1 DEF UnderWay, Ids
<1>3. \A q \in Spawns, i \in Ids : ~(Waiting(q, i)' /\ work'[q] = i)
  BY <1>1 DEF OnceInv, Ids
<1>4. \A q \in Spawns : \A k, l \in 1..Len(inbox'[q]) : inbox'[q][k] = inbox'[q][l] => k = l
  BY DEF OnceInv
<1>5. ASSUME NEW t \in Threads, at'[t] = "connected"
      PROVE  ran'[request'[t]] = "no" /\ \A p \in Spawns : ~UnderWay(p, request[t])'
  <2>1. at[t] = "connected" /\ request'[t] = request[t] /\ request[t] \in Ids
    BY <1>5 DEF CallInv, Calling
  <2>2. ran'[request'[t]] = "no"
    BY <2>1 DEF OnceInv
  <2>3. \A p \in Spawns : ~UnderWay(p, request[t])
    BY <2>1 DEF OnceInv
  <2>4. \A q \in Spawns : ~UnderWay(q, request[t])'
    BY <2>1, <2>3 DEF UnderWay, Waiting, Ids
  <2> QED  BY <2>2, <2>4
<1> QED  BY <1>2, <1>3, <1>4, <1>5 DEF OnceInv

LEMMA NextOnceInv == TypeOK /\ CallInv /\ OnceInv /\ SshInv /\ [Next]_vars => OnceInv'
<1> SUFFICES ASSUME TypeOK, CallInv, OnceInv, SshInv, [Next]_vars PROVE OnceInv'
  OBVIOUS
<1> USE DEF client, pipes, history
<1>1. ASSUME NEW t \in Threads,
             Ask(t) \/ ConnectRaises(t) \/ WriteRaises(t) \/ ReadRaises(t) \/ Read(t)
      PROVE OnceInv'
  <2>1. \A u \in Threads : at'[u] = "connected" => at[u] = "connected" /\ request'[u] = request[u]
    BY <1>1 DEF TypeOK, Ask, ConnectRaises, WriteRaises, ReadRaises, Read, Tell
  <2>2. UNCHANGED <<inbox, work, ran, nextId>>
    BY <1>1 DEF Ask, ConnectRaises, WriteRaises, ReadRaises, Read, Tell
  <2> QED  BY <2>1, <2>2, LosingOnceInv
<1>2. ASSUME NEW t \in Threads, Connect(t) PROVE OnceInv'
  <2>1. /\ \A u \in Threads : at'[u] = "connected" => u = t
        /\ request'[t] = nextId /\ nextId' = nextId + 1
    BY <1>2 DEF TypeOK, Connect, LockFree, TakeId
  <2>2. UNCHANGED <<inbox, work, ran>>
    BY <1>2 DEF Connect, Spawn
  <2>3. nextId \in Ids /\ nextId \in Nat
    BY <1>2 DEF Connect, Ids
  <2>4. \A q \in Spawns, i \in Ids : UnderWay(q, i)' <=> UnderWay(q, i)
    BY <2>2 DEF UnderWay, Waiting
  <2>5. \A q \in Spawns : ~UnderWay(q, nextId)
    BY <2>3 DEF OnceInv
  <2>6. \A q \in Spawns : ~UnderWay(q, request[t])'
    BY <2>1, <2>2, <2>5 DEF UnderWay, Waiting
  <2>7. ran[nextId] = "no"
    BY <2>3 DEF CallInv
  <2>8. \A q \in Spawns, i \in Ids : UnderWay(q, i)' => i < nextId' /\ ran'[i] = "no"
    BY <2>1, <2>2, <2>3, <2>4 DEF OnceInv, Ids
  <2>9. \A p, q \in Spawns, i \in Ids : UnderWay(p, i)' /\ UnderWay(q, i)' => p = q
    BY <2>4 DEF OnceInv
  <2> QED  BY <2>1, <2>2, <2>6, <2>7, <2>8, <2>9 DEF OnceInv, Waiting
<1>3. ASSUME NEW t \in Threads, Write(t) PROVE OnceInv'
  <2> DEFINE i == request[t]
  <2>1. /\ i \in Ids /\ i < nextId /\ ran[i] = "no" /\ process \in Spawns
        /\ \A q \in Spawns : ~UnderWay(q, i)
    <3>1. i \in Ids /\ i = nextId - 1 /\ process \in Spawns
      BY <1>3 DEF Write, CallInv, Calling
    <3>2. ran[i] = "no" /\ \A q \in Spawns : ~UnderWay(q, i)
      BY <1>3 DEF Write, OnceInv
    <3> QED  BY <3>1, <3>2 DEF TypeOK
  <2>2. \A u \in Threads : at'[u] # "connected"
    BY <1>3 DEF TypeOK, Write, CallInv, Calling
  <2>3. /\ \A q \in Spawns : q # process \/ ssh[process] # "up" => inbox'[q] = inbox[q]
        /\ ssh[process] = "up" => inbox'[process] = Append(inbox[process], i)
    BY <1>3, <2>1 DEF TypeOK, Write
  <2>4. UNCHANGED <<work, ran, nextId>>
    BY <1>3 DEF Write
  <2>5. CASE ssh[process] # "up"
    <3>1. UNCHANGED inbox
      BY <1>3, <2>5 DEF Write
    <3> QED  BY <3>1, <2>2, <2>4, LosingOnceInv
  <2>6. CASE ssh[process] = "up"
    <3> DEFINE n == Len(inbox[process])
    <3>1. /\ n \in Nat /\ Len(inbox'[process]) = n + 1 /\ inbox'[process][n + 1] = i
          /\ \A k \in 1..n : inbox'[process][k] = inbox[process][k]
      BY <2>1, <2>3, <2>6, AppendProperties DEF TypeOK
    <3>2. \A q \in Spawns, j \in Ids : Waiting(q, j)' => Waiting(q, j) \/ (q = process /\ j = i)
      BY <2>3, <3>1 DEF Waiting
    <3>3. \A q \in Spawns, j \in Ids : UnderWay(q, j)' => UnderWay(q, j) \/ (q = process /\ j = i)
      BY <2>4, <3>2 DEF UnderWay
    <3>4. \A q \in Spawns, j \in Ids : UnderWay(q, j)' => j < nextId' /\ ran'[j] = "no"
      BY <2>1, <2>4, <3>3 DEF OnceInv
    <3>5. \A p, q \in Spawns, j \in Ids : UnderWay(p, j)' /\ UnderWay(q, j)' => p = q
      BY <2>1, <3>3 DEF OnceInv
    <3>6. \A q \in Spawns, j \in Ids : ~(Waiting(q, j)' /\ work'[q] = j)
      BY <2>1, <2>4, <3>2 DEF OnceInv, UnderWay
    <3>7. \A k \in 1..n : inbox[process][k] # i
      BY <2>1 DEF UnderWay, Waiting
    <3>8. \A q \in Spawns : \A k, l \in 1..Len(inbox'[q]) : inbox'[q][k] = inbox'[q][l] => k = l
      <4> SUFFICES ASSUME NEW q \in Spawns, NEW k \in 1..Len(inbox'[q]), NEW l \in 1..Len(inbox'[q]),
                          inbox'[q][k] = inbox'[q][l]
                   PROVE  k = l
        OBVIOUS
      <4>1. CASE q # process
        BY <4>1, <2>3 DEF OnceInv
      <4>2. CASE q = process
        <5>1. k \in 1..n \/ k = n + 1
          BY <4>2, <3>1
        <5>2. l \in 1..n \/ l = n + 1
          BY <4>2, <3>1
        <5> QED  BY <4>2, <5>1, <5>2, <2>1, <3>1, <3>7 DEF OnceInv
      <4> QED  BY <4>1, <4>2
    <3> QED  BY <2>2, <3>4, <3>5, <3>6, <3>8 DEF OnceInv
  <2> QED  BY <2>5, <2>6
<1>4. ASSUME NEW p \in Spawns, Take(p) PROVE OnceInv'
  <2> DEFINE n == Len(inbox[p])
  <2>1. /\ n \in Nat \ {0} /\ Len(inbox'[p]) = n - 1
        /\ \A k \in 1..(n - 1) : inbox'[p][k] = inbox[p][k + 1]
        /\ work'[p] = inbox[p][1] /\ inbox[p][1] \in Ids
    BY <1>4, HeadTailProperties DEF TypeOK, Take
  <2>2. \A q \in Spawns : q # p => inbox'[q] = inbox[q] /\ work'[q] = work[q]
    BY <1>4 DEF TypeOK, Take
  <2>3. UNCHANGED <<at, request, ran, nextId>> /\ work[p] = 0
    BY <1>4 DEF Take
  <2>4. ASSUME NEW j \in Ids, Waiting(p, j)' PROVE Waiting(p, j) /\ work'[p] # j
    <3>1. PICK k \in 1..(n - 1) : inbox[p][k + 1] = j
      BY <2>1, <2>4 DEF Waiting
    <3>2. k + 1 \in 1..n /\ k + 1 # 1 /\ 1 \in 1..n
      BY <2>1
    <3> QED  BY <2>1, <3>1, <3>2 DEF Waiting, OnceInv
  <2>5. Waiting(p, work'[p])
    BY <2>1 DEF Waiting
  <2>6. \A q \in Spawns, j \in Ids : UnderWay(q, j)' => UnderWay(q, j)
    BY <2>2, <2>4, <2>5 DEF UnderWay, Waiting
  <2>7. \A q \in Spawns, j \in Ids : ~(Waiting(q, j)' /\ work'[q] = j)
    BY <2>2, <2>4 DEF OnceInv, Waiting
  <2>8. \A q \in Spawns : \A k, l \in 1..Len(inbox'[q]) : inbox'[q][k] = inbox'[q][l] => k = l
    <3> SUFFICES ASSUME NEW q \in Spawns, NEW k \in 1..Len(inbox'[q]), NEW l \in 1..Len(inbox'[q]),
                        inbox'[q][k] = inbox'[q][l]
                 PROVE  k = l
      OBVIOUS
    <3>1. CASE q # p
      BY <3>1, <2>2 DEF OnceInv
    <3>2. CASE q = p
      <4> HIDE DEF n
      <4>3. k \in 1..(n - 1) /\ l \in 1..(n - 1) /\ inbox'[p][k] = inbox'[p][l]
        BY <3>2, <2>1
      <4>1. k + 1 \in 1..n /\ l + 1 \in 1..n /\ inbox[p][k + 1] = inbox[p][l + 1]
        BY <4>3, <2>1
      <4>2. k + 1 = l + 1
        BY <4>1 DEF OnceInv, n
      <4> QED  BY <4>2, <4>3, <2>1
    <3> QED  BY <3>1, <3>2
  <2>9. \A t \in Threads : at'[t] = "connected" =>
          ran'[request'[t]] = "no" /\ \A q \in Spawns : ~UnderWay(q, request[t])'
    BY <2>3, <2>6 DEF OnceInv, CallInv, Calling
  <2>10. \A q \in Spawns, j \in Ids : UnderWay(q, j)' => j < nextId' /\ ran'[j] = "no"
    BY <2>3, <2>6 DEF OnceInv
  <2>11. \A q, r \in Spawns, j \in Ids : UnderWay(q, j)' /\ UnderWay(r, j)' => q = r
    BY <2>6 DEF OnceInv
  <2> QED  BY <2>3, <2>7, <2>8, <2>9, <2>10, <2>11 DEF OnceInv
<1>5. ASSUME NEW p \in Spawns, Finish(p) PROVE OnceInv'
  <2> DEFINE w == work[p]
  <2>1. w \in Ids /\ UnderWay(p, w)
    BY <1>5 DEF TypeOK, Finish, Ids, UnderWay
  <2>2. /\ work'[p] = 0 /\ \A q \in Spawns : q # p => work'[q] = work[q]
        /\ UNCHANGED <<inbox, nextId, at, request>>
        /\ \A j \in Ids : j # w => ran'[j] = ran[j]
    BY <1>5 DEF TypeOK, Finish
  <2>3. \A q \in Spawns, j \in Ids : UnderWay(q, j)' => UnderWay(q, j) /\ j # w
    <3> SUFFICES ASSUME NEW q \in Spawns, NEW j \in Ids, UnderWay(q, j)' PROVE UnderWay(q, j) /\ j # w
      OBVIOUS
    <3>1. UnderWay(q, j) /\ (q = p => Waiting(p, j))
      BY <2>2 DEF UnderWay, Waiting, Ids
    <3> QED  BY <2>1, <3>1 DEF OnceInv
  <2>4. \A q \in Spawns, j \in Ids : UnderWay(q, j)' => j < nextId' /\ ran'[j] = "no"
    BY <2>2, <2>3 DEF OnceInv
  <2>5. \A q, r \in Spawns, j \in Ids : UnderWay(q, j)' /\ UnderWay(r, j)' => q = r
    BY <2>3 DEF OnceInv
  <2>6. \A q \in Spawns, j \in Ids : ~(Waiting(q, j)' /\ work'[q] = j)
    BY <2>2 DEF OnceInv, Waiting, Ids
  <2>7. ASSUME NEW t \in Threads, at'[t] = "connected"
        PROVE  ran'[request'[t]] = "no" /\ \A q \in Spawns : ~UnderWay(q, request[t])'
    <3>1. request[t] \in Ids /\ ran[request[t]] = "no" /\ \A q \in Spawns : ~UnderWay(q, request[t])
      BY <2>2, <2>7 DEF OnceInv, CallInv, Calling
    <3>2. \A q \in Spawns : ~UnderWay(q, request[t])'
      BY <3>1, <2>2 DEF UnderWay, Waiting, Ids
    <3> QED  BY <2>1, <2>2, <3>1, <3>2
  <2>8. \A q \in Spawns : \A k, l \in 1..Len(inbox'[q]) : inbox'[q][k] = inbox'[q][l] => k = l
    BY <2>2 DEF OnceInv
  <2> QED  BY <2>2, <2>4, <2>5, <2>6, <2>7, <2>8 DEF OnceInv
<1>6. ASSUME NEW p \in Spawns, StrayLine(p) \/ Cut(p) PROVE OnceInv'
  BY <1>6, LosingOnceInv DEF StrayLine, Cut
<1>7. ASSUME NEW p \in Spawns, SshDies(p) \/ SshNotices(p) PROVE OnceInv'
  <2>1. Ends(p) /\ UNCHANGED <<at, request, ran, nextId>>
    BY <1>7 DEF SshDies, SshNotices
  <2> QED  BY <2>1, EndsLoses, LosingOnceInv
<1>8. CASE CallClose \/ UNCHANGED vars
  BY <1>8, LosingOnceInv DEF CallClose, vars
<1>9. CASE Close
  <2>1. CASE Usable(process)
    <3>1. Ends(process) /\ process \in Spawns /\ UNCHANGED <<at, request, ran, nextId>>
      BY <1>9, <2>1 DEF Close, Usable, TypeOK, Spawns
    <3> QED  BY <3>1, EndsLoses, LosingOnceInv
  <2>2. CASE ~Usable(process)
    BY <1>9, <2>2, LosingOnceInv DEF Close
  <2> QED  BY <2>1, <2>2
<1> QED
  BY <1>1, <1>2, <1>3, <1>4, <1>5, <1>6, <1>7, <1>8, <1>9 DEF Next

-----------------------------------------------------------------------------
(* What a caller is told.                                                   *)

(* A step that neither answers nor runs a request, and tells no caller of a *)
(* success that did not happen, keeps the truth.                            *)
LEMMA FrameTruthInv ==
  ASSUME TypeOK, TruthInv, UNCHANGED <<replies, ran>>,
         \A i \in Ids : answer'[i] = "returned" => answer[i] = "returned" \/ ran[i] = "well"
  PROVE  TruthInv'
BY DEF TruthInv

LEMMA NextTruthInv == TypeOK /\ CallInv /\ OnceInv /\ TruthInv /\ [Next]_vars => TruthInv'
<1> SUFFICES ASSUME TypeOK, CallInv, OnceInv, TruthInv, [Next]_vars PROVE TruthInv'
  OBVIOUS
<1> USE DEF client, pipes, history
<1>1. ASSUME NEW t \in Threads, Ask(t) \/ ConnectRaises(t) \/ Connect(t) \/ Write(t) PROVE TruthInv'
  BY <1>1, FrameTruthInv DEF Ask, ConnectRaises, Connect, Spawn, Write
<1>2. ASSUME NEW t \in Threads, WriteRaises(t) \/ ReadRaises(t) PROVE TruthInv'
  <2>1. Tell(t, "raised") /\ UNCHANGED <<replies, ran>>
    BY <1>2 DEF WriteRaises, ReadRaises, Tell
  <2>2. \A i \in Ids : answer'[i] = "returned" => answer[i] = "returned"
    BY <2>1 DEF Tell, TypeOK
  <2> QED  BY <2>1, <2>2, FrameTruthInv
<1>3. ASSUME NEW t \in Threads, Read(t) PROVE TruthInv'
  <2> DEFINE line == Head(replies[process])
  <2>1. request[t] \in Ids /\ process \in Spawns
    BY <1>3 DEF Read, CallInv, Calling
  <2>2. /\ Len(replies[process]) \in Nat \ {0} /\ line = replies[process][1]
        /\ Len(replies'[process]) = Len(replies[process]) - 1
        /\ \A k \in 1..(Len(replies[process]) - 1) : replies'[process][k] = replies[process][k + 1]
    BY <1>3, <2>1, HeadTailProperties DEF Read, TypeOK
  <2>3. \A q \in Spawns : q # process => replies'[q] = replies[q]
    BY <1>3 DEF Read, TypeOK
  <2>4. line.well => line.id \in Ids /\ ran[line.id] = "well"
    BY <2>1, <2>2 DEF TruthInv
  <2>5. UNCHANGED ran
    BY <1>3 DEF Read, Tell
  <2>6. \A i \in Ids : answer'[i] = "returned" => ran[i] = "well"
    <3>1. CASE line.id = request[t] /\ line.well
      BY <1>3, <2>4, <3>1 DEF Read, Tell, TruthInv, TypeOK
    <3>2. CASE ~(line.id = request[t] /\ line.well)
      BY <1>3, <3>2 DEF Read, Tell, TruthInv, TypeOK
    <3> QED  BY <3>1, <3>2
  <2>7. \A q \in Spawns : \A k \in 1..Len(replies'[q]) :
          replies'[q][k].well => replies'[q][k].id \in Ids /\ ran'[replies'[q][k].id] = "well"
    <3> SUFFICES ASSUME NEW q \in Spawns, NEW k \in 1..Len(replies'[q]), replies'[q][k].well
                 PROVE  replies'[q][k].id \in Ids /\ ran[replies'[q][k].id] = "well"
      BY <2>5
    <3>1. CASE q # process
      BY <3>1, <2>3 DEF TruthInv
    <3>2. CASE q = process
      <4>1. k + 1 \in 1..Len(replies[process]) /\ replies'[q][k] = replies[process][k + 1]
        BY <3>2, <2>2
      <4> QED  BY <2>1, <4>1 DEF TruthInv
    <3> QED  BY <3>1, <3>2
  <2> QED  BY <2>5, <2>6, <2>7 DEF TruthInv
<1>4. ASSUME NEW p \in Spawns, Finish(p) PROVE TruthInv'
  <2> DEFINE w == work[p]
             n == Len(replies[p])
  <2>1. PICK how \in {"well", "badly"} :
          /\ ran' = [ran EXCEPT ![w] = IF @ = "no" THEN how ELSE "twice"]
          /\ replies' = IF ssh[p] = "up"
                        THEN [replies EXCEPT ![p] = Append(@, [id |-> w, well |-> how = "well"])]
                        ELSE replies
    BY <1>4 DEF Finish
  <2>2. w \in Ids /\ ran[w] = "no"
    BY <1>4 DEF Finish, TypeOK, Ids, OnceInv, UnderWay
  <2>3. ran'[w] = how /\ \A i \in Ids : i # w => ran'[i] = ran[i]
    BY <2>1, <2>2 DEF TypeOK
  <2>4. \A i \in Ids : ran[i] = "well" => ran'[i] = "well"
    BY <2>2, <2>3
  <2>5. \A q \in Spawns : \A k \in 1..Len(replies[q]) :
          replies[q][k].well => replies[q][k].id \in Ids /\ ran'[replies[q][k].id] = "well"
    BY <2>4 DEF TruthInv
  <2>6. \A q \in Spawns : \A k \in 1..Len(replies'[q]) :
          replies'[q][k].well => replies'[q][k].id \in Ids /\ ran'[replies'[q][k].id] = "well"
    <3> SUFFICES ASSUME NEW q \in Spawns, NEW k \in 1..Len(replies'[q]), replies'[q][k].well
                 PROVE  replies'[q][k].id \in Ids /\ ran'[replies'[q][k].id] = "well"
      OBVIOUS
    <3>1. CASE replies'[q] = replies[q]
      BY <3>1, <2>5
    <3>2. CASE q = p /\ ssh[p] = "up"
      <4> DEFINE r == [id |-> w, well |-> how = "well"]
      <4>1. replies'[p] = Append(replies[p], r)
        BY <2>1, <3>2 DEF TypeOK
      <4>2. r \in [id : 0..MaxRequests, well : BOOLEAN]
        BY DEF TypeOK
      <4>3. r.id = w /\ (r.well => how = "well")
        OBVIOUS
      <4>4. replies[p] \in Seq([id : 0..MaxRequests, well : BOOLEAN])
        BY DEF TypeOK
      <4> HIDE DEF r
      <4>5. /\ Len(replies'[p]) = n + 1 /\ n \in Nat
            /\ \A l \in 1..n : replies'[p][l] = replies[p][l]
            /\ replies'[p][n + 1] = r
        BY <4>1, <4>2, <4>4, AppendProperties
      <4>6. CASE k \in 1..n
        BY <3>2, <4>5, <4>6, <2>5
      <4>7. CASE k = n + 1
        BY <3>2, <4>3, <4>5, <4>7, <2>2, <2>3
      <4> QED  BY <3>2, <4>5, <4>6, <4>7
    <3>3. replies'[q] = replies[q] \/ (q = p /\ ssh[p] = "up")
      BY <2>1 DEF TypeOK
    <3> QED  BY <3>1, <3>2, <3>3
  <2>7. \A i \in Ids : answer'[i] = "returned" => ran'[i] = "well"
    BY <1>4, <2>4 DEF Finish, TruthInv
  <2> QED  BY <2>6, <2>7 DEF TruthInv
<1>5. ASSUME NEW p \in Spawns, StrayLine(p) PROVE TruthInv'
  <2>1. UNCHANGED <<ran, answer>>
    BY <1>5 DEF StrayLine
  <2>2. ASSUME NEW q \in Spawns, NEW k \in 1..Len(replies'[q]), replies'[q][k].well
        PROVE  k \in 1..Len(replies[q]) /\ replies'[q][k] = replies[q][k]
    <3>1. CASE q # p
      BY <1>5, <3>1 DEF StrayLine, TypeOK
    <3>2. CASE q = p
      <4>1. replies'[p] = Append(replies[p], Stray)
        BY <1>5 DEF StrayLine, TypeOK
      <4>2. /\ Len(replies'[p]) = Len(replies[p]) + 1 /\ Len(replies[p]) \in Nat
            /\ \A l \in 1..Len(replies[p]) : replies'[p][l] = replies[p][l]
            /\ replies'[p][Len(replies[p]) + 1] = Stray
        BY <4>1 DEF TypeOK
      <4>3. ~Stray.well
        BY DEF Stray
      <4> QED  BY <2>2, <3>2, <4>2, <4>3
    <3> QED  BY <3>1, <3>2
  <2> QED  BY <2>1, <2>2 DEF TruthInv
<1>6. ASSUME NEW p \in Spawns, Take(p) \/ Cut(p) \/ SshDies(p) \/ SshNotices(p) PROVE TruthInv'
  BY <1>6, FrameTruthInv DEF Take, Cut, SshDies, SshNotices, Ends
<1>7. CASE CallClose \/ Close \/ UNCHANGED vars
  BY <1>7, FrameTruthInv DEF CallClose, Close, Ends, vars
<1> QED
  BY <1>1, <1>2, <1>3, <1>4, <1>5, <1>6, <1>7 DEF Next
-----------------------------------------------------------------------------
(* The connections.                                                         *)

\* With the lock free, nobody waits for anything under way.
LEMMA NobodyWaits ==
  ASSUME TypeOK, CallInv, OnceInv, LockFree, NEW p \in Spawns, NEW i \in Ids, UnderWay(p, i)
  PROVE  answer[i] # "none"
BY LockMeans DEF CallInv, OnceInv

(* Nothing is added to a connection, none is spawned and no answer is taken *)
(* back; and the connection in use is left alone, or the lock is free.      *)
LEMMA FrameSshInv ==
  ASSUME TypeOK, CallInv, OnceInv, SshInv,
         \A p \in Spawns : ssh'[p] = "none" => ssh[p] = "none",
         process' = process \/ (LockFree /\ process' = 0),
         \A p \in Spawns : inbox'[p] = inbox[p] \/ inbox'[p] = <<>>,
         \A p \in Spawns : work'[p] = work[p] \/ work'[p] = 0,
         \A p \in Spawns : ssh[p] = "none" => replies'[p] = <<>>,
         \A i \in Ids : answer'[i] = "none" => answer[i] = "none"
  PROVE  SshInv'
<1>1. \A p \in Spawns, i \in Ids : UnderWay(p, i)' => UnderWay(p, i)
  BY DEF UnderWay, Waiting, Ids
<1>2. \A p \in Spawns : ssh'[p] = "none" => p # process' /\ Silent(p)'
  BY DEF SshInv, Silent, Spawns
<1>3. \A p \in Spawns \ {process'}, i \in Ids : UnderWay(p, i)' => answer'[i] # "none"
  BY <1>1, NobodyWaits DEF SshInv
<1> QED  BY <1>2, <1>3 DEF SshInv

LEMMA NextSshInv == TypeOK /\ CallInv /\ OnceInv /\ SshInv /\ [Next]_vars => SshInv'
<1> SUFFICES ASSUME TypeOK, CallInv, OnceInv, SshInv, [Next]_vars PROVE SshInv'
  OBVIOUS
<1> USE DEF client, pipes, history
<1>1. ASSUME NEW t \in Threads, Ask(t) \/ ConnectRaises(t) PROVE SshInv'
  BY <1>1, FrameSshInv DEF Ask, ConnectRaises, SshInv, Silent
<1>2. ASSUME NEW t \in Threads, Connect(t) PROVE SshInv'
  <2>1. UNCHANGED <<inbox, work, replies, strays, answer>> /\ LockFree
    BY <1>2 DEF Connect, Spawn
  <2>2. \A p \in Spawns, i \in Ids : UnderWay(p, i)' => answer'[i] # "none"
    BY <2>1, NobodyWaits DEF UnderWay, Waiting
  <2>3. \A p \in Spawns : ssh'[p] = "none" => ssh[p] = "none" /\ p # process'
    BY <1>2 DEF Connect, Spawn, TypeOK, SshInv
  <2> QED  BY <2>1, <2>2, <2>3 DEF SshInv, Silent
<1>3. ASSUME NEW t \in Threads, Write(t) PROVE SshInv'
  <2>1. \A p \in Spawns : p # process => inbox'[p] = inbox[p]
    BY <1>3 DEF Write, TypeOK
  <2>2. UNCHANGED <<ssh, process, work, replies, answer>> /\ ssh[process] # "none"
    BY <1>3 DEF Write, Usable
  <2>3. \A p \in Spawns \ {process}, i \in Ids : UnderWay(p, i)' => UnderWay(p, i)
    BY <2>1, <2>2 DEF UnderWay, Waiting
  <2> QED  BY <2>1, <2>2, <2>3 DEF SshInv, Silent
<1>4. ASSUME NEW t \in Threads, WriteRaises(t) \/ ReadRaises(t) \/ Read(t) PROVE SshInv'
  <2>1. UNCHANGED <<ssh, process, inbox, work>>
    BY <1>4 DEF WriteRaises, ReadRaises, Read, Tell
  <2>2. \A i \in Ids : answer'[i] = "none" => answer[i] = "none"
    BY <1>4 DEF WriteRaises, ReadRaises, Read, Tell, TypeOK
  <2>3. ASSUME NEW p \in Spawns, ssh[p] = "none" PROVE replies'[p] = <<>>
    BY <1>4, <2>3 DEF WriteRaises, ReadRaises, Read, SshInv, Silent, TypeOK
  <2> QED  BY <2>1, <2>2, <2>3, FrameSshInv
<1>5. ASSUME NEW p \in Spawns, Take(p) PROVE SshInv'
  <2>1. UNCHANGED <<ssh, process, replies, answer>> /\ ssh[p] # "none"
    BY <1>5 DEF Take, SshInv, Silent
  <2>2. \A q \in Spawns : q # p => inbox'[q] = inbox[q] /\ work'[q] = work[q]
    BY <1>5 DEF Take, TypeOK
  <2>3. ASSUME NEW q \in Spawns, NEW i \in Ids, UnderWay(q, i)' PROVE UnderWay(q, i)
    <3>1. CASE q # p
      BY <2>2, <2>3, <3>1 DEF UnderWay, Waiting
    <3>2. CASE q = p
      <4>1. /\ inbox[p] \in Seq(Ids) /\ inbox[p] # <<>>
            /\ work'[p] = Head(inbox[p]) /\ inbox'[p] = Tail(inbox[p])
        BY <1>5 DEF Take, TypeOK
      <4>2. /\ Len(inbox[p]) \in Nat \ {0} /\ Head(inbox[p]) = inbox[p][1]
            /\ Len(inbox'[p]) = Len(inbox[p]) - 1
            /\ \A k \in 1..Len(inbox'[p]) : inbox'[p][k] = inbox[p][k + 1]
        BY <4>1, HeadTailProperties
      <4>3. Waiting(p, i)
        <5>1. CASE work'[p] = i
          BY <4>1, <4>2, <5>1 DEF Waiting
        <5>2. ASSUME NEW k \in 1..Len(inbox'[p]), inbox'[p][k] = i PROVE Waiting(p, i)
          <6>1. k + 1 \in 1..Len(inbox[p]) /\ inbox[p][k + 1] = i
            BY <4>2, <5>2
          <6> QED  BY <6>1 DEF Waiting
        <5> QED  BY <2>3, <3>2, <5>1, <5>2 DEF UnderWay, Waiting
      <4> QED  BY <4>3, <3>2 DEF UnderWay
    <3> QED  BY <3>1, <3>2
  <2> QED  BY <2>1, <2>2, <2>3 DEF SshInv, Silent
<1>6. ASSUME NEW p \in Spawns, Finish(p) \/ StrayLine(p) PROVE SshInv'
  <2>1. UNCHANGED <<ssh, process, inbox, answer>> /\ ssh[p] # "none"
    BY <1>6 DEF Finish, StrayLine, SshInv, Silent
  <2>2. \A q \in Spawns : work'[q] = work[q] \/ work'[q] = 0
    BY <1>6 DEF Finish, StrayLine, TypeOK
  <2>3. \A q \in Spawns : q # p => replies'[q] = replies[q]
    BY <1>6 DEF Finish, StrayLine, TypeOK
  <2>4. \A q \in Spawns : ssh[q] = "none" => replies'[q] = <<>>
    BY <2>1, <2>3 DEF SshInv, Silent
  <2> QED  BY <2>1, <2>2, <2>4, FrameSshInv
<1>7. ASSUME NEW p \in Spawns, Cut(p) PROVE SshInv'
  <2>1. UNCHANGED <<process, inbox, work, replies, answer>>
    BY <1>7 DEF Cut
  <2>2. \A q \in Spawns : ssh'[q] = "none" => ssh[q] = "none"
    BY <1>7 DEF Cut, TypeOK
  <2>3. \A q \in Spawns : ssh[q] = "none" => replies'[q] = <<>>
    BY <2>1 DEF SshInv, Silent
  <2> QED  BY <2>1, <2>2, <2>3, FrameSshInv
<1>8. ASSUME NEW p \in Spawns, Ends(p), UNCHANGED answer,
             process' = process \/ (LockFree /\ process' = 0)
      PROVE SshInv'
  <2>1. \A q \in Spawns : ssh'[q] = "none" => ssh[q] = "none"
    BY <1>8, EndsLoses
  <2>2. \A q \in Spawns : ssh[q] = "none" => replies'[q] = <<>>
    BY <1>8, EndsLoses DEF SshInv, Silent
  <2> QED  BY <1>8, <2>1, <2>2, EndsLoses, FrameSshInv
<1>9. ASSUME NEW p \in Spawns, SshDies(p) \/ SshNotices(p) PROVE SshInv'
  BY <1>8, <1>9 DEF SshDies, SshNotices
<1>10. CASE CallClose \/ UNCHANGED vars
  BY <1>10, FrameSshInv DEF CallClose, vars, SshInv, Silent
<1>11. CASE Close
  <2>1. CASE Usable(process)
    BY <1>8, <1>11, <2>1 DEF Close, Usable, TypeOK, Spawns
  <2>2. CASE ~Usable(process)
    BY <1>11, <2>2, FrameSshInv DEF Close, SshInv, Silent
  <2> QED  BY <2>1, <2>2
<1> QED
  BY <1>1, <1>2, <1>3, <1>4, <1>5, <1>6, <1>7, <1>9, <1>10, <1>11 DEF Next

\* Taking the only element of a sequence leaves nothing.
LEMMA TailOfOne ==
  ASSUME NEW S, NEW s \in Seq(S), Len(s) = 1
  PROVE  Tail(s) = <<>> /\ Head(s) \in S
<1>1. s # <<>>
  OBVIOUS
<1>2. Tail(s) \in Seq(S) /\ Len(Tail(s)) = 0 /\ Head(s) \in S
  BY <1>1, HeadTailProperties
<1> QED  BY <1>2, EmptySeq

(* In step: what is on its way over a connection that is up.                *)
LEMMA NextStepInv ==
  TypeOK /\ CallInv /\ SshInv /\ StepInv /\ [Next]_vars => StepInv'
<1> SUFFICES ASSUME TypeOK, CallInv, SshInv, StepInv, [Next]_vars,
                    NEW p \in Spawns, p = process', ssh'[p] = "up", strays' = 0
             PROVE  /\ \A t \in Threads : at'[t] = "sent" => OneLine(p)'
                    /\ (\A t \in Threads : at'[t] # "sent") => Silent(p)'
  BY DEF StepInv
<1> DEFINE Goal == /\ \A t \in Threads : at'[t] = "sent" => OneLine(p)'
                   /\ (\A t \in Threads : at'[t] # "sent") => Silent(p)'
<1> USE DEF client, pipes, history
<1>0. p # 0
  BY DEF Spawns
<1>1. ASSUME p = process, ssh[p] = "up", strays = 0,
             inbox'[p] = inbox[p], work'[p] = work[p], replies'[p] = replies[p],
             \A t \in Threads : at'[t] = "sent" <=> at[t] = "sent"
      PROVE  Goal
  BY <1>1 DEF StepInv, OneLine, Silent
<1>2. ASSUME NEW t \in Threads, Ask(t) \/ ConnectRaises(t) PROVE Goal
  <2>1. \A u \in Threads : at'[u] = "sent" <=> at[u] = "sent"
    BY <1>2 DEF Ask, ConnectRaises, TypeOK
  <2> QED  BY <1>1, <1>2, <2>1 DEF Ask, ConnectRaises
<1>3. ASSUME NEW t \in Threads, Connect(t) PROVE Goal
  <2>1. \A u \in Threads : at[u] # "sent" /\ at'[u] # "sent"
    BY <1>3 DEF Connect, LockFree, TypeOK
  <2>2. UNCHANGED <<inbox, work, replies, strays>>
    BY <1>3 DEF Connect, Spawn
  <2>3. Silent(p)
    <3>1. CASE UNCHANGED <<process, ssh>>
      BY <2>1, <2>2, <3>1 DEF StepInv
    <3>2. ASSUME NEW q \in Spawns, Spawn(q) PROVE Silent(p)
      BY <3>2 DEF Spawn, SshInv
    <3> QED  BY <1>3, <3>1, <3>2 DEF Connect
  <2> QED  BY <2>1, <2>2, <2>3 DEF Silent
<1>4. ASSUME NEW t \in Threads, Write(t) PROVE Goal
  <2>1. /\ p = process /\ ssh[p] = "up" /\ strays = 0 /\ request[t] \in Ids
        /\ \A u \in Threads : at[u] # "sent"
    BY <1>4 DEF Write, CallInv, Calling
  <2>2. Silent(p)
    BY <2>1 DEF StepInv
  <2>3. inbox'[p] = Append(<<>>, request[t]) /\ UNCHANGED <<work, replies>>
    BY <1>4, <2>1, <2>2 DEF Write, Silent, TypeOK
  <2>4. OneLine(p)'
    <3>1. Len(inbox'[p]) = 1
      BY <2>3
    <3> QED  BY <2>2, <2>3, <3>1 DEF OneLine, Silent
  <2>5. at'[t] = "sent"
    BY <1>4 DEF Write, TypeOK
  <2> QED  BY <2>4, <2>5
<1>5. ASSUME NEW t \in Threads, WriteRaises(t) \/ ReadRaises(t) PROVE FALSE
  BY <1>0, <1>5 DEF WriteRaises, ReadRaises, Tell, Usable
<1>6. ASSUME NEW t \in Threads, Read(t) PROVE Goal
  <2>1. /\ p = process /\ ssh[p] = "up" /\ strays = 0
        /\ UNCHANGED <<inbox, work>>
    BY <1>6 DEF Read, Tell
  <2>2. \A u \in Threads : at'[u] # "sent"
    BY <1>6 DEF Read, Tell, CallInv, Calling, TypeOK
  <2>3. OneLine(p) /\ replies[p] # <<>>
    BY <1>6, <2>1 DEF Read, StepInv
  <2>4. replies[p] \in Seq([id : 0..MaxRequests, well : BOOLEAN]) /\ Len(replies[p]) = 1
    BY <2>3 DEF OneLine, TypeOK
  <2>5. replies'[p] = Tail(replies[p])
    BY <1>6, <2>1 DEF Read, TypeOK
  <2>6. replies'[p] = <<>>
    BY <2>4, <2>5, TailOfOne
  <2>7. inbox'[p] = <<>> /\ work'[p] = 0
    BY <2>1, <2>3 DEF OneLine
  <2> QED  BY <2>2, <2>6, <2>7 DEF Silent
<1>7. ASSUME NEW q \in Spawns, Take(q) PROVE Goal
  <2>1. p = process /\ ssh[p] = "up" /\ strays = 0 /\ UNCHANGED <<at, replies>>
    BY <1>7 DEF Take
  <2>2. CASE q # p
    BY <1>1, <1>7, <2>1, <2>2 DEF Take, TypeOK
  <2>3. CASE q = p
    <3>1. /\ inbox[p] \in Seq(Ids) /\ inbox[p] # <<>> /\ work[p] = 0
          /\ inbox'[p] = Tail(inbox[p]) /\ work'[p] = Head(inbox[p])
      BY <1>7, <2>3 DEF Take, TypeOK
    <3>2. ~Silent(p)
      BY <3>1 DEF Silent
    <3>3. Len(inbox[p]) = 1 /\ replies[p] = <<>>
      BY <2>1, <3>1, <3>2 DEF StepInv, OneLine
    <3>4. inbox'[p] = <<>> /\ work'[p] \in Ids
      BY <3>1, <3>3, TailOfOne
    <3>5. OneLine(p)'
      BY <2>1, <3>3, <3>4 DEF OneLine, Ids
    <3> QED  BY <2>1, <3>2, <3>5 DEF StepInv
  <2> QED  BY <2>2, <2>3
<1>8. ASSUME NEW q \in Spawns, Finish(q) PROVE Goal
  <2>1. p = process /\ ssh[p] = "up" /\ strays = 0 /\ UNCHANGED <<at, inbox>>
    BY <1>8 DEF Finish
  <2>2. CASE q # p
    <3>1. replies'[p] = replies[p]
      BY <1>8, <2>2 DEF Finish, TypeOK
    <3>2. work'[p] = work[p]
      BY <1>8, <2>2 DEF Finish, TypeOK
    <3> QED  BY <1>1, <2>1, <3>1, <3>2
  <2>3. CASE q = p
    <3>1. work[p] # 0 /\ work'[p] = 0
      BY <1>8, <2>3 DEF Finish, TypeOK
    <3>2. ~Silent(p)
      BY <3>1 DEF Silent
    <3>3. inbox[p] = <<>> /\ replies[p] = <<>>
      BY <2>1, <3>1, <3>2 DEF StepInv, OneLine
    <3>4. \E r : replies'[p] = Append(<<>>, r)
      BY <1>8, <2>1, <2>3, <3>3 DEF Finish, TypeOK
    <3>5. Len(replies'[p]) = 1
      BY <3>4
    <3>6. OneLine(p)'
      BY <2>1, <3>1, <3>3, <3>5 DEF OneLine
    <3> QED  BY <2>1, <3>2, <3>6 DEF StepInv
  <2> QED  BY <2>2, <2>3
<1>9. ASSUME NEW q \in Spawns, StrayLine(q) PROVE FALSE
  BY <1>9 DEF StrayLine, TypeOK
<1>10. ASSUME NEW q \in Spawns, Cut(q) PROVE Goal
  <2>1. ssh[p] = "up"
    BY <1>10 DEF Cut, TypeOK
  <2> QED  BY <1>1, <1>10, <2>1 DEF Cut
<1>11. ASSUME NEW q \in Spawns, SshDies(q) \/ SshNotices(q) PROVE Goal
  <2>1. Ends(q) /\ UNCHANGED <<at, process>>
    BY <1>11 DEF SshDies, SshNotices
  <2>2. p # q
    BY <2>1, EndsLoses
  <2> QED  BY <1>1, <2>1, <2>2, EndsLoses
<1>12. CASE CallClose \/ UNCHANGED vars
  BY <1>1, <1>12 DEF CallClose, vars
<1>13. CASE Close
  BY <1>0, <1>13 DEF Close
<1> QED
  BY <1>2, <1>3, <1>4, <1>5, <1>6, <1>7, <1>8, <1>9, <1>10, <1>11, <1>12, <1>13 DEF Next

-----------------------------------------------------------------------------
(* The theorems.                                                            *)

LEMMA NextRpcInv == RpcInv /\ [Next]_vars => RpcInv'
BY NextTypeOK, NextCallInv, NextOnceInv, NextTruthInv, NextSshInv, NextStepInv DEF RpcInv

(* The client's ids and the server's pipes stay as described, whatever the  *)
(* interleaving of callers, server, network and the app's exit.             *)
THEOREM RpcInvariant == Spec => []RpcInv
BY InitRpcInv, NextRpcInv, PTL DEF Spec

(* Every variable of the ssh connection and its callers keeps its type.     *)
THEOREM TypeCorrect == Spec => []TypeOK
<1>1. RpcInv => TypeOK
  BY DEF RpcInv
<1> QED  BY <1>1, RpcInvariant, PTL

(* Between calls nothing of an earlier call is left for the next caller of   *)
(* _call to read, as long as nothing else wrote to the server's stdout.      *)
THEOREM AnswersInStep == Spec => []InStep
<1>1. RpcInv => InStep
  <2> SUFFICES ASSUME RpcInv, LockFree, Usable(process), ssh[process] = "up", strays = 0
               PROVE  Silent(process)
    BY DEF InStep
  <2>1. process \in Spawns
    BY DEF RpcInv, TypeOK, Usable, Spawns
  <2>2. \A t \in Threads : at[t] # "sent"
    BY DEF LockFree
  <2> QED  BY <2>1, <2>2 DEF RpcInv, StepInv
<1> QED  BY <1>1, RpcInvariant, PTL

(* A server that _ensure_connected has abandoned works only on a request     *)
(* that was reported to its caller as failed.                               *)
THEOREM AbandonedRaised == Spec => []AbandonedWorkWasRaised
<1>1. RpcInv => AbandonedWorkWasRaised
  <2> SUFFICES ASSUME RpcInv, NEW p \in Spawns \ {process}, work[p] # 0
               PROVE  answer[work[p]] = "raised"
    BY DEF AbandonedWorkWasRaised
  <2>1. work[p] \in Ids /\ UnderWay(p, work[p])
    BY DEF RpcInv, TypeOK, Ids, UnderWay
  <2>2. answer[work[p]] # "none" /\ ran[work[p]] = "no"
    BY <2>1 DEF RpcInv, SshInv, OnceInv
  <2>3. answer[work[p]] # "returned"
    BY <2>1, <2>2 DEF RpcInv, TruthInv
  <2> QED  BY <2>1, <2>2, <2>3 DEF RpcInv, TypeOK
<1> QED  BY <1>1, RpcInvariant, PTL

-----------------------------------------------------------------------------
(* The promise of RemoteCall, step by step.                                 *)

LEMMA InitPromise == Init => Promise!Init
<1>1. nextId = 1 => 1..(nextId - 1) = {}
  OBVIOUS
<1> QED  BY <1>1 DEF Init, Promise!Init

\* A connection that hands out an id asks for it; every earlier call is answered.
LEMMA ConnectAsks ==
  ASSUME RpcInv, NEW t \in Threads, Connect(t)
  PROVE  Promise!Next
<1>1. nextId \in Ids /\ nextId' = nextId + 1 /\ LockFree /\ UNCHANGED <<ran, answer>>
  BY DEF Connect, TakeId, history
<1>2. nextId \in Nat \ {0} /\ MaxRequests \in Nat
  BY <1>1, BoundsAssumption DEF Ids
<1>3. nextId \notin 1..(nextId - 1) /\ 1..(nextId' - 1) = 1..(nextId - 1) \cup {nextId}
  BY <1>1, <1>2
<1>4. \A q \in 1..(nextId - 1) : answer[q] # "none"
  BY <1>1, <1>2, LockMeans DEF RpcInv, CallInv, Ids
<1>5. Promise!Ask(nextId)
  BY <1>1, <1>3, <1>4 DEF Promise!Ask
<1> QED  BY <1>1, <1>5 DEF Promise!Next

\* An answer is a return only for a request that ran with success.
LEMMA TellAnswers ==
  ASSUME RpcInv, NEW t \in Threads, NEW what \in {"returned", "raised"},
         Calling(t), Tell(t, what), what = "returned" => ran[request[t]] = "well"
  PROVE  Promise!Next
<1>1. request[t] \in Ids /\ request[t] = nextId - 1 /\ answer[request[t]] = "none"
  BY DEF RpcInv, CallInv
<1>2. request[t] \in 1..(nextId - 1)
  BY <1>1 DEF Ids, RpcInv, TypeOK
<1>3. 1..(nextId' - 1) = 1..(nextId - 1) /\ UNCHANGED ran
      /\ answer' = [answer EXCEPT ![request[t]] = what]
  BY DEF Tell
<1>4. Promise!Return(request[t]) \/ Promise!Raise(request[t])
  BY <1>1, <1>2, <1>3 DEF Promise!Return, Promise!Raise
<1> QED  BY <1>1, <1>4 DEF Promise!Next

LEMMA FinishRuns ==
  ASSUME RpcInv, NEW p \in Spawns, Finish(p)
  PROVE  Promise!Next
<1> DEFINE w == work[p]
<1>1. w \in Ids /\ UnderWay(p, w)
  BY DEF Finish, RpcInv, TypeOK, Ids, UnderWay
<1>2. w < nextId /\ ran[w] = "no" /\ answer[w] # "returned"
  BY <1>1 DEF RpcInv, OnceInv, TruthInv
<1>3. w \in 1..(nextId - 1)
  BY <1>1, <1>2 DEF Ids, RpcInv, TypeOK
<1>4. 1..(nextId' - 1) = 1..(nextId - 1) /\ UNCHANGED answer
  BY DEF Finish, client
<1>5. \E how \in {"well", "badly"} : ran' = [ran EXCEPT ![w] = how]
  <2>1. PICK how \in {"well", "badly"} : ran' = [ran EXCEPT ![w] = IF @ = "no" THEN how ELSE "twice"]
    BY DEF Finish
  <2>2. ran' = [ran EXCEPT ![w] = how]
    BY <1>2, <2>1
  <2> QED  BY <2>2
<1>6. Promise!Run(w)
  BY <1>2, <1>3, <1>4, <1>5 DEF Promise!Run
<1> QED  BY <1>1, <1>6 DEF Promise!Next

LEMMA NextPromise == RpcInv /\ [Next]_vars => [Promise!Next]_(Promise!vars)
<1> SUFFICES ASSUME RpcInv, [Next]_vars PROVE Promise!Next \/ UNCHANGED Promise!vars
  OBVIOUS
<1>1. ASSUME NEW t \in Threads, Connect(t) PROVE Promise!Next
  BY <1>1, ConnectAsks
<1>2. ASSUME NEW t \in Threads, WriteRaises(t) \/ ReadRaises(t) PROVE Promise!Next
  BY <1>2, TellAnswers DEF WriteRaises, ReadRaises, Calling
<1>3. ASSUME NEW t \in Threads, Read(t) PROVE Promise!Next
  <2> DEFINE line == Head(replies[process])
             what == IF line.id = request[t] /\ line.well THEN "returned" ELSE "raised"
  <2>1. Calling(t) /\ Tell(t, what) /\ what \in {"returned", "raised"}
    BY <1>3 DEF Read, Calling
  <2>2. process \in Spawns /\ replies[process] # <<>>
    BY <1>3, <2>1 DEF Read, RpcInv, CallInv
  <2>3. line = replies[process][1] /\ 1 \in 1..Len(replies[process])
    BY <2>2 DEF RpcInv, TypeOK
  <2>4. what = "returned" => ran[request[t]] = "well"
    BY <2>2, <2>3 DEF RpcInv, TruthInv
  <2> QED  BY <2>1, <2>4, TellAnswers
<1>4. ASSUME NEW p \in Spawns, Finish(p) PROVE Promise!Next
  BY <1>4, FinishRuns
<1>5. ASSUME UNCHANGED <<nextId, ran, answer>> PROVE UNCHANGED Promise!vars
  BY <1>5 DEF Promise!vars
<1>6. ASSUME NEW t \in Threads, Ask(t) \/ ConnectRaises(t) \/ Write(t)
      PROVE  UNCHANGED <<nextId, ran, answer>>
  BY <1>6 DEF Ask, ConnectRaises, Write, history
<1>7. ASSUME NEW p \in Spawns,
             Take(p) \/ StrayLine(p) \/ Cut(p) \/ SshDies(p) \/ SshNotices(p)
      PROVE  UNCHANGED <<nextId, ran, answer>>
  BY <1>7 DEF Take, StrayLine, Cut, SshDies, SshNotices, client, history
<1>8. CASE CallClose \/ Close \/ UNCHANGED vars
  BY <1>8, <1>5 DEF CallClose, Close, vars, client, history
<1> QED
  BY <1>1, <1>2, <1>3, <1>4, <1>5, <1>6, <1>7, <1>8 DEF Next

(* PanelRpcClient and the server keep the promise of RemoteCall: one call at *)
(* a time, a call that returned ran once and with success, one that raised   *)
(* is never run twice, however often the connection is lost and spawned anew. *)
THEOREM PromiseKept == Spec => KeepsPromise
<1>1. RpcInv /\ RpcInv' /\ [Next]_vars => [Promise!Next]_(Promise!vars)
  BY NextPromise
<1> QED  BY <1>1, InitPromise, RpcInvariant, PTL DEF Spec, KeepsPromise, Promise!Spec
=============================================================================
