--------------------------- MODULE McpServerProofs ---------------------------
(***************************************************************************)
(* What module McpServer's runs check on three requests, proved for any    *)
(* number of requests and any set of ids.                                  *)
(***************************************************************************)
EXTENDS McpServer, TLAPS

(***************************************************************************)
(* The inductive invariant.  Each conjunct says how one shared object of   *)
(* the server is tied to the program counters.                             *)
(***************************************************************************)

IdsSound == \A r \in Requests : pc[r] # "none" => id[r] \in Ids

\* The WaitGroup counts exactly the goroutines that have not called Done.
WgSound == \A r \in Requests : r \in wg <=> pc[r] \in Outstanding

\* A thread inside Encode holds the write lock.
LockSound ==
  /\ \A r \in Requests : pc[r] = "writing" => lock = r
  /\ loop = "replying" => lock = Loop

\* Requests alive together under one id are the shared ones ...
SharedSound ==
  \A r, q \in Requests :
    r # q /\ Live(r) /\ Live(q) /\ id[r] = id[q] => r \in shared

\* ... and every other one can be cancelled for as long as it is alive.
Cancellable ==
  \A r \in Requests : Live(r) /\ r \notin shared => active[id[r]] = r

CancelSound ==
  /\ loop = "cancel" => target # None
  /\ target # None => loop = "cancel" \/ ret = "killed"
  /\ target # None => target \in named
  /\ asked \subseteq cancelled \cup {target}
  /\ cancelled \subseteq named

\* A response is whole on the output exactly when it was written in time.
SentSound ==
  \A r \in Requests :
    /\ sent[r] \in {0, 1}
    /\ sent[r] = 1 => pc[r] \in {"written", "leaving", "done"}
    /\ pc[r] \in {"written", "leaving", "done"} /\ ~broken => sent[r] = 1

ReturnSound ==
  /\ ret = "killed" => loop = "exited"
  /\ loop \in {"returned", "exited"} =>
       (ret \in {"writeError", "killed"} /\ broken) \/ wg = {}

IInv ==
  /\ TypeOK
  /\ IdsSound
  /\ WgSound
  /\ LockSound
  /\ TableSound
  /\ SharedSound
  /\ Cancellable
  /\ CancelSound
  /\ SentSound
  /\ ReturnSound

-----------------------------------------------------------------------------

LEMMA IInvInit == Init => IInv
<1> SUFFICES ASSUME Init PROVE IInv
  OBVIOUS
<1>1. TypeOK
  BY ConstantsOK DEF Reasons, Init, TypeOK
<1>2. IdsSound /\ WgSound /\ SharedSound /\ Cancellable /\ SentSound
  BY DEF Init, IdsSound, WgSound, SharedSound, Cancellable, SentSound, Live,
     Registered, Outstanding
<1>3. LockSound /\ TableSound /\ CancelSound /\ ReturnSound
  BY ConstantsOK DEF Reasons, Init, LockSound, TableSound, CancelSound, ReturnSound
<1>4. QED
  BY <1>1, <1>2, <1>3 DEF IInv

LEMMA IInvNext == IInv /\ [Next]_vars => IInv'
<1> SUFFICES ASSUME IInv, [Next]_vars PROVE IInv'
  OBVIOUS
<1> USE ConstantsOK DEF IInv, Live, Registered, Outstanding, Running, Reasons
<1>1. CASE ReadMalformed
  BY <1>1 DEF ReadMalformed, TypeOK, IdsSound, WgSound, LockSound, TableSound,
     SharedSound, Cancellable, CancelSound, SentSound, ReturnSound

\* The new entry may hide the entry of another request: both are then shared.
<1>2. ASSUME NEW r \in Requests, NEW x \in Ids, ReadRequest(r, x) PROVE IInv'
  <2>1. TypeOK' /\ IdsSound' /\ WgSound'
    BY <1>2 DEF ReadRequest, TypeOK, IdsSound, WgSound
  <2>2. TableSound'
    BY <1>2 DEF ReadRequest, TypeOK, TableSound
  <2>3. SharedSound'
    BY <1>2 DEF ReadRequest, TypeOK, SharedSound
  <2>4. Cancellable'
    BY <1>2 DEF ReadRequest, TypeOK, Cancellable
  <2>5. LockSound' /\ CancelSound' /\ SentSound' /\ ReturnSound'
    BY <1>2 DEF ReadRequest, TypeOK, LockSound, CancelSound, SentSound, ReturnSound
  <2>6. QED
    BY <2>1, <2>2, <2>3, <2>4, <2>5

\* Cancellable makes the lookup find every request that has to be reached, and
\* TableSound makes what it finds one that may be.
<1>3. ASSUME NEW x \in Ids, ReadCancel(x) PROVE IInv'
  <2> DEFINE holders == {q \in Requests : Live(q) /\ id[q] = x}
  <2>1. holders \ shared \subseteq {active[x]}
    BY DEF Cancellable
  <2>2. active[x] # None => active[x] \in holders
    BY DEF TableSound, TypeOK
  <2>3. CancelSound'
    BY <1>3, <2>1, <2>2 DEF ReadCancel, TypeOK, CancelSound, ReturnSound
  <2>4. TypeOK'
    BY <1>3 DEF ReadCancel, TypeOK
  <2>5. IdsSound' /\ WgSound' /\ LockSound' /\ TableSound' /\ SharedSound'
    BY <1>3 DEF ReadCancel, IdsSound, WgSound, LockSound, TableSound, SharedSound
  <2>6. Cancellable' /\ SentSound' /\ ReturnSound'
    BY <1>3 DEF ReadCancel, Cancellable, SentSound, ReturnSound
  <2>7. QED
    BY <2>3, <2>4, <2>5, <2>6
<1>4. CASE FireCancel
  <2>1. TypeOK' /\ CancelSound'
    BY <1>4 DEF FireCancel, TypeOK, CancelSound
  <2>2. IdsSound' /\ WgSound' /\ LockSound' /\ TableSound' /\ SharedSound'
    BY <1>4 DEF FireCancel, IdsSound, WgSound, LockSound, TableSound, SharedSound
  <2>3. Cancellable' /\ SentSound' /\ ReturnSound'
    BY <1>4 DEF FireCancel, Cancellable, SentSound, ReturnSound
  <2>4. QED
    BY <2>1, <2>2, <2>3
<1>5. CASE StopReading
  BY <1>5 DEF StopReading, TypeOK, IdsSound, WgSound, LockSound, TableSound,
     SharedSound, Cancellable, CancelSound, SentSound, ReturnSound
<1>6. CASE LoopLocksOutput
  BY <1>6 DEF LoopLocksOutput, TypeOK, IdsSound, WgSound, LockSound, TableSound,
     SharedSound, Cancellable, CancelSound, SentSound, ReturnSound
<1>7. CASE LoopWrites
  BY <1>7 DEF LoopWrites, TypeOK, IdsSound, WgSound, LockSound, TableSound,
     SharedSound, Cancellable, CancelSound, SentSound, ReturnSound
<1>8. CASE WaitReturns
  BY <1>8 DEF WaitReturns, TypeOK, IdsSound, WgSound, LockSound, TableSound,
     SharedSound, Cancellable, CancelSound, SentSound, ReturnSound
<1>9. CASE Exit
  BY <1>9 DEF Exit, TypeOK, IdsSound, WgSound, LockSound, TableSound,
     SharedSound, Cancellable, CancelSound, SentSound, ReturnSound
<1>10. ASSUME NEW r \in Requests, Handle(r) PROVE IInv'
  BY <1>10 DEF Handle, TypeOK, IdsSound, WgSound, LockSound, TableSound,
     SharedSound, Cancellable, CancelSound, SentSound, ReturnSound

\* The lock was free, so by LockSound nobody else is writing.
<1>11. ASSUME NEW r \in Requests, LockOutput(r) PROVE IInv'
  <2>1. LockSound'
    BY <1>11 DEF LockOutput, TypeOK, LockSound
  <2>2. TypeOK' /\ IdsSound' /\ WgSound' /\ TableSound' /\ SharedSound'
    BY <1>11 DEF LockOutput, TypeOK, IdsSound, WgSound, TableSound, SharedSound
  <2>3. Cancellable' /\ CancelSound' /\ SentSound' /\ ReturnSound'
    BY <1>11 DEF LockOutput, TypeOK, Cancellable, CancelSound, SentSound, ReturnSound
  <2>4. QED
    BY <2>1, <2>2, <2>3
<1>12. ASSUME NEW r \in Requests, Write(r) PROVE IInv'
  <2>1. TypeOK' /\ SentSound'
    BY <1>12 DEF Write, TypeOK, SentSound
  <2>2. LockSound'
    BY <1>12 DEF Write, TypeOK, LockSound
  <2>3. IdsSound' /\ WgSound' /\ TableSound' /\ SharedSound'
    BY <1>12 DEF Write, TypeOK, IdsSound, WgSound, TableSound, SharedSound
  <2>4. Cancellable' /\ CancelSound' /\ ReturnSound'
    BY <1>12 DEF Write, TypeOK, Cancellable, CancelSound, ReturnSound
  <2>5. QED
    BY <2>1, <2>2, <2>3, <2>4

\* The entry deleted may belong to another request: SharedSound says that both
\* are then shared, and Cancellable promises nothing to shared requests.
<1>13. ASSUME NEW r \in Requests, Unregister(r) PROVE IInv'
  <2>1. Cancellable'
    BY <1>13 DEF Unregister, TypeOK, IdsSound, Cancellable, SharedSound
  <2>2. TableSound'
    BY <1>13 DEF Unregister, TypeOK, IdsSound, TableSound
  <2>3. TypeOK' /\ IdsSound' /\ WgSound' /\ LockSound' /\ SharedSound'
    BY <1>13 DEF Unregister, TypeOK, IdsSound, WgSound, LockSound, SharedSound
  <2>4. CancelSound' /\ SentSound' /\ ReturnSound'
    BY <1>13 DEF Unregister, TypeOK, CancelSound, SentSound, ReturnSound
  <2>5. QED
    BY <2>1, <2>2, <2>3, <2>4
<1>14. ASSUME NEW r \in Requests, Done(r) PROVE IInv'
  <2>1. TypeOK' /\ WgSound' /\ ReturnSound'
    BY <1>14 DEF Done, TypeOK, WgSound, ReturnSound
  <2>2. IdsSound' /\ LockSound' /\ TableSound' /\ SharedSound'
    BY <1>14 DEF Done, TypeOK, IdsSound, LockSound, TableSound, SharedSound
  <2>3. Cancellable' /\ CancelSound' /\ SentSound'
    BY <1>14 DEF Done, TypeOK, Cancellable, CancelSound, SentSound
  <2>4. QED
    BY <2>1, <2>2, <2>3
<1>15. CASE Disconnect
  BY <1>15 DEF Disconnect, TypeOK, IdsSound, WgSound, LockSound, TableSound,
     SharedSound, Cancellable, CancelSound, SentSound, ReturnSound
<1>16. CASE UNCHANGED vars
  BY <1>16 DEF vars, TypeOK, IdsSound, WgSound, LockSound, TableSound,
     SharedSound, Cancellable, CancelSound, SentSound, ReturnSound
<1>17. CASE Sigpipe
  BY <1>17 DEF Sigpipe, TypeOK, IdsSound, WgSound, LockSound, TableSound,
     SharedSound, Cancellable, CancelSound, SentSound, ReturnSound
<1>18. QED
  BY <1>1, <1>2, <1>3, <1>4, <1>5, <1>6, <1>7, <1>8, <1>9, <1>10, <1>11,
     <1>12, <1>13, <1>14, <1>15, <1>16, <1>17 DEF Next, LoopStep, RequestStep, Finished

-----------------------------------------------------------------------------

\* The conjuncts of the inductive invariant hold in every reachable state.
THEOREM Invariant == SafeSpec => []IInv
  BY IInvInit, IInvNext, PTL DEF SafeSpec

\* Every goroutine step and loop step keeps the variables in their types.
THEOREM TypeCorrect == SafeSpec => []TypeOK
  BY Invariant, PTL DEF IInv

\* At most one thread writes a frame at a time: both would hold the lock.
THEOREM FramesStayIntact == SafeSpec => []FramesIntact
<1>1. IInv => FramesIntact
  BY ConstantsOK DEF IInv, TypeOK, LockSound, FramesIntact
<1>2. QED
  BY <1>1, Invariant, PTL

\* The table of CancelFuncs holds live requests only, each under its own id.
THEOREM TableStaysSound == SafeSpec => []TableSound
  BY Invariant, PTL DEF IInv

\* A cancellation reaches the request it names and no other.
THEOREM CancelsExactly == SafeSpec => []CancelIsExact
<1>1. IInv => CancelIsExact
  BY ConstantsOK DEF IInv, TypeOK, CancelSound, CancelIsExact
<1>2. QED
  BY <1>1, Invariant, PTL

\* Serve returns with nothing in flight unless the client hung up: WaitGroup
\* empty, so by WgSound no goroutine is left, so by TableSound no entry is, and
\* by SentSound every response is out.
THEOREM ReturnsCleanly == SafeSpec => []CleanReturn
<1>1. IInv => CleanReturn
  <2> SUFFICES ASSUME IInv, loop \in {"returned", "exited"}, wg = {}
               PROVE  /\ \A x \in Ids : active[x] = None
                      /\ \A r \in Requests :
                           \/ pc[r] = "none"
                           \/ pc[r] = "done" /\ (broken \/ sent[r] = 1)
    BY DEF IInv, ReturnSound, CleanReturn
  <2>1. \A r \in Requests : pc[r] \in {"none", "done"}
    BY DEF IInv, TypeOK, WgSound
  <2>2. \A x \in Ids : active[x] = None
    BY <2>1 DEF IInv, TypeOK, TableSound, Live, Registered
  <2>3. \A r \in Requests : pc[r] = "done" => broken \/ sent[r] = 1
    BY DEF IInv, SentSound
  <2>4. QED
    BY <2>1, <2>2, <2>3
<1>2. QED
  BY <1>1, Invariant, PTL

-----------------------------------------------------------------------------
(* The server implements RpcSession. *)

PhaseOf == [r \in Requests |-> Phase(r)]

\* While the process runs, a phase depends on the goroutine and its frame only.
LEMMA PhaseFrame ==
  ASSUME Running <=> Running', UNCHANGED <<pc, sent>>
  PROVE  PhaseOf' = PhaseOf
  BY DEF PhaseOf, Phase, Over, Running

\* A step of one goroutine changes the phase of its own request at most.
LEMMA PhaseUpdate ==
  ASSUME NEW r \in Requests, Running, Running',
         \A q \in Requests \ {r} : pc'[q] = pc[q] /\ sent'[q] = sent[q]
  PROVE  /\ PhaseOf' = [PhaseOf EXCEPT ![r] = Phase(r)']
         /\ Phase(r)' = Phase(r) => PhaseOf' = PhaseOf
<1>1. \A q \in Requests \ {r} : Phase(q)' = Phase(q)
  BY DEF Phase, Over, Running
<1>2. PhaseOf' = [PhaseOf EXCEPT ![r] = Phase(r)']
  BY <1>1 DEF PhaseOf
<1>3. ASSUME Phase(r)' = Phase(r) PROVE PhaseOf' = PhaseOf
  BY <1>1, <1>3 DEF PhaseOf
<1>4. QED
  BY <1>2, <1>3

LEMMA SessionStep ==
  IInv /\ [Next]_vars => [Session!SessionNext]_(Session!sessionVars)
<1> SUFFICES ASSUME IInv, [Next]_vars
             PROVE  [Session!SessionNext]_(Session!sessionVars)
  OBVIOUS
<1> USE ConstantsOK DEF IInv, TypeOK, Reasons
<1> DEFINE link == IF broken THEN "down" ELSE "up"
           session == CASE loop \in {"returned", "exited"} -> "closed"
                        [] loop = "drain" -> "draining"
                        [] OTHER -> "open"
           Stutter == PhaseOf' = PhaseOf /\ link' = link /\ session' = session
<1>0. Stutter => [Session!SessionNext]_(Session!sessionVars)
  BY DEF Session!sessionVars, PhaseOf
<1>1. CASE ReadMalformed
  <2>1. Stutter
    BY <1>1, PhaseFrame DEF ReadMalformed, Running
  <2>2. QED
    BY <2>1, <1>0
<1>2. ASSUME NEW r \in Requests, NEW x \in Ids, ReadRequest(r, x)
      PROVE  Session!SessionNext
  <2>1. Phase(r) = "unseen" /\ Phase(r)' = "pending"
    BY <1>2 DEF ReadRequest, Phase, Over, SentSound
  <2>2. PhaseOf' = [PhaseOf EXCEPT ![r] = "pending"]
    BY <1>2, <2>1, PhaseUpdate DEF ReadRequest, Running
  <2>3. Session!Accept(r)
    BY <1>2, <2>1, <2>2 DEF ReadRequest, Session!Accept, PhaseOf
  <2>4. QED
    BY <2>3 DEF Session!SessionNext
<1>3. ASSUME NEW x \in Ids, ReadCancel(x) PROVE Stutter
  BY <1>3, PhaseFrame DEF ReadCancel, Running
<1>4. CASE FireCancel
  <2>1. Stutter
    BY <1>4, PhaseFrame DEF FireCancel, Running
  <2>2. QED
    BY <2>1, <1>0
<1>5. CASE StopReading
  <2>1. PhaseOf' = PhaseOf
    BY <1>5, PhaseFrame DEF StopReading, Running
  <2>2. Session!EndOfRequests
    BY <1>5, <2>1 DEF StopReading, Session!EndOfRequests, PhaseOf
  <2>3. QED
    BY <2>2 DEF Session!SessionNext
<1>6. CASE LoopLocksOutput
  <2>1. Stutter
    BY <1>6, PhaseFrame DEF LoopLocksOutput, Running
  <2>2. QED
    BY <2>1, <1>0
<1>7. CASE LoopWrites
  <2>1. PhaseOf' = PhaseOf
    BY <1>7, PhaseFrame DEF LoopWrites, Running
  <2>2. CASE broken
    <3>1. Session!Close
      BY <1>7, <2>1, <2>2 DEF LoopWrites, Session!Close, PhaseOf
    <3>2. QED
      BY <3>1 DEF Session!SessionNext
  <2>3. CASE ~broken
    BY <1>7, <2>1, <2>3, <1>0 DEF LoopWrites
  <2>4. QED
    BY <2>2, <2>3
<1>8. CASE WaitReturns
  <2>1. PhaseOf' = PhaseOf
    BY <1>8, PhaseFrame DEF WaitReturns, Running
  <2>2. \A r \in Requests : Phase(r) # "pending"
    BY <1>8 DEF WaitReturns, Phase, Over, WgSound, Outstanding, Registered, SentSound
  <2>3. Session!Close
    BY <1>8, <2>1, <2>2 DEF WaitReturns, Session!Close, Session!Pending, PhaseOf
  <2>4. QED
    BY <2>3 DEF Session!SessionNext
<1>9. CASE Exit
  <2> DEFINE P == {r \in Requests : Phase(r) = "pending"}
  <2>1. PhaseOf' = [r \in Requests |-> IF r \in P THEN "lost" ELSE PhaseOf[r]]
    <3>1. ASSUME NEW r \in Requests
          PROVE  Phase(r)' = IF r \in P THEN "lost" ELSE Phase(r)
      <4>1. CASE pc[r] = "none" \/ sent[r] # 0
        BY <1>9, <4>1 DEF Exit, Phase
      <4>2. CASE pc[r] # "none" /\ sent[r] = 0
        <5>1. Phase(r)' = "lost"
          BY <1>9, <4>2 DEF Exit, Phase, Over
        <5>2. Phase(r) \in {"pending", "lost"}
          BY <4>2 DEF Phase
        <5>3. QED
          BY <5>1, <5>2
      <4>3. QED
        BY <4>1, <4>2
    <3>2. QED
      BY <3>1 DEF PhaseOf
  <2>2. CASE P = {}
    <3>1. Stutter
      BY <1>9, <2>1, <2>2 DEF Exit, PhaseOf
    <3>2. QED
      BY <3>1, <1>0
  <2>3. CASE P # {}
    <3>1. wg # {}
      BY <2>3 DEF WgSound, Phase, Over, Outstanding, Registered
    <3>2. broken
      BY <1>9, <3>1 DEF Exit, ReturnSound
    <3>3. P = Session!Pending
      BY DEF Session!Pending
    <3>4. Session!Lose(P)
      BY <1>9, <2>1, <2>3, <3>2, <3>3 DEF Exit, Session!Lose, PhaseOf
    <3>5. QED
      BY <3>3, <3>4 DEF Session!SessionNext
  <2>4. QED
    BY <2>2, <2>3
<1>10. ASSUME NEW r \in Requests, Handle(r) PROVE Stutter
  <2>1. Phase(r)' = Phase(r)
    BY <1>10 DEF Handle, Running, Phase, Over
  <2>2. QED
    BY <1>10, <2>1, PhaseUpdate DEF Handle, Running
<1>11. ASSUME NEW r \in Requests, LockOutput(r) PROVE Stutter
  <2>1. Phase(r)' = Phase(r)
    BY <1>11 DEF LockOutput, Running, Phase, Over
  <2>2. QED
    BY <1>11, <2>1, PhaseUpdate DEF LockOutput, Running
<1>12. ASSUME NEW r \in Requests, Write(r) PROVE Session!SessionNext
  <2>1. sent[r] = 0 /\ Phase(r) = "pending"
    BY <1>12 DEF Write, Running, Phase, Over, SentSound
  <2>2. CASE ~broken
    <3>1. Phase(r)' = "answered"
      BY <1>12, <2>1, <2>2 DEF Write, Phase, Over
    <3>2. PhaseOf' = [PhaseOf EXCEPT ![r] = "answered"]
      BY <1>12, <3>1, PhaseUpdate DEF Write, Running
    <3>3. Session!Answer(r)
      BY <1>12, <2>1, <2>2, <3>2 DEF Write, Session!Answer, PhaseOf
    <3>4. QED
      BY <3>3 DEF Session!SessionNext
  <2>3. CASE broken
    <3>1. Phase(r)' = "lost"
      BY <1>12, <2>1, <2>3 DEF Write, Phase, Over
    <3>2. PhaseOf' = [PhaseOf EXCEPT ![r] = "lost"]
      BY <1>12, <3>1, PhaseUpdate DEF Write, Running
    <3>3. {r} \in SUBSET Session!Pending
      BY <2>1 DEF Session!Pending
    <3>4. Session!Lose({r})
      BY <1>12, <2>3, <3>2, <3>3 DEF Write, Session!Lose, PhaseOf
    <3>5. QED
      BY <3>3, <3>4 DEF Session!SessionNext
  <2>4. QED
    BY <2>2, <2>3
<1>13. ASSUME NEW r \in Requests, Unregister(r) PROVE Stutter
  <2>1. Phase(r)' = Phase(r)
    BY <1>13 DEF Unregister, Running, Phase, Over
  <2>2. QED
    BY <1>13, <2>1, PhaseUpdate DEF Unregister, Running
<1>14. ASSUME NEW r \in Requests, Done(r) PROVE Stutter
  <2>1. Phase(r)' = Phase(r)
    BY <1>14 DEF Done, Running, Phase, Over
  <2>2. QED
    BY <1>14, <2>1, PhaseUpdate DEF Done, Running
<1>15. CASE Disconnect
  <2>1. PhaseOf' = PhaseOf
    BY <1>15, PhaseFrame DEF Disconnect, Running
  <2>2. Session!HangUp
    BY <1>15, <2>1 DEF Disconnect, Session!HangUp, PhaseOf
  <2>3. QED
    BY <2>2 DEF Session!SessionNext
<1>16. CASE UNCHANGED vars
  <2>1. Stutter
    BY <1>16, PhaseFrame DEF vars, Running
  <2>2. QED
    BY <2>1, <1>0
<1>17. CASE Sigpipe
  <2> DEFINE P == {r \in Requests : Phase(r) = "pending"}
  <2>1. ASSUME NEW r \in Requests
        PROVE  Phase(r)' = IF r \in P THEN "lost" ELSE Phase(r)
    <3>1. CASE pc[r] = "none" \/ sent[r] # 0
      BY <1>17, <3>1 DEF Sigpipe, Phase
    <3>2. CASE pc[r] # "none" /\ sent[r] = 0
      <4>1. Phase(r)' = "lost"
        BY <1>17, <3>2 DEF Sigpipe, Phase, Over
      <4>2. Phase(r) \in {"pending", "lost"}
        BY <3>2 DEF Phase
      <4>3. QED
        BY <4>1, <4>2
    <3>3. QED
      BY <3>1, <3>2
  <2>2. PhaseOf' = [r \in Requests |-> IF r \in P THEN "lost" ELSE PhaseOf[r]]
    BY <2>1 DEF PhaseOf
  <2>3. P = Session!Pending
    BY DEF Session!Pending
  <2>4. Session!Die
    BY <1>17, <2>2, <2>3 DEF Sigpipe, Session!Die, PhaseOf
  <2>5. QED
    BY <2>4 DEF Session!SessionNext
<1>18. QED
  BY <1>0, <1>1, <1>2, <1>3, <1>4, <1>5, <1>6, <1>7, <1>8, <1>9, <1>10, <1>11,
     <1>12, <1>13, <1>14, <1>15, <1>16, <1>17 DEF Next, LoopStep, RequestStep, Finished

\* Whatever the interleaving, each request is settled at most once and only in
\* the ways RpcSession allows, and the session closes in good order.
THEOREM Refinement == SafeSpec => SettlesSafely
<1>1. Init => Session!SessionInit
  BY DEF Init, Session!SessionInit, Phase, Over
<1>2. QED
  BY <1>1, SessionStep, Invariant, PTL
     DEF SafeSpec, SettlesSafely, Session!SessionSafeSpec
=============================================================================
