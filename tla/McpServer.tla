------------------------------ MODULE McpServer ------------------------------
(***************************************************************************)
(* The concurrency of internal/mcp/server.go and cmd/db2toon-mcp/main.go.  *)
(*                                                                         *)
(* Serve is one loop that reads a line at a time from the client.  It      *)
(* answers a malformed line itself, performs cancellations itself, and     *)
(* starts a goroutine for each request.  Loop and goroutines share the     *)
(* table `active' (under mu), the output stream (under write) and a        *)
(* WaitGroup.                                                              *)
(*                                                                         *)
(* A line is one of: malformed (bad JSON, or an invalid request with an    *)
(* id), a cancellation of an id, a request with an id, or a line the       *)
(* server ignores (any other notification), which changes nothing and has  *)
(* no action.  A request is named by its position r in the order of        *)
(* acceptance; id[r] is the JSON-RPC id the client chose for it, and a     *)
(* client may choose the same id again.  What handle() puts in a response  *)
(* is left to module ExtractService.                                       *)
(***************************************************************************)
EXTENDS Integers

CONSTANTS
  MaxRequests,   \* how many requests the client sends: bounds the model
  Ids,           \* the JSON-RPC ids the client uses
  Loop,          \* the reading loop of Serve, as a holder of the write lock
  None           \* no thread, no request, no id, no reason

Requests == 1 .. MaxRequests
Reasons == {"eof", "scanError", "writeError", "killed"}

ASSUME ConstantsOK ==
  /\ MaxRequests \in Nat
  /\ Loop \notin Requests
  /\ None \notin Requests \cup Ids \cup {Loop}
  /\ None \notin Reasons

VARIABLES
  loop,       \* where Serve's loop is
  ret,        \* why it stopped reading: "eof", "scanError", "writeError" or "killed"
  pc,         \* where the goroutine of each request is
  id,         \* the id each accepted request carries
  active,     \* id -> the request whose CancelFunc the table holds, or None
  cancelled,  \* the requests whose context has been cancelled
  target,     \* the request whose CancelFunc the loop looked up, or None
  wg,         \* the requests counted by the WaitGroup
  lock,       \* the holder of Server.write, or None
  sent,       \* request -> how many whole responses reached the client
  broken,     \* the client closed its reading end: every write fails
  shared,     \* history: requests whose life overlapped another of their id
  asked,      \* history: requests a cancellation had to reach
  named       \* history: requests a cancellation was allowed to reach

vars == <<loop, ret, pc, id, active, cancelled, target, wg, lock, sent,
          broken, shared, asked, named>>

\* Registered in the table and not yet unregistered.
Registered == {"handling", "ready", "writing", "written"}
Live(r) == pc[r] \in Registered

\* Counted by the WaitGroup.
Outstanding == Registered \cup {"leaving"}

TypeOK ==
  /\ loop \in {"scan", "reply", "replying", "cancel", "drain", "returned", "exited"}
  /\ ret \in Reasons \cup {None}
  /\ pc \in [Requests -> Outstanding \cup {"none", "done"}]
  /\ id \in [Requests -> Ids \cup {None}]
  /\ active \in [Ids -> Requests \cup {None}]
  /\ cancelled \in SUBSET Requests
  /\ target \in Requests \cup {None}
  /\ wg \in SUBSET Requests
  /\ lock \in Requests \cup {Loop, None}
  /\ sent \in [Requests -> Nat]
  /\ broken \in BOOLEAN
  /\ shared \in SUBSET Requests
  /\ asked \in SUBSET Requests
  /\ named \in SUBSET Requests

Init ==
  /\ loop = "scan"
  /\ ret = None
  /\ pc = [r \in Requests |-> "none"]
  /\ id = [r \in Requests |-> None]
  /\ active = [x \in Ids |-> None]
  /\ cancelled = {}
  /\ target = None
  /\ wg = {}
  /\ lock = None
  /\ sent = [r \in Requests |-> 0]
  /\ broken = FALSE
  /\ shared = {}
  /\ asked = {}
  /\ named = {}

-----------------------------------------------------------------------------
(* The reading loop. *)

\* Bad JSON, or an invalid request that has an id: the loop answers it.
ReadMalformed ==
  /\ loop = "scan"
  /\ loop' = "reply"
  /\ UNCHANGED <<ret, pc, id, active, cancelled, target, wg, lock, sent,
                 broken, shared, asked, named>>

\* Mutant of ReadRequest: wg.Add left out.
ReadRequestUncounted(r, x) ==
  /\ loop = "scan"
  /\ pc[r] = "none"
  /\ \A q \in Requests : q < r => pc[q] # "none"
  /\ id' = [id EXCEPT ![r] = x]
  /\ active' = [active EXCEPT ![x] = r]
  /\ pc' = [pc EXCEPT ![r] = "handling"]
  /\ UNCHANGED <<loop, ret, cancelled, target, wg, lock, sent, broken, shared,
                 asked, named>>

\* register, wg.Add and go: nothing of them is visible to another goroutine
\* before the table holds the new CancelFunc.
ReadRequest(r, x) ==
  /\ loop = "scan"
  /\ pc[r] = "none"
  /\ \A q \in Requests : q < r => pc[q] # "none"
  /\ id' = [id EXCEPT ![r] = x]
  /\ active' = [active EXCEPT ![x] = r]
  /\ wg' = wg \cup {r}
  /\ pc' = [pc EXCEPT ![r] = "handling"]
  /\ LET clash == {q \in Requests : Live(q) /\ id[q] = x}
     IN  shared' = IF clash = {} THEN shared ELSE shared \cup clash \cup {r}
  /\ UNCHANGED <<loop, ret, cancelled, target, lock, sent, broken, asked, named>>

\* Mutant of ReadCancel: the check for a nil CancelFunc left out.
ReadCancelUnchecked(x) ==
  /\ loop = "scan"
  /\ target' = active[x]
  /\ loop' = "cancel"
  /\ UNCHANGED <<ret, pc, id, active, cancelled, wg, lock, sent, broken,
                 shared, asked, named>>

\* handleNotification looks the id up under mu and lets go of mu ...
ReadCancel(x) ==
  LET holders == {r \in Requests : Live(r) /\ id[r] = x}
  IN  /\ loop = "scan"
      /\ target' = active[x]
      /\ loop' = IF active[x] = None THEN "scan" ELSE "cancel"
      /\ asked' = asked \cup (holders \ shared)
      /\ named' = named \cup holders
      /\ UNCHANGED <<ret, pc, id, active, cancelled, wg, lock, sent, broken, shared>>

\* ... before it calls what it found.
FireCancel ==
  /\ loop = "cancel"
  /\ cancelled' = cancelled \cup {target}
  /\ target' = None
  /\ loop' = "scan"
  /\ UNCHANGED <<ret, pc, id, active, wg, lock, sent, broken, shared, asked, named>>

\* Mutant of StopReading: wg.Wait left out.
StopReadingAndReturn ==
  /\ loop = "scan"
  /\ loop' = "returned"
  /\ ret' \in {"eof", "scanError"}
  /\ UNCHANGED <<pc, id, active, cancelled, target, wg, lock, sent, broken,
                 shared, asked, named>>

\* scanner.Scan returns false: the client closed its writing end, or sent a
\* line longer than the scanner's buffer may grow.
StopReading ==
  /\ loop = "scan"
  /\ loop' = "drain"
  /\ ret' \in {"eof", "scanError"}
  /\ UNCHANGED <<pc, id, active, cancelled, target, wg, lock, sent, broken,
                 shared, asked, named>>

LoopLocksOutput ==
  /\ loop = "reply"
  /\ lock = None
  /\ lock' = Loop
  /\ loop' = "replying"
  /\ UNCHANGED <<ret, pc, id, active, cancelled, target, wg, sent, broken,
                 shared, asked, named>>

\* A failed write makes Serve return at once, without wg.Wait.
LoopWrites ==
  /\ loop = "replying"
  /\ lock' = None
  /\ \/ /\ broken
        /\ loop' = "returned"
        /\ ret' = "writeError"
     \/ /\ ~broken
        /\ loop' = "scan"
        /\ UNCHANGED ret
  /\ UNCHANGED <<pc, id, active, cancelled, target, wg, sent, broken, shared,
                 asked, named>>

WaitReturns ==
  /\ loop = "drain"
  /\ wg = {}
  /\ loop' = "returned"
  /\ UNCHANGED <<ret, pc, id, active, cancelled, target, wg, lock, sent,
                 broken, shared, asked, named>>

\* main returns, and with it every goroutine of the process stops.
Exit ==
  /\ loop = "returned"
  /\ loop' = "exited"
  /\ UNCHANGED <<ret, pc, id, active, cancelled, target, wg, lock, sent,
                 broken, shared, asked, named>>

-----------------------------------------------------------------------------
(* The goroutine of request r, in the order its deferred calls run. *)

Running == loop # "exited"

\* Mutant of Handle: unregister called at once, its defer left out.
HandleUnregistered(r) ==
  /\ Running
  /\ pc[r] = "handling"
  /\ pc' = [pc EXCEPT ![r] = "ready"]
  /\ active' = [active EXCEPT ![id[r]] = None]
  /\ UNCHANGED <<loop, ret, id, cancelled, target, wg, lock, sent, broken,
                 shared, asked, named>>

Handle(r) ==
  /\ Running
  /\ pc[r] = "handling"
  /\ pc' = [pc EXCEPT ![r] = "ready"]
  /\ UNCHANGED <<loop, ret, id, active, cancelled, target, wg, lock, sent,
                 broken, shared, asked, named>>

\* Mutant of LockOutput: the output is written without the lock.
TakeOutput(r) ==
  /\ Running
  /\ pc[r] = "ready"
  /\ lock' = r
  /\ pc' = [pc EXCEPT ![r] = "writing"]
  /\ UNCHANGED <<loop, ret, id, active, cancelled, target, wg, sent, broken,
                 shared, asked, named>>

LockOutput(r) ==
  /\ Running
  /\ pc[r] = "ready"
  /\ lock = None
  /\ lock' = r
  /\ pc' = [pc EXCEPT ![r] = "writing"]
  /\ UNCHANGED <<loop, ret, id, active, cancelled, target, wg, sent, broken,
                 shared, asked, named>>

\* Mutant of Write: the lock is kept when the write fails.
WriteKeepsLock(r) ==
  /\ Running
  /\ pc[r] = "writing"
  /\ lock' = IF broken THEN lock ELSE None
  /\ pc' = [pc EXCEPT ![r] = "written"]
  /\ sent' = IF broken THEN sent ELSE [sent EXCEPT ![r] = @ + 1]
  /\ UNCHANGED <<loop, ret, id, active, cancelled, target, wg, broken, shared,
                 asked, named>>

\* The goroutine ignores a failed write.
Write(r) ==
  /\ Running
  /\ pc[r] = "writing"
  /\ lock' = None
  /\ pc' = [pc EXCEPT ![r] = "written"]
  /\ sent' = IF broken THEN sent ELSE [sent EXCEPT ![r] = @ + 1]
  /\ UNCHANGED <<loop, ret, id, active, cancelled, target, wg, broken, shared,
                 asked, named>>

\* Mutant of Unregister: the entry stays in the table.
UnregisterNothing(r) ==
  /\ Running
  /\ pc[r] = "written"
  /\ pc' = [pc EXCEPT ![r] = "leaving"]
  /\ UNCHANGED <<loop, ret, id, active, cancelled, target, wg, lock, sent,
                 broken, shared, asked, named>>

\* delete by id, whoever holds the entry by now.
Unregister(r) ==
  /\ Running
  /\ pc[r] = "written"
  /\ active' = [active EXCEPT ![id[r]] = None]
  /\ pc' = [pc EXCEPT ![r] = "leaving"]
  /\ UNCHANGED <<loop, ret, id, cancelled, target, wg, lock, sent, broken,
                 shared, asked, named>>

\* Mutant of Done: wg.Done left out.
DoneUncounted(r) ==
  /\ Running
  /\ pc[r] = "leaving"
  /\ pc' = [pc EXCEPT ![r] = "done"]
  /\ UNCHANGED <<loop, ret, id, active, cancelled, target, wg, lock, sent,
                 broken, shared, asked, named>>

Done(r) ==
  /\ Running
  /\ pc[r] = "leaving"
  /\ wg' = wg \ {r}
  /\ pc' = [pc EXCEPT ![r] = "done"]
  /\ UNCHANGED <<loop, ret, id, active, cancelled, target, lock, sent, broken,
                 shared, asked, named>>

-----------------------------------------------------------------------------

\* A write to a standard output that nobody reads kills a Unix process by SIGPIPE,
\* the loop's and a goroutine's alike; on other systems, and for a writer that is
\* not standard output, it returns an error (LoopWrites and Write).
Sigpipe ==
  /\ Running
  /\ broken
  /\ loop = "replying" \/ \E r \in Requests : pc[r] = "writing"
  /\ loop' = "exited"
  /\ ret' = "killed"
  /\ UNCHANGED <<pc, id, active, cancelled, target, wg, lock, sent, broken,
                 shared, asked, named>>

\* The client stops reading.
Disconnect ==
  /\ Running
  /\ ~broken
  /\ broken' = TRUE
  /\ UNCHANGED <<loop, ret, pc, id, active, cancelled, target, wg, lock, sent,
                 shared, asked, named>>

\* The process is over: the only state with no further step.
Finished == loop = "exited" /\ UNCHANGED vars

LoopStep ==
  \/ ReadMalformed
  \/ \E r \in Requests, x \in Ids : ReadRequest(r, x)
  \/ \E x \in Ids : ReadCancel(x)
  \/ FireCancel
  \/ StopReading
  \/ LoopLocksOutput
  \/ LoopWrites
  \/ WaitReturns
  \/ Exit

RequestStep(r) ==
  Handle(r) \/ LockOutput(r) \/ Write(r) \/ Unregister(r) \/ Done(r)

Next ==
  \/ LoopStep
  \/ \E r \in Requests : RequestStep(r)
  \/ Sigpipe
  \/ Disconnect
  \/ Finished

\* handle() ends because service.Extract runs under a timeout.  A Write ends if the
\* client reads or hangs up, which is assumed of it, for no write has a deadline
\* (server.go:85); nothing else is assumed of the client.  A sync.Mutex is
\* starvation free (a waiter that loses for 1ms is served next), so waiting for the
\* lock is strongly fair.
Fairness ==
  /\ \A r \in Requests :
       /\ WF_vars(Handle(r))
       /\ SF_vars(LockOutput(r))
       /\ WF_vars(Write(r))
       /\ WF_vars(Unregister(r))
       /\ WF_vars(Done(r))
  /\ WF_vars(FireCancel)
  /\ SF_vars(LoopLocksOutput)
  /\ WF_vars(LoopWrites)
  /\ WF_vars(WaitReturns)
  /\ WF_vars(Exit)

SafeSpec == Init /\ [][Next]_vars
Spec == SafeSpec /\ Fairness

-----------------------------------------------------------------------------
(* Safety. *)

\* Two frames are never interleaved on the output: at most one thread is inside
\* Encode (server.go:82-86), the loop's own error replies included.
FramesIntact ==
  /\ \A r, q \in Requests : pc[r] = "writing" /\ pc[q] = "writing" => r = q
  /\ \A r \in Requests : pc[r] = "writing" => loop # "replying"

\* The table never keeps a CancelFunc beyond the life of its request, and never
\* under an id other than the request's own (server.go:88-98), even when the
\* client uses an id again while the first request is still being written.
TableSound ==
  \A x \in Ids : active[x] # None => Live(active[x]) /\ id[active[x]] = x

\* A cancellation reaches the request it names and no other.  Once the loop is
\* past it, every request that was registered under the id when the line was
\* read has been cancelled, unless its life overlapped that of another request
\* with the same id or the process was killed; and nothing is cancelled that was
\* not registered under a cancelled id at that moment: a later request that takes
\* the id is safe, although the function is called after mu was released
\* (server.go:110-115).
CancelIsExact ==
  /\ loop # "cancel" /\ ret # "killed" => asked \subseteq cancelled
  /\ cancelled \subseteq named

\* When Serve stops because its input ended, no goroutine is left, no entry is
\* left in the table, and every accepted request has its one whole response on
\* the output unless the client hung up; Serve returns, or its process dies, earlier
\* than that only when the client hung up (server.go:50-59, 78-79).
CleanReturn ==
  loop \in {"returned", "exited"} =>
    \/ ret \in {"writeError", "killed"} /\ broken
    \/ /\ \A x \in Ids : active[x] = None
       /\ \A r \in Requests :
            \/ pc[r] = "none"
            \/ pc[r] = "done" /\ (broken \/ sent[r] = 1)

-----------------------------------------------------------------------------
(* Refinement: the server is a session in the sense of RpcSession. *)

\* Settled, for better or worse.
Over(r) == loop = "exited" \/ pc[r] \in {"written", "leaving", "done"}

Phase(r) ==
  CASE pc[r] = "none" -> "unseen"
    [] pc[r] # "none" /\ sent[r] = 0 -> IF Over(r) THEN "lost" ELSE "pending"
    [] pc[r] # "none" /\ sent[r] = 1 -> "answered"
    [] OTHER -> "answered twice"

Session == INSTANCE RpcSession WITH
  phase   <- [r \in Requests |-> Phase(r)],
  link    <- IF broken THEN "down" ELSE "up",
  session <- CASE loop \in {"returned", "exited"} -> "closed"
               [] loop = "drain" -> "draining"
               [] OTHER -> "open"

\* Each accepted request is settled at most once, is given up only after the
\* client hung up, and the session closes in good order (server.go:43-80).
SettlesSafely == Session!SessionSafeSpec

\* ... and every accepted request is settled and a session that stopped
\* reading is closed.
ImplementsSession == Session!SessionSpec

-----------------------------------------------------------------------------
(* Liveness. *)

\* An accepted request runs to its end: its goroutine leaves the table and the
\* WaitGroup, whatever the client sends meanwhile and whether or not its
\* response could be written; or the process ended after the client hung up.
RequestsEnd ==
  \A r \in Requests :
    pc[r] = "handling" ~> (pc[r] = "done" \/ (broken /\ loop = "exited"))

\* Once the input has ended the process ends, however many requests are in
\* flight and whether or not the client still reads (server.go:78-79).
ShutdownCompletes == loop = "drain" ~> loop = "exited"
=============================================================================
