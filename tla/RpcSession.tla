----------------------------- MODULE RpcSession -----------------------------
(***************************************************************************)
(* What one MCP session promises its client, with no thread, lock or table *)
(* in sight: a request that was accepted is settled exactly once; it gets  *)
(* its response unless the client's end of the connection went away; and   *)
(* the session closes in good order only after every accepted request has  *)
(* been settled.  McpServer is shown to implement this specification.      *)
(***************************************************************************)

CONSTANT Requests       \* the requests the session may accept

VARIABLES
  phase,                \* request -> "unseen" | "pending" | "answered" | "lost"
  link,                 \* the client's reading end: "up" | "down"
  session               \* "open" | "draining" | "closed"

sessionVars == <<phase, link, session>>

Pending == {r \in Requests : phase[r] = "pending"}

-----------------------------------------------------------------------------

SessionInit ==
  /\ phase = [r \in Requests |-> "unseen"]
  /\ link = "up"
  /\ session = "open"

Accept(r) ==
  /\ session = "open"
  /\ phase[r] = "unseen"
  /\ phase' = [phase EXCEPT ![r] = "pending"]
  /\ UNCHANGED <<link, session>>

Answer(r) ==
  /\ link = "up"
  /\ phase[r] = "pending"
  /\ phase' = [phase EXCEPT ![r] = "answered"]
  /\ UNCHANGED <<link, session>>

\* Requests are given up only when nobody is left to read their responses.
Lose(R) ==
  /\ link = "down"
  /\ R # {}
  /\ R \subseteq Pending
  /\ phase' = [r \in Requests |-> IF r \in R THEN "lost" ELSE phase[r]]
  /\ UNCHANGED <<link, session>>

HangUp ==
  /\ link = "up"
  /\ link' = "down"
  /\ UNCHANGED <<phase, session>>

EndOfRequests ==
  /\ session = "open"
  /\ session' = "draining"
  /\ UNCHANGED <<phase, link>>

\* In good order from "draining" with nothing pending; at any moment once the
\* client is gone.
Close ==
  /\ \/ session = "draining" /\ Pending = {}
     \/ session = "open" /\ link = "down"
  /\ session' = "closed"
  /\ UNCHANGED <<phase, link>>

\* The process on the other side dies, once the client is gone.
Die ==
  /\ link = "down"
  /\ session' = "closed"
  /\ phase' = [r \in Requests |-> IF r \in Pending THEN "lost" ELSE phase[r]]
  /\ UNCHANGED link

Settle(r) == Answer(r) \/ \E R \in SUBSET Pending : r \in R /\ Lose(R)

SessionNext ==
  \/ \E r \in Requests : Accept(r) \/ Answer(r)
  \/ \E R \in SUBSET Pending : Lose(R)
  \/ HangUp
  \/ EndOfRequests
  \/ Close
  \/ Die

\* The server owes progress on what it accepted and on a session it is closing.
SessionFairness ==
  /\ \A r \in Requests : WF_sessionVars(Settle(r))
  /\ WF_sessionVars(session = "draining" /\ Close)

SessionSafeSpec == SessionInit /\ [][SessionNext]_sessionVars
SessionSpec == SessionSafeSpec /\ SessionFairness
=============================================================================
