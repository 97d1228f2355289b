------------------------------ MODULE MutatingTool ------------------------------
(***************************************************************************)
(* defineMutatingHandler (tools/_shared/handler.js), the wrapper every     *)
(* mutating tool runs in, as the steps that the tools have in common: a    *)
(* call arrives, build() reads and refuses or works out the write, and the *)
(* wrapper then previews, refuses a wrong confirmation, or lets apply()    *)
(* write.  ShareEntity, IndexSets, PipelineRules, StreamsAndInputs and     *)
(* Events extend it; each adds the server state its tools work on.         *)
(*                                                                         *)
(* A request is one atomic step of the Graylog server, together with the   *)
(* code up to the next request.  The connection exists and is writable.    *)
(***************************************************************************)
EXTENDS Integers, FiniteSets

CONSTANTS Slots,      \* tool calls that may be in flight together
          NoRequest,  \* model value: the slot runs no call
          NothingGot, \* model value: build() has kept nothing
          MaxShown    \* bound: the tokens previews have shown

ASSUME MaxShownAssumption == MaxShown \in Nat

VARIABLES
  pc,     \* the next request of a call, or how the last one ended
  req,    \* its arguments
  got,    \* what build() has read, or the write it has worked out
  shown   \* confirmation tokens that previews have returned

callVars == <<pc, req, got, shown>>

\* An argument that may be omitted is a set.
AtMostOne(S) == \A x, y \in S : x = y

\* refused: an error before the write; done: a preview, or a write reported as
\* applied; failed: the write erred, or its answer is lost.
Ended == {"idle", "refused", "done", "failed"}

\* The arguments of a call: confirm is {} when the agent echoes no token.
Request(Ops, Tokens) == [op : Ops, dryRun : BOOLEAN, confirm : SUBSET Tokens]

CallsTypeOK(Labels, Requests, Gots, Tokens) ==
  /\ pc \in [Slots -> Labels \union Ended]
  /\ req \in [Slots -> Requests \union {NoRequest}]
  /\ got \in [Slots -> Gots \union {NothingGot}]
  /\ shown \in SUBSET Tokens
  /\ \A c \in Slots : pc[c] \notin Ended => req[c] \in Requests

CallsInit ==
  /\ pc = [c \in Slots |-> "idle"]
  /\ req = [c \in Slots |-> NoRequest]
  /\ got = [c \in Slots |-> NothingGot]
  /\ shown = {}

\* The wrapper accepts a call; the agent echoes at most one token it was shown.
Begin(c, op, first) ==
  /\ pc[c] \in Ended
  /\ \E dry \in BOOLEAN, t \in {{}} \union {{x} : x \in shown} :
       /\ dry => t = {}
       /\ req' = [req EXCEPT ![c] = [op |-> op, dryRun |-> dry, confirm |-> t]]
  /\ pc' = [pc EXCEPT ![c] = first]
  /\ UNCHANGED <<got, shown>>

End(c, how) ==
  /\ pc' = [pc EXCEPT ![c] = how]
  /\ req' = [req EXCEPT ![c] = NoRequest]
  /\ got' = [got EXCEPT ![c] = NothingGot]

\* The call returns.
Finish(c, how) == End(c, how) /\ UNCHANGED shown

\* build() goes on to its next request with what it has kept.
Continue(c, next, g) ==
  /\ pc' = [pc EXCEPT ![c] = next]
  /\ got' = [got EXCEPT ![c] = g]
  /\ UNCHANGED <<req, shown>>

\* Mutant of Gate: a confirmation that is not given is not missed.
GateUnconfirmed(c, token, next, g) ==
  \/ /\ req[c].dryRun
     /\ Cardinality(shown \union token) <= MaxShown
     /\ shown' = shown \union token
     /\ End(c, "done")
  \/ /\ ~req[c].dryRun
     /\ token # {} => req[c].confirm \subseteq token
     /\ Continue(c, next, g)
  \/ /\ ~req[c].dryRun
     /\ token # {} /\ ~(req[c].confirm \subseteq token)
     /\ Finish(c, "refused")
\* build() is done.  token is {} for a tool without requireConfirm, and otherwise
\* holds the one token it has derived; g is the write and next its request.
Gate(c, token, next, g) ==
  \/ /\ req[c].dryRun
     /\ Cardinality(shown \union token) <= MaxShown
     /\ shown' = shown \union token
     /\ End(c, "done")
  \/ /\ ~req[c].dryRun
     /\ token # {} => req[c].confirm = token
     /\ Continue(c, next, g)
  \/ /\ ~req[c].dryRun
     /\ token # {} /\ req[c].confirm # token
     /\ Finish(c, "refused")
=============================================================================
