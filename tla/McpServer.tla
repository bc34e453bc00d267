----------------------------- MODULE McpServer -----------------------------
(***************************************************************************)
(* The stdio MCP server (src/mcp/server.ts): its tool stk402_pay_resource   *)
(* runs the Agent Payer on the configured resource or on one named in the   *)
(* call.  The configuration is read from process.env, which the calls of    *)
(* one process share, in the turn in which the call arrives; what runs      *)
(* after that (AgentPayer) awaits the network, so calls overlap.            *)
(***************************************************************************)
CONSTANTS Url,          \* URLs an agent may name
          Https,        \* those loadPayerConfig takes
          Configured,   \* STK402_RESOURCE_URL when the server was started
          NoUrl,        \* the optional argument is not given
          Call          \* tool calls

VARIABLES env,     \* process.env.STK402_RESOURCE_URL
          calls    \* what each call asked for, what it pays, and how far it is

vars == <<env, calls>>

NewCall == [pc |-> "new", asked |-> NoUrl, pays |-> NoUrl]

Init == env = Configured /\ calls = [c \in Call |-> NewCall]

\* The override is stored in the environment and the configuration loaded from
\* it: a URL that is not taken is an error of this call, and stays stored.
Receive(c, u) ==
  /\ calls[c].pc = "new"
  /\ env' = IF u = NoUrl THEN env ELSE u
  /\ calls' = [calls EXCEPT ![c] = IF env' \in Https
                 THEN [pc |-> "paying", asked |-> u, pays |-> env']
                 ELSE [pc |-> "answered", asked |-> u, pays |-> NoUrl]]

\* runPayer returned its result or threw: the call is answered.
Answer(c) ==
  /\ calls[c].pc = "paying"
  /\ calls' = [calls EXCEPT ![c].pc = "answered"]
  /\ UNCHANGED env

\* The transport stays open when every call has been answered.
Next == \E c \in Call : Answer(c) \/ \E u \in Url \cup {NoUrl} : Receive(c, u)

Spec == Init /\ [][Next]_vars
-----------------------------------------------------------------------------
\* An override holds for its own call: a call that names no resource pays the
\* configured one.
OverrideIsForOneCall ==
  \A c \in Call :
    calls[c].pc # "new" /\ calls[c].asked = NoUrl => calls[c].pays = Configured
=============================================================================
