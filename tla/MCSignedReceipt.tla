--------------------------- MODULE MCSignedReceipt ---------------------------
(* A small instance of SignedReceipt for TLC. *)
EXTENDS SignedReceipt

CONSTANTS sepolia, main, ours, theirs, alice, bob

\* The price is raised; network and recipient are changed;
\* a node of another network, with which the server does not start.
MCServerConfig ==
  {[network |-> sepolia, rpc |-> sepolia, recipient |-> ours, amount |-> 1],
   [network |-> sepolia, rpc |-> sepolia, recipient |-> ours, amount |-> 2],
   [network |-> main, rpc |-> main, recipient |-> theirs, amount |-> 1],
   [network |-> main, rpc |-> sepolia, recipient |-> ours, amount |-> 1]}

\* A page's wallet is switched to another account or network.
MCSelection ==
  {[account |-> alice, network |-> sepolia], [account |-> bob, network |-> sepolia],
   [account |-> alice, network |-> main]}

\* Another account and a lower limit; the other network; a node of the other network.
MCAgentConfig ==
  {[network |-> sepolia, rpc |-> sepolia, account |-> alice, expected |-> ours, max |-> 2],
   [network |-> sepolia, rpc |-> sepolia, account |-> bob, expected |-> ours, max |-> 1],
   [network |-> main, rpc |-> main, account |-> alice, expected |-> ours, max |-> 2],
   [network |-> sepolia, rpc |-> main, account |-> alice, expected |-> ours, max |-> 2]}
=============================================================================
