---------------------------- MODULE SignedReceipt ----------------------------
(***************************************************************************)
(* What a receipt says and when the server believes it (signed-receipt.ts, *)
(* receipt-typed-data.ts), while everything around it may be changed: the  *)
(* server is restarted with another network, recipient or price over the   *)
(* same database, the Agent Payer is run with another account, network or  *)
(* policy over the same session, the wallet of a page is switched to       *)
(* another account or network, and any other client may sign what it likes.*)
(* Transport, encryption and the races of settlements are left to          *)
(* PrivateExchange and PaidServer: a receipt is settled in one step here,  *)
(* or turned away.                                                         *)
(***************************************************************************)
EXTENDS FiniteSets, Naturals

CONSTANTS Invoice, NoInvoice,
          Tx, NoTx,         \* Starknet transactions
          Account, NoAccount,
          Network,          \* starknet:SN_SEPOLIA, starknet:SN_MAIN
          ServerConfig,     \* what .env.server may say
          AgentConfig,      \* what .env.payer may say
          Selection,        \* the account and network a wallet may be set to
          Agent,            \* the Agent Payer
          Page,             \* pages that pay with a wallet
          Other,            \* other clients of the server
          OtherAccount      \* what they sign with

\* A configuration names a network and an RPC node, which is of one network too; a
\* wallet is set to an account and a network.
ASSUME ConfigAssumption ==
  /\ \A s \in ServerConfig :
       {s.network, s.rpc} \subseteq Network /\ s.amount \in Nat \ {0}
  /\ \A a \in AgentConfig :
       /\ {a.network, a.rpc} \subseteq Network /\ a.max \in Nat
       /\ a.account \in Account \ {OtherAccount}
  /\ Selection \subseteq [account : Account \ {OtherAccount}, network : Network]
  /\ OtherAccount \in Account
ASSUME NameAssumption ==
  /\ Agent \notin Page \cup Other /\ Page \cap Other = {}
  /\ NoInvoice \notin Invoice /\ NoTx \notin Tx /\ NoAccount \notin Account

Client == {Agent} \cup Page \cup Other

Recipient == {s.recipient : s \in ServerConfig}

VARIABLES server,     \* the configuration of the running server
          invoices,   \* requirements of the issued invoices, as stored
          transfers,  \* the payments on chain
          claims,     \* payment_claims
          agent,      \* the configuration the Agent Payer is run with
          wallet,     \* the account and network selected in each connected wallet
          connected,  \* the address a page got when it connected its wallet
          clients,    \* what each client holds of its payment
          moved       \* history: who has another account or network since
                      \* connecting (a page) or paying (the Agent)

vars == <<server, invoices, transfers, claims, agent, wallet, connected, clients, moved>>
-----------------------------------------------------------------------------
(* Terms, messages, receipts. *)

Terms == [invoice : Invoice, network : Network, recipient : Recipient, amount : Nat]

NoTerms == [invoice |-> NoInvoice]

\* createPrivatePaymentRequired.
Requirements(i, s) ==
  [invoice |-> i, network |-> s.network, recipient |-> s.recipient, amount |-> s.amount]

\* buildReceiptTypedData: the domain names the chain, the message the invoice, the
\* transaction and the terms.  The expiry and the token go with the invoice.
TypedData(terms, t) == [terms |-> terms, tx |-> t]

NoTransfer == [payer |-> NoAccount]

\* Of a wallet that is not connected nothing matters.
NoSelection == [account |-> NoAccount]

Transfer(network, payer, terms) ==
  [network |-> network, payer |-> payer,
   recipient |-> terms.recipient, amount |-> terms.amount]

\* findPayment and isFinal of a server configured as s: a payment to its recipient
\* that its node knows.
Evident(t, s) ==
  /\ transfers[t] # NoTransfer
  /\ transfers[t].network = s.rpc /\ transfers[t].recipient = s.recipient

\* What the signer of a client's receipt has signed: the terms the client holds.
Message(c) == TypedData(clients[c].terms, clients[c].tx)

\* verifyMessageInStarknet, for the receipt of client c and another message.
Signed(c, message) == clients[c].signer = clients[c].payer /\ Message(c) = message

\* Mutation: who paid is not compared with who signed.
VerifiesAnyPayer(c, terms) ==
  LET t == clients[c].tx IN
  /\ terms.network = server.network
  /\ Signed(c, TypedData(terms, t))
  /\ Evident(t, server)
  /\ transfers[t].recipient = terms.recipient /\ transfers[t].amount = terms.amount

\* PrivateExactFacilitator.verify, registered for the network of the server, on the
\* receipt of client c.
Verifies(c, terms) ==
  LET t == clients[c].tx IN
  /\ terms.network = server.network
  /\ Signed(c, TypedData(terms, t))
  /\ Evident(t, server)
  /\ transfers[t].payer = clients[c].payer
  /\ transfers[t].recipient = terms.recipient /\ transfers[t].amount = terms.amount

\* Mutation: the terms are built again from the options of the running server.
TermsOfOptions(i) == Requirements(i, server)

\* The requirements the handler settles against: the stored ones.
TermsOf(i) == invoices[i]

\* consume: one transaction for an invoice and one invoice for a transaction.
Claimable(i, t) == claims[i] = t \/ (claims[i] = NoTx /\ \A j \in Invoice : claims[j] # t)
-----------------------------------------------------------------------------
Nothing == [pc |-> "idle", terms |-> NoTerms, tx |-> NoTx,
            payer |-> NoAccount, signer |-> NoAccount]

TypeOK ==
  /\ server \in ServerConfig /\ agent \in AgentConfig
  /\ invoices \in [Invoice -> Terms \cup {NoTerms}]
  /\ \A i \in Invoice : invoices[i] # NoTerms => invoices[i].invoice = i
  /\ transfers \in [Tx -> {NoTransfer} \cup
       [network : Network, payer : Account, recipient : Recipient, amount : Nat]]
  /\ claims \in [Invoice -> Tx \cup {NoTx}]
  /\ \A i, j \in Invoice : claims[i] = claims[j] /\ i # j => claims[i] = NoTx
  /\ wallet \in [Page -> Selection \cup {NoSelection}]
  /\ connected \in [Page -> Account \cup {NoAccount}]
  /\ clients \in [Client -> [pc : {"idle", "challenged", "paid", "signed"},
                             terms : Terms \cup {NoTerms}, tx : Tx \cup {NoTx},
                             payer : Account \cup {NoAccount},
                             signer : Account \cup {NoAccount}]]
  /\ \A c \in Client : clients[c].pc # "idle" =>
       clients[c].terms = invoices[clients[c].terms.invoice]
  /\ moved \subseteq Client

\* assertExpectedChainId.
Starts(s) == s.rpc = s.network

Init ==
  /\ server \in {s \in ServerConfig : Starts(s)} /\ agent \in AgentConfig
  /\ invoices = [i \in Invoice |-> NoTerms]
  /\ transfers = [t \in Tx |-> NoTransfer]
  /\ claims = [i \in Invoice |-> NoTx]
  /\ wallet = [p \in Page |-> NoSelection]
  /\ connected = [p \in Page |-> NoAccount]
  /\ clients = [c \in Client |-> Nothing]
  /\ moved = {}
-----------------------------------------------------------------------------
(* The server. *)

At(c, pc) == clients[c].pc = pc

\* Mutation: the stored terms are rebuilt at every start.
RestartServerRebuilding ==
  /\ server' \in {s \in ServerConfig : Starts(s)}
  /\ invoices' = [i \in Invoice |-> IF invoices[i] = NoTerms THEN NoTerms
                                   ELSE Requirements(i, server')]
  /\ UNCHANGED <<transfers, claims, agent, wallet, connected, clients, moved>>

\* Another .env.server over the same database.
RestartServer ==
  /\ server' \in {s \in ServerConfig : Starts(s)}
  /\ UNCHANGED <<invoices, transfers, claims, agent, wallet, connected, clients, moved>>

\* A client asks and is challenged; a page does only when it is connected.  Invoice
\* ids are random: no other client learns i, and which id is taken does not matter.
Challenge(c, i) ==
  /\ At(c, "idle")
  /\ invoices[i] = NoTerms /\ i = CHOOSE j \in Invoice : invoices[j] = NoTerms
  /\ c \in Page => connected[c] # NoAccount
  /\ invoices' = [invoices EXCEPT ![i] = Requirements(i, server)]
  /\ clients' = [clients EXCEPT ![c].pc = "challenged", ![c].terms = Requirements(i, server)]
  /\ UNCHANGED <<server, transfers, claims, agent, wallet, connected, moved>>

\* Mutation: a refused receipt ends the session of the Agent.
RefusedForAll(c) == Nothing

\* What is left of a refused receipt: the session and the journal of the Agent, the
\* invoice of another client, and nothing of a page.
Refused(c) ==
  IF c \in Page THEN Nothing
  ELSE [clients[c] EXCEPT !.pc = IF c = Agent THEN "paid" ELSE "challenged",
                          !.payer = NoAccount, !.signer = NoAccount]

\* The receipt is presented and settled, or refused.
Present(c) ==
  LET i == clients[c].terms.invoice
      accepted == Verifies(c, TermsOf(i)) /\ Claimable(i, clients[c].tx)
  IN /\ At(c, "signed")
     /\ claims' = IF accepted THEN [claims EXCEPT ![i] = clients[c].tx] ELSE claims
     /\ clients' = [clients EXCEPT ![c] = IF accepted THEN Nothing ELSE Refused(c)]
     /\ moved' = IF accepted THEN moved \ ({c} \cap {Agent}) ELSE moved
     /\ UNCHANGED <<server, invoices, transfers, agent, wallet, connected>>
\* The receipt is refused whatever it says: the invoice expired before it was bound
\* or claimed (then for good, it is pruned), another settlement holds it, or a
\* provider failed.  When this happens PaidServer tells; here it may at any time.
TurnedAway(c) ==
  /\ At(c, "signed")
  /\ clients' = [clients EXCEPT ![c] = Refused(c)]
  /\ UNCHANGED <<server, invoices, transfers, claims, agent, wallet, connected, moved>>
-----------------------------------------------------------------------------
(* The Agent Payer. *)

\* Another .env.payer over the same state, between two runs.
ReconfigureAgent ==
  /\ ~At(Agent, "signed")
  /\ agent' \in AgentConfig
  /\ moved' = IF At(Agent, "paid") /\ agent'.account # agent.account
              THEN moved \cup {Agent} ELSE moved
  /\ UNCHANGED <<server, invoices, transfers, claims, wallet, connected, clients>>

\* Mutation: the network of the terms is not compared with the configured one.
AllowsAnyNetwork(a, terms) == terms.recipient = a.expected /\ terms.amount <= a.max

\* The checks of createReceipt, made before a payment and again before each receipt.
Allows(a, terms) ==
  terms.network = a.network /\ terms.recipient = a.expected /\ terms.amount <= a.max

Paid(c, t, network, account) ==
  /\ transfers[t] = NoTransfer /\ t = CHOOSE u \in Tx : transfers[u] = NoTransfer
  /\ transfers' = [transfers EXCEPT ![t] = Transfer(network, account, clients[c].terms)]
  /\ clients' = [clients EXCEPT ![c].pc = "paid", ![c].tx = t]

\* The chain of the node is compared with the network first.
AgentPay(t) ==
  /\ At(Agent, "challenged")
  /\ Allows(agent, clients[Agent].terms) /\ agent.rpc = agent.network
  /\ Paid(Agent, t, agent.rpc, agent.account)
  /\ UNCHANGED <<server, invoices, claims, agent, wallet, connected, moved>>

SignedBy(c, payer, signer) ==
  clients' = [clients EXCEPT ![c].pc = "signed", ![c].payer = payer, ![c].signer = signer]

\* finishReceipt: the node has to know the transaction; the account of now signs.
AgentSign ==
  /\ At(Agent, "paid")
  /\ Allows(agent, clients[Agent].terms)
  /\ transfers[clients[Agent].tx].network = agent.rpc
  /\ SignedBy(Agent, agent.account, agent.account)
  /\ UNCHANGED <<server, invoices, transfers, claims, agent, wallet, connected, moved>>

\* The process dies with its receipt.
AgentDie ==
  /\ At(Agent, "signed")
  /\ clients' = [clients EXCEPT ![Agent] = Refused(Agent)]
  /\ UNCHANGED <<server, invoices, transfers, claims, agent, wallet, connected, moved>>
-----------------------------------------------------------------------------
(* Pages. *)

\* The user selects another account or network in the wallet.
SwitchWallet(p) ==
  /\ connected[p] # NoAccount
  /\ \E w \in Selection : w # wallet[p] /\ wallet' = [wallet EXCEPT ![p] = w]
  /\ moved' = moved \cup {p}
  /\ UNCHANGED <<server, invoices, transfers, claims, agent, connected, clients>>

\* The buttons are disabled while a payment is under way.  Bound: a page connects if
\* there is an invoice left to pay.
Connect(p) ==
  /\ At(p, "idle") /\ connected[p] = NoAccount
  /\ \E i \in Invoice : invoices[i] = NoTerms
  /\ \E w \in Selection : /\ wallet' = [wallet EXCEPT ![p] = w]
                         /\ connected' = [connected EXCEPT ![p] = w.account]
  /\ UNCHANGED <<server, invoices, transfers, claims, agent, clients, moved>>

Disconnect(p) ==
  /\ At(p, "idle") /\ connected[p] # NoAccount
  /\ connected' = [connected EXCEPT ![p] = NoAccount]
  /\ wallet' = [wallet EXCEPT ![p] = NoSelection]
  /\ moved' = moved \ {p}
  /\ UNCHANGED <<server, invoices, transfers, claims, agent, clients>>

\* strk20InvokeTransaction: the wallet pays from what is selected in it.  Only the
\* token of the terms has been looked at.
PagePay(p, t) ==
  /\ At(p, "challenged")
  /\ Paid(p, t, wallet[p].network, wallet[p].account)
  /\ UNCHANGED <<server, invoices, claims, agent, wallet, connected, moved>>

\* The selected account signs; the receipt names the one of the connection.
PageSign(p) ==
  /\ At(p, "paid")
  /\ SignedBy(p, connected[p], wallet[p].account)
  /\ UNCHANGED <<server, invoices, transfers, claims, agent, wallet, connected, moved>>

\* The payment fails or is declined, or the page is closed: all is forgotten.
PageGone(p) ==
  /\ ~At(p, "idle")
  /\ clients' = [clients EXCEPT ![p] = Nothing]
  /\ UNCHANGED <<server, invoices, transfers, claims, agent, wallet, connected, moved>>
-----------------------------------------------------------------------------
(* Other clients sign for their invoice whatever transaction they have heard of. *)

OtherSign(o, t) ==
  /\ At(o, "challenged") /\ transfers[t] # NoTransfer
  /\ clients' = [clients EXCEPT ![o].pc = "signed", ![o].tx = t,
                                ![o].payer = OtherAccount, ![o].signer = OtherAccount]
  /\ UNCHANGED <<server, invoices, transfers, claims, agent, wallet, connected, moved>>

Next ==
  \/ RestartServer \/ ReconfigureAgent
  \/ \E c \in Client, i \in Invoice : Challenge(c, i)
  \/ \E c \in Client : Present(c) \/ TurnedAway(c)
  \/ \E t \in Tx : AgentPay(t)
  \/ AgentSign \/ AgentDie
  \/ \E p \in Page : SwitchWallet(p) \/ Connect(p) \/ Disconnect(p)
                     \/ PageSign(p) \/ PageGone(p)
  \/ \E p \in Page, t \in Tx : PagePay(p, t)
  \/ \E o \in Other, t \in Tx : OtherSign(o, t)

Spec == Init /\ [][Next]_vars

\* The caller runs the payer again and again, as it is configured now.  Nothing is
\* assumed of the server, which may refuse every receipt.
Fairness == SF_vars(AgentSign)

FairSpec == Spec /\ Fairness
-----------------------------------------------------------------------------
(* Properties *)

Pays(transfer, terms) ==
  /\ transfer # NoTransfer
  /\ transfer.network = terms.network
  /\ transfer.recipient = terms.recipient /\ transfer.amount = terms.amount

\* An invoice is claimed only by a payment of what it asked for when it was issued,
\* on the network it named, and only for a client that holds this invoice and signs
\* with the account that paid, whatever the server is configured with by then.
ClaimIsItsPayersPayment ==
  [][\A i \in Invoice : claims'[i] # claims[i] =>
       /\ Pays(transfers[claims'[i]], invoices[i])
       /\ \E c \in Client : /\ Message(c) = TypedData(invoices[i], claims'[i])
                            /\ clients[c].signer = transfers[claims'[i]].payer]_vars

\* The server is the one that issued the terms, at any price.
Serves(terms) == server.network = terms.network /\ server.recipient = terms.recipient

\* Receipts keep the promise of ClaimedPayment: whoever presents what, and whatever is
\* reconfigured, an invoice is issued, a payment is made, or one claims the other.
Promise == INSTANCE ClaimedPayment WITH
  Payments <- [network : Network, payer : Account, recipient : Recipient, amount : Nat]

ClaimPromise == Promise!Spec

\* A payer that paid and signed with one account is believed: by a server that asks
\* another price by now, of an Agent that was given another policy meanwhile, and
\* of a page if its wallet was on the network of the terms when it was connected
\* and was left alone since.
ReceiptVerifies ==
  \A c \in {Agent} \cup Page :
    LET terms == clients[c].terms IN
    At(c, "signed") /\ c \notin moved /\ Serves(terms)
        /\ (c \in Page => wallet[c].network = terms.network)
      => Verifies(c, TermsOf(terms.invoice))

\* The server serves the invoice that the Agent holds, and the Agent is run as it
\* was when it paid.
Restored ==
  LET terms == clients[Agent].terms  t == clients[Agent].tx IN
  t # NoTx => /\ Serves(terms) /\ Allows(agent, terms)
              /\ agent.account = transfers[t].payer /\ agent.rpc = transfers[t].network

\* What the Agent has paid it comes to present, again and again until it is claimed,
\* with a receipt that the server verifies and that nothing claimed stands against,
\* once both sides are for good what they were in network, recipient, account and
\* policy: no change before that spoils the receipt.  It may be turned away all the
\* same: an invoice that expired unbound meanwhile is lost with its payment.
PaidEventuallyBelieved ==
  <>[]Restored => \A i \in Invoice :
    (At(Agent, "paid") /\ clients[Agent].terms.invoice = i ~>
       \/ claims[i] # NoTx
       \/ /\ At(Agent, "signed") /\ clients[Agent].terms.invoice = i
          /\ Verifies(Agent, TermsOf(i)) /\ Claimable(i, clients[Agent].tx))
=============================================================================
