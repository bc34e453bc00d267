------------------------- MODULE SignedReceiptProofs -------------------------
(***************************************************************************)
(* Proofs about SignedReceipt, for every set of networks, accounts and     *)
(* configurations: what the server believes, and whom.                     *)
(***************************************************************************)
EXTENDS SignedReceipt, TLAPS

ClientState == [pc : {"idle", "challenged", "paid", "signed"},
                terms : Terms \cup {NoTerms}, tx : Tx \cup {NoTx},
                payer : Account \cup {NoAccount}, signer : Account \cup {NoAccount}]

Payments == [network : Network, payer : Account, recipient : Recipient, amount : Nat]

\* What the variables hold, one by one.
TypeInv ==
  /\ server \in ServerConfig /\ agent \in AgentConfig
  /\ invoices \in [Invoice -> Terms \cup {NoTerms}]
  /\ \A i \in Invoice : invoices[i] # NoTerms => invoices[i].invoice = i
  /\ transfers \in [Tx -> {NoTransfer} \cup Payments]
  /\ claims \in [Invoice -> Tx \cup {NoTx}]
  /\ wallet \in [Page -> Selection \cup {NoSelection}]
  /\ connected \in [Page -> Account \cup {NoAccount}]
  /\ clients \in [Client -> ClientState]
  /\ moved \subseteq Client

OneToOne == \A i, j \in Invoice : claims[i] = claims[j] /\ i # j => claims[i] = NoTx

\* A client that holds terms holds those of an issued invoice.
Holds(c) ==
  clients[c].pc # "idle" =>
    clients[c].terms \in Terms /\ invoices[clients[c].terms.invoice] = clients[c].terms

\* The payment of a client, from the transfer on.
PaysTerms(c) ==
  LET t == clients[c].tx  terms == clients[c].terms IN
  /\ t \in Tx /\ transfers[t] # NoTransfer
  /\ transfers[t].recipient = terms.recipient /\ transfers[t].amount = terms.amount

SignedAs(c, account) == clients[c].payer = account /\ clients[c].signer = account

AgentFits ==
  LET t == clients[Agent].tx IN
  /\ clients[Agent].pc \in {"paid", "signed"} =>
       /\ PaysTerms(Agent) /\ transfers[t].network = clients[Agent].terms.network
       /\ Agent \notin moved => transfers[t].payer = agent.account
  /\ clients[Agent].pc = "signed" => SignedAs(Agent, agent.account)

\* A page that was not moved still has the account and the network it connected
\* with, and paid and signed with them.
PageFits(p) ==
  LET t == clients[p].tx IN
  /\ connected[p] # NoAccount => wallet[p] \in Selection
  /\ clients[p].pc # "idle" => connected[p] # NoAccount
  /\ clients[p].pc \in {"paid", "signed"} => PaysTerms(p)
  /\ p \notin moved =>
       /\ connected[p] # NoAccount => wallet[p].account = connected[p]
       /\ clients[p].pc \in {"paid", "signed"} =>
            transfers[t].payer = connected[p] /\ transfers[t].network = wallet[p].network
       /\ clients[p].pc = "signed" => SignedAs(p, connected[p])

OtherFits(o) == clients[o].pc = "signed" => clients[o].tx \in Tx

ReceiptInv ==
  /\ TypeInv /\ OneToOne /\ Starts(server)
  /\ \A c \in Client : Holds(c)
  /\ AgentFits
  /\ \A p \in Page : PageFits(p)
  /\ \A o \in Other : OtherFits(o)

LEMMA NamesDiffer ==
  /\ Agent \in Client /\ Page \subseteq Client /\ Other \subseteq Client
  /\ Agent \notin Page /\ Agent \notin Other /\ Page \cap Other = {}
  /\ NoInvoice \notin Invoice /\ NoTx \notin Tx /\ NoAccount \notin Account
BY NameAssumption DEF NameAssumption, Client

LEMMA ConfigTypes ==
  /\ \A s \in ServerConfig : s.network \in Network /\ s.rpc \in Network /\ s.amount \in Nat
                             /\ s.recipient \in Recipient
  /\ \A a \in AgentConfig : a.network \in Network /\ a.rpc \in Network /\ a.account \in Account
  /\ \A w \in Selection : w.account \in Account /\ w.network \in Network
  /\ OtherAccount \in Account
BY ConfigAssumption DEF ConfigAssumption, Recipient

\* Issued terms are terms.
LEMMA TermsFacts ==
  /\ NoTerms \notin Terms
  /\ \A terms \in Terms : /\ terms.invoice \in Invoice /\ terms.network \in Network
                          /\ terms.recipient \in Recipient /\ terms.amount \in Nat
<1>1. \A terms \in Terms : /\ terms.invoice \in Invoice /\ terms.network \in Network
                           /\ terms.recipient \in Recipient /\ terms.amount \in Nat
  BY DEF Terms
<1>2. NoTerms.invoice = NoInvoice
  BY DEF NoTerms
<1> QED BY <1>1, <1>2, NamesDiffer

LEMMA RequirementsTypes ==
  ASSUME NEW i \in Invoice, NEW s \in ServerConfig
  PROVE  Requirements(i, s) \in Terms /\ Requirements(i, s).invoice = i
<1>1. /\ s.network \in Network /\ s.amount \in Nat /\ s.recipient \in Recipient
  BY ConfigTypes
<1> QED BY <1>1 DEF Requirements, Terms

LEMMA TransferTypes ==
  ASSUME NEW n \in Network, NEW a \in Account, NEW terms \in Terms
  PROVE  /\ Transfer(n, a, terms) \in Payments
         /\ Transfer(n, a, terms).network = n /\ Transfer(n, a, terms).payer = a
         /\ Transfer(n, a, terms).recipient = terms.recipient
         /\ Transfer(n, a, terms).amount = terms.amount
         /\ Transfer(n, a, terms) # NoTransfer
<1>1. terms.recipient \in Recipient /\ terms.amount \in Nat
  BY TermsFacts
<1>2. /\ Transfer(n, a, terms) \in Payments
      /\ Transfer(n, a, terms).network = n /\ Transfer(n, a, terms).payer = a
      /\ Transfer(n, a, terms).recipient = terms.recipient
      /\ Transfer(n, a, terms).amount = terms.amount
  BY <1>1 DEF Transfer, Payments
<1>3. NoTransfer.payer = NoAccount
  BY DEF NoTransfer
<1> QED BY <1>2, <1>3, NamesDiffer

LEMMA ClientTypes ==
  ASSUME TypeInv, NEW c \in Client
  PROVE  /\ clients[c] \in ClientState
         /\ clients[c].pc \in {"idle", "challenged", "paid", "signed"}
         /\ clients[c].terms \in Terms \cup {NoTerms} /\ clients[c].tx \in Tx \cup {NoTx}
         /\ clients[c].payer \in Account \cup {NoAccount}
         /\ clients[c].signer \in Account \cup {NoAccount}
BY DEF TypeInv, ClientState

LEMMA NothingTypes == Nothing \in ClientState /\ Nothing.pc = "idle"
BY DEF Nothing, ClientState

\* Giving one client a new record.
LEMMA OneRecord ==
  ASSUME TypeInv, NEW c \in Client, NEW new \in ClientState,
         clients' = [clients EXCEPT ![c] = new]
  PROVE  /\ clients' \in [Client -> ClientState] /\ clients'[c] = new
         /\ \A d \in Client \ {c} : clients'[d] = clients[d]
BY DEF TypeInv
-----------------------------------------------------------------------------
(* Clients that a step does not move. *)

\* Issued invoices and payments stay.
Grows ==
  /\ \A i \in Invoice : invoices[i] # NoTerms => invoices'[i] = invoices[i]
  /\ \A t \in Tx : transfers[t] # NoTransfer => transfers'[t] = transfers[t]

LEMMA HoldsStays ==
  ASSUME Grows, NEW c \in Client, clients'[c] = clients[c], Holds(c) PROVE Holds(c)'
BY TermsFacts DEF Grows, Holds

LEMMA PaysStays ==
  ASSUME Grows, NEW c \in Client, PaysTerms(c), clients'[c].tx = clients[c].tx,
         clients'[c].terms = clients[c].terms
  PROVE  PaysTerms(c)' /\ transfers'[clients'[c].tx] = transfers[clients[c].tx]
BY DEF Grows, PaysTerms

LEMMA AgentStays ==
  ASSUME Grows, clients'[Agent] = clients[Agent], agent' = agent,
         Agent \in moved' <=> Agent \in moved, AgentFits
  PROVE  AgentFits'
<1>1. Agent \in Client
  BY NamesDiffer
<1> QED BY <1>1, PaysStays DEF AgentFits, SignedAs

LEMMA PageStays ==
  ASSUME Grows, NEW p \in Page, clients'[p] = clients[p], wallet'[p] = wallet[p],
         connected'[p] = connected[p], p \in moved' <=> p \in moved, PageFits(p)
  PROVE  PageFits(p)'
<1>1. p \in Client
  BY NamesDiffer
<1>2. clients[p].pc \in {"paid", "signed"} =>
        PaysTerms(p)' /\ transfers'[clients'[p].tx] = transfers[clients[p].tx]
  BY <1>1, PaysStays DEF PageFits
<1> QED BY <1>2 DEF PageFits, SignedAs

LEMMA OtherStays ==
  ASSUME NEW o \in Other, clients'[o] = clients[o], OtherFits(o) PROVE OtherFits(o)'
BY DEF OtherFits

\* A step of one client that keeps the rest as it is.
LEMMA OneMoves ==
  ASSUME ReceiptInv, NEW c \in Client, Grows, TypeInv', OneToOne', Starts(server'),
         \A d \in Client \ {c} : clients'[d] = clients[d],
         \A d \in Client \ {c} : d \in moved' <=> d \in moved,
         \A p \in Page \ {c} : wallet'[p] = wallet[p] /\ connected'[p] = connected[p],
         Holds(c)', c = Agent => AgentFits', c \in Page => PageFits(c)',
         c \in Other => OtherFits(c)',
         agent' = agent
  PROVE  ReceiptInv'
<1>1. \A d \in Client : Holds(d)'
  BY HoldsStays DEF ReceiptInv
<1>2. AgentFits'
  BY AgentStays, NamesDiffer DEF ReceiptInv
<1>3. \A p \in Page : PageFits(p)'
  BY PageStays, NamesDiffer DEF ReceiptInv
<1>4. \A o \in Other : OtherFits(o)'
  BY OtherStays, NamesDiffer DEF ReceiptInv
<1> QED BY <1>1, <1>2, <1>3, <1>4 DEF ReceiptInv
-----------------------------------------------------------------------------
(* One step. *)

\* What a client that changes places is given.
LEMMA Given ==
  ASSUME TypeInv, NEW c \in Client
  PROVE  /\ \A payer, signer \in Account :
              LET new == [clients[c] EXCEPT !.pc = "signed", !.payer = payer,
                                            !.signer = signer]
              IN  /\ new \in ClientState /\ new.pc = "signed" /\ new.payer = payer
                  /\ new.signer = signer /\ new.terms = clients[c].terms
                  /\ new.tx = clients[c].tx
         /\ \A t \in Tx :
              LET new == [clients[c] EXCEPT !.pc = "paid", !.tx = t]
              IN  /\ new \in ClientState /\ new.pc = "paid" /\ new.tx = t
                  /\ new.terms = clients[c].terms
         /\ \A pc \in {"paid", "challenged"} :
              LET new == [clients[c] EXCEPT !.pc = pc, !.payer = NoAccount,
                                            !.signer = NoAccount]
              IN  /\ new \in ClientState /\ new.pc = pc /\ new.terms = clients[c].terms
                  /\ new.tx = clients[c].tx
         /\ \A terms \in Terms :
              LET new == [clients[c] EXCEPT !.pc = "challenged", !.terms = terms]
              IN  new \in ClientState /\ new.pc = "challenged" /\ new.terms = terms
BY ClientTypes DEF ClientState

\* The server believes a receipt only of a payment of the terms, made by the signer.
LEMMA VerifiedPays ==
  ASSUME ReceiptInv, NEW c \in Client, clients[c].pc = "signed",
         Verifies(c, TermsOf(clients[c].terms.invoice))
  PROVE  LET i == clients[c].terms.invoice  t == clients[c].tx IN
         /\ Pays(transfers[t], invoices[i])
         /\ Message(c) = TypedData(invoices[i], t)
         /\ clients[c].signer = transfers[t].payer
<1>1. server.rpc = server.network
  BY DEF ReceiptInv, Starts
<1> QED BY <1>1 DEF Verifies, Signed, Evident, Pays, TermsOf

LEMMA SignedTypes ==
  ASSUME ReceiptInv, NEW c \in Client, clients[c].pc = "signed"
  PROVE  clients[c].tx \in Tx /\ clients[c].terms.invoice \in Invoice
<1>1. clients[c].terms.invoice \in Invoice
  BY TermsFacts DEF ReceiptInv, Holds
<1>2. c = Agent \/ c \in Page \/ c \in Other
  BY DEF Client
<1> QED BY <1>1, <1>2 DEF ReceiptInv, AgentFits, PageFits, OtherFits, PaysTerms

LEMMA PresentStep == ASSUME ReceiptInv, NEW c \in Client, Present(c) PROVE ReceiptInv'
<1> DEFINE i == clients[c].terms.invoice
           accepted == Verifies(c, TermsOf(i)) /\ Claimable(i, clients[c].tx)
           new == IF accepted THEN Nothing ELSE Refused(c)
<1>0. /\ TypeInv /\ OneToOne /\ clients[c].pc = "signed" /\ Holds(c)
      /\ i \in Invoice /\ clients[c].tx \in Tx
      /\ UNCHANGED <<server, invoices, transfers, agent, wallet, connected>>
      /\ clients' = [clients EXCEPT ![c] = new]
      /\ claims' = IF accepted THEN [claims EXCEPT ![i] = clients[c].tx] ELSE claims
      /\ moved' = IF accepted THEN moved \ ({c} \cap {Agent}) ELSE moved
  BY SignedTypes DEF ReceiptInv, Present, At
<1>1. /\ new \in ClientState
      /\ \/ new.pc = "idle"
         \/ /\ c = Agent /\ ~accepted /\ new.pc = "paid" /\ new.terms = clients[c].terms
            /\ new.tx = clients[c].tx
         \/ /\ c \in Other /\ new.pc = "challenged" /\ new.terms = clients[c].terms
            /\ new.tx = clients[c].tx
  <2>1. CASE accepted \/ c \in Page
    BY <2>1, NothingTypes DEF Refused
  <2>2. CASE ~accepted /\ c = Agent
    <3>1. new = [clients[c] EXCEPT !.pc = "paid", !.payer = NoAccount, !.signer = NoAccount]
      BY <2>2, NamesDiffer DEF Refused
    <3>2. TypeInv
      BY <1>0
    <3> HIDE DEF new
    <3> QED BY <2>2, <3>1, <3>2, Given
  <2>3. CASE ~accepted /\ c \in Other
    <3>1. new = [clients[c] EXCEPT !.pc = "challenged", !.payer = NoAccount,
                                   !.signer = NoAccount]
      BY <2>3, NamesDiffer DEF Refused
    <3>2. TypeInv
      BY <1>0
    <3> HIDE DEF new
    <3> QED BY <2>3, <3>1, <3>2, Given
  <2> QED BY <2>1, <2>2, <2>3 DEF Client
<1>2. /\ clients' \in [Client -> ClientState] /\ clients'[c] = new
      /\ \A d \in Client \ {c} : clients'[d] = clients[d]
  BY <1>0, <1>1, OneRecord
<1>3. claims' \in [Invoice -> Tx \cup {NoTx}] /\ OneToOne'
  <2>1. CASE accepted
    <3>1. /\ claims' = [claims EXCEPT ![i] = clients[c].tx]
          /\ claims[i] = clients[c].tx
             \/ (claims[i] = NoTx /\ \A j \in Invoice : claims[j] # clients[c].tx)
      BY <1>0, <2>1 DEF Claimable
    <3>2. claims \in [Invoice -> Tx \cup {NoTx}]
      BY <1>0 DEF TypeInv
    <3>3. claims' \in [Invoice -> Tx \cup {NoTx}]
      BY <1>0, <3>1, <3>2
    <3>4. OneToOne'
      BY <1>0, <3>1, <3>2 DEF OneToOne
    <3> QED BY <3>3, <3>4
  <2>2. CASE ~accepted
    BY <1>0, <2>2 DEF TypeInv, OneToOne
  <2> QED BY <2>1, <2>2
<1>4. /\ moved' \subseteq Client /\ Grows
      /\ \A d \in Client \ {c} : d \in moved' <=> d \in moved
  BY <1>0 DEF TypeInv, Grows
<1>5. TypeInv'
  BY <1>0, <1>2, <1>3, <1>4 DEF TypeInv
<1>6. Holds(c)'
  BY <1>0, <1>1, <1>2 DEF Holds
<1>7. c = Agent => AgentFits'
  <2> SUFFICES ASSUME c = Agent PROVE AgentFits'
    OBVIOUS
  <2>1. CASE new.pc = "idle"
    BY <1>2, <2>1 DEF AgentFits
  <2>2. CASE new.pc # "idle"
    <3>1. /\ ~accepted /\ new.pc = "paid" /\ new.terms = clients[c].terms
          /\ new.tx = clients[c].tx
      BY <1>1, <2>2, NamesDiffer
    <3>2. moved' = moved
      BY <1>0, <3>1
    <3>3. PaysTerms(c)' /\ transfers'[clients'[c].tx] = transfers[clients[c].tx]
      BY <1>0, <1>2, <1>4, <3>1, PaysStays DEF ReceiptInv, AgentFits
    <3> QED BY <1>0, <1>2, <3>1, <3>2, <3>3 DEF ReceiptInv, AgentFits
  <2> QED BY <2>1, <2>2
<1>8. c \in Page => PageFits(c)'
  <2>1. c \in Page => new.pc = "idle"
    BY <1>1, NamesDiffer
  <2>2. c \in Page => (c \in moved' <=> c \in moved)
    BY <1>0, NamesDiffer
  <2> QED BY <1>0, <1>2, <2>1, <2>2 DEF ReceiptInv, PageFits
<1>9. c \in Other => OtherFits(c)'
  <2>1. c \in Other => new.pc # "signed"
    BY <1>1
  <2> QED BY <1>2, <2>1 DEF OtherFits
<1> QED BY <1>0, <1>2, <1>3, <1>4, <1>5, <1>6, <1>7, <1>8, <1>9, OneMoves DEF ReceiptInv

LEMMA ChallengeStep ==
  ASSUME ReceiptInv, NEW c \in Client, NEW i \in Invoice, Challenge(c, i) PROVE ReceiptInv'
<1> DEFINE terms == Requirements(i, server)
           new == [clients[c] EXCEPT !.pc = "challenged", !.terms = terms]
<1>0. /\ TypeInv /\ clients[c].pc = "idle" /\ invoices[i] = NoTerms
      /\ c \in Page => connected[c] # NoAccount
      /\ clients' = [clients EXCEPT ![c] = new]
      /\ invoices' = [invoices EXCEPT ![i] = terms]
      /\ UNCHANGED <<server, transfers, claims, agent, wallet, connected, moved>>
  BY DEF ReceiptInv, Challenge, At
<1>1. terms \in Terms /\ terms.invoice = i
  BY <1>0, RequirementsTypes DEF TypeInv
<1> HIDE DEF terms
<1>2. new \in ClientState /\ new.pc = "challenged" /\ new.terms = terms
  BY <1>0, <1>1, Given
<1>3. /\ clients' \in [Client -> ClientState] /\ clients'[c] = new
      /\ \A d \in Client \ {c} : clients'[d] = clients[d]
  BY <1>0, <1>2, OneRecord
<1>4. /\ invoices' \in [Invoice -> Terms \cup {NoTerms}] /\ invoices'[i] = terms
      /\ \A j \in Invoice \ {i} : invoices'[j] = invoices[j]
  BY <1>0, <1>1 DEF TypeInv
<1>5. Grows /\ TypeInv' /\ OneToOne' /\ Starts(server')
  BY <1>0, <1>1, <1>3, <1>4 DEF TypeInv, Grows, OneToOne, ReceiptInv
<1>6. Holds(c)'
  BY <1>1, <1>2, <1>3, <1>4 DEF Holds
<1>7. c = Agent => AgentFits'
  BY <1>2, <1>3 DEF AgentFits
<1>8. c \in Page => PageFits(c)'
  BY <1>0, <1>2, <1>3 DEF PageFits, ReceiptInv
<1>9. c \in Other => OtherFits(c)'
  BY <1>2, <1>3 DEF OtherFits
<1> QED BY <1>0, <1>3, <1>5, <1>6, <1>7, <1>8, <1>9, OneMoves

\* A new transfer of a challenged client is one of its terms.
LEMMA PaidFacts ==
  ASSUME ReceiptInv, NEW c \in Client, clients[c].pc = "challenged", NEW t \in Tx,
         NEW n \in Network, NEW a \in Account, Paid(c, t, n, a),
         UNCHANGED <<server, invoices, claims, agent, wallet, connected, moved>>
  PROVE  /\ TypeInv' /\ Grows /\ Holds(c)' /\ PaysTerms(c)'
         /\ \A d \in Client \ {c} : clients'[d] = clients[d]
         /\ clients'[c].pc = "paid" /\ clients'[c].terms = clients[c].terms
         /\ clients'[c].tx = t /\ transfers'[t].network = n /\ transfers'[t].payer = a
<1> DEFINE terms == clients[c].terms
           new == [clients[c] EXCEPT !.pc = "paid", !.tx = t]
<1>0. /\ TypeInv /\ terms \in Terms /\ invoices[terms.invoice] = terms
      /\ transfers[t] = NoTransfer
      /\ transfers' = [transfers EXCEPT ![t] = Transfer(n, a, terms)]
      /\ clients' = [clients EXCEPT ![c] = new]
  BY DEF ReceiptInv, Holds, Paid
<1>1. /\ new \in ClientState /\ new.pc = "paid" /\ new.tx = t /\ new.terms = terms
  <2>1. clients[c] \in ClientState
    BY <1>0, ClientTypes
  <2> QED BY <2>1 DEF ClientState
<1>2. /\ clients' \in [Client -> ClientState] /\ clients'[c] = new
      /\ \A d \in Client \ {c} : clients'[d] = clients[d]
  BY <1>0, <1>1, OneRecord
<1>3. /\ Transfer(n, a, terms) \in Payments
      /\ Transfer(n, a, terms).network = n /\ Transfer(n, a, terms).payer = a
      /\ Transfer(n, a, terms).recipient = terms.recipient
      /\ Transfer(n, a, terms).amount = terms.amount
      /\ Transfer(n, a, terms) # NoTransfer
  BY <1>0, TransferTypes
<1>4. /\ transfers' \in [Tx -> {NoTransfer} \cup Payments]
      /\ transfers'[t] = Transfer(n, a, terms)
      /\ \A u \in Tx \ {t} : transfers'[u] = transfers[u]
  BY <1>0, <1>3 DEF TypeInv
<1>5. TypeInv' /\ Grows
  BY <1>0, <1>2, <1>4 DEF TypeInv, Grows
<1>6. Holds(c)' /\ PaysTerms(c)'
  BY <1>0, <1>1, <1>2, <1>3, <1>4 DEF Holds, PaysTerms
<1> QED BY <1>1, <1>2, <1>3, <1>4, <1>5, <1>6

LEMMA AgentPayStep == ASSUME ReceiptInv, NEW t \in Tx, AgentPay(t) PROVE ReceiptInv'
<1>0. /\ Agent \in Client /\ clients[Agent].pc = "challenged"
      /\ Paid(Agent, t, agent.rpc, agent.account)
      /\ clients[Agent].terms.network = agent.rpc
      /\ agent.rpc \in Network /\ agent.account \in Account
      /\ UNCHANGED <<server, invoices, claims, agent, wallet, connected, moved>>
  BY NamesDiffer, ConfigTypes DEF AgentPay, At, Allows, ReceiptInv, TypeInv
<1>1. /\ TypeInv' /\ Grows /\ Holds(Agent)' /\ PaysTerms(Agent)'
      /\ \A d \in Client \ {Agent} : clients'[d] = clients[d]
      /\ clients'[Agent].pc = "paid" /\ clients'[Agent].terms = clients[Agent].terms
      /\ clients'[Agent].tx = t
      /\ transfers'[t].network = agent.rpc /\ transfers'[t].payer = agent.account
  BY <1>0, PaidFacts
<1>2. AgentFits'
  BY <1>0, <1>1 DEF AgentFits
<1>3. OneToOne' /\ Starts(server')
  BY <1>0 DEF ReceiptInv, OneToOne
<1> QED BY <1>0, <1>1, <1>2, <1>3, NamesDiffer, OneMoves

LEMMA PagePayStep ==
  ASSUME ReceiptInv, NEW p \in Page, NEW t \in Tx, PagePay(p, t) PROVE ReceiptInv'
<1>0. /\ p \in Client /\ clients[p].pc = "challenged" /\ PageFits(p)
      /\ Paid(p, t, wallet[p].network, wallet[p].account)
      /\ UNCHANGED <<server, invoices, claims, agent, wallet, connected, moved>>
  BY NamesDiffer DEF PagePay, At, ReceiptInv
<1>1. connected[p] # NoAccount /\ wallet[p].network \in Network /\ wallet[p].account \in Account
  BY <1>0, ConfigTypes DEF PageFits
<1>2. /\ TypeInv' /\ Grows /\ Holds(p)' /\ PaysTerms(p)'
      /\ \A d \in Client \ {p} : clients'[d] = clients[d]
      /\ clients'[p].pc = "paid" /\ clients'[p].terms = clients[p].terms
      /\ clients'[p].tx = t
      /\ transfers'[t].network = wallet[p].network /\ transfers'[t].payer = wallet[p].account
  BY <1>0, <1>1, PaidFacts
<1>3. PageFits(p)'
  BY <1>0, <1>1, <1>2 DEF PageFits
<1>4. OneToOne' /\ Starts(server')
  BY <1>0 DEF ReceiptInv, OneToOne
<1> QED BY <1>0, <1>2, <1>3, <1>4, NamesDiffer, OneMoves

\* A client that signs keeps what it holds.
LEMMA SignFacts ==
  ASSUME ReceiptInv, NEW c \in Client, clients[c].pc = "paid",
         NEW payer \in Account, NEW signer \in Account, SignedBy(c, payer, signer),
         UNCHANGED <<server, invoices, transfers, claims, agent, wallet, connected, moved>>
  PROVE  /\ TypeInv' /\ Grows /\ Holds(c)'
         /\ \A d \in Client \ {c} : clients'[d] = clients[d]
         /\ clients'[c].pc = "signed" /\ clients'[c].terms = clients[c].terms
         /\ clients'[c].tx = clients[c].tx
         /\ clients'[c].payer = payer /\ clients'[c].signer = signer
         /\ OneToOne' /\ Starts(server')
<1> DEFINE new == [clients[c] EXCEPT !.pc = "signed", !.payer = payer, !.signer = signer]
<1>0. TypeInv /\ clients' = [clients EXCEPT ![c] = new] /\ Holds(c)
  BY DEF ReceiptInv, SignedBy
<1>1. /\ new \in ClientState /\ new.pc = "signed" /\ new.terms = clients[c].terms
      /\ new.tx = clients[c].tx /\ new.payer = payer /\ new.signer = signer
  <2>1. clients[c] \in ClientState
    BY <1>0, ClientTypes
  <2> QED BY <2>1 DEF ClientState
<1>2. /\ clients' \in [Client -> ClientState] /\ clients'[c] = new
      /\ \A d \in Client \ {c} : clients'[d] = clients[d]
  BY <1>0, <1>1, OneRecord
<1>3. TypeInv' /\ Grows
  BY <1>0, <1>2 DEF TypeInv, Grows
<1>4. Holds(c)'
  BY <1>0, <1>1, <1>2 DEF Holds
<1>5. OneToOne' /\ Starts(server')
  BY DEF ReceiptInv, OneToOne
<1> QED BY <1>1, <1>2, <1>3, <1>4, <1>5

LEMMA AgentSignStep == ASSUME ReceiptInv, AgentSign PROVE ReceiptInv'
<1>0. /\ Agent \in Client /\ clients[Agent].pc = "paid" /\ AgentFits
      /\ SignedBy(Agent, agent.account, agent.account) /\ agent.account \in Account
      /\ UNCHANGED <<server, invoices, transfers, claims, agent, wallet, connected, moved>>
  BY NamesDiffer, ConfigTypes DEF AgentSign, At, ReceiptInv, TypeInv
<1>1. /\ TypeInv' /\ Grows /\ Holds(Agent)'
      /\ \A d \in Client \ {Agent} : clients'[d] = clients[d]
      /\ clients'[Agent].pc = "signed" /\ clients'[Agent].terms = clients[Agent].terms
      /\ clients'[Agent].tx = clients[Agent].tx
      /\ clients'[Agent].payer = agent.account /\ clients'[Agent].signer = agent.account
      /\ OneToOne' /\ Starts(server')
  BY <1>0, SignFacts
<1>2. AgentFits'
  BY <1>0, <1>1 DEF AgentFits, PaysTerms, SignedAs
<1> QED BY <1>0, <1>1, <1>2, NamesDiffer, OneMoves

LEMMA PageSignStep == ASSUME ReceiptInv, NEW p \in Page, PageSign(p) PROVE ReceiptInv'
<1>0. /\ p \in Client /\ clients[p].pc = "paid" /\ PageFits(p)
      /\ SignedBy(p, connected[p], wallet[p].account)
      /\ UNCHANGED <<server, invoices, transfers, claims, agent, wallet, connected, moved>>
  BY NamesDiffer DEF PageSign, At, ReceiptInv
<1>1. connected[p] \in Account /\ wallet[p].account \in Account
  BY <1>0, ConfigTypes DEF PageFits, ReceiptInv, TypeInv
<1>2. /\ TypeInv' /\ Grows /\ Holds(p)'
      /\ \A d \in Client \ {p} : clients'[d] = clients[d]
      /\ clients'[p].pc = "signed" /\ clients'[p].terms = clients[p].terms
      /\ clients'[p].tx = clients[p].tx
      /\ clients'[p].payer = connected[p] /\ clients'[p].signer = wallet[p].account
      /\ OneToOne' /\ Starts(server')
  BY <1>0, <1>1, SignFacts
<1>3. PageFits(p)'
  BY <1>0, <1>1, <1>2 DEF PageFits, PaysTerms, SignedAs
<1> QED BY <1>0, <1>2, <1>3, NamesDiffer, OneMoves

\* A receipt is refused or dies with its process, and nothing else happens.
LEMMA RefusedStep ==
  ASSUME ReceiptInv, NEW c \in Client, clients[c].pc = "signed",
         clients' = [clients EXCEPT ![c] = Refused(c)],
         UNCHANGED <<server, invoices, transfers, claims, agent, wallet, connected, moved>>
  PROVE  ReceiptInv'
<1> DEFINE new == Refused(c)
<1>0. TypeInv /\ Holds(c)
  BY DEF ReceiptInv
<1>1. /\ new \in ClientState
      /\ \/ c \in Page /\ new.pc = "idle"
         \/ c = Agent /\ new.pc = "paid" /\ new.terms = clients[c].terms
            /\ new.tx = clients[c].tx
         \/ c \in Other /\ new.pc = "challenged" /\ new.terms = clients[c].terms
  <2>1. CASE c \in Page
    BY <2>1, NothingTypes DEF Refused
  <2>2. CASE c \notin Page
    <3>1. PICK pc \in {"paid", "challenged"} : pc = IF c = Agent THEN "paid" ELSE "challenged"
      OBVIOUS
    <3>2. new = [clients[c] EXCEPT !.pc = pc, !.payer = NoAccount, !.signer = NoAccount]
      BY <2>2, <3>1 DEF Refused
    <3>3. c = Agent \/ c \in Other
      BY <2>2 DEF Client
    <3> HIDE DEF new
    <3>4. /\ new \in ClientState /\ new.pc = pc /\ new.terms = clients[c].terms
          /\ new.tx = clients[c].tx
      <4>1. clients[c] \in ClientState
        BY <1>0, ClientTypes
      <4> QED BY <3>2, <4>1 DEF ClientState
    <3> QED BY <3>1, <3>3, <3>4, NamesDiffer
  <2> QED BY <2>1, <2>2
<1>2. /\ clients' \in [Client -> ClientState] /\ clients'[c] = new
      /\ \A d \in Client \ {c} : clients'[d] = clients[d]
  BY <1>0, <1>1, OneRecord
<1> HIDE DEF new
<1>3. TypeInv' /\ Grows /\ OneToOne' /\ Starts(server')
  BY <1>0, <1>2 DEF TypeInv, Grows, OneToOne, ReceiptInv
<1>4. Holds(c)'
  BY <1>0, <1>1, <1>2 DEF Holds
<1>5. c = Agent => AgentFits'
  BY <1>1, <1>2, NamesDiffer DEF ReceiptInv, AgentFits, PaysTerms
<1>6. c \in Page => PageFits(c)'
  BY <1>1, <1>2, NamesDiffer DEF ReceiptInv, PageFits
<1>7. c \in Other => OtherFits(c)'
  BY <1>1, <1>2, NamesDiffer DEF OtherFits
<1> QED BY <1>2, <1>3, <1>4, <1>5, <1>6, <1>7, OneMoves

LEMMA AgentDieStep == ASSUME ReceiptInv, AgentDie PROVE ReceiptInv'
BY NamesDiffer, RefusedStep DEF AgentDie, At

LEMMA TurnedAwayStep == ASSUME ReceiptInv, NEW c \in Client, TurnedAway(c) PROVE ReceiptInv'
BY RefusedStep DEF TurnedAway, At

\* The wallet of a page is used, connected, switched or given up.
LEMMA WalletStep ==
  ASSUME ReceiptInv, NEW p \in Page, SwitchWallet(p) \/ Connect(p) \/ Disconnect(p)
  PROVE  ReceiptInv'
<1>0. /\ p \in Client /\ TypeInv /\ PageFits(p) /\ Holds(p)
      /\ UNCHANGED <<server, invoices, transfers, claims, agent, clients>>
  BY NamesDiffer DEF ReceiptInv, SwitchWallet, Connect, Disconnect
<1>1. /\ wallet' \in [Page -> Selection \cup {NoSelection}]
      /\ connected' \in [Page -> Account \cup {NoAccount}]
      /\ moved' \subseteq Client
      /\ \A q \in Page \ {p} : wallet'[q] = wallet[q] /\ connected'[q] = connected[q]
      /\ \A d \in Client \ {p} : d \in moved' <=> d \in moved
      /\ PageFits(p)'
  <2>1. CASE SwitchWallet(p)
    <3>1. PICK w \in Selection : wallet' = [wallet EXCEPT ![p] = w]
      BY <2>1 DEF SwitchWallet
    <3>2. connected' = connected /\ moved' = moved \cup {p}
      BY <2>1 DEF SwitchWallet
    <3>3. /\ wallet' \in [Page -> Selection \cup {NoSelection}] /\ wallet'[p] = w
          /\ \A q \in Page \ {p} : wallet'[q] = wallet[q]
      BY <1>0, <3>1 DEF TypeInv
    <3>4. PageFits(p)'
      BY <1>0, <3>2, <3>3 DEF PageFits, PaysTerms
    <3> QED BY <1>0, <3>2, <3>3, <3>4 DEF TypeInv
  <2>2. CASE Connect(p)
    <3>1. PICK w \in Selection : /\ wallet' = [wallet EXCEPT ![p] = w]
                                 /\ connected' = [connected EXCEPT ![p] = w.account]
      BY <2>2 DEF Connect
    <3>2. w.account \in Account /\ moved' = moved /\ clients[p].pc = "idle"
      BY <2>2, ConfigTypes DEF Connect, At
    <3>3. /\ wallet' \in [Page -> Selection \cup {NoSelection}] /\ wallet'[p] = w
          /\ \A q \in Page \ {p} : wallet'[q] = wallet[q]
          /\ connected' \in [Page -> Account \cup {NoAccount}] /\ connected'[p] = w.account
          /\ \A q \in Page \ {p} : connected'[q] = connected[q]
      BY <1>0, <3>1, <3>2 DEF TypeInv
    <3>4. PageFits(p)'
      BY <1>0, <3>2, <3>3 DEF PageFits
    <3> QED BY <1>0, <3>2, <3>3, <3>4 DEF TypeInv
  <2>3. CASE Disconnect(p)
    <3>1. /\ wallet' = [wallet EXCEPT ![p] = NoSelection]
          /\ connected' = [connected EXCEPT ![p] = NoAccount]
          /\ moved' = moved \ {p} /\ clients[p].pc = "idle"
      BY <2>3 DEF Disconnect, At
    <3>2. /\ wallet' \in [Page -> Selection \cup {NoSelection}]
          /\ \A q \in Page \ {p} : wallet'[q] = wallet[q]
          /\ connected' \in [Page -> Account \cup {NoAccount}] /\ connected'[p] = NoAccount
          /\ \A q \in Page \ {p} : connected'[q] = connected[q]
      BY <1>0, <3>1 DEF TypeInv
    <3>3. PageFits(p)'
      BY <1>0, <3>1, <3>2 DEF PageFits
    <3> QED BY <1>0, <3>1, <3>2, <3>3 DEF TypeInv
  <2> QED BY <2>1, <2>2, <2>3
<1>2. TypeInv' /\ Grows /\ OneToOne' /\ Starts(server')
  BY <1>0, <1>1 DEF TypeInv, Grows, OneToOne, ReceiptInv
<1>3. Holds(p)'
  BY <1>0 DEF Holds
<1> QED BY <1>0, <1>1, <1>2, <1>3, NamesDiffer, OneMoves

LEMMA PageGoneStep == ASSUME ReceiptInv, NEW p \in Page, PageGone(p) PROVE ReceiptInv'
<1>0. /\ p \in Client /\ TypeInv /\ PageFits(p)
      /\ clients' = [clients EXCEPT ![p] = Nothing]
      /\ UNCHANGED <<server, invoices, transfers, claims, agent, wallet, connected, moved>>
  BY NamesDiffer DEF ReceiptInv, PageGone
<1>1. /\ clients' \in [Client -> ClientState] /\ clients'[p] = Nothing
      /\ \A d \in Client \ {p} : clients'[d] = clients[d]
  BY <1>0, NothingTypes, OneRecord
<1>2. TypeInv' /\ Grows /\ OneToOne' /\ Starts(server')
  BY <1>0, <1>1 DEF TypeInv, Grows, OneToOne, ReceiptInv
<1>3. Holds(p)' /\ PageFits(p)'
  BY <1>0, <1>1, NothingTypes DEF Holds, PageFits
<1> QED BY <1>0, <1>1, <1>2, <1>3, NamesDiffer, OneMoves

LEMMA OtherSignStep ==
  ASSUME ReceiptInv, NEW o \in Other, NEW t \in Tx, OtherSign(o, t) PROVE ReceiptInv'
<1> DEFINE new == [clients[o] EXCEPT !.pc = "signed", !.tx = t, !.payer = OtherAccount,
                                     !.signer = OtherAccount]
<1>0. /\ o \in Client /\ TypeInv /\ Holds(o) /\ clients[o].pc = "challenged"
      /\ clients' = [clients EXCEPT ![o] = new]
      /\ UNCHANGED <<server, invoices, transfers, claims, agent, wallet, connected, moved>>
  BY NamesDiffer DEF ReceiptInv, OtherSign, At
<1>1. new \in ClientState /\ new.terms = clients[o].terms /\ new.tx = t
  <2>1. clients[o] \in ClientState /\ OtherAccount \in Account
    BY <1>0, ClientTypes, ConfigTypes
  <2> QED BY <2>1 DEF ClientState
<1>2. /\ clients' \in [Client -> ClientState] /\ clients'[o] = new
      /\ \A d \in Client \ {o} : clients'[d] = clients[d]
  BY <1>0, <1>1, OneRecord
<1>3. TypeInv' /\ Grows /\ OneToOne' /\ Starts(server')
  BY <1>0, <1>2 DEF TypeInv, Grows, OneToOne, ReceiptInv
<1>4. Holds(o)' /\ OtherFits(o)'
  BY <1>0, <1>1, <1>2 DEF Holds, OtherFits
<1> QED BY <1>0, <1>2, <1>3, <1>4, NamesDiffer, OneMoves

LEMMA RestartStep == ASSUME ReceiptInv, RestartServer PROVE ReceiptInv'
<1>0. /\ server' \in ServerConfig /\ Starts(server')
      /\ UNCHANGED <<transfers, invoices, claims, agent, wallet, connected, clients, moved>>
  BY DEF RestartServer
<1>1. Grows /\ TypeInv' /\ OneToOne'
  BY <1>0 DEF Grows, TypeInv, OneToOne, ReceiptInv
<1>2. /\ \A c \in Client : Holds(c)'
      /\ \A o \in Other : OtherFits(o)'
  BY <1>0, <1>1, HoldsStays, OtherStays, NamesDiffer DEF ReceiptInv
<1>3. AgentFits' /\ \A p \in Page : PageFits(p)'
  BY <1>0, <1>1, AgentStays, PageStays DEF ReceiptInv
<1> QED BY <1>0, <1>1, <1>2, <1>3 DEF ReceiptInv

LEMMA ReconfigureStep == ASSUME ReceiptInv, ReconfigureAgent PROVE ReceiptInv'
<1>0. /\ agent' \in AgentConfig /\ Agent \in Client /\ clients[Agent].pc # "signed"
      /\ UNCHANGED <<server, invoices, transfers, claims, wallet, connected, clients>>
      /\ moved' = IF clients[Agent].pc = "paid" /\ agent'.account # agent.account
                  THEN moved \cup {Agent} ELSE moved
  BY NamesDiffer DEF ReconfigureAgent, At
<1>1. Grows /\ TypeInv' /\ OneToOne' /\ Starts(server')
  BY <1>0 DEF Grows, TypeInv, OneToOne, ReceiptInv
<1>2. /\ \A c \in Client : Holds(c)'
      /\ \A o \in Other : OtherFits(o)'
  BY <1>0, <1>1, HoldsStays, OtherStays, NamesDiffer DEF ReceiptInv
<1>3. \A p \in Page : PageFits(p)'
  BY <1>0, <1>1, PageStays, NamesDiffer DEF ReceiptInv
<1>4. AgentFits'
  BY <1>0 DEF ReceiptInv, AgentFits, PaysTerms
<1> QED BY <1>1, <1>2, <1>3, <1>4 DEF ReceiptInv

LEMMA ReceiptStep == ReceiptInv /\ [Next]_vars => ReceiptInv'
<1> SUFFICES ASSUME ReceiptInv, [Next]_vars PROVE ReceiptInv'
  OBVIOUS
<1>1. ASSUME UNCHANGED vars PROVE ReceiptInv'
  <2>1. Grows /\ TypeInv' /\ OneToOne' /\ Starts(server')
    BY <1>1 DEF vars, Grows, TypeInv, OneToOne, ReceiptInv
  <2>2. /\ \A c \in Client : Holds(c)'
        /\ \A o \in Other : OtherFits(o)'
    BY <1>1, <2>1, HoldsStays, OtherStays, NamesDiffer DEF vars, ReceiptInv
  <2>3. AgentFits' /\ \A p \in Page : PageFits(p)'
    BY <1>1, <2>1, AgentStays, PageStays DEF vars, ReceiptInv
  <2> QED BY <2>1, <2>2, <2>3 DEF ReceiptInv
<1> QED BY <1>1, RestartStep, ReconfigureStep, ChallengeStep, PresentStep, AgentPayStep,
           TurnedAwayStep, AgentSignStep, AgentDieStep, WalletStep, PageSignStep, PageGoneStep,
           PagePayStep, OtherSignStep DEF Next

LEMMA ReceiptInit == Init => ReceiptInv
<1> SUFFICES ASSUME Init PROVE ReceiptInv
  OBVIOUS
<1>1. TypeInv /\ OneToOne /\ Starts(server)
  BY NothingTypes DEF Init, TypeInv, OneToOne
<1>2. /\ \A c \in Client : clients[c].pc = "idle"
      /\ \A p \in Page : connected[p] = NoAccount
  BY NothingTypes DEF Init
<1>3. Agent \in Client /\ \A p \in Page \cup Other : p \in Client
  BY NamesDiffer
<1> QED BY <1>1, <1>2, <1>3 DEF ReceiptInv, Holds, AgentFits, PageFits, OtherFits

LEMMA ReceiptAlways == Spec => []ReceiptInv
BY ReceiptInit, ReceiptStep, PTL DEF Spec
-----------------------------------------------------------------------------
(* The theorems. *)

\* Every state is well typed: no transaction is claimed twice, and every client holds
\* terms as they were issued.
THEOREM ReceiptTypeCorrect == Spec => []TypeOK
<1>1. ReceiptInv => TypeOK
  BY DEF ReceiptInv, TypeInv, OneToOne, Holds, TypeOK, ClientState, Payments
<1> QED BY <1>1, ReceiptAlways, PTL

\* An invoice is claimed only by a payment of what it asked for when it was issued,
\* for a client that holds it and signs with the account that paid.
THEOREM ClaimIsPaymentAlways == Spec => ClaimIsItsPayersPayment
<1> DEFINE Claimed ==
      \A i \in Invoice : claims'[i] # claims[i] =>
        /\ Pays(transfers[claims'[i]], invoices[i])
        /\ \E c \in Client : /\ Message(c) = TypedData(invoices[i], claims'[i])
                             /\ clients[c].signer = transfers[claims'[i]].payer
<1>1. ReceiptInv /\ [Next]_vars => [Claimed]_vars
  <2> SUFFICES ASSUME ReceiptInv, [Next]_vars, NEW i \in Invoice, claims'[i] # claims[i]
               PROVE  /\ Pays(transfers[claims'[i]], invoices[i])
                      /\ \E c \in Client : /\ Message(c) = TypedData(invoices[i], claims'[i])
                                           /\ clients[c].signer = transfers[claims'[i]].payer
    OBVIOUS
  <2>1. PICK c \in Client : Present(c)
    BY DEF Next, RestartServer, ReconfigureAgent, Challenge, TurnedAway, AgentPay, AgentSign,
           AgentDie, SwitchWallet, Connect, Disconnect, PageSign, PageGone, PagePay, OtherSign, vars
  <2>2. /\ clients[c].pc = "signed" /\ Verifies(c, TermsOf(clients[c].terms.invoice))
        /\ claims' = [claims EXCEPT ![clients[c].terms.invoice] = clients[c].tx]
    BY <2>1 DEF Present, At
  <2>3. i = clients[c].terms.invoice /\ claims'[i] = clients[c].tx
    BY <2>2 DEF ReceiptInv, TypeInv
  <2> QED BY <2>2, <2>3, VerifiedPays
<1> QED BY <1>1, ReceiptAlways, PTL DEF Spec, ClaimIsItsPayersPayment

\* A payer that paid and signed with one account is believed by a server of the same
\* network and recipient, at any price and under any policy.
THEOREM ReceiptVerifiesAlways == Spec => []ReceiptVerifies
<1>1. ReceiptInv => ReceiptVerifies
  <2> SUFFICES ASSUME ReceiptInv, NEW c \in {Agent} \cup Page, clients[c].pc = "signed",
                      c \notin moved, Serves(clients[c].terms),
                      c \in Page => wallet[c].network = clients[c].terms.network
               PROVE  Verifies(c, TermsOf(clients[c].terms.invoice))
    BY DEF ReceiptVerifies, At
  <2> DEFINE t == clients[c].tx  terms == clients[c].terms
  <2>1. c \in Client /\ TermsOf(terms.invoice) = terms
    BY NamesDiffer DEF ReceiptInv, Holds, TermsOf
  <2>2. /\ PaysTerms(c) /\ transfers[t].network = terms.network
        /\ clients[c].payer = clients[c].signer /\ transfers[t].payer = clients[c].payer
    <3>1. CASE c = Agent
      BY <3>1 DEF ReceiptInv, AgentFits, SignedAs
    <3>2. CASE c \in Page
      BY <3>2 DEF ReceiptInv, PageFits, SignedAs
    <3> QED BY <3>1, <3>2
  <2>3. server.rpc = server.network
    BY DEF ReceiptInv, Starts
  <2>4. Signed(c, TypedData(terms, t))
    BY <2>2 DEF Signed, Message
  <2>5. Evident(t, server)
    BY <2>2, <2>3 DEF Evident, PaysTerms, Serves
  <2> QED BY <2>1, <2>2, <2>4, <2>5 DEF Verifies, PaysTerms, Serves
<1> QED BY <1>1, ReceiptAlways, PTL
-----------------------------------------------------------------------------
(* Signed receipts implement ClaimedPayment. *)

LEMMA PromiseInit == Init => Promise!Init
BY DEF Init, Promise!Init

LEMMA PromiseIssue ==
  ASSUME ReceiptInv, NEW c \in Client, NEW i \in Invoice, Challenge(c, i)
  PROVE  Promise!Issue(i)
<1>1. PICK terms \in Terms : terms = Requirements(i, server)
  BY RequirementsTypes DEF ReceiptInv, TypeInv
<1>2. /\ invoices[i] = NoTerms /\ UNCHANGED <<transfers, claims>>
      /\ invoices' = [invoices EXCEPT ![i] = terms]
  BY <1>1 DEF Challenge
<1>3. invoices'[i] = terms
  BY <1>2 DEF ReceiptInv, TypeInv
<1> QED BY <1>2, <1>3 DEF Promise!Issue

\* A transfer of a client that holds terms.
LEMMA PromisePay ==
  ASSUME ReceiptInv, NEW c \in Client, clients[c].pc = "challenged", NEW t \in Tx,
         NEW n \in Network, NEW a \in Account, Paid(c, t, n, a),
         UNCHANGED <<invoices, claims>>
  PROVE  Promise!Pay(t)
<1>1. clients[c].terms \in Terms
  BY DEF ReceiptInv, Holds
<1>2. PICK payment \in Payments : payment = Transfer(n, a, clients[c].terms)
  BY <1>1, TransferTypes
<1>3. transfers[t] = NoTransfer /\ transfers' = [transfers EXCEPT ![t] = payment]
  BY <1>2 DEF Paid
<1>4. transfers'[t] = payment
  BY <1>3 DEF ReceiptInv, TypeInv
<1> QED BY <1>3, <1>4 DEF Promise!Pay, Payments

\* A receipt that is believed claims its invoice, or had claimed it before.
LEMMA PromiseClaim ==
  ASSUME ReceiptInv, NEW c \in Client, Present(c)
  PROVE  (\E i \in Invoice, t \in Tx : Promise!Claim(i, t)) \/ UNCHANGED Promise!vars
<1>1. PICK i \in Invoice, t \in Tx : i = clients[c].terms.invoice /\ t = clients[c].tx
  BY SignedTypes DEF Present, At
<1>2. /\ clients[c].pc = "signed" /\ UNCHANGED <<invoices, transfers>>
      /\ claims' = IF Verifies(c, TermsOf(i)) /\ Claimable(i, t)
                   THEN [claims EXCEPT ![i] = t] ELSE claims
  BY <1>1 DEF Present, At
<1>3. CASE ~(Verifies(c, TermsOf(i)) /\ Claimable(i, t)) \/ claims[i] = t
  <2>1. claims' = claims
    BY <1>2, <1>3 DEF ReceiptInv, TypeInv
  <2> QED BY <1>2, <2>1 DEF Promise!vars
<1>4. CASE Verifies(c, TermsOf(i)) /\ Claimable(i, t) /\ claims[i] # t
  <2>1. Pays(transfers[t], invoices[i])
    BY <1>1, <1>2, <1>4, VerifiedPays
  <2>2. invoices[i] # NoTerms
    BY <1>1, <1>2, TermsFacts DEF ReceiptInv, Holds
  <2>3. claims[i] = NoTx /\ (\A j \in Invoice : claims[j] # t)
        /\ claims' = [claims EXCEPT ![i] = t]
    BY <1>2, <1>4 DEF Claimable
  <2>4. Promise!Claim(i, t)
    BY <1>2, <2>1, <2>2, <2>3 DEF Pays, Promise!Claim, Promise!Meets
  <2> QED BY <2>4
<1> QED BY <1>3, <1>4

LEMMA PromiseStep == ReceiptInv /\ [Next]_vars => [Promise!Next]_Promise!vars
<1> SUFFICES ASSUME ReceiptInv, [Next]_vars PROVE Promise!Next \/ UNCHANGED Promise!vars
  OBVIOUS
<1>1. ASSUME NEW c \in Client, NEW i \in Invoice, Challenge(c, i) PROVE Promise!Next
  BY <1>1, PromiseIssue DEF Promise!Next
<1>2. ASSUME NEW c \in Client, Present(c) PROVE Promise!Next \/ UNCHANGED Promise!vars
  BY <1>2, PromiseClaim DEF Promise!Next
<1>3. ASSUME NEW t \in Tx, AgentPay(t) PROVE Promise!Next
  <2>1. PICK n \in Network, a \in Account : n = agent.rpc /\ a = agent.account
    BY ConfigTypes DEF ReceiptInv, TypeInv
  <2>2. /\ Agent \in Client /\ clients[Agent].pc = "challenged" /\ Paid(Agent, t, n, a)
        /\ UNCHANGED <<invoices, claims>>
    BY <1>3, <2>1, NamesDiffer DEF AgentPay, At
  <2>3. Promise!Pay(t)
    BY <2>2, PromisePay
  <2> QED BY <2>3 DEF Promise!Next
<1>4. ASSUME NEW p \in Page, NEW t \in Tx, PagePay(p, t) PROVE Promise!Next
  <2>1. /\ p \in Client /\ clients[p].pc = "challenged" /\ UNCHANGED <<invoices, claims>>
        /\ Paid(p, t, wallet[p].network, wallet[p].account)
    BY <1>4, NamesDiffer DEF PagePay, At
  <2>2. wallet[p].network \in Network /\ wallet[p].account \in Account
    BY <2>1, ConfigTypes DEF ReceiptInv, PageFits
  <2>3. PICK n \in Network, a \in Account : n = wallet[p].network /\ a = wallet[p].account
    BY <2>2
  <2>4. Paid(p, t, n, a)
    BY <2>1, <2>3
  <2>5. Promise!Pay(t)
    BY <2>1, <2>4, PromisePay
  <2> QED BY <2>5 DEF Promise!Next
<1>5. CASE UNCHANGED <<invoices, transfers, claims>>
  BY <1>5 DEF Promise!vars
<1> QED BY <1>1, <1>2, <1>3, <1>4, <1>5
        DEF Next, RestartServer, ReconfigureAgent, TurnedAway, AgentSign, AgentDie, SwitchWallet,
            Connect, Disconnect, PageSign, PageGone, OtherSign, vars

\* Signed receipts implement ClaimedPayment: under every reconfiguration an invoice
\* keeps its terms, and is claimed once, for good, by a payment of them.
THEOREM ReceiptsKeepPromise == Spec => ClaimPromise
<1> QED BY PromiseInit, PromiseStep, ReceiptAlways, PTL
        DEF Spec, ClaimPromise, Promise!Spec
=============================================================================
