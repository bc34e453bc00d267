------------------------ MODULE PrivateExchangeProofs ------------------------
(***************************************************************************)
(* Proofs about PrivateExchange, for every set of invoices, keys, payer    *)
(* processes and pages, and every sequence of restarts with other keys.    *)
(***************************************************************************)
EXTENDS PrivateExchange, TLAPS

Places == {"idle", "loading", "asking", "challenged", "paying", "presenting", "answered"}

ClientState == [pc : Places,
                server : ServerKey \cup {NoKey}, client : ClientKey \cup {NoKey},
                invoice : Invoice \cup {NoInvoice}, terms : Terms \cup {NoTerms},
                private : Invoice \cup {NoInvoice},
                receipt : Receipts \cup {NoReceipt, PlainReceipt}]

Sessions == [state : {"pending", "completed"}, invoice : Invoice,
             private : Invoice \cup {NoInvoice}]

\* TypeOK without the two facts about payments.
TypeInv ==
  /\ server \in [key : ServerKey, client : ClientKey]
  /\ config \in [server : ServerKey, client : ClientKey]
  /\ invoices \in [Invoice -> {"none", "plain", "sealed"}]
  /\ session \in {NoSession} \cup Sessions
  /\ clients \in [Client -> ClientState]

LEMMA TypeParts == TypeOK <=> TypeInv /\ paid \subseteq Invoice /\ delivered \subseteq paid
BY DEF TypeOK, TypeInv, ClientState, Places, Sessions
-----------------------------------------------------------------------------
(* The envelopes. *)

\* The two implementations of the envelope seal and open alike.
LEMMA PortableIsEnvelope ==
  /\ \A i, c, s : PortableSealReceipt(i, c, s) = SealReceipt(i, c, s)
  /\ \A sealed, i, k, s : PortableOpensTerms(sealed, i, k, s) <=> OpensTerms(sealed, i, k, s)
BY DEF PortableSealReceipt, SealReceipt, PortableSeal, Seal, PortableKey, Secret,
       PortableAad, Context, PortableOpensTerms, OpensTerms, PortableOpens, Opens

\* The server opens what was sealed for its key, whoever sealed it.
LEMMA SealedOpens ==
  ASSUME NEW i, NEW c, NEW s PROVE OpensReceipt(SealReceipt(i, c, s), i, s)
<1>1. SealReceipt(i, c, s).client = c
      /\ SealReceipt(i, c, s).body = Seal(i, Context(i, c), c, s, s, "receipt")
  BY DEF SealReceipt
<1>2. {c, s} = {s, c}
  OBVIOUS
<1>3. Secret(c, s, "receipt") = Secret(s, c, "receipt")
  BY <1>2 DEF Secret
<1> QED BY <1>1, <1>3 DEF OpensReceipt, Opens, Seal

LEMMA SealedIsReceipt ==
  ASSUME NEW i \in Invoice, NEW c \in Client, NEW s \in ServerKey
  PROVE  /\ SealReceipt(i, c, s) \in Receipts
         /\ SealReceipt(i, c, s).body.keyId = s
         /\ SealReceipt(i, c, s) # PlainReceipt
<1>1. SealReceipt(i, c, s) \in Receipts
  BY DEF Receipts
<1>2. SealReceipt(i, c, s).body.keyId = s
  BY DEF SealReceipt, Seal
<1>3. DOMAIN SealReceipt(i, c, s) = {"client", "body"} /\ DOMAIN PlainReceipt = {"none"}
  BY DEF SealReceipt, PlainReceipt
<1> QED BY <1>1, <1>2, <1>3

LEMMA TermsSealed ==
  ASSUME NEW i \in Invoice, NEW k \in ClientKey, NEW s \in ServerKey
  PROVE  SealTerms(i, k, s) \in Terms /\ SealTerms(i, k, s).value = i
<1>1. SealTerms(i, k, s) \in Terms
  BY DEF Terms
<1>2. SealTerms(i, k, s).value = i
  BY DEF SealTerms, Seal
<1> QED BY <1>1, <1>2
-----------------------------------------------------------------------------
(* What clients and the session hold. *)

\* The private terms that belong to an invoice: those it was sealed with.
PrivateOf(i) == IF invoices[i] = "sealed" THEN i ELSE NoInvoice

Keyed(c) ==
  \/ clients[c].server \in ServerKey /\ clients[c].client \in ClientKey
  \/ c \notin Payer /\ clients[c].client = NoKey /\ clients[c].pc = "asking"

Issued(i) == i \in Invoice /\ invoices[i] # "none"

ReceiptFits(c) ==
  LET i == clients[c].invoice  r == clients[c].receipt IN
  \/ invoices[i] = "plain" /\ r = PlainReceipt
  \/ invoices[i] = "sealed" /\ \E s \in ServerKey : r = SealReceipt(i, c, s)

\* What a client holds at each place belongs to one issued invoice.
Fits(c) ==
  /\ clients[c].pc # "idle" => Keyed(c)
  /\ clients[c].pc \in {"challenged", "paying", "presenting"} => Issued(clients[c].invoice)
  /\ clients[c].pc = "challenged" =>
       /\ invoices[clients[c].invoice] = "sealed"
       /\ clients[c].terms \in Terms /\ clients[c].terms.value = clients[c].invoice
  /\ clients[c].pc = "paying" =>
       /\ clients[c].private = PrivateOf(clients[c].invoice)
       /\ c \in Browser => /\ invoices[clients[c].invoice] = "sealed"
                           /\ clients[c].invoice \in paid
  /\ clients[c].pc = "presenting" => clients[c].invoice \in paid /\ ReceiptFits(c)

\* So does what the session holds.
SessionFits ==
  session # NoSession => /\ Issued(session.invoice)
                         /\ session.private = PrivateOf(session.invoice)

ExchangeInv ==
  /\ TypeInv
  /\ paid \subseteq Invoice /\ delivered \subseteq paid
  /\ SessionFits
  /\ \A c \in Client : Fits(c)

\* What no step takes back: an issued invoice, and a payment.
Grows ==
  /\ \A i \in Invoice : invoices[i] # "none" => invoices'[i] = invoices[i]
  /\ paid \subseteq paid'

LEMMA ClientTypes ==
  ASSUME TypeInv, NEW c \in Client
  PROVE  /\ clients[c] \in ClientState /\ clients[c].pc \in Places
         /\ clients[c].server \in ServerKey \cup {NoKey}
         /\ clients[c].client \in ClientKey \cup {NoKey}
         /\ clients[c].invoice \in Invoice \cup {NoInvoice}
         /\ clients[c].private \in Invoice \cup {NoInvoice}
BY DEF TypeInv, ClientState

\* A client that is not moved by a step holds what fits after it.
LEMMA FitsStays ==
  ASSUME TypeInv, Grows, NEW c \in Client, clients'[c] = clients[c], Fits(c)
  PROVE  Fits(c)'
<1>1. clients[c].pc # "idle" => Keyed(c)'
  BY DEF Fits, Keyed
<1>2. clients[c].pc \in {"challenged", "paying", "presenting"} =>
        Issued(clients[c].invoice) /\ invoices'[clients[c].invoice] = invoices[clients[c].invoice]
  BY DEF Fits, Issued, Grows
<1>3. clients[c].pc \in {"challenged", "paying", "presenting"} => Issued(clients[c].invoice)'
  BY <1>2 DEF Issued
<1>4. clients[c].pc = "paying" => PrivateOf(clients[c].invoice)' = PrivateOf(clients[c].invoice)
  BY <1>2 DEF PrivateOf
<1>5. clients[c].pc = "presenting" => ReceiptFits(c)'
  BY <1>2 DEF Fits, ReceiptFits
<1> QED BY <1>1, <1>2, <1>3, <1>4, <1>5 DEF Fits, Grows

LEMMA SessionStays ==
  ASSUME TypeInv, Grows, session' = session, SessionFits PROVE SessionFits'
BY DEF SessionFits, Grows, Issued, PrivateOf

\* A client that stops holds nothing.
LEMMA StopFits ==
  ASSUME TypeInv, NEW c \in Client, Stop(c)
  PROVE  /\ clients' \in [Client -> ClientState]
         /\ Fits(c)' /\ \A d \in Client \ {c} : clients'[d] = clients[d]
<1>1. Idle \in ClientState /\ Idle.pc = "idle"
  BY DEF Idle, ClientState, Places
<1>2. /\ clients' \in [Client -> ClientState] /\ clients'[c] = Idle
      /\ \A d \in Client \ {c} : clients'[d] = clients[d]
  BY <1>1 DEF Stop, TypeInv
<1> QED BY <1>1, <1>2 DEF Fits

\* A step that moves one client, takes nothing back and leaves the session alone
\* keeps the invariant if what it gives the client fits.
LEMMA OneMoves ==
  ASSUME ExchangeInv, NEW c \in Client,
         clients' \in [Client -> ClientState],
         \A d \in Client \ {c} : clients'[d] = clients[d],
         Fits(c)', Grows,
         invoices' \in [Invoice -> {"none", "plain", "sealed"}],
         paid' \subseteq Invoice, delivered' \subseteq paid',
         UNCHANGED <<server, config>>,
         SessionFits', session' \in {NoSession} \cup Sessions
  PROVE  ExchangeInv'
<1>1. ASSUME NEW d \in Client PROVE Fits(d)'
  BY FitsStays DEF ExchangeInv
<1> QED BY <1>1 DEF ExchangeInv, TypeInv

\* A step that only moves one client.
LEMMA OnlyOneMoves ==
  ASSUME ExchangeInv, NEW c \in Client,
         clients' \in [Client -> ClientState],
         \A d \in Client \ {c} : clients'[d] = clients[d],
         Fits(c)', UNCHANGED <<server, config, invoices, session, paid>>,
         delivered' \subseteq paid
  PROVE  ExchangeInv'
<1>1. Grows
  BY DEF Grows
<1>2. SessionFits'
  BY <1>1, SessionStays DEF ExchangeInv
<1> QED BY <1>1, <1>2, OneMoves DEF ExchangeInv, TypeInv

\* Moving a client without giving it anything.
LEMMA GotoFits ==
  ASSUME TypeInv, NEW c \in Client, NEW pc \in Places, Goto(c, pc)
  PROVE  /\ clients' \in [Client -> ClientState]
         /\ \A d \in Client \ {c} : clients'[d] = clients[d]
         /\ clients'[c].pc = pc
         /\ clients'[c].server = clients[c].server
         /\ clients'[c].client = clients[c].client
<1>1. [clients[c] EXCEPT !.pc = pc] \in ClientState
  BY ClientTypes DEF ClientState
<1>2. clients' = [clients EXCEPT ![c] = [clients[c] EXCEPT !.pc = pc]]
  BY DEF Goto
<1>3. /\ clients' \in [Client -> ClientState]
      /\ clients'[c] = [clients[c] EXCEPT !.pc = pc]
      /\ \A d \in Client \ {c} : clients'[d] = clients[d]
  BY <1>1, <1>2 DEF TypeInv
<1> QED BY <1>3, ClientTypes DEF ClientState

\* The steps after which a client holds nothing.
LEMMA StopStep ==
  ASSUME ExchangeInv, NEW c \in Client, Stop(c),
         UNCHANGED <<server, config, invoices, session, paid, delivered>>
  PROVE  ExchangeInv'
BY StopFits, OnlyOneMoves DEF ExchangeInv

LEMMA StartStep == ASSUME ExchangeInv, NEW c \in Client, Start(c) PROVE ExchangeInv'
<1>0. TypeInv
  BY DEF ExchangeInv
<1>1. PICK keys \in {config} \cup IF c \in Payer THEN {}
                                  ELSE {[server |-> NoKey, client |-> NoKey]} :
        clients' = [clients EXCEPT ![c] =
          [Idle EXCEPT !.pc = IF c \in Payer THEN "loading" ELSE "asking",
                       !.server = keys.server, !.client = keys.client]]
  BY DEF Start
<1> DEFINE pc == IF c \in Payer THEN "loading" ELSE "asking"
           new == [Idle EXCEPT !.pc = pc, !.server = keys.server, !.client = keys.client]
<1>2. /\ keys.server \in ServerKey \cup {NoKey} /\ keys.client \in ClientKey \cup {NoKey}
      /\ \/ keys.server \in ServerKey /\ keys.client \in ClientKey
         \/ c \notin Payer /\ keys.client = NoKey
  BY <1>0, <1>1 DEF TypeInv
<1>3. /\ new \in ClientState /\ new.pc = pc /\ new.server = keys.server
      /\ new.client = keys.client
  BY <1>2 DEF Idle, ClientState, Places
<1>4. /\ clients' \in [Client -> ClientState] /\ clients'[c] = new
      /\ \A d \in Client \ {c} : clients'[d] = clients[d]
  BY <1>0, <1>1, <1>3 DEF TypeInv
<1>5. Keyed(c)'
  BY <1>2, <1>3, <1>4 DEF Keyed
<1>6. clients'[c].pc \in {"loading", "asking"}
  BY <1>3, <1>4
<1>7. Fits(c)'
  BY <1>5, <1>6 DEF Fits
<1> QED BY <1>4, <1>7, OnlyOneMoves DEF Start, ExchangeInv

LEMMA AskStep ==
  ASSUME ExchangeInv, NEW c \in Client, NEW i \in Invoice, Ask(c, i) PROVE ExchangeInv'
<1>0. TypeInv /\ Fits(c) /\ SessionFits
  BY DEF ExchangeInv
<1>1. clients[c].client \in ClientKey /\ clients[c].server \in ServerKey
      /\ server.key \in ServerKey
  <2>1. server.client \in ClientKey /\ server.key \in ServerKey
    BY <1>0 DEF TypeInv
  <2>2. clients[c].client # NoKey
    BY <2>1, NoneAssumption DEF Ask, NoneAssumption
  <2> QED BY <1>0, <2>1, <2>2 DEF Ask, At, Fits, Keyed
<1> DEFINE terms == SealTerms(i, clients[c].client, server.key)
           new == [clients[c] EXCEPT !.pc = "challenged", !.invoice = i, !.terms = terms]
<1>2. terms \in Terms /\ terms.value = i
  BY <1>1, TermsSealed
<1> HIDE DEF terms
<1>3. clients' = [clients EXCEPT ![c] = new]
  BY DEF Ask, terms
<1>4. /\ new \in ClientState /\ new.pc = "challenged" /\ new.invoice = i
      /\ new.terms = terms /\ new.server = clients[c].server
      /\ new.client = clients[c].client
  BY <1>0, <1>2, ClientTypes DEF ClientState, Places
<1>5. /\ clients' \in [Client -> ClientState] /\ clients'[c] = new
      /\ \A d \in Client \ {c} : clients'[d] = clients[d]
  BY <1>0, <1>3, <1>4 DEF TypeInv
<1>6. /\ invoices' \in [Invoice -> {"none", "plain", "sealed"}]
      /\ invoices'[i] = "sealed" /\ Grows
      /\ UNCHANGED <<server, config, session, paid, delivered>>
  BY <1>0 DEF Ask, TypeInv, Grows
<1>7. Fits(c)'
  BY <1>1, <1>2, <1>4, <1>5, <1>6 DEF Fits, Keyed, Issued
<1>8. SessionFits'
  BY <1>0, <1>6, SessionStays
<1> QED BY <1>0, <1>5, <1>6, <1>7, <1>8, OneMoves DEF ExchangeInv, TypeInv

LEMMA DeliverStep == ASSUME ExchangeInv, NEW c \in Client, Deliver(c) PROVE ExchangeInv'
<1>0. TypeInv /\ Fits(c) /\ Goto(c, "answered") /\ "answered" \in Places
  BY DEF ExchangeInv, Deliver, Places
<1>1. delivered' \subseteq paid
  BY <1>0 DEF Deliver, At, Fits, ExchangeInv
<1>2. Fits(c)'
  BY <1>0, GotoFits DEF Fits, Keyed, Deliver, At
<1> QED BY <1>0, <1>1, <1>2, GotoFits, OnlyOneMoves DEF Deliver

\* What a process goes on with fits, if the row it goes on with does.
LEMMA ResumeFits ==
  ASSUME TypeInv, NEW p \in Payer, Keyed(p), clients[p].pc # "asking",
         NEW s \in Sessions, Resume(p, s),
         Issued(s.invoice), s.private = PrivateOf(s.invoice),
         UNCHANGED <<invoices, paid>>
  PROVE  /\ clients' \in [Client -> ClientState]
         /\ Fits(p)' /\ \A d \in Client \ {p} : clients'[d] = clients[d]
<1>0. p \in Client /\ p \notin Browser
  BY NoneAssumption DEF NoneAssumption, Client
<1>1. CASE s.state = "completed"
  BY <1>0, <1>1, StopFits DEF Resume
<1>2. CASE s.state # "completed"
  <2> DEFINE new == [clients[p] EXCEPT !.pc = "paying", !.invoice = s.invoice,
                                       !.private = s.private, !.terms = NoTerms]
  <2>1. clients' = [clients EXCEPT ![p] = new]
    BY <1>2 DEF Resume
  <2>2. s.invoice \in Invoice /\ s.private \in Invoice \cup {NoInvoice}
    BY DEF Sessions
  <2>3. /\ new \in ClientState /\ new.pc = "paying" /\ new.invoice = s.invoice
        /\ new.private = s.private /\ new.server = clients[p].server
        /\ new.client = clients[p].client
    BY <1>0, <2>2, ClientTypes DEF ClientState, Places
  <2>4. /\ clients' \in [Client -> ClientState] /\ clients'[p] = new
        /\ \A d \in Client \ {p} : clients'[d] = clients[d]
    BY <1>0, <2>1, <2>3 DEF TypeInv
  <2>5. Keyed(p)' /\ Issued(s.invoice)' /\ PrivateOf(s.invoice)' = PrivateOf(s.invoice)
    BY <1>0, <2>3, <2>4 DEF Keyed, Issued, PrivateOf
  <2>6. Fits(p)'
    BY <1>0, <2>3, <2>4, <2>5 DEF Fits
  <2> QED BY <2>4, <2>6
<1> QED BY <1>1, <1>2

LEMMA LoadStep == ASSUME ExchangeInv, NEW p \in Payer, Load(p) PROVE ExchangeInv'
<1>0. p \in Client /\ TypeInv /\ Fits(p) /\ SessionFits /\ clients[p].pc = "loading"
  BY DEF ExchangeInv, Client, Load, At
<1>1. Keyed(p)
  BY <1>0 DEF Fits
<1>2. CASE session = NoSession
  <2>1. Goto(p, "asking") /\ "asking" \in Places
    BY <1>2 DEF Load, Places
  <2>2. clients'[p].pc = "asking" /\ Keyed(p)'
    BY <1>0, <1>1, <2>1, GotoFits DEF Keyed
  <2>3. Fits(p)'
    BY <2>2 DEF Fits
  <2> QED BY <1>0, <2>1, <2>3, GotoFits, OnlyOneMoves DEF Load, ExchangeInv
<1>3. CASE session # NoSession
  <2>1. session \in Sessions /\ Resume(p, session)
    BY <1>0, <1>3 DEF TypeInv, Load
  <2>2. Issued(session.invoice) /\ session.private = PrivateOf(session.invoice)
    BY <1>0, <1>3 DEF SessionFits
  <2>3. /\ clients' \in [Client -> ClientState]
        /\ Fits(p)' /\ \A d \in Client \ {p} : clients'[d] = clients[d]
    BY <1>0, <1>1, <2>1, <2>2, ResumeFits DEF Load
  <2> QED BY <1>0, <2>3, OnlyOneMoves DEF Load, ExchangeInv
<1> QED BY <1>2, <1>3

LEMMA ClaimStep == ASSUME ExchangeInv, NEW p \in Payer, Claim(p) PROVE ExchangeInv'
<1>0. /\ p \in Client /\ TypeInv /\ Fits(p) /\ SessionFits /\ clients[p].pc = "challenged"
      /\ UNCHANGED <<server, config, invoices, paid, delivered>>
  BY DEF ExchangeInv, Client, Claim, At
<1>1. /\ Keyed(p) /\ Issued(clients[p].invoice) /\ invoices[clients[p].invoice] = "sealed"
      /\ clients[p].terms.value = clients[p].invoice
  BY <1>0 DEF Fits
<1> DEFINE own == [state |-> "pending", invoice |-> clients[p].invoice,
                   private |-> clients[p].terms.value]
           stored == IF session = NoSession THEN own ELSE session
<1>2. own \in Sessions /\ own.invoice = clients[p].invoice
      /\ own.private = clients[p].invoice
  BY <1>0, <1>1 DEF Sessions, Issued
<1>3. /\ stored \in Sessions /\ Issued(stored.invoice)
      /\ stored.private = PrivateOf(stored.invoice)
  BY <1>0, <1>1, <1>2 DEF TypeInv, SessionFits, PrivateOf
<1>4. CASE OpensChallenge(p)
  <2>1. session' = stored /\ Resume(p, stored)
    BY <1>4 DEF Claim
  <2> HIDE DEF own, stored
  <2>2. /\ clients' \in [Client -> ClientState]
        /\ Fits(p)' /\ \A d \in Client \ {p} : clients'[d] = clients[d]
    BY <1>0, <1>1, <1>3, <2>1, ResumeFits
  <2>3. Grows
    BY <1>0 DEF Grows
  <2>4. SessionFits'
    BY <1>0, <1>3, <2>1 DEF SessionFits, Issued, PrivateOf
  <2> QED BY <1>0, <1>3, <2>1, <2>2, <2>3, <2>4, OneMoves DEF ExchangeInv, TypeInv
<1>5. CASE ~OpensChallenge(p)
  BY <1>0, <1>5, StopStep DEF Claim
<1> QED BY <1>4, <1>5

\* Writing the receipt of an issued invoice, which is paid by then.
LEMMA WriteStep ==
  ASSUME ExchangeInv, NEW c \in Client, NEW receipt,
         clients' = [clients EXCEPT ![c].pc = "presenting", ![c].receipt = receipt],
         UNCHANGED <<server, config, invoices, session, delivered>>,
         Keyed(c), clients[c].pc = "paying", Issued(clients[c].invoice),
         paid' = paid \cup {clients[c].invoice},
         \/ invoices[clients[c].invoice] = "plain" /\ receipt = PlainReceipt
         \/ /\ invoices[clients[c].invoice] = "sealed"
            /\ \E s \in ServerKey : receipt = SealReceipt(clients[c].invoice, c, s)
  PROVE  ExchangeInv'
<1>0. TypeInv /\ SessionFits /\ clients[c].invoice \in Invoice
  BY DEF ExchangeInv, Issued
<1>1. receipt \in Receipts \cup {NoReceipt, PlainReceipt}
  BY <1>0, SealedIsReceipt
<1> DEFINE new == [clients[c] EXCEPT !.pc = "presenting", !.receipt = receipt]
<1>2. clients' = [clients EXCEPT ![c] = new]
  OBVIOUS
<1>3. /\ new \in ClientState /\ new.pc = "presenting" /\ new.receipt = receipt
      /\ new.invoice = clients[c].invoice /\ new.server = clients[c].server
      /\ new.client = clients[c].client
  BY <1>0, <1>1, ClientTypes DEF ClientState, Places
<1>4. /\ clients' \in [Client -> ClientState] /\ clients'[c] = new
      /\ \A d \in Client \ {c} : clients'[d] = clients[d]
  BY <1>0, <1>2, <1>3 DEF TypeInv
<1>5. Keyed(c)' /\ ReceiptFits(c)' /\ Issued(clients[c].invoice)'
  BY <1>3, <1>4 DEF Keyed, ReceiptFits, Issued
<1>6. Fits(c)'
  BY <1>3, <1>4, <1>5 DEF Fits
<1>7. Grows
  BY DEF Grows
<1>8. SessionFits'
  BY <1>0, <1>7, SessionStays
<1> QED BY <1>0, <1>4, <1>6, <1>7, <1>8, OneMoves DEF ExchangeInv, TypeInv

LEMMA CreateStep == ASSUME ExchangeInv, NEW p \in Payer, Create(p) PROVE ExchangeInv'
<1>0. /\ p \in Client /\ TypeInv /\ Fits(p) /\ clients[p].pc = "paying"
      /\ UNCHANGED <<server, config, invoices, session, delivered>>
      /\ paid' = paid \cup {clients[p].invoice}
  BY DEF ExchangeInv, Client, Create, At, Writes
<1>1. Keyed(p) /\ Issued(clients[p].invoice) /\ clients[p].server \in ServerKey
  BY <1>0 DEF Fits, Keyed
<1>2. CASE Seals(p)
  <2>1. clients' = [clients EXCEPT ![p].pc = "presenting", ![p].receipt =
                      SealReceipt(clients[p].invoice, p, clients[p].server)]
    BY <1>2 DEF Create, Writes
  <2>2. invoices[clients[p].invoice] = "sealed"
    BY <1>2 DEF Seals
  <2> QED BY <1>0, <1>1, <2>1, <2>2, WriteStep
<1>3. CASE ~Seals(p)
  <2>1. clients' = [clients EXCEPT ![p].pc = "presenting", ![p].receipt = PlainReceipt]
    BY <1>3 DEF Create, Writes
  <2>2. invoices[clients[p].invoice] = "plain"
    BY <1>3 DEF Create
  <2> QED BY <1>0, <1>1, <2>1, <2>2, WriteStep
<1> QED BY <1>2, <1>3

LEMMA CompleteStep == ASSUME ExchangeInv, NEW p \in Payer, Complete(p) PROVE ExchangeInv'
<1>0. /\ p \in Client /\ TypeInv /\ SessionFits /\ Stop(p)
      /\ UNCHANGED <<server, config, invoices, paid, delivered>>
  BY DEF ExchangeInv, Client, Complete
<1>1. Grows
  BY <1>0 DEF Grows
<1>2. session' \in {NoSession} \cup Sessions /\ SessionFits'
  <2>1. CASE session.state = "pending"
    <3>1. session # NoSession
      BY <2>1 DEF NoSession
    <3>2. session \in Sessions
      BY <1>0, <3>1 DEF TypeInv
    <3>3. session' = [session EXCEPT !.state = "completed"]
      BY <2>1 DEF Complete
    <3>4. /\ session' \in Sessions /\ session'.invoice = session.invoice
          /\ session'.private = session.private
      BY <3>2, <3>3 DEF Sessions
    <3> QED BY <1>0, <3>1, <3>4 DEF SessionFits, Issued, PrivateOf
  <2>2. CASE session.state # "pending"
    <3>1. session' = session
      BY <2>2 DEF Complete
    <3> QED BY <1>0, <1>1, <3>1, SessionStays DEF TypeInv
  <2> QED BY <2>1, <2>2
<1>3. /\ clients' \in [Client -> ClientState]
      /\ Fits(p)' /\ \A d \in Client \ {p} : clients'[d] = clients[d]
  BY <1>0, StopFits
<1> QED BY <1>0, <1>1, <1>2, <1>3, OneMoves DEF ExchangeInv, TypeInv

\* A page pays what it was challenged for.
LEMMA TransferStep == ASSUME ExchangeInv, NEW b \in Browser, Transfer(b) PROVE ExchangeInv'
<1>0. /\ b \in Client /\ b \in Browser /\ TypeInv /\ Fits(b) /\ SessionFits
      /\ clients[b].pc = "challenged"
      /\ UNCHANGED <<server, config, invoices, session, delivered>>
  BY DEF ExchangeInv, Client, Transfer, At
<1>1. /\ Keyed(b) /\ Issued(clients[b].invoice) /\ invoices[clients[b].invoice] = "sealed"
      /\ clients[b].terms.value = clients[b].invoice /\ clients[b].invoice \in Invoice
  BY <1>0 DEF Fits, Issued
<1>2. CASE PortableOpensTerms(clients[b].terms, clients[b].invoice,
                              clients[b].client, clients[b].server)
  <2> DEFINE new == [clients[b] EXCEPT !.pc = "paying", !.private = clients[b].invoice]
  <2>1. clients' = [clients EXCEPT ![b] = new] /\ paid' = paid \cup {clients[b].invoice}
    BY <1>1, <1>2 DEF Transfer
  <2>2. /\ new \in ClientState /\ new.pc = "paying" /\ new.private = clients[b].invoice
        /\ new.invoice = clients[b].invoice /\ new.server = clients[b].server
        /\ new.client = clients[b].client
    BY <1>0, <1>1, ClientTypes DEF ClientState, Places
  <2>3. /\ clients' \in [Client -> ClientState] /\ clients'[b] = new
        /\ \A d \in Client \ {b} : clients'[d] = clients[d]
    BY <1>0, <2>1, <2>2 DEF TypeInv
  <2>4. /\ Keyed(b)' /\ Issued(clients[b].invoice)'
        /\ PrivateOf(clients[b].invoice)' = clients[b].invoice
    BY <1>0, <1>1, <2>2, <2>3 DEF Keyed, Issued, PrivateOf
  <2>5. Fits(b)'
    BY <1>0, <1>1, <2>1, <2>2, <2>3, <2>4 DEF Fits
  <2>6. Grows
    BY <1>0, <2>1 DEF Grows
  <2>7. SessionFits'
    BY <1>0, <2>6, SessionStays
  <2> QED BY <1>0, <1>1, <2>1, <2>3, <2>5, <2>6, <2>7, OneMoves DEF ExchangeInv, TypeInv
<1>3. CASE ~PortableOpensTerms(clients[b].terms, clients[b].invoice,
                               clients[b].client, clients[b].server)
  BY <1>0, <1>3, StopStep DEF Transfer
<1> QED BY <1>2, <1>3

LEMMA SignStep == ASSUME ExchangeInv, NEW b \in Browser, Sign(b) PROVE ExchangeInv'
<1>0. /\ b \in Client /\ b \in Browser /\ TypeInv /\ Fits(b) /\ clients[b].pc = "paying"
      /\ UNCHANGED <<server, config, invoices, session, paid, delivered>>
  BY DEF ExchangeInv, Client, Sign, At
<1>1. /\ Keyed(b) /\ Issued(clients[b].invoice) /\ clients[b].server \in ServerKey
      /\ invoices[clients[b].invoice] = "sealed" /\ clients[b].invoice \in paid
      /\ clients[b].private = clients[b].invoice
  BY <1>0 DEF Fits, Keyed, PrivateOf
<1>2. clients' = [clients EXCEPT ![b].pc = "presenting", ![b].receipt =
                    SealReceipt(clients[b].invoice, b, clients[b].server)]
  BY <1>1, PortableIsEnvelope DEF Sign
<1>3. paid' = paid \cup {clients[b].invoice}
  BY <1>0, <1>1
<1> QED BY <1>0, <1>1, <1>2, <1>3, WriteStep

\* The operators change keys, and acknowledge a completed session.
LEMMA OperatorStep ==
  ASSUME ExchangeInv, Acknowledge \/ RestartServer \/ Reconfigure \/ UNCHANGED vars
  PROVE  ExchangeInv'
<1>1. /\ UNCHANGED <<invoices, clients, paid, delivered>>
      /\ session' \in {session, NoSession}
      /\ server' \in [key : ServerKey, client : ClientKey]
      /\ config' \in [server : ServerKey, client : ClientKey]
  BY DEF Acknowledge, RestartServer, Reconfigure, vars, ExchangeInv, TypeInv
<1>2. Grows
  BY <1>1 DEF Grows
<1>3. TypeInv' /\ paid' \subseteq Invoice /\ delivered' \subseteq paid'
  BY <1>1 DEF ExchangeInv, TypeInv
<1>4. \A c \in Client : Fits(c)'
  BY <1>1, <1>2, FitsStays DEF ExchangeInv
<1>5. SessionFits'
  BY <1>1, <1>2, SessionStays DEF ExchangeInv, SessionFits
<1> QED BY <1>3, <1>4, <1>5 DEF ExchangeInv

LEMMA ExchangeStep == ExchangeInv /\ [Next]_vars => ExchangeInv'
<1> SUFFICES ASSUME ExchangeInv, [Next]_vars PROVE ExchangeInv'
  OBVIOUS
<1>1. ASSUME NEW c \in Client, Start(c) \/ Answered(c) \/ Fail(c) PROVE ExchangeInv'
  <2>1. CASE AskRefused(c) \/ Refuse(c) \/ Fail(c)
    BY <2>1, StopStep DEF AskRefused, Refuse, Fail
  <2> QED BY <1>1, <2>1, StartStep, AskStep, DeliverStep DEF Answered
<1>2. ASSUME NEW p \in Payer, PayerStep(p) PROVE ExchangeInv'
  BY <1>2, LoadStep, ClaimStep, CreateStep, CompleteStep DEF PayerStep
<1>3. ASSUME NEW b \in Browser, Transfer(b) \/ Sign(b) PROVE ExchangeInv'
  BY <1>3, TransferStep, SignStep
<1> QED BY <1>1, <1>2, <1>3, OperatorStep DEF Next

\* A database of the time before the encryption fits too.
LEMMA ExchangeInit == Init => ExchangeInv
<1> SUFFICES ASSUME Init PROVE ExchangeInv
  OBVIOUS
<1>1. Idle \in ClientState /\ Idle.pc = "idle"
  BY DEF Idle, ClientState, Places
<1>2. /\ clients \in [Client -> ClientState] /\ \A c \in Client : clients[c].pc = "idle"
  BY <1>1 DEF Init
<1>3. \A c \in Client : Fits(c)
  BY <1>2 DEF Fits
<1>4. server \in [key : ServerKey, client : ClientKey]
      /\ config \in [server : ServerKey, client : ClientKey]
  BY DEF Init
<1>5. CASE session = NoSession /\ paid = {} /\ invoices = [i \in Invoice |-> "none"]
  <2>1. delivered = {}
    BY DEF Init
  <2> QED BY <1>2, <1>3, <1>4, <1>5, <2>1 DEF ExchangeInv, TypeInv, SessionFits
<1>6. ASSUME NEW i \in Invoice,
             session = [NoSession EXCEPT !.state = "pending", !.invoice = i],
             invoices = [j \in Invoice |-> IF j = i THEN "plain" ELSE "none"],
             paid \in {{}, {i}}
      PROVE  ExchangeInv
  <2>1. delivered = {}
    BY DEF Init
  <2>2. session \in Sessions /\ session.invoice = i /\ session.private = NoInvoice
    BY <1>6 DEF NoSession, Sessions
  <2>3. SessionFits
    BY <1>6, <2>2 DEF SessionFits, Issued, PrivateOf
  <2> QED BY <1>2, <1>3, <1>4, <1>6, <2>1, <2>2, <2>3 DEF ExchangeInv, TypeInv
<1> QED BY <1>5, <1>6 DEF Init

LEMMA ExchangeAlways == Spec => []ExchangeInv
BY ExchangeInit, ExchangeStep, PTL DEF Spec
-----------------------------------------------------------------------------
(* The theorems. *)

\* Every state of the exchange is well typed, and nothing is delivered that was not
\* paid.
THEOREM ExchangeTypeCorrect == Spec => []TypeOK
<1>1. ExchangeInv => TypeOK
  BY TypeParts DEF ExchangeInv
<1> QED BY <1>1, ExchangeAlways, PTL

\* Whoever stored the session, a payer pays the invoice of the challenge it presents.
THEOREM TermsOfChallengeAlways == Spec => []TermsOfChallenge
<1>1. ExchangeInv => TermsOfChallenge
  BY DEF ExchangeInv, Fits, TermsOfChallenge, PrivateOf, At, Client
<1> QED BY <1>1, ExchangeAlways, PTL

\* The old protocol is only spoken about invoices that were issued in it.
THEOREM PlainOnlyForPlainAlways == Spec => []PlainOnlyForPlain
<1>1. ExchangeInv => PlainOnlyForPlain
  <2> SUFFICES ASSUME ExchangeInv, NEW c \in Client, clients[c].pc = "presenting",
                      clients[c].receipt = PlainReceipt
               PROVE  invoices[clients[c].invoice] = "plain"
    BY DEF PlainOnlyForPlain, At
  <2>1. ReceiptFits(c) /\ clients[c].invoice \in Invoice
    BY DEF ExchangeInv, Fits, Issued
  <2> QED BY <2>1, SealedIsReceipt DEF ReceiptFits
<1> QED BY <1>1, ExchangeAlways, PTL

\* A receipt that is not read was sealed for a key the server no longer has.
THEOREM UnreadableAlways == Spec => []UnreadableMeansKeysDiffer
<1>1. ExchangeInv => UnreadableMeansKeysDiffer
  <2> SUFFICES ASSUME ExchangeInv, NEW c \in Client, clients[c].pc = "presenting",
                      ~Readable(clients[c].invoice, clients[c].receipt)
               PROVE  /\ clients[c].receipt \in Receipts
                      /\ clients[c].receipt.body.keyId # server.key
    BY DEF UnreadableMeansKeysDiffer, At
  <2>1. ReceiptFits(c) /\ clients[c].invoice \in Invoice
    BY DEF ExchangeInv, Fits, Issued
  <2>2. ~(invoices[clients[c].invoice] = "plain" /\ clients[c].receipt = PlainReceipt)
    BY DEF Readable
  <2>3. PICK s \in ServerKey : clients[c].receipt = SealReceipt(clients[c].invoice, c, s)
    BY <2>1, <2>2 DEF ReceiptFits
  <2>4. invoices[clients[c].invoice] = "sealed"
    BY <2>1, <2>2 DEF ReceiptFits
  <2>5. clients[c].receipt \in Receipts /\ clients[c].receipt.body.keyId = s
    BY <2>1, <2>3, SealedIsReceipt
  <2>6. ~OpensReceipt(clients[c].receipt, clients[c].invoice, server.key)
    BY <2>4, <2>5 DEF Readable
  <2>7. s # server.key
    BY <2>3, <2>6, SealedOpens
  <2> QED BY <2>5, <2>7
<1> QED BY <1>1, ExchangeAlways, PTL
=============================================================================
