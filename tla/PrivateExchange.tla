-------------------------- MODULE PrivateExchange --------------------------
(***************************************************************************)
(* The encrypted exchange of a challenge and a receipt between the server  *)
(* (paid-sha256.ts), payer processes that share a session (pay-resource.ts)*)
(* and browsers that keep nothing (web/src/pay.ts), for one resource, while*)
(* both sides are restarted with other envelope keys.  Sealed values are   *)
(* records that open as private-envelope.ts opens them; pages seal and open*)
(* with the code of PortableEnvelope.                                      *)
(***************************************************************************)
EXTENDS Integers, FiniteSets, PortableEnvelope

CONSTANTS Invoice, NoInvoice,
          ServerKey,   \* X25519 key pairs of the server; a pair is one name
          ClientKey,   \* and of the payer, of which the server authorises one
          Payer,       \* payer processes
          Browser,     \* pages that pay
          NoKey

ASSUME NoneAssumption ==
  /\ NoInvoice \notin Invoice /\ NoKey \notin ServerKey \cup ClientKey
  /\ ServerKey \cap ClientKey = {} /\ Payer \cap Browser = {}

Client == Payer \cup Browser

VARIABLES server,    \* .env.server as the running server has it
          config,    \* .env.payer, and what the pages are built with
          invoices,  \* issued_invoices: whether public_requirements are sealed
          session,   \* payment_sessions, the row of the resource
          clients,   \* payer processes and pages
          paid,      \* invoices a payment was made for
          delivered  \* invoices whose receipt the server has read and settled

vars == <<server, config, invoices, session, clients, paid, delivered>>
-----------------------------------------------------------------------------
(* The envelope. *)

\* The additional data of the cipher; what else it holds is fixed by the invoice.
Context(i, k) == [invoice |-> i, client |-> k]

\* Both ends derive the key of the cipher from their secret and the other's
\* public key, and from what the value is for.
Secret(a, b, info) == [ends |-> {a, b}, info |-> info]

Seal(value, ctx, priv, pub, s, info) ==
  [keyId |-> s, secret |-> Secret(priv, pub, info), ctx |-> ctx, value |-> value]

Opens(sealed, ctx, priv, pub, s, info) ==
  /\ sealed.keyId = s
  /\ sealed.secret = Secret(priv, pub, info)
  /\ sealed.ctx = ctx

\* sealPaymentTerms and openPaymentTerms: by the server, for the client's key.
SealTerms(i, k, s) == Seal(i, Context(i, k), s, k, s, "terms")

OpensTerms(sealed, i, k, s) == Opens(sealed, Context(i, k), k, s, s, "terms")

\* sealReceipt and openReceipt: each receipt has a client key of its own, here
\* named by the client that generates it, which is sent along.
SealReceipt(i, c, s) ==
  [client |-> c, body |-> Seal(i, Context(i, c), c, s, s, "receipt")]

OpensReceipt(r, i, s) ==
  Opens(r.body, Context(i, r.client), s, r.client, s, "receipt")
-----------------------------------------------------------------------------
Terms == {SealTerms(i, k, s) : i \in Invoice, k \in ClientKey, s \in ServerKey}

Receipts == {SealReceipt(i, c, s) : i \in Invoice, c \in Client, s \in ServerKey}

NoTerms == [none |-> "terms"]

NoReceipt == [none |-> "receipt"]

PlainReceipt == [none |-> "plain"]   \* a receipt that is not sealed

NoSession == [state |-> "none", invoice |-> NoInvoice, private |-> NoInvoice]

Idle == [pc |-> "idle", server |-> NoKey, client |-> NoKey, invoice |-> NoInvoice,
         terms |-> NoTerms, private |-> NoInvoice, receipt |-> NoReceipt]

TypeOK ==
  /\ server \in [key : ServerKey, client : ClientKey]
  /\ config \in [server : ServerKey, client : ClientKey]
  /\ invoices \in [Invoice -> {"none", "plain", "sealed"}]
  /\ session \in {NoSession} \cup
       [state : {"pending", "completed"}, invoice : Invoice,
        private : Invoice \cup {NoInvoice}]
  /\ clients \in [Client -> [pc : {"idle", "loading", "asking", "challenged", "paying",
                                   "presenting", "answered"},
                             server : ServerKey \cup {NoKey},
                             client : ClientKey \cup {NoKey},
                             invoice : Invoice \cup {NoInvoice},
                             terms : Terms \cup {NoTerms},
                             private : Invoice \cup {NoInvoice},
                             receipt : Receipts \cup {NoReceipt, PlainReceipt}]]
  /\ paid \subseteq Invoice /\ delivered \subseteq paid

\* A database of the time before the encryption may hold a session of it, paid
\* or not: its challenge is not sealed and it has no private terms.
Init ==
  /\ server \in [key : ServerKey, client : ClientKey]
  /\ config = [server |-> server.key, client |-> server.client]
  /\ clients = [c \in Client |-> Idle]
  /\ delivered = {}
  /\ \/ /\ session = NoSession /\ paid = {}
        /\ invoices = [i \in Invoice |-> "none"]
     \/ \E i \in Invoice :
          /\ session = [NoSession EXCEPT !.state = "pending", !.invoice = i]
          /\ invoices = [j \in Invoice |-> IF j = i THEN "plain" ELSE "none"]
          /\ paid \in {{}, {i}}
-----------------------------------------------------------------------------
(* Both kinds of client. *)

At(c, pc) == clients[c].pc = pc

Goto(c, pc) == clients' = [clients EXCEPT ![c].pc = pc]

Stop(c) == clients' = [clients EXCEPT ![c] = Idle]

\* The configuration is read when a process starts, and when a page pays; a page
\* may be built without keys.
Start(c) ==
  /\ At(c, "idle")
  /\ \E keys \in {config} \cup IF c \in Payer THEN {}
                               ELSE {[server |-> NoKey, client |-> NoKey]} :
       clients' = [clients EXCEPT ![c] =
         [Idle EXCEPT !.pc = IF c \in Payer THEN "loading" ELSE "asking",
                      !.server = keys.server, !.client = keys.client]]
  /\ UNCHANGED <<server, config, invoices, session, paid, delivered>>

\* The challenge: an invoice whose terms are sealed for the client's key, which
\* has to be the authorised one.
Ask(c, i) ==
  /\ At(c, "asking")
  /\ clients[c].client = server.client
  /\ invoices[i] = "none"
  /\ invoices' = [invoices EXCEPT ![i] = "sealed"]
  /\ clients' = [clients EXCEPT ![c].pc = "challenged", ![c].invoice = i,
       ![c].terms = SealTerms(i, clients[c].client, server.key)]
  /\ UNCHANGED <<server, config, session, paid, delivered>>

\* 400 without a key, 403 for another, 503 at the limit of outstanding invoices.
AskRefused(c) ==
  /\ At(c, "asking")
  /\ Stop(c)
  /\ UNCHANGED <<server, config, invoices, session, paid, delivered>>

OpensChallenge(c) ==
  OpensTerms(clients[c].terms, clients[c].invoice, clients[c].client, clients[c].server)

\* Mutation: the server opens whatever comes while it has keys.
ReadableByMode(i, r) == r \in Receipts /\ OpensReceipt(r, i, server.key)

\* The handler opens the receipt if the terms it issued were sealed.
Readable(i, r) ==
  CASE invoices[i] = "sealed" -> r \in Receipts /\ OpensReceipt(r, i, server.key)
    [] invoices[i] = "plain" -> r = PlainReceipt
    [] OTHER -> FALSE

\* The receipt is read and settled, and answered with the resource.  This may happen
\* at any time; when it can is PaidServer's.
Deliver(c) ==
  /\ At(c, "presenting")
  /\ Readable(clients[c].invoice, clients[c].receipt)
  /\ delivered' = delivered \cup {clients[c].invoice}
  /\ Goto(c, "answered")
  /\ UNCHANGED <<server, config, invoices, session, paid>>

\* invalid_receipt, or the receipt was read and is refused all the same: its invoice
\* expired before it was settled, or was pruned, or the settlement failed.
Refuse(c) ==
  /\ At(c, "presenting")
  /\ Stop(c)
  /\ UNCHANGED <<server, config, invoices, session, paid, delivered>>

\* An error is thrown, an answer is lost, the process dies or the page closes.
Fail(c) ==
  /\ ~At(c, "idle")
  /\ Stop(c)
  /\ UNCHANGED <<server, config, invoices, session, paid, delivered>>
-----------------------------------------------------------------------------
(* A payer process. *)

\* What a process goes on with, given the row: a completed one is its result.
Resume(p, s) ==
  IF s.state = "completed" THEN Stop(p)
  ELSE clients' = [clients EXCEPT ![p].pc = "paying", ![p].invoice = s.invoice,
                                  ![p].private = s.private, ![p].terms = NoTerms]

Load(p) ==
  /\ At(p, "loading")
  /\ IF session = NoSession THEN Goto(p, "asking") ELSE Resume(p, session)
  /\ UNCHANGED <<server, config, invoices, session, paid, delivered>>

\* Mutation: the stored challenge is taken with the terms the process opened.
ClaimOwnTerms(p) ==
  LET own == [state |-> "pending", invoice |-> clients[p].invoice,
              private |-> clients[p].terms.value]
      stored == IF session = NoSession THEN own ELSE session
  IN  /\ p \in Payer /\ At(p, "challenged")
      /\ IF OpensChallenge(p)
         THEN /\ session' = stored
              /\ Resume(p, [stored EXCEPT !.private = own.private])
         ELSE Stop(p) /\ UNCHANGED session
      /\ UNCHANGED <<server, config, invoices, paid, delivered>>

\* The terms are opened and stored with the challenge, unless another process
\* has stored one: then that is read back, with its terms.
Claim(p) ==
  LET own == [state |-> "pending", invoice |-> clients[p].invoice,
              private |-> clients[p].terms.value]
      stored == IF session = NoSession THEN own ELSE session
  IN  /\ p \in Payer /\ At(p, "challenged")
      /\ IF OpensChallenge(p)
         THEN session' = stored /\ Resume(p, stored)
         ELSE Stop(p) /\ UNCHANGED session
      /\ UNCHANGED <<server, config, invoices, paid, delivered>>

\* Mutation: a process with keys takes the envelope client.
SealsAlways(p) == TRUE

\* PrivateEnvelopeClient or PrivateExactClient: the stored session decides.
Seals(p) ==
  invoices[clients[p].invoice] = "sealed" /\ clients[p].private # NoInvoice

Writes(p, receipt) ==
  /\ clients' = [clients EXCEPT ![p].pc = "presenting", ![p].receipt = receipt]
  /\ UNCHANGED <<server, config, invoices, session, delivered>>

\* Mutation: when the keys have changed since it started, the receipt of a process
\* is sent in the old protocol.
CreateFallsBack(p) ==
  LET i == clients[p].invoice
  IN  /\ p \in Payer /\ At(p, "paying")
      /\ paid' = paid \cup {i}
      /\ Writes(p, IF Seals(p) /\ clients[p].server = config.server
                   THEN SealReceipt(i, p, clients[p].server) ELSE PlainReceipt)

\* Mutation: the invoice is taken from the private terms.
CreateFromTerms(p) ==
  LET i == clients[p].private
  IN  /\ p \in Payer /\ At(p, "paying")
      /\ paid' = paid \cup {i}
      /\ Writes(p, IF Seals(p) THEN SealReceipt(i, p, clients[p].server) ELSE PlainReceipt)

\* The payment is made, or was made before, and its receipt written.  The envelope
\* client takes only the terms of the challenge, the exact client only a
\* challenge that is not sealed.
Create(p) ==
  LET i == clients[p].invoice
  IN  /\ p \in Payer /\ At(p, "paying")
      /\ IF Seals(p) THEN clients[p].private = i ELSE invoices[i] = "plain"
      /\ paid' = paid \cup {i}
      /\ Writes(p, IF Seals(p) THEN SealReceipt(i, p, clients[p].server) ELSE PlainReceipt)

Complete(p) ==
  /\ p \in Payer /\ At(p, "answered")
  /\ session' = IF session.state = "pending"
                THEN [session EXCEPT !.state = "completed"] ELSE session
  /\ Stop(p)
  /\ UNCHANGED <<server, config, invoices, paid, delivered>>

\* pay:ack, between the runs of the payer (AgentPayer shows why).
Acknowledge ==
  /\ session.state = "completed" /\ \A p \in Payer : At(p, "idle")
  /\ session' = NoSession
  /\ UNCHANGED <<server, config, invoices, clients, paid, delivered>>
-----------------------------------------------------------------------------
(* A page. *)

\* The terms are opened, the wallet transfers.
Transfer(b) ==
  /\ b \in Browser /\ At(b, "challenged")
  /\ IF PortableOpensTerms(clients[b].terms, clients[b].invoice,
                           clients[b].client, clients[b].server)
     THEN /\ paid' = paid \cup {clients[b].terms.value}
          /\ clients' = [clients EXCEPT ![b].pc = "paying",
                                        ![b].private = clients[b].terms.value]
     ELSE Stop(b) /\ UNCHANGED paid
  /\ UNCHANGED <<server, config, invoices, session, delivered>>

\* The wallet signs, the receipt is sealed.
Sign(b) ==
  /\ b \in Browser /\ At(b, "paying")
  /\ clients' = [clients EXCEPT ![b].pc = "presenting",
       ![b].receipt = PortableSealReceipt(clients[b].private, b, clients[b].server)]
  /\ UNCHANGED <<server, config, invoices, session, paid, delivered>>
-----------------------------------------------------------------------------
(* Operators. *)

\* The server is restarted, with the same or other keys; its tables stay.
RestartServer ==
  /\ server' \in [key : ServerKey, client : ClientKey]
  /\ UNCHANGED <<config, invoices, session, clients, paid, delivered>>

Reconfigure ==
  /\ config' \in [server : ServerKey, client : ClientKey]
  /\ UNCHANGED <<server, invoices, session, clients, paid, delivered>>

\* What the server does with a request.
Answered(c) ==
  (\E i \in Invoice : Ask(c, i)) \/ AskRefused(c) \/ Deliver(c) \/ Refuse(c)

PayerStep(p) == Load(p) \/ Claim(p) \/ Create(p) \/ Complete(p)

Next ==
  \/ \E c \in Client : Start(c) \/ Answered(c) \/ Fail(c)
  \/ \E p \in Payer : PayerStep(p)
  \/ Acknowledge
  \/ \E b \in Browser : Transfer(b) \/ Sign(b)
  \/ RestartServer \/ Reconfigure

Spec == Init /\ [][Next]_vars

\* One of the payers is run again and again, goes on and is answered, whatever the
\* answer is, and creating its receipt does not fail every time.  The others, the
\* pages and the operators may stop anywhere.
FairPayer == CHOOSE p \in Payer : TRUE

FairSpec ==
  /\ Spec
  /\ WF_vars(PayerStep(FairPayer) \/ Answered(FairPayer))
  /\ SF_vars(Start(FairPayer)) /\ SF_vars(Load(FairPayer))
  /\ SF_vars(Create(FairPayer))
-----------------------------------------------------------------------------
(* Properties *)

\* A payer pays the invoice of the challenge it presents: whoever of two
\* processes stored the session, challenge and private terms go together.
TermsOfChallenge ==
  \A p \in Payer : At(p, "paying") =>
    clients[p].private = IF invoices[clients[p].invoice] = "sealed"
                         THEN clients[p].invoice ELSE NoInvoice

\* A plaintext receipt is sent only for an invoice that was issued in plaintext,
\* whatever keys have changed since (README: "Stored legacy sessions keep their
\* original plaintext protocol for safe retry").
PlainOnlyForPlain ==
  \A c \in Client : At(c, "presenting") /\ clients[c].receipt = PlainReceipt =>
    invoices[clients[c].invoice] = "plain"

\* A receipt that the server cannot read when it arrives was sealed for another
\* key than the one it has now: it is never one of a legacy session, and keys that
\* were changed and are back do no harm.  Nor does a change of the client's key: the
\* run has one, UnreadableAlways proves it for any number.
UnreadableMeansKeysDiffer ==
  \A c \in Client :
    At(c, "presenting") /\ ~Readable(clients[c].invoice, clients[c].receipt) =>
      clients[c].receipt \in Receipts /\ clients[c].receipt.body.keyId # server.key

\* The payment of the session is made and its receipt not settled.
Owed ==
  session.state = "pending" /\ session.invoice \in paid \ delivered

Legacy == session # NoSession /\ invoices[session.invoice] = "plain"

\* What a payer paid it comes to present, again and again until it is settled, in a
\* receipt that the server can read, once the server key of both sides is the same
\* for good, however often it changed before; for a legacy session whatever the keys
\* are.  While the keys differ every receipt is refused before the invoice is
\* bound, so one that expires meanwhile is lost: a readable receipt is all that
\* the keys can give back.
PaidEventuallyReadable ==
  <>[](Legacy \/ config.server = server.key) =>
    (Owed ~> ~Owed \/ \E p \in Payer :
       /\ At(p, "presenting") /\ clients[p].invoice = session.invoice
       /\ Readable(clients[p].invoice, clients[p].receipt))
=============================================================================
