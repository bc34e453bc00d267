# Private402 in TLA+

A verification project for stk402: a paid HTTP resource that answers `402` with
an invoice, an Agent Payer that pays it with a private STRK20 transfer on
Starknet, and a signed receipt that the server settles against the chain's
private history. The modules here model each side where money and state meet
(what the server keeps about invoices and claims, what the payer keeps about
sessions, attempts and its budget), and then the two together: their clocks,
their keys, and the receipt that one signs and the other believes.

All source paths below are relative to the repository root (`src/` in
PROJECT.json is that root).

## 1. Inventory

| Component | Source | State it keeps | Operations | Talks to |
|---|---|---|---|---|
| Paid resource handler | `src/private402/paid-sha256.ts` | locals of a run across the await of `settle` | challenge; present a receipt; answer | invoice store, claim ledger, facilitator |
| Invoice store | `invoice-store.ts` | table `issued_invoices`: state issued / settling / accepted, expiry, transaction, lease | issue, get, pruneExpired, countOutstanding, beginSettlement, acceptSettlement, failSettlement | called by the handler |
| Claim ledger | `claim-ledger.ts`, `signed-receipt.ts` | table `payment_claims`, one to one | consume, transactionForInvoice | facilitator (writes), handler (reads) |
| Facilitator | `signed-receipt.ts` | none | verify, settle | signature verifier, evidence reader, ledger |
| Payment evidence | `strk20-history.ts`, `rpc-finality.ts`, `starknet-signature-verifier.ts` | none | findPayment, isFinal, verify | indexer and RPC node |
| Server process | `serve.ts`, `server-runtime.ts`, `http-server.ts`, `server-config.ts` | open databases | start, shutdown | everything above |
| Pay a resource | `pay-resource.ts`, `payment-session.ts` | table `payment_sessions`: pending challenge or completed result of a resource | load, claim, complete, clearPending, acknowledge | server (two requests), receipt creator |
| Receipt creator | `agent-payer.ts` | locals of a run | createReceipt, finishReceipt | journal, budget, prover, paymaster or account, chain |
| Payer journal | `payer-journal.ts` | table `payer_attempts`: in_progress / unknown / submitted | begin, inspect, release, markUnknown, markSubmitted, reconcile* | receipt creator, funding, recovery |
| Daily spend budget | `spend-budget.ts` | table `payer_spend_reservations`, permanent | reserve | receipt creator |
| Operator tools | `payment-recovery.ts`, `recover-payment.ts`, `ack-payment.ts` | none | pay:recover, pay:ack | session table, journal |
| Payer runtime, CLI | `payer-runtime.ts`, `pay.ts`, `fund.ts`, `payer-config.ts` | open databases | runPayer, runFunding | the payer components |
| Payer funding | `fund-payer.ts` | its journal entry | fund | journal, prover, account |
| Receipt typed data | `src/shared/receipt-typed-data.ts` | none | build what a receipt's signature covers | payer, browser, facilitator |
| Private envelope | `private-envelope.ts` in Node, `src/shared/envelope-portable.ts` in the browser | none | seal and open terms and receipts | handler, payer, browser |
| MCP server | `src/mcp/server.ts` | `process.env`, shared by its calls | check, fund, pay | payer runtime |
| Browser payer | `web/src/pay.ts`, `web/src/hooks/*` | React state only | payWithWallet | wallet, server |
| Web interface, checks, shims | `web/src/*`, `src/check-*.ts`, `src/config.ts`, `vendor-shims/` | none | - | - |

What makes them correct, and what is hard about each:

- **Handler and its two tables.** A run reads and writes synchronously until it
  awaits `settle`, which awaits the chain and the indexer for an unbounded time;
  then it writes again. In between other runs present the same or another
  transaction, the lease of the settlement runs out and a retry takes it over,
  the invoice expires, another challenge prunes, and the process dies. Correct
  means: one payment for an invoice and one invoice for a payment, for ever; an
  accepted invoice stays accepted and has a claim; the capacity limit holds; a
  claimed payment is always served when its receipt is presented again.
- **Two implementations of each store.** SQL and in-memory versions are meant
  to be interchangeable; expiry and lease boundaries are where they could differ.
- **Evidence.** Read page by page from a service, and the receipt after that,
  while the chain moves. Correct means: a payment on the history is not denied,
  and one called final is final for good.
- **Payer.** Several processes share one database file; the payment leaves
  through a paymaster or an account, whose answer may be lost. Correct means:
  no invoice is paid twice; nothing beyond the daily limit leaves; a payment
  that left is resumed and presented until it has its own result; recovery never
  drops the session of a payment; no payment leaves too late to be settled.
- **Funding.** One journaled deposit, whose id must not answer for another
  amount, and whose proof must still be valid when it leaves.
- **Receipt.** The terms an invoice was issued under, the account that paid and
  the account that signs are read at different times, from files and wallets that
  change in between. Correct means: an invoice is claimed only by a payment of its
  own terms and by who made it, and a payer that stayed the same, or is again what
  it was, is believed.
- **Payer and server.** The payer decides by its own clock, before a submission
  and a wait, whether an invoice is still worth paying; the server decides by its
  own whether it is still payable. Correct means: the margin covers the difference.
- **Envelope.** Sessions and invoices outlive the keys they were made under, and
  some are older than the encryption. Correct means: every receipt goes out in
  the protocol of its invoice, and becomes readable once the keys agree. The two
  implementations must agree on every value either seals (of the bytes they produce
  nothing is modelled, see section 7).
- **MCP.** Overlapping tool calls share one environment.
- **Browser.** Nothing is persisted between the transfer and the receipt.

## 2. Modules

| Module | What it is |
|---|---|
| `InvoiceStore` | a row of `issued_invoices` and each SQL statement of `SqliteInvoiceStore` as an operator on a row |
| `PaidServer`, `MCPaidServer` | the state machine of the server (handler, tables, facilitator, crash, clock), and its instance for TLC |
| `PaidOnce` | the abstract promise of the server: final payments are claimed once, one to one, and what is given is what is claimed |
| `StoreAgreement` | `InMemoryInvoiceStore` and `InMemoryClaimLedger`, compared call by call with the SQLite side |
| `AgentPayer`, `MCAgentPayer` | the state machine of the payer, and its instance |
| `PaymentJourney`, `MCPaymentJourney` | payer, chain, indexer and `PaidServer` together, with two clocks, and its instance |
| `PayerFunding` | the state machine of the private deposit, with the block height as its clock |
| `EvidenceReader` | one call of `findPayment` after another, against a moving chain |
| `PaymentSession` | the abstract promise of the payer to its caller: one invoice at a time, paid once within the day's limit, answered with its own result, closed when that is known |
| `OneDeposit` | the abstract promise of funding: an id is deposited once, and only a run of its amount is answered, after it succeeded |
| `ClaimedPayment` | the abstract promise of signed receipts: an invoice is claimed once, by a payment of the terms it was issued with |
| `FinalEvidence` | the abstract promise of the reader: payments become final, stay so, and only they are called final |
| `SignedReceipt`, `MCSignedReceipt` | terms, payments, signatures and claims while both sides are reconfigured, and its instance |
| `PortableEnvelope` | the browser's envelope, as operators |
| `PrivateExchange` | server, payer processes and pages exchanging sealed challenges and receipts |
| `McpServer` | the pay tool and the shared environment |
| `*Proofs` | the theorems about the module of that name (section 5) |

How they compose: `PaidServer` is built on `InvoiceStore`; `StoreAgreement` and
`PaymentJourney` extend `PaidServer`, the latter using its actions as they are, so
that every step of the journey is one of the server's or leaves it alone;
`PrivateExchange` uses `PortableEnvelope`. `PaidServer` implements `PaidOnce`, and
`EvidenceReader` implements `FinalEvidence`, which is how `PaidServer` sees it.
`AgentPayer` and the payer of `PaymentJourney` both implement `PaymentSession`: the
first shows that races between payer processes cannot be told from one payer, the
second that the server behind it cannot be told from an answer to what was paid.
`PayerFunding` implements `OneDeposit`, `SignedReceipt` implements `ClaimedPayment`.

### PaidServer

State: `clock` (`Date.now`), `rows` (the invoice table), `ledger` (the claim
table), `workers` (handler runs and what they hold across their await), `final`
(payments final on chain and shown by the indexer), `served` (history of 200
answers).

| Action | Code |
|---|---|
| `Challenge`, `RefuseChallenge` | the branch without a payment header: prune, count, issue or refuse (`paid-sha256.ts:131-219`) |
| `PresentExactRetry`, `PresentStarted`, `PresentExpired`, `PresentRefused` | everything from the payment header to the await of `settle`, one synchronous turn, one action per outcome (`:221-341`) |
| `Verified`, `NotVerified` | `verify`: signature and evidence, or a provider that threw (`signed-receipt.ts:288-343`) |
| `Consume`, `ConsumeFails` | `ledger.consume` (`signed-receipt.ts:345`, `claim-ledger.ts:18-46`) |
| `Serve`, `ServeConflict`, `GiveUp` | the handler after its await: accept and 200; accept throws; failSettlement (`paid-sha256.ts:343-383`) |
| `Crash` | the process dies or shuts down and starts again on the same files |
| `Finalize`, `Tick` | the chain; time |

Hashes: the invoice table compares the spelling the client sent, the ledger the
normalised field element, so `Hash` and `Tx` are different sets and `FeltOf`
maps one to the other. A lease id is 16 random bytes; the model uses the name
of the run, which is as unique as long as the run lives: a row carries the name
of a live run only if that run wrote it, because a run starts one settlement
and every takeover writes another name.

Abstracted: the terms of the invoice and the fields of the receipt (a mismatch
changes no state), the signature (one more way into `NotVerified`), the sealed
envelope (opens or the request is refused before any state changes). The
several `now()` calls of one synchronous turn are one reading.

`Prompt` separates two environments. `FALSE`: a settlement may take longer than
`settlementLeaseMs`, which nothing in the code prevents. `TRUE`: it ends within
the lease. All properties but `ClaimKeepsRow` hold in both.

### StoreAgreement

The in-memory store (`invoice-store.ts:36-124`) is a `Map` with early returns, the
SQLite store a set of guarded statements. Each method of the former is an operator
written as its code is, and `StoresAgree` compares answer and row, for every row
`PaidServer` reaches; so the boundaries compared are those that occur, and the
server is the driver. The two ledgers are compared the same way: one reads two
maps, the other lets the insert fail and asks afterwards what it broke.

### AgentPayer

State: `session` (the row of one resource), `journal`, `reserved` (the three
tables), `procs` (payer processes), `recovery` (what `pay:recover` found before
it deletes), `expires` and `chain` (the server's invoices, the fate of
payments), and four history variables: `sent`, `spent`, `cleared`, `acked`.

Each step is one SQL statement or transaction, or the code between two awaits:
`Start`, `Challenged`, `Claim`, `Load` (payResource and the session table),
`Begin`, `CheckBefore`, `Proved`, `Unprepared`, `Reserve`, `Send`, `Answered`,
`MarkUnknown`, `MarkSubmitted`, `Confirmed`, `Release` (createReceipt),
`Presented`, `Complete`, `GiveUp`, and `Die` at any place. `Tick` cannot fall
between reserving and sending, which are one turn; with a paymaster the second
expiry check is in that turn too (`agent-payer.ts:261-316`), in direct mode the
fee estimate is awaited in between (`UsesPaymaster`).

The policy checks before the journal entry are one refusal (`GiveUp` at
"starting"), those after it are `Unprepared`. Recovery reads the session and
the journal in one step and deletes in another; the gap that matters is the one
between inspection and deletion. One recovery runs at a time.
The three `reconcile*` methods (`payer-journal.ts`) are called by no source, only
by a test: `Reconcile` is an operator who calls them from a program of their own
while no payer process runs, with what the chain says. Without it an attempt that
died in progress, or of unknown outcome, blocks its invoice for good.

`Presented` is the server's answer, at any time or never; a refusal is `GiveUp`.
The server refuses for good an invoice that was neither bound nor claimed before its
expiry (`paid-sha256.ts:131-134`, `:243-246`, `:331-334`; `invoice-store.ts:210-216`).
So the liveness of this module is the payer's half: `PaidEventuallyPresented`, that it
comes to present the receipt again and again until its result is recorded. The
server's half is `ClaimEventuallyServed` and `BoundEventuallyServed`, for an
invoice claimed, or bound to the payment, in time; `LostOnlyIfUpset` says what
it takes to be too late.

A payment counts for the day of its reservation. With a paymaster it is sent in the
same turn; in direct mode the account makes calls of its own before it sends, and
the payment may reach the chain after midnight.

`AckQuiet` separates two uses of `pay:ack`: at any time, or between payer runs.

What is reserved on a day is a sum over rows (`spend-budget.ts:51-56`). `SpentOn`
counts it in units of money, unit `n` of invoice `i` being `<<i, n>>`: units of two
invoices are never the same, so their number is the sum, and a proof can reason about
it with the theorems on cardinality instead of an induction over the rows.

`Promise` maps the module to `PaymentSession`: `open` is the invoice of the session,
`answered` its state, `closed` what was cleared or acknowledged, `paid`, `outcome` and
`spent` are what `sent`, `chain` and `spent` say. The journal, the reservations, the processes
and their places disappear.

### PaymentJourney

`PaidServer` with one payer that has a clock of its own. State, beside the
server's: `session`, `attempt` (the journal entry), `payer` (its place, and until
when a submission or a wait may last), `chain` (what became of the payment), and
`upset` (history: the payer was stopped after the payment had left, or a settlement
failed before the expiry and reopened the invoice).

`Offset` is the set of differences between the payer's clock and the server's;
`MarginAssumption` says the payer's is behind by at most the skew it allows itself,
and that the margin it demands covers skew, submission and wait. The defaults are
`minimumInvoiceValidityMs` 360 s against `allowedClockSkewMs` 30 s and
`waitForTransaction` with 300 retries of one second (`agent-payer.ts`), which leaves
30 s for a submission. It is an assumption, not a fact of the code: nothing in it
times a submission out, and `STK402_MIN_INVOICE_VALIDITY_MS` may be set lower.

`Begin` and `Send` are the two validity checks, `Submitted` the mark in the
journal, `Confirmed` the end of the wait and the signature, `Present` the receipt
at the server, which runs the handler's first turn; `Answered` is any step of a
handler run, and the answer to the payer if it is its run that ends. `Die` is the
process, at any place, and every failure that ends a run. `OthersPrune` is another
client's challenge. The races between payer processes are in `AgentPayer`; here one
process runs at a time. `SpellingAssumption` says that there is one spelling of a
transaction: the journal stores the hash as it came back and a retry presents that
(`agent-payer.ts:337`), so an Agent Payer never presents another.

`Payer` maps the journey to `PaymentSession`, with the payment as soon as it has left
as `paid`, and the payer's last place as the answer. Days and costs are `AgentPayer`'s
and are one and nothing here.

### PayerFunding

State: `height`, `journal`, `procs`, `deposits` (history of what was sent for
an id), `chain`, `answered` (history of hashes returned). `Start` is a run of
`runFunding` with the id and amount of its configuration; `BeginAttempt` is
`journal.begin` with its fingerprint; `Anchor`, `Proved`, `Estimated` are the
three places where a block height is read and used; `Refused` is every other
check and every service that throws; `Release`, `Send`, `Sent`, `MarkUnknown`,
`MarkSubmitted`, `Waited` follow the code (`fund-payer.ts:80-223`), `Die` is
anywhere. The fingerprint is the amount; the other fields of it do not change
under an id without the account changing. The environment promises one thing:
between the reading of the height in the last check and the sending at most
`Lag` blocks pass, and `Lag` is at most `minimumProofValidityBlocks`. That
margin is what the setting is for; nothing in the code bounds the delay.
`deposits`, `chain` and `answered` are the variables of `OneDeposit`, by the same names.
The `reconcile*` methods of the journal are left out: no source calls them, and what
they do to an entry is in `AgentPayer`. So an id whose outcome is unknown stays so.

### EvidenceReader

State: `chain` (the transactions in block order), `accepted` (how many of them
are accepted on L2, and on L1), `reader` (the call), `settled` (history of
evidence with `final`). `Discover` pins the block, which may be behind the
chain, and with it the history, in any order the indexer may list it; `Fetch` is one turn of the loop, with any page the service may return:
short, empty, complete only when nothing is left; `CheckFinal` reads the receipt
as it is then; `Throw` is an error of either service. `Reorg` undoes what is not
yet accepted at the level `Kept`. The server is configured with "l2"
(`server-config.ts:178`) and takes that to be final (README.md:207), so the run
has both constants "l2": what is undone is pre-confirmed.

`PaidServer` uses this module's result as its `final`: a set that only grows,
from which `Verified` takes and outside of which it never does. `FinalEvidence`
states that use as a specification, with `Finalize` and `Settle`;
`Evidence` in this module maps the chain to it (`FinalPayments`, the payments that
are accepted as required), and the mapping is proved. `NotVerified` stands
for a null, for evidence that is not final, and for a throw.

`StepsLeft` counts the answers a call may still wait for, and `CallShrinks` says that
every one of them lowers it.

### PrivateExchange

State: `server` and `config` (the keys each side runs with), `invoices`
(whether a row has sealed terms), `session`, `clients`, `paid`, `delivered`. A
sealed value is a record of the key id, the two ends of the shared secret and
what it is for, the context, and the value; it opens if all of these are the
opener's (`private-envelope.ts:141-309`). `Ask` and `Readable` are the
server's two halves (`paid-sha256.ts:155-202`, `:250-280`), `Load`, `Claim`,
`Create`, `Complete` the payer's (`pay-resource.ts`), `Transfer` and `Sign` the
page's (`web/src/pay.ts`). `RestartServer` and `Reconfigure` change the keys at
any time, one side at a time.

Only the present server and payer, which cannot start without keys, are modelled;
the plaintext protocol appears as what an older database holds (`Init`).
Payment and settlement are one step each: `AgentPayer` and `PaidServer` have
what is inside. `Refuse` may meet any receipt: one that cannot be read, before the
invoice is bound, and one that can, because its invoice expired or the settlement
failed. So a payment whose invoice expires while the keys differ is lost, and
`PaidEventuallyReadable` promises a readable receipt, not its settlement. `claim`
inserts and reads back in one step, and a completed
session is acknowledged between payer runs: both gaps are in `AgentPayer`. Each
receipt has an ephemeral key; it is named by its client, since a client has one
receipt at a time.

A page seals and opens with the operators of `PortableEnvelope`
(`src/shared/envelope-portable.ts`), the server with its own. A page may be built
without keys (`Start`): then it asks without one and is refused.

### SignedReceipt

State: `server` and `agent` (the two configurations in force), `invoices`
(requirements as stored), `transfers`, `claims`, `wallet` and `connected` (what a
page's wallet is set to, and the address the page got when it connected), `clients`,
and `moved` (history: who changed account or network since paying or connecting).

`TypedData` is what a signature covers (`receipt-typed-data.ts`); `Verifies` is
`PrivateExactFacilitator.verify` conjunct by conjunct (`signed-receipt.ts`);
`TermsOf` are the stored requirements the handler settles against, not the ones of
the running configuration. `RestartServer` and `ReconfigureAgent` are the two
environment files, `Allows` the policy of `createReceipt` and `finishReceipt`,
`AgentPay` compares the chain of its node with the network first. `SwitchWallet`
happens at any time, `Connect` and `Disconnect` only while the page's buttons are
enabled. `PagePay` takes account and network of the wallet of then, `PageSign`
the account of the wallet for the signature and the one of the connection for the
`payer` field (`web/src/pay.ts`). `OtherSign` is any other client that signs for its
invoice a transaction it has heard of. Settlement is one step: `PaidServer` has
what is inside. `TurnedAway` is every refusal that is not about what the receipt
says: an invoice expired or pruned, another settlement, a provider that failed.
`PaidEventuallyBelieved` therefore promises a receipt that verifies, not its claim:
an invoice that expires while either side is configured otherwise is lost. `invoices`, `transfers` and `claims` are the variables of
`ClaimedPayment`; clients, configurations, wallets and signatures disappear.

### McpServer

`Receive` is the synchronous part of the tool handler: store the override in
the environment, load the configuration from it, fail if it is not a URL that is
taken. `Answer` ends the call.

## 3. Runs

| Run | Question | Result |
|---|---|---|
| `server_safety` | 2 invoices, 2 overlapping runs, 2 transactions of which one has 2 spellings, capacity 1, slow settlements, crashes: do the nine properties hold, among them that the server implements `PaidOnce` and that the in-memory stores agree? | yes |
| `server_prompt` | does a claimed invoice keep its row when settlements are prompt, and is a claimed payment served in the end? | yes |
| `server_late_claim` | ... and does it keep its row when they are not? | **no**, finding 1 |
| `payer_safety` | 2 invoices, 2 processes, direct mode, acknowledgement at any time, reconciliation between runs: is nothing paid twice or over the limit, and does a payment keep its entry? | yes |
| `payer_session` | with a paymaster and acknowledgement between runs: does the payer implement `PaymentSession`, does a retry resume the payment, does recovery clear no session of a paid invoice, and is the receipt of a payment that succeeded presented until it has its own result? | yes |
| `payer_ack_race` | ... and when `pay:ack` runs beside a payer process? | **no**, finding 2 |
| `journey` | payer and server with different clocks: is an uninterrupted payer never too late, is a payment lost only where it was interrupted, is one that was being settled when its invoice expired served in the end, and does the payer implement `PaymentSession` through all of it? | yes |
| `funding` | 2 processes, 2 ids, 2 amounts, dying anywhere while blocks arrive: does funding implement `OneDeposit`, and is the proof valid when the deposit leaves? | yes |
| `evidence` | transactions arrive, revert and are undone under a reader: is a payment denied only if it is not there, is "final" for good, does the call end? | yes |
| `receipts` | an Agent, a page and another client, two networks, prices, accounts and policies that change: is an invoice claimed only by its payer's payment of its own terms, and is an honest payer believed, also after it and the server were something else for a while? | yes |
| `exchange` | 2 payers, a page, 2 server keys, a fresh or an older database: does every receipt go out in its invoice's protocol, and does a payer that paid come with one that can be read when the keys agree? | yes |
| `mcp_override` | does an override hold for its call only? | **no**, finding 3 |

Bounds. Two runs are enough for every race of the server, each of which is
between the run that holds a settlement and one other. Two invoices are what
one transaction can be disputed between, and with a capacity of one they are
one more than may be outstanding. The clock stops at 2 with an expiry
of 1 and a lease of 0, which lasts to the end of the tick it began in:
so a lease can end before, at and after the expiry,
and the tick after it prunes. The payer's
clock runs over three days of two ticks, with invoices that are
valid, and invoices whose expiry is too far ahead; costs 1 and 2 against a
limit of 2 make one payment fit, two small ones fit, and the rest exceed it.
The runs with liveness are smaller: `server_prompt` has one invoice and a
clock of 3, `payer_session` one cost and one kind of expiry, two invoices still.

`journey` has one invoice, an expiry of 3, a margin of 2 that is exactly the skew
of 1 and a wait of 1, a payer's clock that is one behind, right or one ahead each
time it is read, and a clock that runs two past the expiry. The challenge
is fetched at time 0, since only the time since then matters, and the server does
not crash in the last tick, where no lease could run out any more.

`funding` proves one block back and lets the
chain grow to height 4, which leaves room for a proof to be anchored, to expire
between any two of its checks, and to be made again. `evidence` has
three transactions, one of them with two notes, on pages of two, and gives up
after three pages: a history can take one page, two, or
more than allowed when they are short.

`receipts` has two invoices, two transactions, one page and one other client. A
server configuration pairs a network with a recipient and changes the price, or
names a node of the other network (with which it does not start); the Agent's
change account, limit, network, or node. Ids and transactions are random, so the
next unused one is taken, and a page connects only while an invoice is left, after
which it could do nothing more. `exchange` has two invoices for the two
that race for the session, one client key (a second one puts the
run out of reach; that a change of it makes no receipt unreadable is proved, not
checked), and one page. The theorems have none of these bounds.

A few properties are theorems and belong to no run: `ServedIsClaimed`, `DepositedOnce`
and `AnswerIsItsDeposit`, which the refinement that its run checks implies,
and `AnsweredIsServed`, `ClaimPromise` and `CallShrinks`, which TLC was asked about on
the instances of `journey`, `receipts` and `evidence` before they were proved.

Deadlock is checked in every run but three that really stop: `mcp_override` when
its calls are answered, `journey` when the payer has its answer and the clock has
run out, `receipts` when the invoices are used up.

Fairness. `PaidServer!FairSpec`: a handler run goes on (weak fairness; nothing
in the code waits for another run). Presenting the receipt again, verifying,
consuming and serving are strongly fair for each invoice: the client retries
(the payer keeps its session until it has a result), providers answer
again and again, and the process does not die at the same place every time. No
fairness is assumed of time, the chain, challenges or crashes.
`AgentPayer!FairSpec`: a process takes its next step; begin, and the wait for a
payment that is on chain, succeed at last when tried again and again. Of the server's
answer nothing is assumed. `PaymentJourney!JourneyFairSpec` is the two together: the payer
is run until it has its answer (resume, wait and presentation strongly fair, since
each may fail or die), a handler run goes on, verify, consume and serve succeed at
last, the chain executes and the indexer shows the payment, and time passes,
strongly fair because it stands still while a receipt is being presented.
`EvidenceReader!FairSpec`: a request of the reader is
answered, or times out. `SignedReceipt!FairSpec`: the Agent is run again until it
is answered, so it signs at last if it can again and again; nothing is
assumed of the server's answers, operators, pages and wallets, and
`PaidEventuallyBelieved` supposes that both configurations are in the end what they
were. `PrivateExchange!FairSpec`: one of the payers is run again and again and its
requests are answered, with whatever answer, and creating its receipt does not fail
every time; nothing is assumed of settlements, the other payer, pages, or who
changes which key. `PaidEventuallyReadable` supposes that the server key of both
sides is at last the same, which README.md:116 asks of the operator.

## 4. Findings

1. `server_late_claim`: a settlement that outlives its lease is taken over; the
   first run records the claim, the second one, which looked before the payment
   was visible, fails and sets the row back to `issued` without a look at the
   ledger (`invoice-store.ts:289`). Until the first run accepts the row, it can
   be pruned, and then the paid client's retry meets `unknown_invoice`,
   against README.md:205. Between the claim and the accept the
   present wiring awaits no I/O, so in practice it takes a crash there.
2. `payer_ack_race`: `complete` does not compare invoices
   (`payment-session.ts:96`). A process that is still presenting the receipt of
   an acknowledged payment completes the session of the next invoice with the
   old result, and no retry resumes the new payment, against README.md:143.
   The documentation asks to stop payer processes before
   `pay:recover`; the same care is needed before `pay:ack`. With three invoices the
   same race also lets a `pay:recover` that runs beside payers clear the session
   of a paid invoice, which is why `ClearedNeverSent` is checked, and proved, where
   `pay:ack` runs between payer runs.
3. `mcp_override`: `src/mcp/server.ts:82` writes the override of one call into
   `process.env` for good, against its own description, "for this call only".

## 5. Proofs

Eight modules hold theorems, for every value of the constants that the ASSUMEs of
the component's module admit: any number of invoices, runs, processes and clients,
any expiry, lease, margin, limit and page size. TLC evaluates every ASSUME.

`PaidServerProofs`, about `PaidServer`:

| Theorem | States | Argument |
|---|---|---|
| `TypeCorrect` | `[]TypeOK` | inductive; each SQL statement keeps a row a row |
| `ServedClaims`, `AcceptedClaims`, `OncePerPayment` | `ServedIsClaimed`, `AcceptedHasClaim`, `ServedOncePerPayment` | `PayInv` |
| `ServerKeepsPromise` | `Spec => PaidOnce!Spec` with `claim <- ledger` | every action maps to an abstract step or a stutter, from `PayInv` |
| `AcceptanceIsFinal`, `LateSettlementSafe` | the two action properties | every step does one of six things to a row (`RowStep`); no invariant but types needed |
| `LeaseIsLock` | `[]OneSettlementAtATime` | `LockInv` |
| `PromptClaimsKeepRows` | `Prompt` implies `[]ClaimKeepsRow` | `PromptInv`, on top of the others |
| `CapacityKept` | `[]UnexpiredWithinCap` | the set of payable invoices grows in `Challenge` only, which first counts a superset of it and adds one |

The properties are not inductive as they stand. `ServedIsClaimed` needs to know
that claims do not change and why a run that is past `consume` may serve:
`PayInv` adds that claims are final and one to one, and that a run which is
verified or consumed holds a final, respectively claimed, transaction.
`OneSettlementAtATime` needs what the table says about a run within its term:
`LockInv` adds that its row is still settling under its lease, or accepted, so a
second run cannot start. `ClaimKeepsRow` needs that no run which could
reopen a claimed invoice exists: `PromptInv` adds that every started run is
within its term (which `Prompt` gives) and that the row of a claimed or
consumed invoice is settling for that transaction or accepted.

`StoreAgreementProofs`: `StoresAgreeAlways`, that `StoresAgree` holds whatever the
server reaches. No step needs to be looked at: types suffice, with one
fact each on what a well-formed row and a ledger are.

`AgentPayerProofs`: `PayerTypeCorrect`, `SentOnceAlways`, `SentIsJournaledAlways`,
and, assuming `AckQuiet`, `RetryResumesPaymentAlways` and `ClearedNeverSentAlways`.
`JournalInv` is about the attempt of an invoice: an `in_progress` entry has
at most one owner, the processes between `begin` and their mark; a process that has
not paid yet owns an unpaid invoice, one that has paid owns a reserved and sent one;
a payment keeps its reservation and its entry. So a second payment would need a
second owner, or a reservation that is permanent to be made again. `SessionInv` is
about the session: whoever is going to pay holds the invoice of the session unless
that invoice is dead, that is long expired, unpaid and with no process at work on
it, which it stays (`DeadKept`); and only a dead invoice is in the hands of recovery or was cleared.
Without `AckQuiet` a process of the previous session may still be presenting, and
the theorem is false (finding 2).

`SpendWithinLimitAlways` needs no assumption on `pay:ack`. The limit is checked on what
is reserved, the property is about what was sent, and a run may die in between: so
`BudgetInv` says that what is reserved on a day is finite and within the limit, that
what left on it is exactly the units its paid invoices had reserved, and that a process
about to send has reserved its own cost on the present day. `JournalInv` gives the
rest: what was sent is reserved, and is sent once.

`PayerKeepsPromise` (assuming `AckQuiet`) is the refinement of `PaymentSession`. `Open`
demands an invoice that was never open or paid, for which `FreshInv` says that the
server issues ids once, that no two processes are about to store the same one, and that
a completed session was paid; `Abandon` demands that no money is on the way, which is
what `SessionInv` says of a dead invoice; `Pay` demands that the day's limit is kept.

`PayerFundingProofs`: `FundingTypeCorrect`, `DepositedOnceAlways`,
`AnswerIsItsDepositAlways` from `FundingInv`, which has the same shape as
`JournalInv` (one owner of an id, whose amount is the journal's; a deposit is
journaled); `FundingKeepsPromise`, the refinement of `OneDeposit`, from the same; and `ReadyProofIsValidAlways` from `WindowInv`: what a ready process has
checked is at most `Lag` blocks old and had the margin then.

`EvidenceReaderProofs`: `ReaderTypeCorrect`, `NullIsTrue`, `FinalForGood` and
`ReaderGivesEvidence`, from `ReaderInv`: the transactions read so far are not the one
asked for, a reader that checks finality has found one note, and the settled are
final. What is undone lies above the required acceptance, so a final payment stays
(`FinalityGrows`), and one acceptance makes at most one payment final: that is
why every step of the reader and the chain is a step of `FinalEvidence` or none.
`CallShrinksAlways` is the part of `CallEnds` that can be proved: a call
waits for `MaxPages + 2` answers at most, for every limit and size of the pages, empty
pages that are never the last included.

`PaymentJourneyProofs`: `JourneyIsServed` shows that `JourneySpec` implements
`PaidServer!Spec` (by `PlaceInv`, which says where the payer's session is a real
invoice, so that what it does to the server is one of the server's actions), hence
every theorem about the server holds of the journey. `JourneyTypeCorrect` adds
the payer's places and terms. `OnlyUpsetLoses` and `NeverTooLateAlways` follow from
`InTime`: until the payer is upset, a payer before its first presentation has a row
with enough validity left for what is still ahead of it (submission and wait), and
after it the row is settling for the payer's transaction or accepted, which pruning
leaves alone; `SpellingAssumption` makes that the transaction it presents again.
`AnsweredIsServedAlways` goes from one end of the journey to the other: a payer
that has its answer had a payment that succeeded, and its invoice was served for the
final transaction that is its claim. It needs `Heard`, that the run a presenting payer
listens to is one for its own invoice and still open, so only `Serve` of that run gives
the answer, and `ServedClaims`, taken over through `JourneyIsServed`.
`JourneyKeepsPromise`, the refinement of `PaymentSession`, follows from `Heard` and
`PlaceInv`.

`PrivateExchangeProofs`: `ExchangeTypeCorrect`, `TermsOfChallengeAlways`,
`PlainOnlyForPlainAlways`, `UnreadableAlways`, from `ExchangeInv`: the session, and
every client at every place, hold terms and receipts that fit the way their invoice
was issued, which never changes. What the
ciphers do is assumed, not proved: the lemma `PortableIsEnvelope` only lets the
proof treat pages and payers alike.

`SignedReceiptProofs`: `ReceiptTypeCorrect`, `ClaimIsPaymentAlways` (an action
property), `ReceiptVerifiesAlways` and `ReceiptsKeepPromise` (the refinement of
`ClaimedPayment`), from `ReceiptInv`: a client holds the stored
terms of an issued invoice, the Agent's transaction pays them on the network they
name and, unless it moved, from the account that signs, and the same for a page while
its wallet is left alone.

Only model-checked: the liveness properties (fairness is out of the provers' reach), and
`McpServer`, whose one property is a finding. Every safety invariant and every
refinement that a passing run checks is also a theorem.

## 6. Assumptions and limits

- The clock does not run backwards. The code reads the wall clock.
- One server process on one database; the two tables may lie in the same file.
- SQLite does what its statements say; a failed statement throws and is a
  failed run (`ConsumeFails`, `Die`).
- Ids of 31 random bytes do not repeat.
- The chain, the indexer, the paymaster and the prover are external: they may
  answer late, never, or with an error, but what they show as final is final.
- `countOutstanding` may exceed the limit, because an expired settlement whose
  lease is renewed counts again; what is limited is what is unexpired, and that
  is what `UnexpiredWithinCap` says.

## 7. Not modelled

- `vendor-shims/`, `scripts`, the STRK20 SDK, provers, the paymaster and the chain
  themselves: external, and modelled by what the code makes of their answers.
- Ciphers, key derivation, felt encodings and signatures are ideal: a sealed value
  opens, and a signature verifies, for exactly the same inputs.
- Parsing of environment variables and of requests, HTTP status codes and headers
  that carry no decision, and log lines: no state hangs on them.
- The web interface beyond connecting, disconnecting and paying, and wallet
  discovery.
- `check-*.ts`, `pay:check` and the check tool of the MCP server only read.
- What the browser would have to keep to survive a closed page: the code keeps
  nothing, so no property is stated of it.
- The order in which the indexer lists a history: the model allows every order, so
  it shows neither that 100 pages suffice nor that they do not.

## 8. Plan

Done: 1. `InvoiceStore`, `PaidServer`, `PaidOnce` and their proofs; 2.
`StoreAgreement`; 3. `AgentPayer`; 4. `McpServer`; 5. `PayerFunding`;
6. `EvidenceReader`; 7. `PrivateExchange`; 8. payer and server together
(`PaymentJourney`); 9. `SignedReceipt`; 10. `PortableEnvelope`; 11. the proofs
about all of these but `McpServer`; 12. the abstract specifications of the reader, the
payer, funding and signed receipts, with their refinements.

Left: an abstract specification of the sealed exchange, and the promise of `PaidOnce`
from that of `ClaimedPayment`; the journey with two payer processes on one session, as
one composition instead of two models; and a fault model of SQLite (a statement that
throws after it took effect), which the code does not handle today.
