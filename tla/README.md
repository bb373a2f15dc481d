# TLA+ models of kahea

kahea plans API calls from their sources, seals the plans, executes them under
explicit grants and keeps content-addressed evidence of what happened. These
modules model that path: planning, the gates and the connection, WebSocket
sessions and HTTP requests, the workflows and campaigns that run many of them, and
the store that processes share. The models are translated from `src/crates/`;
`PROJECT.json` maps every definition to its lines.

## The system

| Component | State | Operations | Correct when |
|---|---|---|---|
| WebSocket plan (`kahea-core`) | sealed actions and limits | `seal`, `validate` | a sealed plan has one terminal action, last, and its own sends fit its limits |
| Planner (`kahea-plan`) | none; plans on disk | request and session plans, `store_*`, `load_*` | a plan stays within the policy, and lists the grants that running it takes |
| Ingestion (`kahea-ingest`) | none | AsyncAPI operations to session sources; OpenAPI, Postman, HAR and cURL to operations | the source says what the document says |
| Connect pipeline (`kahea-exec/websocket.rs`) | resolved addresses, TLS, upgrade response, evidence so far | `connect_websocket` | what is dialled was granted and checked, what is handed over is what was sealed, every failure leaves its evidence |
| Session executor (`kahea-exec/websocket.rs`) | action index, counters, transcript, verdict; the protocol library's buffers and state | `execute_connected_websocket`, `send_recorded`, `read_expectation`, `execute_client_close`, `finish_session` | no limit is passed, the transcript is what was on the wire, the verdict is justified, the session returns one observation |
| Wire accounting (`WireParser`, `AccountedStream`) | header bytes collected, payload still to come, counters, first failure | `observe` | the same frames are counted however reads and writes cut the stream |
| Deadline stream (`DeadlineState`, `DeadlineTcpStream`) | three deadlines and the one selected, socket timeout, cancellation flag | `configure_session_deadline`, `note_activity`, `read`, `write`, `flush` | a call never waits past a deadline and never gives up before one, and names the earliest |
| HTTP executor (`kahea-exec/lib.rs`) | pinned addresses, token, response, evidence so far | `invoke` | requests are justified, observations complete, secrets removed |
| Evidence store (`kahea-evidence`) | blobs and observations on disk, SQLite index | `put_blob`, `persist_json_observation`, `get` | what is acknowledged can be read back, under crashes and concurrent processes |
| Workflow executor (`kahea-workflow`) | current step, retries, outputs, elapsed time | `invoke_workflow`, retry and end actions | steps run in order on what earlier steps produced, within their retries and the timeout |
| Conformance (`kahea-conformance`) | drawn and selected cases, stored campaign, counts | generation, `store_conformance_plan`, `invoke_conformance` | positive cases are valid, negative ones are not, only sealed plans are sent, the result adds up |
| MCP server (`kahea-mcp`) | none between requests | one request after the other from stdin | same results as the command line |
| Command line, test server | none of their own | | |

Interactions. Planning reads a source and the configuration and writes a sealed plan
to the plans directory; an invocation reads it back. An HTTP invocation makes one or
two exchanges (a token first). A WebSocket invocation connects and then is one
thread that talks to the protocol library (tungstenite), which reads and writes an
`AccountedStream` (the wire accounting), over TLS or directly over a
`DeadlineTcpStream`; the accounting and the deadlines are shared through mutexes, the
cancellation flag with another thread. A workflow calls either executor once per
attempt, a campaign the HTTP executor once per case, one after the other. The store's
directory, its index and the plans are shared by every process of the project, the
MCP server's among them.

What is hard: a peer that sends anything at any time, in any pieces; automatic
answers that use budgets nobody planned for; two copies of the counters; names that
resolve differently a moment later; grants computed by the planner and again by the
executor; a failure whose evidence cannot be stored; a cancellation that arrives
while a call is blocked; timeouts, spurious wake-ups and signals with the same
errno; processes that die between a write, a rename and an index row, or write the
same file; retries against one clock; a generator that must stay inside a schema, or
just outside. `PROJECT.json` lists these as hazards at the line where they bite,
with the properties aimed at them.

## Modules

`WsPlan` holds what validation accepts: limits, actions, outbound totals. A total is
counted unit by unit, as the number of pairs of a position and a unit at it.

`WsGrants` names the grants of a WebSocket plan. `WsPlanning` is
`plan_websocket` as operators: target and host policy, origin, subprotocols, headers,
authentication, the lowering of limits and action timeouts, risk, and the grants.
`AsyncApi` compiles an operation of an AsyncAPI document into the source that
`WsPlanning` takes.

`WsConnect` is `connect_websocket`: the seal, the binding of grants to the target, one
resolution, the boundary, the request, the trace, the TLS configuration, the dials,
the upgrade and its checks, and the evidence of each way to fail. `WsInvoke` composes
them: a job is planned, stored, loaded and then connected, or a plan file from
elsewhere is; its properties are about what the planner and the executor must agree
on.

`WsSession` is one connected session. `pc` is where the thread is:
at the upgrade's left-over bytes, between actions, decoding a buffered frame,
blocked in a read or a write, in a flush, storing the transcript, storing the
observation. A read returns any chunk of whole frames, an end of stream, an error,
a timeout that applies, or a cancellation. `chunk`, `staged` and `inbuf` are the
frames of a read that the accounting has not seen, has accepted, and that the
library has not yet delivered: a refusal in the middle of a read loses the frames
before it. `wire` and `counters` are the two copies of the counters. `peerSent`
and `wireOut` are history. The library is external: it answers a ping or a close
unless we have sent a close, and reports what the executor's error table handles.

`WireParser` is `WireParser::observe` on one direction, slice by slice: the stream
is a frame and an offset in it, the parser only its own three fields. `WireBudget`
is the abstract specification, one decision per whole frame; `WireParser`
implements it with the admitted frames, the reservation and the refused frame as
the mapping. `WsSession` uses the accounting at that level.

`DeadlineStream` is the clock's side of a session: the deadlines the executor
configures before each call, reads and writes (not flushes) that move the idle one, `remaining`,
`await_deadline` with its sleep, and the loops of `read`, `write` and `flush`, which
share their control. `idleFrom`, `begun` and `cancelledAt` are history. The last
call that fails ends the session.

`HttpPlan` is `build_plan` for an OpenAPI operation as operators: configuration, server
selection, parameters, body, risk, authentication, policy, grants and fingerprints.
`HttpInvoke` runs such a plan: gates, evaluation of the token server and of the
target, each with its own resolution while `Rebind` changes what names resolve to,
the token exchange and its receipt, the derivation, the request, the bounded body,
redaction, checks, and the records of the observation, any of which may fail. A
response is a sequence of bytes, so that secrets can overlap and contain each other,
and redaction is its two loops, one turn per step: `NextSecret` takes the longest
secret left, `ReplaceSecret` the next place where it stands. Each byte of the copy
remembers its place in the body, so that a property can ask what is left of a secret.

`EvidenceStore` models processes that share names, inodes and index rows. A file
is written in two parts, so a truncated or half-written file can be told from a
whole one; `fs::write` truncates an existing inode. Each system call and each SQL
statement is one step. Calls on the contents of `Faulty` may fail and their process
die at any step; the contents of `Exclusive` are put by one process at a time.
`EvidenceArchive` is the abstract specification: a content is published, then listed,
then handed out, and nothing is taken back. `EvidenceStore` implements it with the
names of the blobs, the rows and the returned handles as the mapping; for a content of
`Exclusive`, published means whole.

`Workflow` runs a sealed plan: gate checks, then for each step its preparation, its
timeout, its attempts and the selection of an action. An attempt returns any result.
A WebSocket attempt first resolves its name, for as long as the resolver likes, and
then has what is left of its timeout; if nothing is left it dials nothing and does not
pass. An HTTP attempt takes any time: its names are resolved under no timeout and the
client's own starts anew with each request and each part of a body.

`CaseGenerator` is the generator of conformance cases and the validators beside it;
every choice the code takes from a hash is free, and an operator returns the set of
values some hash leads to. `Campaign` draws and selects cases, seals them, stores the
plans and the campaign file by file with several planners at it, and carries the
campaign out while stored plans are replaced and evidence fails.

Each `MC` module defines the small instances (`MCCampaign` also the reference
definition of what a schema allows); each `Proofs` module holds the theorems about
the module it extends.

## Runs

| Run | Shows |
|---|---|
| `ws_session` | budgets, order and content of the transcript, justified verdicts and backed observations, against every peer of the bounds with cancellation at any point, plain and over TLS |
| `ws_session_returns` | every session ends, unless it is cancelled and a layer above the deadline stream retries the interrupted call |
| `wire_parser` | the parser stays on frame boundaries, counts exactly, always advances, and implements `WireBudget` |
| `deadline_stream` | calls wait within every deadline, end only for a reason that holds, name the earliest one, notice cancellation within a poll, and return |
| `ws_connect` | sealed plans stay within the policy and are executable with the grants they list; dials are granted, inside the boundary and in time; what is handed over is what was sealed; results are backed by evidence; connecting returns |
| `http` | requests are justified while names change, the planned grants are enough, observations are complete, secrets are removed, production writes approved |
| `evidence` | what has its final name is whole, or becomes whole where several processes put it; a handle is readable; a row names a blob; the store implements `EvidenceArchive` |
| `workflow` | attempts only after the gates, on available outputs and within the retry limits; verdict of the last step, how the invocation timeout can be passed, termination |
| `campaign` | generated values are valid, mutated ones are not, a stored campaign is complete, only sealed plans are sent, the observation adds up |

Three runs end in a violation; each is a finding in `PROJECT.json`.

* `ws_cancel_returns`: a plain (not TLS) session cancelled during a write never
  returns, because `write_all` retries the `Interrupted` the cancellation is
  reported as. Over TLS a write only fills the record layer's buffer, and the flush
  reports the cancellation if anything is left to write; whether the record layer passes an interrupted read on or
  retries it is not decided by this code, and `WsSession` allows both.
* `evidence_race`: two processes storing the same content share a temporary; one
  may acknowledge a blob the other has truncated. `SettledWhole` in `evidence` shows
  how far it goes: the damage ends with the other's write.
* `workflow_deadline`: an HTTP step keeps the timeout computed before its first
  attempt, so a retry is given more than is left of the invocation timeout.
  `TimeoutHeld` in `workflow` says what does hold.

## What else the modelling met

The properties are stated around these; the models do what the code does.

* After our close, a ping is recorded as answered although nothing is sent
  (`websocket.rs:1132`); `TranscriptFaithful` counts pongs up to our close. A ping or
  close is held to 125 bytes and not to the plan's frame limit (core `lib.rs:629`), so
  a validated plan can be unable to run.
* A production server is recognised by the text of its URL (plan `lib.rs:893`): one
  configured with a base path is not, where README.md:249 and the PRD (1332) speak of
  the server. `ProductionApproved` is about bare origins.
* No timeout covers name resolution (`websocket.rs:443`, exec `lib.rs:272`): a workflow
  can pass its invocation timeout inside a resolver call by as much as the call takes.
  `TimeoutHeld` says that a WebSocket step passes it nowhere else, that such a step then
  does not pass, and that no step and no delayed retry begins after it.
* The planner's list of special addresses is shorter than the executor's, so a
  documentation or reserved literal needs a `net-cidr` grant that the plan does not
  list; so does a literal host of a token server. `GrantsSuffice` and
  `PlannedExecutable` say so.
* The HTTP executor gives a bracketed IPv6 literal to the resolver, which does not
  resolve it. `--set headers.x` is refused for every operation. A header named Origin in
  a session source is not held to `allowed_origins`. An mTLS profile on a `ws://` target is
  sealed, and its identity never used.
* The generator: patterns are recognised by class; formats ignore lengths;
  examples and defaults are used unchecked; overlapping `oneOf` branches, `allOf` of
  scalars, boolean exclusive bounds of numbers and fractional bounds of integers are not
  taken into account; baseline objects are not filled up to `minProperties`; `false`
  is the negative value also where a schema has no type or several; a path parameter
  replaces the first segment with its text; an overridden path-item parameter is
  generated from the overridden schema; `multipleOf` near `i64::MIN` wraps.
  `MCCampaign`'s schemas stay clear of these, except where the reference definition
  allows for them.
* Redaction searches the copy in which longer secrets, and the fields that the plan's
  pointers select, have been replaced. Of two secrets that overlap in a body without one
  containing the other, the second is no longer found and a part of it stays; the same
  holds for a secret that reaches into such a field from outside (exec `lib.rs`,
  `redact_bytes`). `SecretsRemoved` asks that no secret stands in the stored body, and
  that nothing is left of an occurrence that is not cut in this way. The marker
  is a byte of its own in the model: a later secret that matches letters of an earlier
  `[REDACTED]` is not represented.
* Case plans are validated one by one just before their own request, where
  CHANGELOG.md:65 reads as if all were validated first.

## Bounds

Sessions: four plans cover every action type and both terminal actions; limits of
three frames, five bytes, two messages and three bytes a message are all reached and
passed, also by a second message after a complete one; reads of up to
two frames put a refusal in the middle of a read; ten peer frames cover every
message kind with matching and other payloads. Termination uses two inbound frames
and reads of one, enough for every handler twice. Parser: every header form, masked
and not, payloads at and over the frame limit, a malformed length, every slice
length up to 15, longer than the longest header. Deadlines: timeouts below, at and
above the idle and total ones; the clock stops being free at `MaxTime`, after every
deadline has passed.

Connecting: up to two addresses of three kinds (public, known to the planner as
special, known only to the executor), a resolver that takes up to twice the connect
timeout, headers of up to two pieces read in pieces of up to two, responses with each
check failing, jobs for each way a source, a document or a configuration is refused
and for each grant, and plan files with something missing. HTTP: two names, two literals, names that change
between any two steps, operations with each kind of parameter, body and
authentication, two secrets of which one contains the other, bodies around the limit
of four bytes. Store: three processes and two contents, one put by one process at a
time with faults, the other by all without. Workflow: three workflows with both
transports, competing retry actions, own timeouts, reads of earlier, later and own
outputs, success actions; a timeout of five, and
resolver calls and HTTP attempts of up to six, so that a single one passes it. Campaigns: two planners, two draws,
operations for each construct of the generator; the generator's bounds (depth 3, arrays of 3, strings of 6,
numbers in a window of 6 unless bounded, `Widest` 7) stand for the code's and are all reached.

## Fairness

`ws_session_returns`: weak fairness of the thread's own steps, and strong fairness
of the system calls' return, because every deadline of a validated plan is finite
and positive and the stream re-arms the socket timeout from it. `deadline_stream`
derives that assumption: weak fairness of the loop and of a call whose socket
timeout has run out, and strong fairness of the clock. `ws_connect`: weak fairness of
planning and of the connecting thread; the resolver returns, every other call has the
connect deadline. `workflow`: weak fairness of
the one thread; that attempts return is what the runs before show for WebSocket
steps, given that the resolver returns, and for HTTP steps what the client's timeout
and the bound on a body give, with the resolver again. The other runs check safety
only.

## Proofs

All for every value of the constants that the named assumptions admit.

`WsSessionProofs`, from `LimitsAssumption`, `MaxLenAssumption` and `SessionAssumption`,
for every set of plans, peer frames, chunk sizes and limits that validate. Four
invariants, each resting on the one before, with one lemma per action or per group of
actions with the same effect.

* `SessionInv` gives `TypeCorrect`, `Budgets`, `FailureDecides` and `NeverTrips`. The
  limits alone are not inductive: the executor checks its own copy of the counters, so
  it adds that the copy is current whenever no write is in hand (`CopyIsCurrent`), that
  a frame in hand was within the message budget (`FrameInHand`), and that there is
  neither a verdict nor an accounting failure before the end (`UndecidedBeforeEnd`).
* `VerdictInv` gives `PassesAreEarned`, `AcceptedClosesDecide` and
  `ObservationsAreBacked`. A pass is about the whole plan and is decided in one step,
  so the invariant carries what each earlier action has in the transcript
  (`PastPerformed`), that nothing has settled the current one except a close of the
  peer that is being answered (`PresentUnsettled`, `PresentSent`), which frame is in
  hand (`HandMatchesPlan`), and what is stored at the end (`Ending`).
* `FaithInv` gives `TranscriptsAreFaithful`. It says which states of the library go
  with which action (`StateInv`), that the peer's frames are those delivered, then
  those buffered, accepted and not yet observed, in order (`Stream`), that the wire is
  ahead of the sent entries by the frame in hand exactly when that frame has left
  (`SentInv`), and that a pong in hand answers the last ping (`PingInv`). Sequences are
  compared by the rank of positions in finite sets, whose cardinalities change by one
  per step, so no induction over a sequence is needed.
* `BudgetInv` completes `VerdictsAreJustified`, all of `VerdictJustified`: a session ends
  with `budget-exhausted` only if the peer's traffic, or what its pings and closes make
  the library answer, does not fit the sealed limits. The counters forget which frames
  they counted, so `AccountInv` ties them to positions of the stream: the accounting is
  that of the frames admitted so far, the message in progress has the bytes of the
  fragments delivered since the last complete message, the messages counted came in the
  frames delivered, and what was written belongs to the actions begun or answers a frame
  delivered. Because totals are counted units, one more frame adds a
  disjoint set of units and the cardinality theorems of the library do the sums. Where
  a budget runs out, the counter that did not fit is at most the total of the whole
  stream, or of the one message.

`WireParserProofs`: `StaysInSync`, `CountsExactly`, `NeverStalls` and
`ImplementsBudget`, from `WireAssumption`. The invariant `WireInv` is type
correctness with both: the parser's fields determine its offset in the current
frame, and the counters trail the reservation by what is still to come. The
refinement maps a slice, a header part and payload to stuttering, an admission
to an admission and a refusal to a refusal.

`DeadlineStreamProofs`: `WaitingIsBounded`, `EndsAreGenuine`, `EarliestIsReported`,
`CancellationIsPrompt`, from `DeadlineAssumption`. `DeadlineInv` adds that the shared
state is what `select_deadline` makes of the total, the action's and the current
idle deadline (`Configured`), that an armed socket timeout lies within it and within
one poll (`Armed`), and that an end agrees with it (`Ended`).

`WsInvokeProofs`: every safety property of `ws_connect`, from
`ConnectAssumption`, `LiteralAssumption` (what the planner takes for special, the
executor does too), `JobsAssumption` (sources and documents have the shape their
parsers give them) and `DefaultsAssumption`. `ConnectInv` carries what each gate has established
(`GatesPassed`), that nothing is dialled or stored before its time (`NothingYet`), the
evidence on the way to a result (`EvidenceSoFar`) and what the response has shown
(`HandshakeAgreed`); `InvokeInv` adds what planning has established of the plan and that
a planned plan passes the executor's binding. The lemmas below it say what the
operators of `WsPlanning` and `AsyncApi` return: a lowered limit is at most both, a
lowered timeout positive, the grants a superset of the executor's.

`EvidenceStoreProofs`: `StoreTypes`, `PublishedIsWhole`, `HandlesAreReadable`,
`PublishedStays`, from `StoreAssumption`, for any number of processes. `PublishedWhole` is
not inductive: `StoreInv` adds that a file has one name (`NamesDistinct`), that a
process writes only to files of its content (`OpenIsOwn`), that a process alone with
its content still owns the temporary and how far it has come (`AloneProgress`), that
what is missing of a shared file is still to be written by a process that has it open
(`Covered`), and the order of blob, row and handle (`RowsInOrder`).
`ImplementsArchive` shows the refinement of `EvidenceArchive`: under `StoreInv` a blob
that has its name is published, so a rename of a blob publishes, an insert lists, the
rename of an observation hands out, and all other steps stutter.

`HttpInvokeProofs`: `RequestsJustified`, `RequiredGrantsSuffice`, `ObservationsComplete`,
`ProductionWritesApproved`, `SecretsAreRemoved`, from `DefaultConfiguration` (only a
project without a configuration file has version 0, and it configures no servers) and
`BytesAssumption` (bodies and secrets are bytes, and the marker is not one of them). Names may change between any two steps, so `HttpInv` carries at each point
of `invoke` what the gates have established (`Progress`), that an address pinned was
evaluated under the grants (`Pins`), that each exchange on the wire went to such an
address (`WireOK`), and exactly which records are stored (`Records`). Lemmas about
`HttpPlan` say that the grants listed cover what the executor asks for.
`SecretsRemoved` has an invariant of its own, `RedactInv`, for any number of secrets of
any length. In the midst of the loops (`Scanning`) the copy is faithful: its bytes are
those of the places they name, places rise and a run without a marker is a run of the
body. The secrets done with stand nowhere in it, the one in hand not before the cursor,
and an occurrence that no other secret cuts is gone or stands there untouched, waiting for its
turn. A replacement can only break occurrences, never make one, as the marker is no
byte of a secret; and it breaks none that is still due, because a secret still to come is not longer than
the one in hand: this is where the order of the loop matters.

`CampaignProofs`: `CampaignsStoredWhole`, `SealedPlansSent`, `ObservationsAddUp`, from
`CampaignAssumption` (options as the command line admits them, with a largest number of
cases) and `InodeAssumption` (the marks for no file and for a replaced one are no
planners), for any number of planners, cases and failures. `CampaignInv` adds that
nothing is stored before it is sealed nor sent before it is granted (`Sealing`), that
the files before the one a planner is at have their names and what is missing of a file
is still to be written by a planner that has it open (`Storage`), the position of the invocation between a read, a request and its evidence
(`Pace`), and that the counts are those of the replies so far (`Ledger`).

`WorkflowProofs`: `WorkflowTypes`, `AttemptsAreJustified`, `VerdictIsLastSteps`,
`TimeoutIsHeld`, from `WorkflowAssumption`, for every valid workflow, every timeout and
resolvers of any slowness.
`WorkflowInv` adds the number of attempts against the retries at each point
(`Attempted`), that outputs come from steps observed to pass (`Supplied`), that the
finished steps are exactly those before the current one (`InOrder`), and where an
attempt begins and ends against the timeout it was given (`Timed`).

Only model-checked:

* liveness, because the prover has neither fairness nor `ENABLED`;
* `GeneratedConforms` and `NegativesViolate`: the generator and the validators of
  `CaseGenerator` are recursive over schemas, which keeps them outside the prover and
  would take an induction over schemas besides.

## Not modelled, and why

OpenAPI indexing and the Postman, HAR and cURL imports, and Arazzo parsing: conversions
of one document to another, without state. The MCP server's loop: it answers one
request after the other with the operations modelled here and keeps nothing between
them. The command line and the test server. Digests are whether they match; payload
bytes, JSON pointers, header values and encodings are reduced to what the checks tell
apart. A poisoned mutex needs a panic of the one
thread that holds it. A power loss, as opposed to a process death, depends on what
the file system keeps without `fsync`. The idle time is counted from the last
configuration or byte, as in the code; the documents count from bytes alone, and the
difference is the executor's own computing time. Computing time is also what is left
out between an attempt's last call and its return, with the one millisecond a dial gets
at least. Floating-point numbers are whole units: the step by which the generator moves
an exclusive bound is one. An explicit step timeout of 0 in a workflow
is not represented (0 stands for none).

## Order of the work

In this order: `WsPlan` and `WsSession`; `WireParser` over `WireBudget`;
`EvidenceStore`; `DeadlineStream`; `Workflow`; `WsConnect`, `WsPlanning`, `AsyncApi` and their
composition `WsInvoke`; `HttpPlan` and `HttpInvoke`; `CaseGenerator` and `Campaign`;
`EvidenceArchive`; the proofs above. Every safety property of a passing run is a theorem
except the two of the generator.
