# A verification project for FastGate and its checkers

`src/` is a learning monorepo. Its service is **FastGate** (`src/gateway/`), an
HTTP gateway in Go for "model turns": a client posts a strict JSON document, the
gateway admits or refuses it, calls an inference provider at most once and answers
with a closed set of responses. Two Python programs stand guard over the
repository: `scripts/check_contract.py` keeps the published contract of the
gateway frozen and its fixtures true to it, `scripts/check_repository.py` keeps
files, documents, Go layout and the CI workflow in order. This directory models
all three in TLA+, checks the models with TLC on small instances and proves their
central properties with TLAPS for every instance. `PROJECT.json` maps every
definition to the lines it translates.

## 1. Inventory

| Component (source) | State it keeps | Operations | What makes it correct |
| --- | --- | --- | --- |
| Process entry (`gateway/cmd/fastgate/main.go`) | flags, the signal context, the exit status | `main`, `run` | Refuses before it opens anything; exit 0 only after a clean stop |
| Service lifecycle (`internal/service/service.go`) | the owner's call stack, one goroutine, a channel of capacity one, the `http.Server` | `New`, `Serve`, `stop`, health handler | Joins its goroutine, drains within a positive window, loses no cause, always stops |
| Provider port (`internal/provider/provider.go`) | none: immutable values | constructors, validators, `ValidateInvocation` | Admits exactly the bounded values; a provider's answer is a result, a direct failure or the context's own error |
| Fake provider (`internal/provider/fake/fake.go`) | script, cursor, recorded violation | `New`, `Invoke`, `VerifyComplete` | Follows the script, keeps the first violation, verifies exactly |
| Body reader (`internal/modelturn/parse.go:25-68`) | slice, counter of empty reads | `readRequestBody` | Exact limit, bounded memory, terminates against any reader |
| Strict JSON (`internal/modelturn/parse.go:70-201`) | scanner position and flag; decoder position; the recursion with a set of names per object | `validateStrictDocument`, `walkJSONValue`, the surrogate scanner | One document, no duplicate names, bounded depth, real Unicode only |
| Wire decoder (`internal/modelturn/request.go`) | none | `decodeWireRequest`, `safeRequestID`, `mapProviderRequest` | Agrees with the published schema and with the provider port |
| Executor and outcome (`executor.go`, `outcome.go`) | none between requests | `Execute`, the accessors of `Outcome` | Calls the provider once, only for admissible requests; correlates safely |
| HTTP handler and presentation (`internal/modelturnhttp/`) | one goroutine per request | `ServeHTTP`, `prepareOutcome` | One response or an abort; answers conform to their schemas |
| Wire contract (`contracts/model-turn/v1/schema/`) | none | the three schemas | What the Go code has to implement |
| Contract checker: JSON (`scripts/check_contract.py:77-206`) | none | `strict_json`, `require_unicode_scalars`, `matches_type`, `json_equal` | Loads exactly the profile; a guard is never taken for the protocol; one notion of equality |
| Contract checker: schemas (`:209-443`, `:511-635`) | none | `schema_issues`, `validate_instance`, `schema_validation_fingerprint`, the canonical invariants, `check_schema_parity` | Judges as JSON Schema does; the lock breaks exactly when a rule changes |
| Contract checker: corpus (`:446-508`, `:638-763`) | errors, names, fixture paths, coverage, loaded schemas | `safe_file`, `load_canonical_schemas`, `check_contract` | Silent exactly on sound corpora; drops no case in silence |
| Repository checker: files (`scripts/check_repository.py:127-254`, `:499-627`) | errors | the three enumerations, hygiene, links, Go layout, learning metadata, `main` | Exit 0 exactly on sound checkouts; always a report |
| Repository checker: workflow (`:257-496`) | none | `workflow_steps`, `parse_workflow_step`, `check_ci_go_policy` | Reads what the YAML says; passes exactly the promised workflows |
| Gate and CI (`scripts/check`, `.github/workflows/check.yml`) | - | a list of stages | The workflow keeps the policy |
| `latency-lab`, `model-operator`, `control-plane`, `fleet-simulator` | - | - | READMEs only; no program exists |

**How they interact.** `main` calls `run`, which builds a `Service` and hands it a
listener and the signal's context. `Serve` starts one goroutine inside
`http.Server.Serve`, selects between its value and the context, and then drains.
The service mounts `/healthz` only: the model-turn handler exists but nothing
mounts it yet (story ICGT-011). `scripts/check` runs both checkers, CI runs
`scripts/check`, and the policy of the repository checker is about that very
workflow; the checkers share no state with each other or with the gateway, only the
checkout, which they assume nobody changes meanwhile. A request of the handler passes through
`transportRejection`, `Execute` (body reader, strict JSON, wire decoder, mapping),
`Invoker.Invoke`, `ValidateInvocation` and `prepareOutcome`, in one goroutine; two
requests share no mutable state of the handler or the executor. The fake is the
only `Invoker` in the repository.

**What is hard here.** The owner and the goroutine of `Serve` race with the
signal, the accept loop and the connections; a connection may be accepted and not
yet known to the server when the drain begins; three errors may have to be
reported at once; a reader may stall, lie or never end; a request is judged by
three hand-written copies of the same rules in two languages; the context may end
between the provider's return and the moment it is asked; a test may recover from
a panic and go on. The checkers are sequential, and hard in another way: what one
check passes over, another has to report; a lookup is unguarded because an earlier
pass refused whatever would make it fail; loops are left at many places between the
things they collect; a structured document is read line by line; and files are found
in three ways that differ at the edges. `PROJECT.json` lists each of these with its line.

## 2. Modules

| Module | Models | State |
| --- | --- | --- |
| `BodyReader` | the loop of `readRequestBody` | length and capacity of the slice, counter, result; histories of what the reader delivered |
| `StrictDocument` | `validateStrictDocument`: the surrogate scanner over bytes, `walkJSONValue` over tokens, `json.Decoder` as they use it; with a reference definition of a strict document | stage or verdict, text, scanner, decoder, frames of the recursion |
| `RequestParsing` (extends both) | what `Execute` does first: read the body, then validate it | that of both |
| `ServiceLifecycle` | `run`, `New`, `Serve`, `stop` and the part of `net/http` they use | the owner's place and locals, the goroutine and its channel, the server and its connections |
| `ServiceContract` | abstract: what a caller of `Serve` may rely on | phase, live and busy connections, failure, verdict |
| `ModelTurnContract` | abstract: what a client, and whoever pays the provider, may rely on | what may be paid for; per request: cause, calls, what the provider said, how it ended |
| `Provider` | the values of the port and every validator | none |
| `WireRequest` (extends `Provider`) | the decoder from JSON members to a provider request | none |
| `RequestSchema` (extends `WireRequest`) | `request.schema.json`, keyword by keyword | none |
| `WireAgreement` (extends `RequestSchema`) | a walk over documents, one edited member at a time | a document |
| `ModelTurn` (extends `RequestSchema`) | `Execute` up to the provider and after it, and `Outcome` | none |
| `ModelTurnHTTP` (extends `ModelTurn`) | the whole path of a request, with the provider as environment | per request: place, context, provider calls and return, outcome, responses |
| `FakeProvider` (extends `Provider`) | the scripted test double | script, cursor, violation; history of calls |
| `JSONDocument` | JSON values and their equality, `strict_json` and the scan for surrogates and depth | none |
| `SchemaFingerprint` (extends `JSONDocument`) | the canonical form behind the lock | none |
| `SchemaProfile` (extends `SchemaFingerprint`) | `schema_issues` and `validate_instance` | none |
| `CanonicalSchemas` (extends `SchemaProfile`) | the invariants and the parity of the three schemas | none |
| `ContractCheck` | `check_contract` over a tree and a manifest; the four modules above enter as tables over contents | place, index, errors, names, fixture paths, schemas, coverage |
| `SchemaReview`, `CanonicalReview` | schemas edited and spoilt, step by step; with reference definitions of the JSON profile and of JSON Schema | a schema file; three schemas |
| `SchemaEdits`, `SmallDocuments` | edits of a schema node; the three schemas in miniature | none |
| `WorkflowSteps` | the workflow reader and `check_ci_go_policy`, over lines | none |
| `WorkflowDocument` | reference: a workflow as jobs, steps and fields, and how YAML's block style writes it | none |
| `WorkflowReview` | a workflow under edits | a document |
| `MarkdownLinks` | `iter_markdown_links`, beside the code block CommonMark has open | flag, links, open block |
| `RepositoryCheck` | `main` of the repository checker and every check it runs | tree, place, errors, exit |
| `RequestParsingProofs` | the proofs about `BodyReader`, `StrictDocument` and `RequestParsing` | - |
| `ServiceLifecycleProofs`, `FakeProviderProofs`, `ModelTurnHTTPProofs`, `ContractCheckProofs` | the proofs about the modules they are named for | - |
| `WireProofs` | the lemmas about decoder, schema and mapping, and the theorems of `WireAgreement` | - |
| `RepositoryCheckProofs` | the proofs about `RepositoryCheck` and `MarkdownLinks` | - |
| `WorkflowReviewProofs` | the proofs about the workflow's policy | - |
| `MC...` | instances for TLC | - |

**How the data is abstracted.** A Go string is a record of a `word`, where the code
compares it with a literal, and a sequence of character classes, which is all the
validators look at; lengths are real lengths. A JSON value is a tagged record. A Go
function with an `ok` or an error result answers a set, empty for failure. A slice
in `BodyReader` is its length and capacity. In `StrictDocument` a text is its bytes by class (what tells
quotes, escapes, hexadecimal digits and the halves of a surrogate pair apart) and the tokens a lexer cuts them
into, a string with the `word` it decodes to; `Texts` may be any set of such pairs, and a piece that is no token
is the token `bad`. Error texts, logging, header wording and
the copies that constructors take are left out: values have no identity in TLA+.

In the checkers' models a number is the Decimal it was parsed into, sign,
coefficient and exponent, so that 1, 1.0 and 10e-1 are three spellings of one number;
`-0` is zero. A string stands for itself; its length, the patterns it is matched by and
whether it holds a lone surrogate are tables over the few strings of an instance. The
digest of a fingerprint is taken to be injective: the form that is hashed is compared.
An exception that nothing catches is a result of its own (the pseudo-keyword `raise`
in `validate_instance`, the exit `traceback` of `main`). Diagnostics are a set of short names;
their order and the cut at `MAX_ERRORS` (50, as many as can never make an empty report of
a nonempty one) are left out, while `MAX_VIOLATIONS`, which decides verdicts, is kept.
A line of the workflow is its form, its indentation, the gap after its dash, its key and
its value: all the reader's regular expressions ask for. A path of the repository has
the traits its name gives it and, in a checkout, a kind and what its text says.

**How actions correspond to code.** In `ServiceLifecycle` one action is one step
between two points where another goroutine can act: each call of the server, each
case of the select, each receive and the return. `net/http` is external and modelled
from the calls made of it: `Shutdown` sets its flag and closes the listeners it
tracks in one step, waits for the `Serve` calls with no deadline, then polls, closing
idle connections, until nothing is left or its context is done; `Serve` refuses to
start once the flag is set; an accepted connection enters the server in a second
step. In `ModelTurnHTTP` a request's goroutine is atomic between the points where
its context or its provider may act: admission, the call, the return, the check
against `ctx.Err()`, the presentation. A provider may return any combination of a
result and an error, or panic. `BodyReader` takes one action per iteration and lets
the reader answer any count, below and above what `io.Reader` allows. `FakeProvider`
takes one action per call: the type has one owner and no lock.

`StrictDocument` takes one action per turn of the scanner's loop and one per call of
`Token`, with the `More` before it where the loop head asks it. The Go recursion is the sequence `frames`,
a delimiter and a set of names each; the loop of an array and that of an object are the two actions
`NextElement` and `NextMember`. `json.Decoder` is external: `tokenState`, `tokenStack` and the rule that
`Token` skips at most one expected separator are its own, since the walk's correctness rests on them
(`More` looks at no separator). The scanner indexes ahead as the code does; TLC stops with an
error when an index leaves the text, so the passing run also shows that none does on its texts.

`ContractCheck` takes one action for reading the manifest, one for loading the schemas, one
per case and one for the walk at the end; `RepositoryCheck` one for the listing, one for
the checks of the whole tree, one per listed file and one for the learning metadata. The
checkers run alone, so the actions cut at the points where errors have been collected,
not where anything could interfere. The other models of the checkers are pure operators;
their `Review` modules give them inputs by a walk over documents, one edit
an action, so that TLC reports the shortest edits that break a property.

## 3. Runs

| Run | What it shows | Bounds, and why they suffice |
| --- | --- | --- |
| `request_parsing` | The limit is exact, memory stays within one byte of it, patience is exact and calls are bounded; the verdict on a document is exact (`StrictExactly`), and the scanner agrees with a byte-by-byte reader (`SurrogatesExact`) | Limit 14, which a pair of surrogates needs; buffer 6: the capacity doubles once and is then clipped; patience 2: one stall is forgiven, two are not. Depth 2. Texts: all of up to two tokens, three documents with one token deleted or replaced, one with one inserted, strings with escapes whole, halved, doubled, swapped and cut off after every byte, numbers of every length |
| `service_lifecycle` | `Serve` joins, drains in its window, keeps every cause, admits no late connection, always stops, and implements `ServiceContract` | Two connections, so that one can stall while another drains; windows of 1 and 2 ticks; every rule of `validateConfig` broken once |
| `forced_close` | The finding below | as above |
| `wire_agreement` | Decoder, schema and constructor agree; the provider sees the caller's conversation unaltered | `MaxEdits` 2: every pair of members at every pair of boundary values, bounds of 2 characters or items |
| `model_turn_http` | The path implements `ModelTurnContract`: refused unpaid, or paid for once and reported as the provider put it, or aborted for the cause that ended its context; safe correlation; answers conform; usage is never lost | One request: requests share no state. Each way to refuse a transport or a body, each failure code, usage at and past both ends |
| `fake_provider` | The script is followed, the first violation kept, `VerifyComplete` exact, and every answer keeps the port's contract | Scripts of up to three exchanges with `MaxExchanges` 2, three calls (`MaxCalls`), calls that differ in each compared field |
| `schema_review` | `strict_json` loads exactly the profile and puts a refusal down to the right cause; `json_equal` is the fingerprint's notion of sameness; an accepted schema can be used without an exception and judges as JSON Schema does; the lock breaks exactly with the rules | `MaxEdits` 2: every node of every type, every keyword given another rule or no rule, a title that cannot be parsed or holds a lone surrogate, a member twice; one edit possibly hiding the other. `MAX_NESTING_DEPTH` 5, so that the same value is inside the guard at one node and past it at another |
| `canonical_review` | Parity makes the copies of a rule judge alike; the lock implies the readable checks | `MaxEdits` 2: a copy changed in one place, in two, or in all; each schema lost |
| `contract_check` | The check is silent exactly on sound corpora; no case is dropped in silence | Six cases; every one-place fault of the tree with every one-field fault of the manifest, which covers every pair of a file and its case. The tables over contents are checked against the schema modules by named assumptions |
| `workflow_review` | The reader recovers the document: as many steps as it has, each read where it was written, in the order and the jobs they have there; the policy is exact | `MaxEdits` 2 from the repository's own workflow: steps removed, added, swapped, split into another job; conditions at each place; scripts that look like steps; remarks at the margin |
| `block_first` | A finding | one edit of a step that begins with its script |
| `repository_check` | Exit 0 exactly on sound checkouts | Fourteen paths with every trait, any two of them changed in kind, listing or text |

Each property has a mutant in `PROJECT.json`: a plausible bug in one mapped
definition that makes the run report that property.

`CHECK_DEADLOCK FALSE` is set where the system really stops: the walks over documents and
the test of the fake end after their last edit or call, the checkers when they have
reported. In the service, the reader and the handler stopping is an action of its own.

**Fairness** is assumed in `ServiceLifecycle` only: weak fairness of the owner, of
the goroutine's steps and of the clock, because the Go scheduler runs a goroutine
that can move, and of `Accept` failing once the listener is closed. `DrainDeadline`
has strong fairness: after the deadline the context's channel stays ready and the
select of `Shutdown` meets it again at each poll, while the timer keeps making the
other choice possible. Nothing is assumed of clients, handlers or signals, so a
handler that never returns does not keep `Serve` from returning.

**Findings.** `docs/lessons/icgt-005-go-service-lifecycle.md:213` says that if the
drain fails, `Close` stops active HTTP work before the join. `http.Server.Close`
closes connections and waits for no handler: `forced_close` shows `Serve` returning
while a handler still runs (`CloseStopsWork`).

`docs/lessons/icgt-005-go-service-lifecycle.md:309` says that the workflow policy requires
its three commands to be unconditional steps. In a step that begins with `- run: |` the reader
takes the dash's column for the block's and blanks out the fields after the script, an `if`
among them: `block_first` shows a conditional gate that the policy accepts
(`AcceptedIsUnconditional`). `StepsRecovered` and `PolicyExact`, which hold, are about steps that
begin with another field, as all of the repository's do.

**Observations that are no findings.** The branch of `readRequestBody` for a full
buffer is unreachable (`RoomToRead`, proved and without a run); so is the mapping failure of `executeAdmitted`
for a request from the wire (`MappingNeverFails`). `Shutdown`'s wait for listeners has no deadline, and
an accept failure that races the shutdown is reported as `ErrServerClosed`.

Reading the checkers for their models also showed five places where a document or a comment
promises a little more than the code does; they have no run of their own:

- Annotations and harmless order are outside the lock, but `check_schema_parity` compares the
  copies of a duplicated rule with `json_equal`, which sees both (`check_contract.py:599`). A
  description given to one copy only is reported as a change of the rules, which
  `EchoesUnderParity` allows and a contributor may not expect.
- `check_text_hygiene` guards its `read_bytes` against bad UTF-8 only (`check_repository.py:165`),
  so a listed symlink that leads nowhere or to a directory, or an unreadable text file, ends the
  check with an uncaught `OSError`: the exit `traceback` of the model.
- A story that git ignores and that is not UTF-8 is passed over by the metadata check in the
  belief that text hygiene reports it, which never sees the file (`check_repository.py:553`).
  Hence the premise `NoneIgnored` of `ExitExactly`.
- Environment files are passed over by the name they are listed under
  (`check_repository.py:616`), and `read_bytes` follows a link (`:165`): what a listed link with another
  name leads to is read, also where that is one of the files of which `is_environment_file`
  says that "the gate must never inspect" their contents (`:500`).
- A fence of four backticks around one of three, a tilde fence or an indented line of
  backticks inverts the flag of `iter_markdown_links` (`check_repository.py:185`); hence the premise
  `regular` of `LinksExact`.

## 4. Proofs

Every theorem holds for all values of the constants under the named assumptions of
its module (`BoundsAssumption`, `LifecycleAssumption`, `ProviderAssumption`,
`FakeAssumption`, `WireAssumption`, `WalkAssumption`, `InputsAssumption`, `ReturnsAssumption`,
`DepthAssumption`, `TextsAssumption`, `NamesAssumption`, `CheckoutsAssumption`, `ReviewAssumption`,
`SetupAssumption`), which only give the constants their types and the buffer its place under the limit, and say that the policy's accepted
references are not empty. Those of `ContractCheck` also say that what lies in a
tree lies in its directories and that canonical paths are below `schema`. TLC evaluates each
of them on its run's instance.

The library's induction theorems take an operator as a parameter, which the provers cannot
instantiate. Where an argument goes from one position of a list to the next, or counts, the
proofs take the least counterexample instead: that a nonempty set of naturals has a least member
(`LeastMember`) follows from a well-foundedness theorem of the library.

**`RequestParsingProofs`, the reader.** `CallsBounded` is not inductive: a bound on calls needs to
know how many bytes each run of stalls was paid with. `IInv` adds that at the head of the
loop the calls are at most `length * maxConsecutiveNoReads + noReads`, with `length` within
the limit and `noReads` below the patience; a chunk of `n >= 1` bytes then pays for the
stalls before it (`ChunkPays`). All six properties follow.

**The scanner.** The reference, `Reading`, is a recursive function that reads one byte at a time and
remembers where in an escape it is and whether half a pair is pending. That it exists and obeys its own equation
is proved from the least index at which it would not (`ReadingExists`, `ReadingSteps`). `FourDigits` follows it through the
digits of an escape, `PairRead` through the second escape of a pair, `BrokenStays` says that a
spoilt text stays spoilt. `InStep`, the invariant, says that at each turn of the loop the reader is between two
escapes, inside or outside a string as the flag says; `ScanLockstep` shows for every turn that jumping
over 1, 2, 6 or 12 bytes arrives where the reader does, or that refusing is right.

**The walk.** `StrictExactly` compares the verdict with a definition that has no decoder in it: nesting
is counted (`Level`), and what may stand at a place follows from the innermost open container and the token
before (`Fits`). The invariant says that walk and decoder stand at a `Place`: the frames are exactly the
containers open after the tokens consumed (`Nesting`, `InnermostFrame`), each holds the names its
own container has had (`NamesKept`), the prefix is one of a strict document, and the decoder's state is what may follow
(`Expects`, `AcceptsFollows`); `Stacked` says the same of the states it will return to. A lemma `Next...` leads
from each place to the next by a separator, a scalar, a name, an opening or a closing bracket.
For the refusals, `Rejected`, `TooDeep` and `NamedTwice` show that the text is no strict document whatever follows,
and `WholeText` and `MoreThanOne` decide at the end. `StrictInvariance` has one lemma per action.
`StrictExactlyHolds` and `SurrogatesExactHolds` then hold for every set of texts, limit and depth.

**The two together.** `ReaderRefined` and `ValidatorRefined` show that `RequestParsing` implements
its parts, so that what is proved of each holds of `Execute`. `WholeBodyHolds` joins them: what is
validated is every byte the reader delivered, read to its end and within the limit.
`DepthBoundedHolds` bounds the recursion, and with it the stack, on every text. These two are proved and have no run.

**`ServiceLifecycleProofs`.** `IInv` says, for each place of the owner and of the
goroutine, what has already happened: the value is received at most once and only
after the send (`GoroutineFacts`, `ReceiveFacts`), nothing is tracked after the wait
(`ShutdownFacts`), an error of the drain explains the clock (`StopFacts`), and a
handler runs on an active connection until `Close` (`ConnFacts`). It has one step
per action, and gives `JoinedBeforeReturn`, `CausesPreserved`, `CleanExitDrained`,
`GraceWindow` and the action property `NoLateConnection` for any number of
connections, any configuration and any window. The refinement of `ServiceContract`
(`ImplementsContractHolds`) needs three more facts, `RInv`: a listener that is open though the
server does not track it was never accepted from (or `CutOff` would be a step of a serving
server), the connection of a running handler is active or closed, and none is open
once `stop` is over. Each action is then one step of the contract, or none (`StepImplements`).

**`FakeProviderProofs`.** `VerifyExact` speaks of the whole history and needs to know
what the cursor and the recorded violation say of it. `FirstDeparture` adds that
without a violation every call was answered, and that a violation is that of call
`next + 1`, which was not the expected one. That a call without a mismatch *is* the
expected one (`NoRequestMismatch`) says something of every position of three lists,
from a search that stops at the first difference: `NoFirstDifference` takes the least
one there would be. All five properties follow, for every script and every sequence of calls.

**`ModelTurnHTTPProofs`.** The properties speak of the response, long after the context was read and
the provider answered. `Made` says how an outcome came about: refused with the safe identifier
of the body or with none, replaced because the port's contract was broken, or a provider's answer that
`ValidateInvocation` accepted; `MadeStays` shows that a context that ends later does not undo
the verdict, since a context error was accepted only with its own cause, which stays. `IInv` carries
`Made` from the outcome to the response; `MadeAnswered` computes each answer, and the four properties
follow for any number of requests, whatever clients send and providers return. That `retryable`
is a Go `bool` (`ReturnsAssumption`) is needed for the schema alone. `PaidOnlyWhenAdmissible`
compares the call with the published schema, so it rests on two theorems about the operators
of the wire, for every document and all bounds: `DecoderIsSchema` (the decoder written by
hand takes exactly what the schema accepts) and `MappingSucceeds` (what it takes without capabilities the
port accepts). They assume of a strict document what `InputsAssumption` says: strings without
invalid UTF-8 and arrays that are sequences, as `parse.go` ensures; without the first,
schema and decoder differ. `PaidFacts` then follows the call through the states.

`ImplementsContractHolds` is the refinement of `ModelTurnContract`. A request may be paid for there
exactly when the published contract admits it, and `PayableExactly` shows that headers, reader and decoder
let through nothing else; what the provider said is a function of its return (`What`) that looks at
the comment on the port, never at the validators, and how a request ended is read off the response
alone (`Kind`). `SpokenFacts` adds to the invariants that an outcome is a refusal of an unpaid request or
follows what was said. Rejecting is then `Refuse`, the call is `Pay`, the return `Say`, and presenting an
outcome is `Refuse`, `Report` or `Abort`, each only where the contract has it (`PresentEnds`); admission
and the check against `ctx.Err()` are no steps of the contract. A second response, or one beside an
abort, would be an ending the contract does not know. That contract is about safety: it does not say that
a request ends, since a provider may never return. `ResponseOrAbort` says the abort's part of
it once more as an invariant; it is proved and has no run.

**`WireProofs`.** The operators of the wire are compared member by member: a decoder of text, role,
items or capabilities takes a formed value exactly when its keyword of the schema does, and
`DecoderIsSchema` is their conjunction over the seven members. `MappingSucceeds` and the lemmas on what
the mapping keeps (`ConversationKept`, `InstructionsKept`) say what the provider is handed. The three properties of
`wire_agreement`, and `CorrelationAgrees` (the two readings of the correlation ID agree), are theorems of
its walk: every document it reaches has formed members (`WalkInv`), because
`WalkAssumption` says so of the values an edit may put there; no bound on edits enters.

**`ContractCheckProofs`.** `PassExactly` relates the errors at the end to the checkout as a
whole, while the loop adds them case by case. `IInv` says of each place what the errors, names,
fixture paths and coverage are *in terms of the cases so far*: an empty set of errors means that each
case up to `i - 1` is sound, that no two of them share a name or a fixture, and that the collections
hold exactly what those cases contribute; and an unusable schema always left an error with its
path. The lemmas carry the weight: `SafeFileExact` (a path passes `safe_file` exactly when it names
a real file with no symlink on the way), `InventoryExact`, `SchemaErrorsExact`, `VerdictExact`
and `CaseExact` (a case adds no error exactly when it is sound and new). Both properties
follow, for every tree, manifest, set of canonical schemas and outcome of the schema code.

**`RepositoryCheckProofs`.** `Sound` says of the whole checkout what several checks say of
parts of it, some of which pass over what another one has to report. `TreeSilent`, `FileSilent`
and `PairSilent` state what the silence of one check means; `WorkflowSilent` and
`DocumentReadable` carry the argument across the gaps: a workflow, a story or a lesson that
is passed over as unreadable is listed, so that another check has objected to it. `AllSilent`
puts them together; `IInv` then only has to count the files looked at (`ErrorsExact`). That a unit
has a first file (`UnitHasFile`) rests on `LeastMember`. `ExitExactly` follows
for any names that satisfy `NamesAssumption`: the workflow is required and text, Markdown is
text, and neither the workflow nor a story or lesson is named like an environment file.

**`MarkdownLinks`**, proved in the same module. While fences are simple the flag is up exactly when CommonMark has a block
open, and that block is one of three backticks (`FlagFollowsBlock`); each kind of line keeps the
two together. `LinksExact` is a property of this module alone: it is proved, for every file, and has no run.

**`WorkflowReviewProofs`.** `check_ci_go_policy` sees steps by number and compares numbers; `PolicyExact`
promises something of jobs and of the order in which steps are written. `StepsRecovered` is the bridge, and
`PolicyExactWhenRead` proves that the bridge carries: in every document the edits reach, if the reader recovered
the steps then the policy accepts exactly what it promises to. `Rank` numbers the places of a document;
`RankIncreases` and `RankOnto` (the numbers are all of 1 to the number of places, in writing order) turn
the policy's comparisons into `Precedes`, and `SameJob` does so for the blocks. `SetupReviewed`,
`RunsFound` and `RecoveredIsExact` go through the policy's clauses; `DocumentKept` shows that each edit
leaves a document. Whether the reader does recover them is
what the run checks: its scan is a recursion over lines.

**Only model-checked.**

- `StopsAfterTerminalEvent`, liveness under fairness; `ENABLED` likewise is out of the prover's reach.
- The seven properties of `schema_review` and the two of `canonical_review`: they speak of
  recursive operators over documents of any depth.
- `StepsRecovered`: what a recursion over the lines of a workflow computes.

## 5. Not modelled

`ModelTurn` takes the verdict of the strict-document validator as an attribute of the body; what that verdict means is
the subject of `StrictDocument`. Of UTF-8 only validity as a whole is kept, and how the lexer of `encoding/json` cuts
bytes into tokens and decodes a string is taken from the text: the two views of a text are not derived from each
other. The exact-target test of the handler and the parsing of a media type are
booleans of the transport. The text of the health answer, fixed headers, the nil
dependencies that constructors refuse, and concurrent use of one fake (a data race
its comment forbids) are left out.

Of the checkers: the wording and length of diagnostics, the usage message of
`check_contract.py` and its exit status; the characters behind names, patterns, dates and headings (`CASE_NAME`,
`STORY_STATUS`, the labels of a story), which are attributes of a document; how a link's target is
cut out and decoded, which leaves the path it leads to; where a symbolic link leads, other than to a
file, a directory or nothing; numbers past the range of Python's
`Decimal` other than as text that is refused; non-UTF-8 names, and a checkout that changes while
it is checked, which both programs exclude. `scripts/check` is a linear shell script; fixtures
and prose are data.

The operators of `JSONDocument`, `SchemaFingerprint`, `SchemaProfile` and `CanonicalSchemas` are
recursive over documents, so they stay with TLC; `ContractCheck` takes their results as
constants, about which the theorems assume nothing.

## 6. Plan

Done, in this order: `BodyReader`, `ServiceLifecycle` and its contract, the port and
the wire, the request path, the fake; the contract checker from its JSON up to the walk
over the corpus; the workflow policy, the links and `main` of the repository checker; the
proofs of the reader, the lifecycle, the fake, the request path, the corpus walk, the repository
check and the links; the theorems of the wire and of the workflow's policy;
`ModelTurnContract` and its refinement by the request path; `StrictDocument`, its composition with the
reader, and the proof that its verdict is exact.

Left, most important first:

1. A composition of `ModelTurnHTTP` with `FakeProvider` as its provider: a verified
   script means that each request was answered with its own exchange.
2. The profile of the schema code with its recursion in functions over documents of bounded
   depth, so that what holds at a single node can be proved.
3. A lexer between the bytes and the tokens of `StrictDocument`, as far as `encoding/json` is relied on.
