# Formal model of projects-api

TLA+ modules, TLC configurations and TLAPS proofs for the projects API: a
serverless service (API Gateway, two Lambda functions, one DynamoDB table) that
lets API-key owners create, read, list and delete *projects* whose names are
unique across all owners, and that provisions each new project asynchronously
from the table's change stream.

Paths below are relative to the repository's root (`src/projects_api/...`);
`PROJECT.json` gives the exact lines every definition stands for.

## 1. The system

| Component | State it keeps | Operations |
|---|---|---|
| Project repository and routes (`src/projects_api/repositories/projects.py`, `api/routes/projects.py`) | table items `PROJECT#<id>/META` and `NAME#<key>/RESERVATION`; per request: what it read, which call is under way | create (transaction of two puts), get (consistent read), delete (read, then a transaction of two deletes), list (GSI query) |
| Provisioner (`src/projects_provisioner/handler.py`, `provisioners.py`) | `status`, `endpoint`, `failureReason` of the META item; per invocation: the record it is at, the failed ones | CREATED→PROVISIONING, `provision()`, PROVISIONING→READY/FAILED, batch response |
| Event source mapping (`infra/terraform/modules/lambda_provisioner/main.tf`) | position in the stream, retries of the batch, dead-letter queue | deliver, retry from the first failure, bisect, discard to the DLQ |
| Listing (`api/routes/projects.py`, `api/pagination.py`) | the token the client holds; the index GSI1, which lags | one page, next token |
| Name validation (`domain/validation.py`) | none | normalise, check, uniqueness key |
| Request context, identity and errors (`main.py`, `api/context.py`, `api/deps.py`, `api/errors.py`, `observability.py`) | the correlation id of the process's one Logger; per request: its id, caller, status and answer; the log lines | invoke or accept, resolve the id, authenticate, handle, complete, answer what nobody handled |
| Settings, OpenAPI document | none of their own | pure functions of one request |
| Issue seeding (`scripts/seed_issues.py`) | labels, milestones and issues on GitHub; per run: the titles it listed, the ticket it is at | list, create, close, one `gh` call each |
| Rollback (`scripts/rollback.sh`) and deployment (`infra/terraform/modules/lambda_api/main.tf`) | published versions, the alias `live`; per run: the version it saw current, its target | read the alias, list versions, confirm, update, verify; publish, move the alias |
| Other scripts (`build_lambda.sh`, `create_api_key.sh`, `create_local_table.py`) | — | packaging, keys, a local table |
| Infrastructure | declarations | — |

How they interact: a request runs in one Lambda invocation and calls only the
table. The API and the provisioner never call each other; a create puts an
INSERT on the stream, the mapping filters it and hands batches to the
provisioner, and both functions write the same META item under conditions. The
index follows the table asynchronously and is read by the listing alone.

What is hard about it:

* **Two items, one name.** A project and its reservation live in different
  partitions; ADR 0003 rests on the two transactions being all-or-nothing and
  on the conditions of each. Delete computes the reservation's key from a
  record it read *before* the transaction.
* **Retries without answers.** boto3 repeats a call whose answer does not come.
  The transactions carry a ClientRequestToken, which keeps an attempt that was
  applied from being applied again, but not one that was cancelled; the
  provisioner's `UpdateItem` carries none, so its retry can fail its own condition.
* **Calls that are late.** An attempt that nobody waits for any more, because
  another was sent or the invocation is gone, may still get to the table.
* **Invocations that die** between the write and the answer, or between
  PROVISIONING and the result.
* **At-least-once delivery.** A record is delivered again after a partial
  failure, a crash or an abandoned invocation that is still running.
* **The owner deletes** while the provisioner works.
* **Lagging index and second-precision timestamps** under pagination.
* **Point-in-time restores** of single items (`docs/runbook.md`).
* **A script of many calls** that fails between two of them and is run again.
* **One Logger, many requests.** The correlation id set for one request is still
  there when the next begins, and a request may be killed before it ends.
* **A version read before a confirmation**, while deployments publish and move
  the alias.

What makes each part correct is listed with the modules below; `hazards` in
`PROJECT.json` names the line where each difficulty bites and the properties
that watch it.

## 2. Modules

```
ProjectsTable            constants: ids, owners, names, keys; the META item
 ├─ ProjectRepository            the API's requests on the table
 │   └─ ProjectRepositoryRefinement   … implements ProjectRegistry (abstract)
 ├─ Provisioner                  stream, mapping, provisioner Lambda
 └─ ProjectsSystem               ProjectRepositoryRefinement + INSTANCE Provisioner
ProjectListing           pages of an owner's projects over a lagging index
NameValidation           normalise_name, validate_name, name_key
RequestContext           ids, callers, statuses and log lines of requests
Rollback                 the rollback script beside deployments
SeedIssues               re-runs of the issue seeding script
MC*                      small instances for TLC

ProjectRepository_proof   types and names; answers and reads; the registry
Provisioner_proof
 └─ ProjectsSystem_proof   the composition (EXTENDS ProjectRepository_proof,
                           INSTANCE Provisioner_proof)
ProjectListing_proof, NameValidation_proof, RequestContext_proof,
Rollback_proof, SeedIssues_proof
```

### ProjectRepository

Each element of `Requests` is an HTTP request, run by one invocation. Any number run
concurrently. Its state (`req[r]`) is the handler's locals plus the call it has
under way.

| Action | Code |
|---|---|
| `StartCreate` | `create_project` up to the call: owner resolved, name validated, `Project.new` |
| `StartById` | `get_project`/`delete_project` up to the read; a malformed id is answered 404 at once |
| `ReadRecord`, `ReadFails` | `ProjectRepository.get` (consistent `GetItem`), owner compared by the caller; delete goes on to its transaction |
| `EvaluateCreate` | the table's evaluation of the two conditional puts |
| `EvaluateDelete` | … of the two conditional deletes |
| `Conflict` | cancellation with `TransactionConflict` |
| `Receive` | the cancellation reasons, listed or not, mapped to 201/204/409/404/500 |
| `Retry`, `GiveUp` | boto3's attempts (`max_attempts`) |
| `Crash` | the invocation dies or times out: the client sees 502/504 |
| `RestoreRecord`, `RestoreReservation` | the runbook's single-item restores |

The table evaluates an attempt and the handler sees the result in separate
steps. `call` is the last attempt, the one the handler waits for. `Retry` leaves
an attempt whose answer has not come on its way and counts it in `late`:
evaluating an attempt (`Evaluated`) is either of the last one, which the handler
may hear of, or of a late one, of which nobody does. So an attempt may take effect
after the handler has retried, has answered, has given up or has died.
`TokenSeen` is the ClientRequestToken: an attempt of a call that was applied is
answered, not applied again, but a cancelled attempt does not stop the others.

Correct means: names and projects agree (`NamesConsistent`, which makes names
unique), answers are true (`AnswersAreTrue`), a write is never refused because
of itself (`RefusedByAnother`), what was acknowledged stays (`AckedCreateIsDurable`), only
the owner removes (`OnlyItsOwnerRemovesAProject`), nothing is overwritten
(`NoOverwrite`), a reservation is released only with its own project
(`OnlyOwnNameIsReleased`), a delete that lost a race is a 404 and never the
mismatch branch (`DeletedOnce`, `MismatchNeverSeen`), and one reads one's own
creates (`ReadYourCreate`).

### ProjectRegistry and the refinement

`ProjectRegistry` is what clients may rely on, without items, reservations
or transactions: every request takes effect at most once and at one moment
(`done`). "Yes" is said only after it did, or to a read of a project that is there;
"no" only to a request that could not
be granted at some moment before (`refused`, or hopeless as things stand), and a
request that was told "no" or refused takes effect later only if it is a create
its handler has sent more than once (`repeated`); "unknown", for 500/502/504,
leaves it open. `ProjectRepositoryRefinement` maps META items to projects, applied
requests to `done`, verdicts to `refused`, attempts to `repeated` and answers
to `said`, and checks `ImplementsRegistry`.

The exception for repeated creates is what the code allows, not a choice of the
model: attempt 1 is late, attempt 2 finds the name taken and the client is told
409, the name is freed, attempt 1 arrives and is applied. A 404 has no such
exception: a record that is gone does not come back.

### Provisioner

One shard of the stream, one mapping, any number of execution environments
(`Workers`). A record is handled in the order of `record_handler`: `Begin`
(CREATED→PROVISIONING), `Provision` (`provision()` returns an endpoint, none,
or raises), `Complete` or `Fail`; `BatchProcessor` notes a raised record and
goes on. `Respond` gives the mapping the batch's failures; `RetryOrDiscard` is
the mapping's retry from the first failure, bisection, and the dead-letter
queue. `Transition` is `_transition`'s conditional `UpdateItem` with what boto3
makes of it. `Faults` switches what may go wrong: refused updates, lost
answers, crashes, abandoned invocations. An update whose call raised or whose
invocation died may still be on its way (`late`, at most `MaxLate` of them) and
be evaluated at any later moment, or never (`Arrive`). `Create` and `Delete` are
what the API does to the table.

### ProjectsSystem

The composition: an API step publishes the items it inserts (`Publish`),
`MeetsStatusUpdate` is a transaction cancelled by a status update of the same
item, under way or late. It shows that the API is the environment `Provisioner` assumes
(`ProvisionerIsImplemented`) and that the registry is still implemented.
`NewProjectsAreNoticed` joins the halves: a project that an API request stored
and nobody has begun to provision has its record on the stream, and the mapping
has it still ahead or in the dead-letter queue.

### ProjectListing, NameValidation

The listing has a clock in seconds, items that are made, stored, deleted and
indexed at different moments, and pages with tokens that are index keys. A page
is any answer the query may give (`IsPage`): the newest of the items behind the
token, newest first, all of them unless the page is full. A client may come with
another owner's token or a mangled one (`TokensAtHand`), which `decode_cursor`
or the table rejects (`Decodable`, `RejectToken`), or with a well-formed token of
its own partition that it has made up, which both accept: such a page is in order
and has none but the owner's projects, and what follows it is not promised
anything (`EditedTokens`, `ListEdited`). `steady` records for each
listing which projects have been in the index since its first page.

Name validation is `strip`, then `re.sub` one character at a time (`Squeeze`).
It is checked against a reference that mentions neither: the characters of a
text that are not white space, by rank (`Letters`), and where a word ends
between two of them (`Gap`). One character stands for each class.

### SeedIssues

Each `gh` call is an action and may succeed, fail, or take effect although the
run sees a failure; a failure, of the calls that only read included, ends the run,
and another run starts from what is on GitHub. A dry run makes no mutating call. People open and close issues at
any time; runs do not overlap. Correct means: at most one issue for a ticket as
long as `gh issue list` shows all issues (`OneIssuePerTicket`), nothing left
out by a run that ends well (`CompletedRunSeedsAll`), and at most one done
ticket left open for each failed run (`FailedRunsLeaveOneOpen`). The last is
the precise form of "created and immediately closed": an interruption between
the two calls does leave an issue open, and no later run closes it.

### RequestContext

One process: a Lambda execution environment, which serves one event after
another, or uvicorn (`ENV=local`), which serves requests concurrently. What all
requests share is the Logger's `correlation`; what is written goes to `log`.

| Action | Code |
|---|---|
| `Invoke` | Lambda calls `handler`: `inject_lambda_context` sets the correlation id from the event, or clears it |
| `Accept` | uvicorn accepts a request: no event |
| `Enter` | the middleware up to the inner app: the id resolved, stashed and set on the Logger |
| `Unauthenticated`, `Authenticate` | no route, a public one, or a body that is no JSON (400 before anybody asks for the caller); `current_user`: key id of the event, header only locally, else 401 |
| `Handle` | the route: an answer, a problem response, or an exception nobody expects, with or without a log line |
| `Complete` | the middleware's `finally`: "request completed" with the status it has seen |
| `Unhandled` | the server-error handler outside the middleware: logs and answers 500 |
| `TimeOut` | Lambda kills the invocation; the next event gets a new process |

Every line carries the Logger's `correlation_id`; only "request completed" has a
`request_id` and an `owner_id` of its own (`Line`). Middleware, dependency and
error handlers each resolve id and caller on their own, so that they agree is not given: one id per request
(`OneIdPerRequest`), no line with the id of another request
(`LinesCarryOwnId`), the logged status is the one answered, exceptions
included (`LoggedStatusIsAnswered`), and the logged owner is the one acted for
(`OwnerLoggedIsOwnerActing`).

### Rollback

Any number of runs of the script, each one call of the AWS CLI at a time
(`GetAlias`, `ListVersions`, `Confirm`, `UpdateAlias`, `Verify`), each of which
may fail (`CallFails`; an update may have taken effect). Beside them
`terraform apply` publishes a version and then moves the alias (`Publish`,
`MoveAlias`). The update carries no revision id. Whatever happens between
the reads and the update, a default target is the version next below the one
shown as current (`NothingInBetween`), and a rollback turns into a roll
*forward* only if another run has moved the alias back meanwhile
(`ForwardOnlyAfterAnother`).

## 3. Runs

| Run | Instance | Question |
|---|---|---|
| `repo_retries` | 3 requests, 2 ids, 2 owners, 3 names (2 share a key), 2 attempts | lost and late attempts and answers, conflicts, dying invocations: names, answers, refusals, durability, one delete each, refinement |
| `repo_restore` | 4 requests, 2 ids of which one collides, 2 names of one key, restores | no project loses its record or its name to another |
| `repo_adr0003_claim` | 2 requests | *violated*: "exactly one `201` and the rest `409`" |
| `prov_faults` | 2 projects, 2 workers, batches of 2, 1 retry, all faults, 1 late update | nothing provisioned twice, skipped, taken back, resurrected or waiting unnoticed; stuck only by a failure |
| `prov_skip_claim` | 1 worker, lost answers | *violated*: a failed condition means another invocation handled the record |
| `system_safety` | 3 requests, 2 ids, 1 worker, 1 attempt, no retries of batches, refused/unanswered updates, crashes, 1 late update | both halves on one table: each keeps what it promises alone, and no new project is overlooked |
| `system_liveness` | 2 requests, 1 id, 1 name, 2 attempts, 2 workers, abandoned invocations | requests are answered and acknowledged projects settle |
| `listing_pages` | 3 projects, 2 owners, page sizes 1 and 2, 2 seconds, edited tokens | order and completeness over pages |
| `context_lines` | 2 requests, Lambda or uvicorn, every source of an id | ids, statuses and owners in answers and log lines agree |
| `rollback_races` | 2 runs of the script, 4 versions | what a target is, and when a rollback goes forward |
| `seed_reruns` | 3 tickets (2 done), 3 failures, listings of 4 of at most 5 issues | what re-runs of the script leave behind |
| `name_rules` | texts of up to 6 characters, lengths 3 to 5 | acceptance and key are given by the words |

**Bounds.** Three requests are a create, the delete of its project and a
competitor for its name, or two deletes of one project; the fourth of
`repo_restore` gives a create of a name freed by a restore. Two ids let two projects
compete for one name. Two attempts are what one lost answer and its retry need, and
what a late attempt and its successor need; `system_safety` has one attempt and one
delivery of a batch only, so that failures lead to the dead-letter queue at once; the
meeting of retries, on either side, is left to `repo_retries`, `prov_faults` and
the theorems about the system, which have any number of both. One
late update can meet every later update of its project. Two names with one key and one with another separate name from
key. Two stream records make a batch with a success and a failure, in both orders;
two workers make an abandoned invocation run beside its successor; one retry
reaches both the retry and the discard. Two seconds and three projects give ties and
order in time. Six characters exceed the instance's longest name by one and
hold two words with white space around and between them. Three failures cut a
run at any three of its calls, and one issue more than a listing shows reaches
the limit. Two requests are one and its successor in Lambda, or two at once
under uvicorn. Two runs of the rollback script and four versions leave room for
a deployment before and after each other's confirmation. What the proofs cover
(section 5) does not depend on any of these bounds. `CHECK_DEADLOCK FALSE` appears in every configuration because each
behaviour ends when its requests, ids, text or issue numbers are used up; the
system itself is idle there.

**Symmetry** is used in runs of safety properties only, over sets
whose elements no definition tells apart (names are permuted only where they
share one key, ids never where one of them is reusable).

**Fairness.** Weak fairness of a request's own handler (`SysFairSpec`) and of an invocation of the provisioner: Lambda runs what it
has started until it ends or dies. Weak fairness of `Deliver`: the mapping
polls as long as it is enabled. Nothing is assumed of clients, of the table
(an attempt or an update may be lost for ever) or of the fault actions. `SysFairSpec` runs
with abandoned invocations as its only fault, because under lost answers,
refused updates and crashes a project can be left in PROVISIONING for good.
The liveness properties have the form `[]<>(P => Q)`: no behaviour stays for ever
where `P` holds and `Q` does not.
`prov_faults` states what is still true then: none waits in CREATED unnoticed
(`NoneWaitsUnnoticed`), and one gets stuck only when the invocation at its own
record dies or an update of its status fails (`StuckOnlyByFailure`).

## 4. Findings

* **A concurrent create can be answered 500.**
  `docs/adr/0003-global-name-uniqueness.md:146-147` promises "exactly one `201`
  and the rest `409`". `create` maps only a failed condition on the
  reservation; `TransactionConflict`, which concurrent transactions on one item
  provoke, is re-raised. Nothing inconsistent results (`NamesConsistent`,
  `AnswersAreTrue` hold); a client gets a 500 where it was promised a 409
  (`repo_adr0003_claim`).
* **A record can be skipped though nobody handles it.** The docstring of
  `src/projects_provisioner/handler.py` reads a failed condition as "another
  invocation already handled this record". If the update to PROVISIONING is
  applied and its answer lost, boto3's own retry fails the condition: the
  record counts as processed and the project stays PROVISIONING
  (`prov_skip_claim`).

Three sentences of the documentation that the code departs from, without a run of
their own:

* `docs/runbook.md` says a delete after a partial restore "would release the wrong
  reservation"; the condition on the reservation in the delete transaction
  prevents it (`OnlyOwnNameIsReleased`, checked with restores and proved).
* `README.md:202` says that edited tokens "return `400`". `decode_cursor` compares
  the shape of a token and its partition, so a well-formed token of the caller's
  own partition with another key is answered with a page (`ListEdited`). It shows no
  other owner's projects (`NothingMissed`).
* `README.md:172-174` says that locally `requestId` appears only if the client sent an
  `x-request-id`; `api/context.py` draws a uuid for a request that has none
  (`_resolve`), so the field is always there.

One consequence of boto3's retries that no document mentions: a create answered
409 may take effect later. Its first attempt is late, its second is cancelled
because the name is taken, the name is freed, and the first attempt arrives. The
project then exists although its client was refused it. `AnswersAreTrue` and the
registry therefore promise that a 409 is final only for a create that was
sent once.

## 5. Proofs

Every invariant, action property and refinement that a passing run checks is a
theorem for all values of the constants. The assumptions on the constants are
named where they are declared (`NameKeyOfType`, `AbsentIsNoItem`,
`MaxAttemptsType`, `BatchSizeType` and so on); a theorem that needs more, such as
that nothing is restored, says so in its statement.

### ProjectRepository_proof

Types, names, and what a step may remove:

* `TypeCorrect`. `TypeOK` is not inductive: an item is built from a request's
  caller, id and name, any of which may be `Absent` by type. `TypeInv` adds that a
  request which has called the table has all of them (`CallsAreComplete`),
  one that reads has a caller and an id (`ReadsAreComplete`), and late attempts are
  ones before the last (`LateOnesAreEarlier`).
* `NamesStayConsistent`. With `TypeInv`, `NamesConsistent` is inductive, as long
  as no single items are restored (`RestoreAllowed = FALSE`). Only an applied create or delete
  writes (`OnlyTransactionsWrite`). A create takes a free key for a record that does not
  exist (`CreateKeepsNames`). A delete's name may stem from a stale read, but
  its condition ties the reservation to the id, and consistency ties the id to
  the record's own key (`DeleteKeepsNames`).
* `ReleasesOwnNameOnly`, `NeverOverwrites`, `OnlyTheOwnerRemoves`: action
  properties, from the type invariant and the transactions' conditions alone;
  they hold with restores and colliding ids, too.

Answers and reads:

* `RequestsAreSound` says of each request how its program counter, its attempts'
  verdicts and `TokenSeen` fit; it looks at one request at a time and never at
  the table. With one attempt nothing can be late, so for 201, 204 and the 409 of
  a create sent once it is enough.
* `AnswersStayTrue` needs more for the 404, because a delete's earlier attempt may
  still arrive: a delete that found its record gone has not been applied, and
  another delete of that id has (`NoRecordIsFinal`), so the record never comes
  back. The induction uses `Life`, below.
* `RefusalsAreByOthers`: a create that finds its name taken has not been applied
  itself, or its token would have answered it; and a record that stems from another
  create has another id.
* `DeletesOnce`, `AckedCreatesStay`, `NoMismatchIsSeen`, `ReadsSeeCreates`: the
  life of an id, `Life`, is inductive when ids are drawn once
  (`ReusableIds = {}`) and nothing is restored: one create per id
  (`OneCreatePerId`), a record stems from the create that was applied
  (`RecordsStemFromCreates`), so does what a delete has read
  (`DeletesStemFromCreates`), and a created project without a record was deleted
  by a request of its owner (`GoneMeansDeleted`), by one only (`DeletedOnce`).
  Durability needs all of them: "exists or was deleted" is not inductive
  without knowing whose record a delete removes.

The registry: `RepositoryImplementsRegistry`, for any number of attempts, all but
the last of which may be late.
`RegistryInit` maps the initial state, `RegistryStep` every step, one case per
action: an attempt that is applied, the last or a late one, is the registry's
`Register` or `Remove` (`CreateRefines`, `DeleteRefines`), a failed condition on the
last one its `Refuse`, `Retry` its `Repeat`, an answer one of its `Say`s, everything
else a stutter. A late attempt that is applied after a refusal needs
`attempts > 1`, which is why `Register` may go on only for a repeated create; for
deletes `NoRecordIsFinal` shows that it never happens.

### Provisioner_proof

For any batch size, number of retries, workers and faults.

* `TypeCorrect` needs the type of every run and `WindowIsWorkedOn`: the worker
  the mapping waits for works on the mapping's window.
* `ProvisionsOnce`, `StatusTellsTruth`, `StatusesMoveForward`, `StaysDeleted`
  from `Provisioning`: a run past `Begin` knows that its project has left
  CREATED, and what `provision()` did (`KnowsItsProject`), is alone there, because the condition CREATED lets one
  through (`AloneAtProject`), and nothing ran before the create
  (`NotRunBeforeCreated`). Updates that are late are some the handler may have
  sent (`SentUpdates`, part of the types) and record what `provision()` did
  (`LateTellsTruth`), so it does not matter when they arrive.
* `SkipsNothing` from `Delivery`: what the mapping has handed to an
  invocation and the invocation has passed is accounted for as handled or noted
  as failed (`WindowIsAccounted`).
* `FailuresStick` (`StuckOnlyByFailure`) needs no more than the types: a step
  that leaves PROVISIONING unattended is a crash, an update that failed, or a move
  to PROVISIONING whose invocation did not hear of it.

### ProjectsSystem_proof

Under `RestoreAllowed = FALSE` and `ReusableIds = {}`. A status update, late or not
(`LateOnesFitItems`), changes no project's identity, owner or name (`SameProjects`), and the API's invariants
(`ApiInv`) speak of nothing else, so they survive the provisioner's steps. An id on
the stream was given to an applied create (`StreamStemsFromCreates`), and only one
create has it: that is what makes a create of the API a `Create` of `Provisioner`.
`SystemImplementsProvisioner`, `SystemImplementsRegistry` and `DeletedStaysGone`
follow.

`SystemKeepsProvisionersPromises` cashes the first of them in: the theorems of
`Provisioner_proof`, whose `Create` and `Delete` are allowed to happen at any
moment, hold of the system in which API requests create and delete. The system
has two instances of the same module, `Prov` and `ProvProof`, so the proof first
shows that their definitions agree (`SameOperators`, `SameActions`,
`SameSpecification`, `SamePromises`); `ProvisionerConstants` states for the
system's constants what `Provisioner` assumes of its own.

`NewProjectsStayNoticed` needs both halves. That every project's id is on the
stream (`ProjectsAreStreamed`) is the API's part: whatever stores a record
publishes it. That a position the mapping has passed, with its project still
CREATED, is in the dead-letter queue is the provisioner's (`NothingSkipped`).

### ProjectListing_proof

For any number of projects and owners, page sizes and times.

`Inv` says of each listing where it has got to (`OnItsWay`): its items are
made, of its owner and in strictly descending order; its token is none or the
key of its last item in its owner's partition; and whatever of `steady` is not
behind the last item is already among the items. `NewestFirst` alone is not
inductive, because a page is in order by itself and nothing in the property
ties it to the pages before; nor is `NothingMissed`, which speaks of finished
listings only.

* `GivenIsOwn`: of the tokens at hand only the listing's own can be decoded, or
  none for its first page. A page behind an edited token starts anew and ends
  the listing, so it need only be in order and of the owner's projects.
* `PageContinues`: a page behind the last item, appended, keeps the order, and
  if it is full, what it leaves out is behind the new last item.
* `PagesDescend` and `PagesMissNothing` follow; `TypeCorrect` on the way.

The deletion of items already listed, late index updates and projects created
meanwhile are harmless because the key of an id never changes (`MadeOnce`).

`QueriesHavePages` keeps the other theorems from being true for want of pages:
`Pages` is given by what a page must satisfy, so a condition too strong would
make `ListPage` impossible. A page is built one item at a time (`LongerPage`),
each the newest of what is left (`NewestOf`); that there is a newest needs the
index to be finite (`FiniteIndexHolds`).

### NameValidation_proof

For texts of any length and any limits (`LengthsType`). The argument is an
induction over texts (`TextInduction`, from the induction on numbers in
`Induction`), following a text as it is typed: a character of a word adds itself
to the normalised name, and a space before it if white space came before;
white space adds nothing (`NormInk`, `NormWhite`). The words grow in the same
way (`WordsInk`, `WordsWhite`). So name and text keep the same words, with one
space between two of them, and the length of the name is that of its words and
gaps (`Kept`, `TextsKept`).

* `NamesAreCanonical`: the name is accepted for its words alone. The rules look
  at the name's length, its ends and its characters, and the name is its words
  one space apart (`NamesCanonical`).
* `KeysAreTheWords`: lower case changes neither words nor gaps, and normalising
  a name again changes nothing: `delete`, which computes the key from the stored
  name, finds the key `create` computed from what the client sent.

### RequestContext_proof, Rollback_proof, SeedIssues_proof

* `IdsAgree`, `LinesStayOwn`, `StatusesAgree`, `OwnersAgree`: what a request
  knows at each point, what a line says once it is written, and that Lambda
  serves one request at a time (`OneAtATime`).
* `TargetIsTheOneBefore`, `DeploymentsTurnNoRollback`: `Sound` carries, from the read of
  the alias to its update, that the alias has not moved back since except by
  another run (`BackByAnother`), because a deployment moves it to the newest version.
* `TicketsGetOneIssue`, `CompletedRunsSeedAll`, `FailuresLeaveOneOpen`: a run
  knows every issue it could duplicate, as long as one listing shows all
  (`IssuesAreExplained`); what it has passed is made (`LabelsMade`,
  `TicketsMade`); open issues of done tickets are counted against failed
  runs (`LeftOpen`).

### Only model-checked

Liveness (`EveryRequestIsAnswered`, `AckedProjectSettles`,
`NoneWaitsUnnoticed`): the prover does not reach fairness and ENABLED. What
safety contributes to the last two is proved: `StuckOnlyByFailure`,
`NothingSkipped` and `NewProjectsAreNoticed`. The two claims of section 4 are
violated, so there is nothing to prove.

## 6. What is left out

* The stream's 24 h retention, its start at LATEST, several shards (each is a
  `Provisioner` of its own: one project has one INSERT), and items restored with a
  status other than CREATED. The filter and `record_handler`'s checks of event,
  entity and status never skip a record of the model, because only INSERTs of new
  projects reach it.
* A `TransactionInProgress` answer to an attempt that overtakes its
  predecessor; boto3 repeats the call, which is `Retry`.
* That a ClientRequestToken is forgotten after ten minutes: an attempt that late
  is not modelled.
* A page behind an edited token that the client goes on to page from: it is an
  ordinary listing that starts elsewhere.
* The query's 1 MB limit, which a page of at most 100 items of less than 2 KB
  never reaches, and any claim that projects come in order of *creation*: keys
  have second precision and are taken before the write.
* Problem bodies, headers, logging, the OpenAPI document, settings, throttling
  and WAF rules: no state of their own, or outside the code.
* Overlapping runs of the seeding script, and issues people rename or reopen.
* The closing message of the rollback script, "(was CURRENT)": it names the
  version read before the confirmation, which a deployment may have replaced.
  Nothing acts on it.
* The packaging and key scripts, and the infrastructure other than stream,
  mapping, index and alias: straight-line tooling and declarations.

Under uvicorn, which is local development only, a line can carry another
request's `correlation_id`, because requests share the Logger; its
`request_id` is still its own. `LinesCarryOwnId` is about Lambda.

## 7. Plan

Done: all modules and proofs above. What is left would add detail rather than
questions:

1. `Provisioner`: the mapping's start at LATEST as an action of a deployment,
   with the projects created before it listed as an exception to
   `NoneWaitsUnnoticed`; expiry of records after 24 h.
2. `SeedIssues`: overlapping runs. `RequestContext`: the lines that the
   repository writes from a worker thread under uvicorn.
