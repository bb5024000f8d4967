# TLA+ verification of the work intake back end

This directory holds TLA+ models of the program in `src/`, the TLC configurations that check
them on small instances, and proofs, checked by TLAPS, of the results that matter most. Paths
below are relative to `src/`.

Contents: [the system](#the-system) · [modules](#modules) · [how the code is
abstracted](#how-the-code-is-abstracted) · [runs and bounds](#runs-and-bounds) ·
[fairness](#fairness) · [where code and documentation part](#where-code-and-documentation-part) ·
[proofs](#proofs) · [not modelled](#what-is-not-modelled) · [plan](#plan)

To repeat everything: `tlc -config <run>.cfg <module>.tla` for a row of the table of runs,
`tlapm <module>.tla` for each of the eight `*Proofs` modules.

## The system

A source system submits work items; a language model classifies them; an operator reviews the
result. The service is Django on one database, served by any number of processes.

| Part | State it keeps | Operations | What makes it correct |
|---|---|---|---|
| Workflow rules `work_items/domain` | none | transition table, manual transitions, offered actions | what is offered is what is accepted |
| Intake `services/intake.py` | rows of `work_item` | `create_or_get_work_item` | one item per external id; replays get the same item; a different content is a conflict |
| Analysis engine `services/analysis.py`, `services/workflow.py` | `work_item`, `analysis_attempt`, `status_transition` | analyse, retry, `_claim`, `_record_success`, `_record_failure`, `_settle`, `transition` | one live call per item, and one more for each that the reaper gave up on; a shown result comes from a successful attempt; audit trail equals history; no item stuck in ANALYSING |
| Reaper `reap_stale_analyses` | the ids it has read | query, loop over the ids | frees abandoned items; what it does to a live one is recorded |
| Work item API `api/v1/views.py` | what a request has read | POST items, POST analyse, POST retry, PATCH status, reads | a manual transition from a status that moved on is refused |
| Administration `admin.py` | open change forms | edit, delete | cannot break what the API promises |
| Providers `work_items/ai` | settings | `get_ai_provider`, `analyse`, fallback | the recorded error is the one that happened; results are validated and attributed |
| Parser `ai/parser.py`, `ai/schema.py` | none | `parse_analysis` | reads the object that is in the text, and only that |
| Accounts `users/`, `common/utils/authentication.py` | users, one-time codes in the cache, tokens, open change forms | register, send and resend codes, verify, login, refresh, reset and change password, the admin's form | one account per address; a code serves its purpose only, and only requests that hold it at once; tokens from before a password are refused; a block stands until it is lifted |
| Pagination `api/pagination.py` | what a reader was given so far | COUNT and slice, per page | a reading loses or repeats an item only when the list changed under it |
| Error envelope, API key, prompt, seeding, settings | - | - | see [not modelled](#what-is-not-modelled) |

The parts interact through the database: a request calls intake or the engine; the engine calls
one provider, outside any transaction, and the parser on what it answers; the reaper and the
admin site write the same rows from other processes; a client reads the list in many requests. There
is no lock and no `SELECT ... FOR UPDATE`: everything rests on `transition` being one conditional
UPDATE, on unique constraints and on a CHECK constraint. Accounts share no state with work items.

What is hard: every request reads a row, works on what it read and writes later (the retry cap,
the manual transition, the reaper's list of ids, the admin's form, the two lookups of
`get_or_create`); an analysis spends seconds outside any transaction, between two statements of
which either may be its last; attempt row and item are settled in two transactions; a call may
outlive the reaper's cutoff, since the Anthropic and NVIDIA clients retry inside a call; deliveries
of a submission are repeated and concurrent; a one-time code is read and deleted in two cache calls;
a password is hashed while the clock and other requests move on; a page's COUNT and slice see two
different lists. `PROJECT.json` lists each of these at its line, with the properties that cover it.

## Modules

| Module | What it is | Code |
|---|---|---|
| `Workflow` | statuses, transition table, offered actions: operators the others share | `domain/status.py`, `domain/transitions.py`, `WorkItem.attempts_remaining` |
| `Analysis` | the engine with requests, PATCH, reapers, deletion, process deaths and time | `services/analysis.py`, `services/workflow.py`, `views.py`, the reaper command |
| `Lifecycle` | abstract: what is promised of one item, as a state machine on (status, calls, result) | the same promise, without requests, attempts, reapers or clocks |
| `AnalysisLifecycle` | the refinement `Analysis` => `Lifecycle` | |
| `DocumentedClaims` | statements of comments, README and tests that `Analysis` refutes | |
| `AdminForm` | `Analysis` composed with the admin's change form, its lost updates and typed-in results | `admin.py` |
| `Intake` | `get_or_create` as its three statements, with deaths, deletions and an administrator's edits in between | `services/intake.py`, POST of `views.py`, `admin.py` |
| `IntakeContract` | abstract: the table of the docstring of `intake.py`, one step per submission, deletion or renaming | |
| `Parser` | candidates, code fence and brace scanner, over token sequences; JSON's grammar as the reference | `ai/parser.py`, `ai/schema.py` |
| `ModelCall` | one analysis from configuration to recorded outcome | `ai/factory.py`, the adapters, `ai/fallback_provider.py`, `ai/mock_provider.py`, `run_analysis` |
| `Accounts` | accounts, one-time codes, passwords, tokens and the administrator's form on one clock | `users/`, `common/utils/authentication.py` |
| `Listing` | a client reading a list page by page while it changes | `api/pagination.py`, the list view, `WorkItem.Meta.ordering` |
| `MCAnalysis`, `MCIntake`, `MCModelCall`, `MCAccounts`, `MCListing` | symmetry and value sets for TLC | |
| `AnalysisProofs` | types, the invariant about results (`ResultProvenance`, `OperatorDecisionStands`), and that `Analysis` implements `Lifecycle` | |
| `HistoryProofs` | the retry bound, and the invariant about histories: every other safety property of `Analysis` | |
| `AdminFormProofs` | every safety property of `AdminForm` that holds: types, `ReviewedResultIsRecorded` and `CallsInFlightBounded` with change forms beside the engine | |
| `IntakeProofs` | intake's types and invariants, and that `Intake` implements `IntakeContract` | |
| `AccountsProofs` | types and every property of `Accounts` that holds | |
| `ParserProofs` | what the parser reads, for every text | |
| `ModelCallProofs` | types and every safety property of `ModelCall` that holds | |
| `ListingProofs` | types and the two properties of `Listing` | |

### Analysis

`row[i]`, `attempts[i]` and `transitions[i]` are the three tables, `req[w]` the local variables of
request `w` and the point it has reached, `todo[r]` the ids reaper `r` has still to visit. A step is
one statement or one atomic block: what runs in one transaction is one action, and whatever can
come between two is possible between two actions.

| Action | Code |
|---|---|
| `AnalyseWorkItem`, `RetryWorkItem` | the view's lookup and the checks of `retry_work_item`; the claim comes later |
| `Claim`, `ClaimRefused` | `_claim`: compare-and-set and attempt row in one transaction; 409, 404, or the unique constraint on attempt numbers |
| `RecordSuccess`, `RecordFailure`, `SaveRefused` | the call's outcome, saved on the attempt row (gone if the item was deleted) |
| `Settle`, `SettleDiscarded` | `_settle`: compare-and-set out of ANALYSING, or the outcome is discarded |
| `PatchRead`, `PatchApply`, `PatchRefused` | `StatusView.patch`, with the window between read and write |
| `ReapQuery`, `Reap`, `ReapSkipped`, `ReapAborted` | `reap_stale_analyses`; `WorkItemNotFound` is not caught and ends the run |
| `Crash`, `ReaperCrash`, `AdminDelete`, `Tick` | a process dies; a row is deleted with its cascade; time passes |

`row[i].analysis` is the number of the attempt that produced the result columns, 0 when they are
NULL: the one piece of data the properties need to tell results apart.

### AdminForm

A form is rendered (`FormOpen`), submitted (`FormLoad`: Django reads the row and puts the form's
values over its editable columns) and saved (`FormSave`: every column, no comparison). The read-only
columns `status`, `version` and `attempt_count` are in the row that was read, so they are written
back too. The result and error columns are editable: `Submitted` is what the form showed, an emptied
result or one typed in, and any error code can be typed in with it. `source[i]` is a history
variable that tells a result a call produced from one typed by hand; it is never read by an action
of the engine. All of `Analysis` except deletion runs beside it.

### Intake

`Find` / `Miss` are the first SELECT, `Create` / `CreateRefused` the INSERT, `FindAgain` /
`MissAgain` the SELECT after a refused insert. `answers` is the history of everything the service
ever said, whether or not it arrived. `AdminEdit` saves the change form: other texts and another
external id, if no other row has that (`Renamable`). `content_hash`, which the form shows read-only,
goes on saying what was submitted; the flag `edited` lets the properties tell the two apart. `freed`
is the history of external ids that an administrator took from an item, by deleting it or by giving
it another one.

### Accounts

`user[i]` is a row, `cache` the one-time codes by purpose and address with the time they expire,
`codes` the history of codes sent and of how often each was taken, `tokens` every token issued,
`req[w]` a request's local variables, `form[a]` the row an administrator's form will write,
`former[i]` the history of addresses that forms took from account `i`, `arrived` and `forms` the
numbers of requests and forms so far, `now` the clock. The clock counts parts of a second, because
`token_refresh_date` has microseconds and a token's times have not.

| Action | Code |
|---|---|
| `RegisterLooksUp`, `Registers`, `RegisterRefused` | `RegisterSerializer`: the lookup, the INSERT, the unique constraint |
| `CodeAskedFor`, `Sends` | the second half of registration, `ResendOTPView`, `ForgotPasswordView`; `generate_otp` |
| `VerifyReads`, `ResetReads` | `VerifyEmailView`, `ResetPasswordView`: the account is read |
| `CodeMatches`, `CodeRefused`, `CodeTaken` | `verify_otp`: get and compare, then delete |
| `Activates`, `Hashes`, `Saves` | `save(update_fields=...)` of the verification; `set_password` and `save` of a new password |
| `LoginReads`, `Issues`, `Refreshes` | `LoginSerializer`, `RefreshToken.for_user`, `CustomTokenRefreshSerializer` |
| `ChangeReads` | `ChangePasswordView`, behind `CustomJWTAuthentication` (`Accepts`) |
| `FormReads`, `FormSaves`, `FormRefused` | `UserAdmin`: the row is read and gets the address, username and flags typed in; every column is written back, unless a unique constraint refuses it |
| `CacheLost`, `Crash`, `Tick` | the in-process cache ends with its process; a request ends early; time passes |

The text of every one-time code is the same (`users/otp.py:28`), so a request cannot tell two codes
of one address and purpose apart; the model numbers them to say which one was taken.

### Listing

`newer` is the order of `Meta.ordering` as a set of pairs, which `created_at` fixes before the row is
committed; `status[i]` says whether an item is in the list. An item's `Rank` is the number of listed
items before it, and a page is the set of items whose ranks lie between its bottom and its top.
`Create`, `Commit`, `Delete` and `Move` change the list; `Begin`, `CountRows`, `FetchRows` and
`PageGone` read it. `reading[r]` holds the items shown and the number of rows they were shown in, and
counts what came into and left the reader's list, for the properties.

### Parser and ModelCall

A text is a sequence of the tokens the code tells apart: braces (`"open"`, `"close"`), brackets, a
quote, a backslash, a code fence, a line break, a word, a number, a literal (true, false, null), and
the members of an analysis that fits the schema. Parsing is the chain of candidates of
`_candidates`, with the loop of `_first_json_object` as a recursive function over the token read.
What `json.loads` takes is defined by the JSON grammar (`JsonObject`, `JsonArray`, `JsonString`, a
number, a literal: unescaped quotes are counted, and braces and brackets outside strings are matched
with each other, `Nested`), independently of the scanner, so the run compares the two. `ModelCall`
ranges over every setting that is read (`Configs`), every answer up to a length and every class of
SDK exception.

## How the code is abstracted

- Texts, names and categories are not modelled; a hash is the pair of texts it is made of, that is,
  SHA-256 is taken to be without collisions.
- Times are ages: `row[i].age` is the time since `analysis_started_at`. It is read only in ANALYSING
  and is 0 otherwise; ages saturate at `AgeCap`, above every cutoff.
- The reaper computes its cutoff and queries in one step. Its list is a set: it visits the ids in
  any order, which includes the database's.
- The work item form has two sides. What it does to the external id and the texts is in `Intake`, where
  reading and saving it is one step; what it does to status, counters, result and error is in
  `AdminForm`, where those are two steps. No item is deleted while a form is open: Django's save would
  then insert the row again. Deletion is in `Analysis` and `Intake`.
- In `AdminForm`, a typed-in result is a number that says only that the columns are filled, and
  `source` says that it is no call's. `category`, `priority` and the other result columns go together.
- Submissions are those the serializer lets through; its 400s are not modelled.
- The choice of a model's answer is nondeterministic in `Analysis`; `ModelCall` says where it comes
  from. `ModelCall` has no concurrency: what can happen to the item meanwhile is in `Analysis`.
- In `Accounts`, addresses are in the normal form `validate_email` gives them, the usernames told apart
  are addresses (registration uses the address as username), a salted hash is named
  by its secret and the time it was made, and the lifetimes of tokens do not change.
- In `Listing`, a client goes on to the last page of the count it was given last, and keeps its filter
  and page size.
- In `Parser`, keys, colons and commas are left out, so that any members in a row make an object,
  and any values in a row an array.

## Runs and bounds

| Run | Specification | Bounds | Distinct states |
|---|---|---|---|
| `analysis_safety` | `Spec` | 1 item, 3 requests, 1 reaper, cap 2, two error codes, every request may die | 336,010 |
| `analysis_live` | `LiveSpec` | 2 items (one deletable), 2 requests of which one may die, 1 reaper, cap 1, cutoff 0 | 22,103 |
| `intake` | `Spec` | 2 UUIDs, 2 requests, 3 submissions of two external ids, both items deletable, one edit that changes texts and external id | 134,834 |
| `admin_form` | `FormReaperSpec` | 1 item, 2 requests, 1 reaper, 1 form saved once with any result and error, cap 2 | 547,310 |
| `model_call` | `Spec` | all texts of up to 3 tokens; every object of up to 3 tokens with up to one token on either side; every object of up to 5 tokens in a fence, in an array and in a fenced array; every object of up to 6 tokens between words | 171,551 |
| `accounts` | `Spec` | 2 addresses, 2 primary keys, 1 password text, 2 requests at a time and 4 in all, 1 admin form saved once, 2 parts of a second, clock up to 2, 3 tokens, 2 codes | 1,192,209 |
| `listing` | `Spec` | 4 items, 1 reader, no filter or FAILED, page sizes 1 and 3 (capped to 2), 2 changes per reading | 948,527 |
| `claim_*` | | the smallest instance that shows the behaviour | |

Why this is enough. Each hazard of the engine involves at most three actors: two retries racing past
the cap, a slow call, a reaper and a retry, a PATCH and a settle. Three requests, a reaper and a cap
of two leave room for all of them, with a spare attempt after a reaped one. Rows are independent (no
statement touches two items), so one item suffices for safety, and a second one is there where the
reaper's run can be aborted by one item before it reaches the other. `analysis_live` has a request
that may die and one whose process stays up, since each liveness property is about one of them. In
intake external ids meet only when an edit moves an item from one to another, and two of them are
enough for that. A text of six tokens is long enough for an escaped quote inside a string inside an
object, with words around it, and for a fence inside a fence. Accounts of different addresses meet
only when a form moves an account from one to another, so two addresses are enough, with two keys
for two registrations that race. Four requests are a registration, a verification and a login of one
account with another request of any kind in between. Two parts of a second and a clock of two put a
token and a password into one second, into the second after and at its very end; a code and an
access token expire within the bound. One password text is enough because hashes differ by when they
were made. In `listing`, three pages of one item, a page that an item slips past, and a page shorter
than its size all fit into four items and two changes. Readers do not affect each other. Counters
that the program does not bound (`codes`, `tokens`, requests to accounts, forms, saves, changes of a
list) are bounded by a constant in the guard of the action that adds to them; each constant says so
where it is declared.

What they show:

- `AuditTrailIsTheHistory`, `EveryCallIsAnAttempt`: audit rows, version, attempt rows and
  `attempt_count` never tell different stories, in any interleaving.
- `ResultProvenance`, `ErrorIsExplained`: what an operator sees, result or error, has a recorded
  cause.
- `RetryOvershootBound`, `CallsInFlightBounded`: how far the cap can be overrun, and how many calls
  of an item can be live at once: one, plus one for each time the reaper gave up on a live call.
- `OnlyReapedCallsAnswerLate`, `SuccessLostOnlyToReaper`: a result of an older attempt is shown, or a
  success is dropped, only if the reaper has intervened.
- `OperatorDecisionStands`: no late request or reaper changes what is up for review or completed.
- `OfferedIsAccepted`: the two computations of "may be retried" agree, on overrun counts too.
- `HistoryOnlyGrows`: while an item exists, no step changes or drops an audit row, drops an attempt
  row or overwrites a success an attempt has recorded. So the detail view, which reads the item
  first and its attempts and transitions in two later queries, never shows an item whose history it
  does not show.
- `NoItemStranded`: the reaper gets items out of ANALYSING, whatever dies. `EveryCallIsRecorded`: a
  call whose process survives saves its outcome and goes on to settle the item, whatever the reaper
  and an administrator do meanwhile, unless the item was deleted.
- `ImplementsLifecycle`, `ImplementsContract`: the refinements.
- `OneItemPerExternalId`, `AnswersAreTruthful`, `SameItemForEveryReplay`: intake's promises to the
  source system, as far as an administrator's edits leave them standing: an accepted submission stays
  accepted on replay, since the item is compared by what it was taken in with, and an item may then be
  answered that no longer holds the submitted texts. Once its external id was typed over, a replay makes
  a second item: that, and a deletion, is the only way to one, and the only way to an error.
- `ReviewedResultIsRecorded`: the change form's lost updates cannot put an item without a result up
  for review, since the CHECK constraint refuses the row, nor one without a call that succeeded. A
  result typed in can then stand in its place; any other is that of a successful call.
  `CallsInFlightBounded` and `NoItemStranded` hold beside the form too: when a save puts
  `attempt_count` back, the unique constraint on attempt numbers stops the next claim before the
  model is called.
- `ReadsTheObjectThatIsThere`, `ShownWasSaidAndValid`: the parser finds the object that starts at
  the first brace and no other, and only a validated object is shown. A text that is JSON as a whole, or
  whose fence holds JSON, is read as that: an array around an analysis is refused and not searched.
- `CodeSaysWhatHappened`, `FallbackCoversEveryException`: error codes, and the reach of the fallback (it
  covers every exception of the vendor's SDK, and not an answer that does not parse, since parsing is
  outside the provider).
- `EveryExitIsWhole`: however a request ends, the item is not left in ANALYSING. A missing API key is
  found before anything is written, and every later failure is written to item and attempt alike.
- `OneUserPerEmail`: two registrations that both found an address free make one account, and a form
  that gives an account the address of another is refused.
- `CodesAreSpentTogether`: reading and deleting a code are two calls, so one code can serve several
  requests: those that read it before the first of them deleted it, and no later one; and only for
  its purpose and address.
- `NobodyActiveUnverified`: an account becomes active by a registration code sent to its address, or
  by an administrator's form for it. If a form changes the address while a verification is under way, it
  is the account the code was sent for that becomes active, at its new address; it never is another one
  that has the old address by then.
- `PasswordAndDateTogether`, `RefusalIsExplained`: whatever overlaps, a row's `token_refresh_date` is
  that of the password beside it. A token from before the password is refused. One from after it is
  accepted, except within the same second: `exp - lifetime` is cut to a whole second and looks older
  than the date, so that the tokens of a login within the second of the password change are refused
  for good.
- `NoBlockIsLost`: no request writes back the `is_blocked` it read before an administrator set it.
- `LostIsExplained`, `TwiceIsExplained`: how many items a reading may lose or repeat, for the changes
  it met. An item that leaves the list moves later ones up a page, and each leaving costs at most one;
  an item that arrives shows at most one twice. An item that arrives between the COUNT and the slice
  of the last page pushes an item off its end. The ordering's tie-break (`work_items/models.py:81`)
  is about equal timestamps, and does not prevent that.

Deadlock is checked in all of them but `model_call` and `claim_analysis_model`, where the one call
ends, and `accounts` and `claim_password_change`, where the number of requests is bounded.

## Fairness

- `ReaperFairness`: time passes and the periodic reaper queries again and again (weak fairness of
  `Tick` and `ReapQuery`); strong fairness of `ReapLoop`, because a reaper may be killed after each
  query and is not killed every time before its first UPDATE. Nothing is assumed of requests:
  they may hang or die for good. The command is meant to be run from a scheduler.
- `RequestFairness` (with `ReaperFairness` in `LiveSpec`, for `analysis_live`): a request of a process
  that stays up (`Workers \ Crashable`) keeps taking steps. The provider call is bounded by
  `AI_TIMEOUT_SECONDS` and ends in an answer or an exception. Of the other requests nothing is
  assumed.

No liveness is claimed of a request whose process may die, nor of a client that reads a changing list.

## Where code and documentation part

Five runs end in a violation, each a behaviour of the code that a comment, a document or a test
excludes. `PROJECT.json` quotes the lines.

1. `claim_hard_cap`: two retries that both pass the check at the last remaining attempt, one
   claiming after the other has failed, make `attempt_count` exceed the "hard cap". The overrun is at
   most the number of concurrent requests minus one, which is proved; so the cap is hard where requests
   are served one at a time (`HistoryProofs!CapHardForOne`).
2. `claim_late_result`: the reaper gives up on a slow call, a retry starts, and the slow call answers:
   `_settle` compares the status only, so the result the reaper gave up on becomes the item's and the
   retry's own is discarded. The comment in `_settle` says that this must not happen.
3. `claim_admin_form`: saving a change form undoes a claim, a settle or a completion that committed
   after the form was submitted, with no row in the audit trail. If `attempt_count` went back, the
   item is offered a retry that always ends in an IntegrityError.
4. `claim_analysis_model`: with `AI_FALLBACK_TO_MOCK`, a result of the mock's keyword rules is shown
   under the vendor's model. Without that setting the name is right, which is proved
   (`ModelCallProofs!NamedModelWithoutFallback`).
5. `claim_password_change`: a refresh token from before a password change still gives access tokens,
   and those are accepted, since their own time of issue is after the change.
   `CustomTokenRefreshSerializer` never looks at `token_refresh_date`, and the setting that would ask
   it to, `INVALIDATE_TOKEN_ON_REFRESH`, is read nowhere.

Two more disagreements take a single step of the program to see, and have no run of their own:

- `config/settings.py:283-285` and `README.md:113-114` recommend `AI_FALLBACK_TO_MOCK` for when the
  API key is absent, and the docstring of `get_ai_provider` (`work_items/ai/factory.py:28-29`)
  speaks of any failure. `get_ai_provider` (`factory.py:44-47`) builds the provider before it wraps
  it, and the adapters' constructors raise `ImproperlyConfigured` without a key, so that the request
  fails whether the setting is on or off (`ModelCall!ProviderRefused`). Nothing is claimed then
  (`EveryExitIsWhole`).
- `README.md:312` says of work items: "Title and description never change". The admin site's
  change form changes them, and the external id too (`Intake!AdminEdit`): neither is in
  `readonly_fields` (`work_items/admin.py:65-76`). What intake goes on to promise is in
  `AnswersAreTruthful` and `SameItemForEveryReplay`.

The reaper's list of ids also ages: it fails an item that has been retried since the list was read,
however young the new analysis is. No document excludes this, so it is part of what
`SuccessLostOnlyToReaper` and `CallsInFlightBounded` allow for.

## Proofs

The theorems hold for every set of items, requests and reapers, every cap, every set of cutoffs and
deletable items; for every set of texts, submissions and edits; for every set of addresses, keys,
passwords and forms, every lifetime and every division of a second. The assumptions are those of the
modules: `NoItem` is no item, requests are finitely many, `MaxAttempts` is positive, cutoffs lie below
`AgeCap`, error codes of calls exclude the reaper's; in intake, stripping twice is stripping once and
`Nothing` is no row and no submission; in accounts, `Nothing` is no row and no key; in the model call,
texts are sequences of tokens of any length, what a tool call hands over is an object, and SDK errors
are those the adapters distinguish; in the list, items are finitely many, pages are not empty and a
reader's filter is a status or none.

- `AnalysisProofs!TypeCorrect`. Types alone are not inductive: that `Settle` writes a proper status
  and error code depends on what the request holds at each point. `RequestShape` says it.
- `AnalysisProofs!InvCorrect`: `Inv` is `TypeOK`, `RequestShape`, `Ownership` and
  `ResultProvenance`. `ResultProvenance` survives a request saving its attempt row only because that
  row is not the one the shown result came from, and a settle only because the request has already
  saved its success. `Ownership` says this: attempt rows are counted by `attempt_count`, a request in
  a call holds a row that is not the result's source, and no two requests hold the same row. From
  `Inv`: `ReviewedResultsSucceeded` and, as a step property, `DecisionsStand`.
- `HistoryProofs!HistoriesCorrect`: for each item, `History(i)`, next to `Inv`. The properties alone
  are not inductive because a request between its call and its settle knows something they do not
  mention: its attempt row is still as opened, or reads the very failure it is about to settle
  (`InHand`), and while no reaper has intervened it is the only call and the last one (`Undisputed`).
  `Explained` strengthens `ErrorIsExplained` by an attempt that no request under way can still
  change. A step is then one of seven things to an item (`Aside`, `ClaimedBy`, `RecordedBy`,
  `SettledBy`, `Completed`, `ReapedNow`, `DeletedNow`), and `History` is shown to survive each.
  `TrailIsHistory`, `CallsAreAttempts`, `CallsBounded`, `SuccessesKept`, `ErrorsExplained`,
  `OffersAccepted` and the step property `HistoryGrows` follow.
- `HistoryProofs!LateAnswersExplained`: a second invariant on top, `LateAnswers`. Every call out of
  step with its item, under way or answered, is an abandoned one or comes after one (`Abandoned`), and
  what a reaper gave up on stays given up while the audit trail grows.
- `HistoryProofs!OvershootBounded`: the count and the number of retries past the check, together,
  are what stays bounded (`BoundInv`). A new retry arms itself only below the cap; claiming turns one
  armed retry into one count.
- `AnalysisProofs!LifecycleImplemented`: requests, reapers and time are invisible; claims, settles,
  manual transitions, reaps and deletions map to one step each. `Inv` is needed for `Succeed`: the
  result must be the number of a call.
- `AdminFormProofs!FormInvCorrect`: `Inv` does not carry over, since a save puts `attempt_count` and
  a result back, and a result may be typed in. What remains is that a row counts no more attempts
  than there are, shows the result of one that succeeded or one that was typed in, and is up for
  review only with a success behind it (`Rows`), that the same is true of every row a form may still
  write (`Forms`), that a call holds an attempt that reads FAILED and that no other call holds
  (`Calls`), and that the unique constraint lets a claim through only with the next number.
  `FormsKeepProvenance` and `FormTyped` follow.
- `AdminFormProofs!FormsKeepCallsBounded`: beside a form, "an item that is not in ANALYSING has no more
  calls than the reaper gave up on" (`Room`) is false, since a save can take the status back while a
  call runs. What holds is that a row from which a claim would go through has room (`Clears`): its
  status is not ANALYSING and its count is the number of attempts there are, so it is no older than the
  last claim. `CallBound` says so of the row in the table and of every row a form may still write. A
  claim uses the room up and opens an attempt, after which no older row clears any more.
- `IntakeProofs!IntakeInvariant` and its corollaries: `IInv` adds to the safety properties that an
  item nobody edited holds the texts of its hash, that a deleted item's external id is in `freed`
  (`DeletedIsFreed`), and that a refused insert was refused by a row that has the external id or has
  lost it since (`RefusedByARow`). `ContractImplemented` follows: an answer to an existing item is a
  `Repeat`, an insert an `Accept`, an edit a `Rename`, perhaps to the same external id, a second
  lookup that misses an `Apologise` (its external id was taken from an item). `Typed` is the type
  invariant.
- `AccountsProofs!Typed`: types need `Refers`, that requests, forms, tokens and the cache refer to rows
  and codes that are there and that each request holds what its next step needs. On top of it,
  `OneAccountPerAddress` (an insert and a form both pass the unique constraints, and no other step
  writes an address), `CodesSpentTogether` (a
  code that is still in the cache has not been taken, so those that hold it are all who ever will),
  `DateFollowsPassword` (in rows and in the rows forms have read), `RefusalsExplained` (by
  arithmetic on seconds), and the step properties `BlocksStand` and `ActivationIsEarned`. The last needs
  that the address a verification read is one the account has or had (`AddressesStay`).
- `ModelCallProofs!CallInvCorrect`: how far a run has got says what is written (`Progress`) and what a
  failed call's code says of its cause (`Fits`). From it `CallTyped`, `CodesAreTrue`, `FallbackCovers`
  and `ExitsAreWhole`. With `SaidInWords` (what reaches the parser is a text) and the theorem
  about the parser, `TheObjectIsRead` and `ShownWasSaid`.
- `ParserProofs!ReadsTheObject`: for every text, `extract_json_object` and the grammar agree.
  Induction over texts is not to be had from the provers, so each claim about all positions takes
  the least one at which it fails, and that a set of numbers has a least member follows from the
  well-foundedness of the subset ordering (`Least`). The grammar counts, so how a count changes from
  one token to the next comes first (`EscapedNext`, `InStringNext`, `DepthNext`). Then: an object's
  depth is positive up to its last token, which closes it (`ObjectShape`), hence at most one object
  starts at a place (`OneObject`); the recursion of the scanner has a solution (`ScanIs`), and along
  an object its state is what the counts say (`ScanFollows`), hence `_first_json_object` returns the
  object at the first brace where there is one (`FirstObject`). Every candidate is a part of the
  text with no brace before it (`PartOf`, by way of the fence, the language tag and both strips), so
  an object among them is that object; and if there is one, the third candidate is it, unless an
  earlier one is JSON. The earlier ones are the text and what its fence holds, so that what is read
  in its place is one of those as a whole, and no object (`Extracted`; a text that starts with a
  brace is JSON only as an object, `OpenIsObject`). Where no object starts at the first brace the
  scanner may return anything balanced, and `json.loads` refuses it.
- `ListingProofs!Accounted`: where a page begins is a rank, `Behind`. Of the items that were there
  all along, those of lower rank that were not shown are at most as many as left the list
  (`Missed`), and the repetitions, those made and those still to come (`Again`: shown, and of higher
  rank), are at most as many as came. A change of the list carries at most one item over that line,
  since ranks move by at most one and no two items share one (`OneDrawnForward`, `OnePushedBack`); a
  page moves the line past exactly what it shows (`FitsNextPage`). On the last page what is left
  beyond the count came after it was made, which is `late` (`TailOfList`). `LossesExplained`,
  `RepeatsExplained` and `Typed` follow.

Only model-checked:

- `NoItemStranded` and `EveryCallIsRecorded`: liveness, and anything about ENABLED, is outside the
  prover's reach.

So every safety property, step property and refinement that a passing run checks is also a theorem, and
the runs are there for what the proofs take for granted: that the situations the properties speak of
occur, and that each property fails when the code is broken in the way its mutant says.

## What is not modelled

- An item added by hand in the admin site: its `content_hash` stays empty, so that any submission of
  its external id is a conflict. Edits of attempts and audit rows in the admin site.
- The administrator's forms that add and delete accounts and set a password, names and permissions.
  `SimpleJWTParser` and `User.block` are called nowhere.
- What a login gets that was under way while the password changed. The interleaving is in `Accounts`
  (`LoginReads`, `Saves`, `Issues`); nothing in the repository promises an outcome.
- Token lifetimes that differ between processes: a token's time of issue is computed from the
  checking process's own setting.
- The field checks of the schema (an analysis that fits is one token) and the mock's keyword rules.
- The error envelope beyond which requests are refused: it is a table from exceptions to codes and
  texts. The serializers' 400s: inputs are those that pass.
- The intake API key (one stateless comparison), the prompt (a constant text), seeding, key
  generation, and settings other than those that appear as constants.

## Plan

Done, in this order: `Workflow`, `Analysis` with its properties, `Lifecycle` and the refinement, the
first proofs; `Intake` and `IntakeContract` with proofs; `AdminForm`; `Parser` and `ModelCall`;
edits in `Intake`; `Accounts` with proofs; `Listing`; the safety properties of `Analysis`,
`ModelCall`, `AdminForm`, `Parser` and `Listing` proved.

Left, most important first:

1. Items added by hand in `Intake`, and the deletion of accounts in `Accounts`.
2. The safety part of liveness as theorems: which step of a request or a reaper a stranded item is
   waiting for, in every state.
