# A verification of graylog-mcp

graylog-mcp is a Model Context Protocol server: an AI agent calls its tools, and
the tools call the REST API of a Graylog server. The code that matters most is
the one that changes a Graylog server on the word of an agent. It has no
transactions and no locks to lean on: a tool is a chain of HTTP requests, other
users and other calls work on the same server in between, and any request may
fail or be carried out with its answer lost. What protects the server is a
protocol made of previews, confirmation tokens, repeated reads, merges done in
the client and reports of what was left behind. This directory models that
protocol in TLA+, checks it with TLC and proves its main properties with TLAPS.

Source paths below are relative to `src/src/`, the implementation's root (the
repository's own `src` directory).

## Contents

| module | what it is | run / proof |
|---|---|---|
| `ConfirmedDelete` | abstract: what a confirmed delete promises | refined by `DeleteStream` |
| `DeleteStream` | `delete_stream` behind the mutating-tool wrapper | |
| `DeleteStreamMC` | its small instance | `delete_stream`, `delete_stream_unreviewed` |
| `DeleteStream_proofs` | theorems | TLAPS |
| `Roles` | `create_role`, `update_role`, `delete_role`, `assign_role`, `unassign_role` | |
| `RolesMC` | its small instances | `roles`, `roles_lockout` |
| `Roles_proofs` | theorems | TLAPS |
| `Blueprints` | the six blueprints, their two chain walkers, connecting and disconnecting pipelines | |
| `BlueprintsMC` | its small instances | `blueprints`, `blueprint_replaces_connections`, `blueprint_retry` |
| `Blueprints_proofs` | theorems | TLAPS |
| `Dashboards` | the five tools that change dashboards, `executeChain` over their two documents | |
| `DashboardsMC` | its small instances | `dashboards`, `dashboards_adding` |
| `Dashboards_proofs` | theorems | TLAPS |
| `MutatingTool` | the wrapper's steps, which the five modules below extend | |
| `ShareEntity` | `share_entity` | |
| `IndexSets` | the five index set tools and `await_system_job` | |
| `PipelineRules` | the seven pipeline and rule tools; the emitter and the lint of the rule language | |
| `PipelineRulesMC` | its small instance | `pipeline_rule_lint` |
| `Listings` | the server's lists, which two walks read page by page | |
| `EncryptedFields` | a configuration field that may be a secret | |
| `StreamsAndInputs` | the seven other stream tools, the eight input and extractor tools | |
| `Events` | the eight event tools, the migration of version 6 conditions | |
| `AdminTools` | the five modules side by side | |
| `AdminToolsMC` | their small instances | `admin_tools` |
| `Shared_proofs` | lemmas about the wrapper, listings and secret fields | TLAPS |
| `ServerObjects_proofs` | theorems about `ShareEntity`, `IndexSets` and `StreamsAndInputs` | TLAPS |
| `AdminTools_proofs` | theorems about `PipelineRules`, `Events` and `AdminTools` | TLAPS |
| `StoreFile` | saving the template store, as operations on files | |
| `Drain3` | the clustering of log lines, as functions | |
| `TemplateStore` | the tools that keep templates, over both | |
| `TemplateStoreMC` | its small instance | `template_store` |
| `TemplateStore_proofs` | theorems | TLAPS |

`tlc -config DeleteStream.cfg DeleteStreamMC` checks a run, `tlapm
DeleteStream_proofs.tla` a module of proofs. `PROJECT.json` maps every
definition to the lines it stands for and gives, for each checked property, a
plausible bug (a definition marked "Mutant of") that makes it fail.

## The system

### Components, their state and operations

* **Mutating-tool wrapper** (`tools/_shared/handler.js`). Every tool that
  changes something goes through it: validate the arguments, resolve the
  connection, refuse a read-only one, `build()` the request, which may itself
  read from the server, then either show a preview (the default) or pass the
  confirmation gate and `apply()`. It keeps no state: a preview and the apply
  that follows it are two calls, and the only thing that links them is the
  token in the agent's hands.
* **Confirmation tokens** (`tools/_shared/cascade-hash.js`): sha-256 over the
  state a destructive operation would affect, recomputed at apply time.
* **Graylog client** (`graylog/client.js`): one `fetch` per request, a timeout
  of 60 s, error classes by status. A timeout says nothing of whether the
  request was carried out.
* **delete_stream** (`tools/streams/delete-stream.js`): reads the stream, its
  rules, its pipeline connections and every page of event definitions, hands
  out a token, and at apply time reads all of it again before the DELETE.
* **Role tools** (`tools/authz/{create,update,delete,assign,unassign}-role.js`,
  `role-helpers.js`): one write each, prepared from one to four reads; a guard
  for the last admin; a permission catalogue cached per connection for as long
  as the process lives.
* **Blueprints** (`tools/blueprints`, `tools/_shared/blueprint-chain.js`):
  chains of up to 22 requests with ids of earlier answers put into later ones,
  no rollback, and a report of what succeeded. `setup_app_monitoring_stack`
  has a walker of its own.
* **Pipeline connections** (`tools/pipelines/connect-pipelines-to-stream.js`,
  `disconnect-pipelines-from-stream.js`): read, merge or subtract, replace.
* **share_entity** (`tools/authz/share-entity.js`, `grn-helpers.js`): resolves
  references and titles, asks for the grants there are, merges the one change,
  derives a token from the merged map and replaces all grants with it.
* **Dashboards** (`tools/dashboards`, `services/dashboards.js`,
  `tools/_shared/widget-position-integrity.js`, `widget-templates`): a dashboard
  is two documents, a view and the search it is bound to. A widget change reads
  both, computes both and puts both back whole, the search first.
* **Index sets and system jobs** (`tools/index-sets`,
  `tools/_shared/system-job.js`): an update that reads and writes back, a
  deletion with a token over the data that goes, the job it starts, and polling
  with a growing delay and a deadline.
* **Log clustering** (`clustering`, `tools/cluster-errors.js`,
  `tools/template-mgmt.js`): templates in a file per connection, written to a
  temporary file and renamed, guarded by a lock file with a stale-lock rule;
  drain3 clustering.
* **Pipelines and rules** (`tools/pipelines`, `pipeline-dsl`): a structured rule
  is emitted as source, linted against a cached catalogue of functions and
  parsed by the server before it is written; a deletion walks the pages of rules
  for the pipelines that use its rule, twice.
* **Streams, inputs and extractors** (`tools/streams`, `tools/inputs`): a request
  or a read-and-write each; which fields of an input are secrets is in a
  catalogue fetched once.
* **Events and notifications** (`tools/events`): conditions of Graylog 6 are
  migrated; the deletion of a notification walks the pages of definitions, twice.
* **Search handlers** (`handlers.js`, `aggregations.js`, ...), **tool
  descriptors**, **widget templates**: reads and tables.
* **Connections and configuration** (`config.js`, `dispatch.js`, `index.js`):
  which server a call without a connection name goes to.

### How they interact

An agent may have several calls in flight; the process is one event loop, so
code between two `await`s is atomic and everything else interleaves. Calls share
the Graylog servers, the caches (permissions, functions, input types) and the
template files, which several processes of the server share as well. Other users
change the servers at any time.

### What is hard, and what makes each part right

| behaviour | where | property |
|---|---|---|
| only what an agent has reviewed is deleted or overwritten | wrapper, delete_stream, roles | `DeleteIsConfirmed`, `ImplementsConfirmedDelete`, `ReviewedWrite`, `ReviewedState` |
| a listing that shifts while it is paged | delete_stream | `NothingStableMissed` |
| a window between the last read and the write | delete_stream, roles, connections | `NoUnreviewedApply`, `ReviewedState`, `OnlyAsAsked` |
| two calls that each pass a guard and together break what it guards | unassign_role | `LastAdminLostToARace`, `AnAdminRemains` |
| a cache older than the server | roles | `OnlyKnownPermissions` |
| a chain that stops in the middle, an answer lost | blueprints | `ReportAccounts` |
| ids of answers wired into later requests | blueprints | `WiredTogether` |
| retries | blueprints | `RetriesConverge` |
| two documents that must agree, written one after the other | dashboards | `InStep`, `SearchTypeAlreadyExists` |
| a place computed from what was read | dashboards | `PlacedClear` |
| documents written back whole | dashboards | `Dashboards!OnlyAsAsked` |
| replacing where adding was meant | blueprints, connections | `BlueprintKeepsConnections`, `OnlyAsAsked` |
| a full replace built from a read | share_entity | `SharedAsShown`, `OthersKept` |
| a token over what is read once | index sets | `DataDeletedKnowing` |
| a merge of what was read with what was asked | index sets, inputs, extractors | `SetKeepsRest`, `OnlyNamedFields` |
| polling a job that may vanish, stop, or be at 100 percent before its end | system jobs | `CompletedMeansCleaned` |
| a page walk that may miss what it looks for | rules, notifications | `RuleDeletedKnowing`, `NotificationDeletedKnowing` |
| text that one part emits and another judges | rule language | `LintedBeforeParse`, `RefusedWithReason`, `KeywordsNeverCalled` |
| secrets, by a catalogue that may be old | inputs, notifications | `SecretsWrapped` |
| a recursive rewriting of conditions | events | `AlertsAsAsked` |
| crashes, full disks and stale locks | template store | `FileWhole`, `LockKeepsOut`, `SavedIsOurs` |
| a load and a save that are not one | template store | `KeptUnlessRaced`, `EveryLineCounted` |
| templates that change under their ids | clustering | `IdsStable`, `ClustersCover` |
| every call ends | wrapper, template store | `CallsReturn` |

The full list of hazards, at their lines, with those no property covers yet, is
in `PROJECT.json`.

## The models

All modules share three conventions.

* **A request is one atomic step.** It is carried out by the Graylog server, and
  the code up to the next request runs with it. Between two requests of a call
  anything else may happen. Every request may fail; a write may be carried out
  and its answer lost.
* **A token is what it is the hash of.** sha-256 is taken to be free of
  collisions. A token is a record of exactly the fields the code hashes, so
  what the code leaves out of a token is left out here.
* **The server is external.** What it holds and what it does with a request is
  modelled from how the code uses it, and marked so in `PROJECT.json`.

### DeleteStream and ConfirmedDelete

State: `world` (what each server holds: streams, rules, connections, event
definitions in the order they are listed), `shown` (tokens that previews have
handed out), and for each call its next request (`pc`), arguments, phase
(`build` or `apply`), what it has read of the cascade, its page, and `build()`'s
token. `stable` is a history variable: what has depended on the stream
throughout `apply()`'s reads and could not slip past its page walk.

| action | code |
|---|---|
| `Start` | `handler.js` 61-106: arguments, connection, writable gate |
| `GetStream` | `delete-stream.js` 186-203: the pre-flight on editable streams |
| `GetRules`, `GetPipelines`, `GetPage` | `buildCascade`, 93-181; the walk ends at a short page or at the cap |
| `Preview`, `ConfirmGate` | `handler.js` 133-244, run with the last page of `build()` |
| `DriftCheck` | 226-260: the cascade read again, the token compared |
| `Delete` | 262-270, which may fail after it was carried out |
| `RequestFails` | any read that fails ends the call |
| `EditRules` ... `DeleteEventDef` | other users; a created or deleted definition shifts the pages |

`ConfirmedDelete` says what an agent may rely on: a stream goes only after it was
shown a token for it and confirmed with it. `DeleteStream` implements it under
the refinement mapping in `Abstract`.

### Roles

State: the server's roles, users and permission catalogue; the wrapper's
catalogue `cache`; the tokens `shown`; and for each call its next request, its
arguments and what it has read (`got`). `raced` is a history variable: whether
what the token pins has changed since the call read it.

`Start` has `assertRoleIsMutable`; `GetRole`, `GetMembers`, `GetUser`,
`GetAdmins` and `GetCatalogue` are the reads in each tool's order, `Built` is
the end of `build()` with the dry run and the gate, `Write` the one request of
`apply()`; `assign_role` sends its PUT to a user who has the role already, as to
any other. A token is not spent: it is good whenever the state it names returns,
so the model keeps it in `shown`, and the run lets agents apply twice with one.
Other users edit roles, memberships and users, and upgrade the server.

### Blueprints

State: what blueprints have made on the server (`objects`, each with the call's
arguments and the request of the chain that made it), the stream-to-pipeline
connections `conn`, and for each call its transcript (`answers`), its report
(`succeeded`), what it is about to write (`body`). History: `made`, the requests
the server carried out; `raced`, whether a stream's connections have changed
since the call read them; `settled`, what was applied with success.

`Chain` gives each tool's requests, with the reference each request makes to
earlier answers (`Needs`) and whether the code checks that the field is there.
`Answered`, `ChainFails` and `Unresolved` are the three ways through the loop of
`executeChain` (and of the walker of `setup_app_monitoring_stack`, whose fifth
step is two requests). `ReadConnections` and `WriteConnections` are the two
connection tools. The content of rules, pipelines, widgets and rotation
strategies is left out: no property depends on it.

Assumptions on the environment: an agent repeats a blueprint only after it has
failed, and does not run the same one twice at a time. Without that, two sets
of objects would be what was asked for.

### Dashboards

State: the server's `views` and `searches`, a counter for new ids, and for each
call its next request, arguments, dry run, the view and the search it has read
or is about to write, and its widget. A view keeps, by tab, its widgets, their
positions and the search types that feed them; a search keeps, by query, its
search types; a tab and its query have the same key. History: `raced`, whether
a dashboard has changed since a call read its view; `stale`, the dashboards
written from an outdated reading; `apart`, the changes of which one document was
written and not the other; `placed`, the widgets the tool found a place for.

| action | code |
|---|---|
| `Start` | the wrapper's first steps, and which request comes first |
| `GetView` | `getDashboard`, and what follows it in each tool: a missing search binding, no tab, no such widget |
| `GetSearch` (`AddTo`, `RemoveFrom`) | `getSearch`; the free row, both documents, the position and query checks, the dry run |
| `Probe` | `create_dashboard`: the look for dashboards of the same title, the ids, search and view |
| `PutSearch`, `PutView` | the two steps of `executeChain`, or `update_dashboard`'s one request |
| `PostSearch`, `PostView`, `Delete` | `create_dashboard`'s chain, `delete_dashboard` |
| `RequestFails` | a read that fails, or a template that rejects its options |
| `Retitle`, `AddInBrowser`, `DeleteInBrowser` | other users; the web interface keeps view and search in step |

`InStep` is the promise the order of the writes and the query check are there
for. It names its exceptions: a removal cut short between its two PUTs leaves a
blank widget, an addition cut short leaves a search type, and a dashboard
written from an outdated reading may be anything.

Assumptions: agents do not supply ids of widgets and search types; two
dashboards do not share a search; other users do not move or resize widgets; a
server that refuses a document is one whose request fails. No start of the run
has a search type that feeds two widgets. A call that has ended forgets what it
read.

### MutatingTool, and the modules that extend it

`MutatingTool` is what `defineMutatingHandler` does for a tool on a connection
that exists and is writable: `Begin` (a call arrives, with or without a token
it was shown), `Continue` (`build()` goes on to its next request), `Gate`
(`handler.js` 133-244: the preview hands out the token, a wrong or missing
confirmation is refused, and otherwise `apply()` may write), `Finish` and `End`.
State: `pc`, `req`, `got` (what `build()` keeps) and the tokens `shown`. The five
modules below add the server's state, the requests, and a history variable that
says what changed since a call read it. A call that has ended forgets its
arguments and what it read.

| module | server state | actions and their code |
|---|---|---|
| `ShareEntity` | `grants`, `titles`, `admin` | `Prepare`, `MergedShare` (references, titles, merge, last-owner guard: `share-entity.js` 138-314), `PostShares`; others grant and rename |
| `IndexSets` | `sets`, `default`, `stored` indices, `docs`, `jobs` | `ListSets`, `GetSet`, `ListIndices`, `GetStats` are the reads, `PostSet`, `PutSet`, `DeleteSet`, `DeleteData`, `Cycle`, `PutDefault` the writes; `Await`, `GetJobs`, `Poll` are `await_system_job`; messages arrive, jobs advance, end or stop, and are listed no more |
| `PipelineRules` | `rules`, `pipelines`, `functions`; the process's `catalogue` | `GetRule`, `Lint`, `ParseRule`, `ListRules`, then the write; `Walk` and `Rewalk` are `delete_pipeline_rule`'s two walks, `Confirmed` compares |
| `StreamsAndInputs` | `streams`, `streamRules`, `inputs`, `extractors`, `encrypted`; the process's `typeCatalogue` | `GetDoc`, `Types`, `List`, `ListExtractors`, `Build` are the builds, `WriteStream` ... `WriteExtractor` the writes |
| `Events` | `defs`, `notifs` | `BuildEvent`, `WriteDef`, `WriteNotif`; `WalkDefs`, `RewalkDefs`, `DeleteNotif` are `delete_event_notification` |

*The rule language.* A source is a sequence of tokens: words, parentheses, string
delimiters, and one token for everything else. `EmitExpr` and `EmitAction` follow
`emit.js` node by node; `ParenScan`, `ParenImbalance` and `CalledNames` follow
`validate.js`, which removes no strings before it looks for names. Against them
stand `WellNested` and `CallsOf`, which read a source as the server's grammar does,
strings apart.

*Conditions.* `Visit` is the migration's `visit` as a recursive function over the
nodes; `Nodes`, `Keys` and `HasV6` are the reference it is checked against.

*Secrets.* `EncodeForWire` and `Shown` are `redact.js`; `Accepted` is the server.

`AdminTools` puts the five side by side, as `_register.js` does. They share no
state but the calls, so a behaviour runs in one `area` of the server: eleven
areas, each with its own initial states, the others left out. An action property
of one module holds vacuously in the areas of the others.

Assumptions: ids and titles that agents pass are of the form the schemas accept;
a partial PUT keeps the fields it leaves out where the code relies on that
(event definitions, streams, notifications); one rule stands for all rules of a
stream and one extractor for all of an input.

### StoreFile, Drain3 and TemplateStore

`StoreFile` is `saveTemplateStore` as the operations on files it is made of:
open the lock exclusively, look at the age of one that is there, unlink it when it
is older than 30 s, open and write the temporary file, rename it, unlink the
lock. Opening empties the file, a write goes through the open file whatever its
name is by then (`fd`), and any operation may fail, a write halfway. A process may
die at any operation; its lock stays and ages. State: `file`, `tmp`, `lock`, and
each process's `fd`, `pc` and store `mem`. History: `aged`, a lock turned stale;
`stolen`, a process unlinked the lock of another that was writing.

`Drain3` is the strategy: `Best` and `Similar` choose a template, `Relax` changes
it, `Pushed` evicts, `Cluster` folds a batch with a recursive function. A line is
its tokens; an id, a hash of the tokens a template began with, is these tokens.

`TemplateStore` adds the tools. A call loads, computes and comes to the save in one
step, since nothing awaits in between; the operations of the save interleave with
other processes. `raced` is a history variable: whether the file changed since the
process loaded it.

## What the runs show

| run | instance | shows |
|---|---|---|
| `delete_stream` | 2 calls, 2 connections (one read-only), 2 streams (one built in), one rule, one pipeline, 2 event definitions, pages of one, 2 edits | `TypeOK`, `NothingStableMissed`, `DeleteIsConfirmed`, the refinement, `CallsReturn` |
| `delete_stream_unreviewed` | the same | `NoUnreviewedApply` fails: an edit after the drift check goes with the stream |
| `roles` | 2 calls in flight without end, 2 roles, 2 users, 2 permissions, 6 kinds of arguments, 2 tokens, 1 edit | `TypeOK`, `ReviewedWrite`, `ReviewedState`, `OnlyKnownPermissions`, `LastAdminLostToARace` |
| `roles_lockout` | two removals of admins, no other user | `AnAdminRemains` fails: both guards count two |
| `blueprints` | 2 calls over 5 kinds of arguments, one answer per chain without its field, 1 edit | `TypeOK`, `WiredTogether`, `ReportAccounts`, `OnlyAsAsked` |
| `blueprint_replaces_connections` | the two blueprints that connect to the agent's stream | `BlueprintKeepsConnections` fails: connected pipelines are disconnected |
| `blueprint_retry` | two short blueprints called again after a failure | `RetriesConverge` fails: objects are made twice |
| `dashboards` | 2 calls over 6 kinds of arguments, 5 dashboards to begin with (two tabs; a query missing; a position left over; no tab; no search), 2 edits | `TypeOK`, `InStep`, `PlacedClear`, `OnlyAsAsked` |
| `dashboards_adding` | two additions to one dashboard, nobody else | `SearchTypeAlreadyExists` fails: the later search takes the earlier one's type away before its view lands |
| `admin_tools` | 2 calls in flight without end in each of eleven areas, 1 token, 1 change by others | `AdminTypeOK`, `LintedBeforeParse` and the eleven action properties of the table above from `SharedAsShown` to `AlertsAsAsked` |
| `pipeline_rule_lint` | a structured rule whose condition is an `and` | `KeywordsNeverCalled` fails: the lint takes `when (` for a call and refuses the rule |
| `template_store` | 2 processes, 2 calls of 7 kinds, 1 crash, lines of two tokens, 3 files to begin with | `TemplateTypeOK`, `LockKeepsOut`, `FileWhole`, `SavedIsOurs`, `IdsStable`, `ClustersCover`, `KeptUnlessRaced`, `EveryLineCounted`, `CallsReturn` |

The six runs that fail each refute one sentence of the repository's own
documentation or comments; `PROJECT.json` quotes the sentence beside the line
of the code ("findings").

`await_system_job` answers `completed: true` on any of three signs: the status
`complete`, `percent_complete` at 100 whatever the status, or a 404. The last two
are not always the end of the clean-up; `CompletedMeansCleaned` names the cases in
which they are not, and no other. One of them is a job in error at 100 percent, which
the test "error status returns completed:false" (`test/system-job.test.js:223`)
tries at 80 percent only. That a server reports 100 percent beside such a status
is assumed possible; the code does not rule it out.

`KeptUnlessRaced` takes a merging import of an id to ask for what it does: the entry
with that id is replaced (`template-mgmt.js:115`). The design document of 2026-05-04
says "`merge` keeps existing, adds new" (line 132), which the code does only for ids
that are not imported.

`IdsStable` says that within a bucket ids are distinct, and that a template covers the
line its id was made from. It says nothing of "Same template across calls reuses the
same ID" (the same document, line 165): an id is made from the line a template
begins with and stays when the template relaxes (`drain3.js:73-88`), so a template
that is evicted may come about again from another line, under another id.

### Bounds, and why they are enough

* **Two calls.** Every property is about a call and whoever interferes with it.
  One other call that may be at any point, and other users, give every
  interference that needs one partner; the theorems cover any number.
* **Two event definitions, pages of one, two edits.** The least that lets a
  deletion shift a definition past the walk, and lets the second reading of the
  cascade differ from the first.
* **Two calls and two edits on dashboards.** Enough for a lost update between
  any two tools, and between a tool and the web interface on either side of a
  read; the damaged starts reach every refusal of `build()`.
* **Two users, two roles.** The least for a last admin and for a race to it;
  `Admin` is built in, the other role is not.
* **Two calls and one change by others in each area.** The properties of
  `AdminTools` relate one call's reads to its write; the other call or the
  other user can be between any two of its requests. Three definitions (three
  rules) and pages of one, with a cap of two pages (`PerPage`, `MaxPages`,
  `DefsPerPage`, `MaxDefPages`), reach a shifted page and one beyond the cap.
  `AreaOps` names the calls of each area, chosen so that they meet on one
  document, and `Touched` the index set that others change.
* **Waiting.** `Backoff` has two delays, the timeouts are one and two units, and
  an answer is late by at most one (`MaxLate`): a poll falls before, on and after
  the deadline.
* **The rule language.** Every kind of condition and action occurs in the sources,
  a title with parentheses in it, a function the catalogue does not know, and a
  raw source whose parentheses close before they open.
* **Two processes, one crash** (`MaxCrashes`). A lock left behind, one that goes
  stale under a live writer, and two that find the same stale lock; the theorems
  are for any number of either. `MaxCalls` is two: one call whose store the other
  loads, or both at once. Lines of two tokens over two words are enough to relax,
  to evict in a bucket of one, and to learn again what was evicted.
* **MaxShown, MaxEdits, MaxCalls, MaxMissing** cap tokens, other users'
  changes, calls and incomplete answers, and are guards of the actions they
  bound; `MaxShareEdits`, `MaxSetEdits`, `MaxRuleEdits`, `MaxDocEdits` and
  `MaxEventEdits` do the same in the areas, `MaxDocs` for messages. In
  `Blueprints`, `DeleteStream`, `Dashboards` and `TemplateStore` calls run out, and
  in `AdminTools` a preview may find no room for its token; the model then
  stops, and these runs do not look for deadlocks. `Roles` calls never run out, and
  its runs do.
* Symmetry is used for the call slots only, in runs without liveness
  properties.

### Fairness

Two runs have a liveness property, `CallsReturn`. In `delete_stream`, `FairSpec` asks
for weak fairness of each call's `Step`: a call that waits for an answer gets one, or the
client gives up after 60 s (`graylog/client.js:67`), and the event loop then runs
its continuation. Nothing is asked of agents or other users: they need not call,
edit or confirm. The walk ends under this alone since its pages are capped.
In `template_store`, `TemplateSpec` asks for weak fairness of each process's
`Running`: a save is synchronous code, and an operating system runs a process
that can run. Nothing is asked of locks, ages or crashes: a process that finds a
lock does not wait for it, it fails.

## What is proved

Each theorem holds for every value of the constants: any number of calls,
connections, streams, roles, users, pages, transforms, tabs, widgets, edits,
grantees, index sets, jobs, processes, crashes and templates.

| theorem | says |
|---|---|
| `DeleteStream_proofs!TypeCorrect` | `TypeOK` |
| `DeleteStream_proofs!DeleteConfirmed` | `DeleteIsConfirmed` |
| `DeleteStream_proofs!RefetchMissesNothing` | `NothingStableMissed` |
| `DeleteStream_proofs!DeleteStreamRefines` | `DeleteStream` implements `ConfirmedDelete` |
| `Roles_proofs!TypeCorrect` | `TypeOK` |
| `Roles_proofs!WriteReviewed` | `ReviewedWrite` |
| `Roles_proofs!StateReviewed` | `ReviewedState` |
| `Roles_proofs!PermissionsKnown` | `OnlyKnownPermissions` |
| `Roles_proofs!LastAdminGuarded` | `LastAdminLostToARace`, an action property |
| `Blueprints_proofs!TypeCorrect` | `TypeOK` |
| `Blueprints_proofs!ReportHolds` | `ReportAccounts` |
| `Blueprints_proofs!ConnectsAsAsked` | `OnlyAsAsked`, an action property |
| `Blueprints_proofs!BlueprintsWire` | `WiredTogether` |
| `Dashboards_proofs!TypeCorrect` | `TypeOK` |
| `Dashboards_proofs!AdditionsPlaced` | `PlacedClear` |
| `Dashboards_proofs!ChangesAsAsked` | `OnlyAsAsked`, an action property |
| `Dashboards_proofs!DocumentsInStep` | `InStep` |
| `ServerObjects_proofs!ShareTypeCorrect` | the types of its state |
| `ServerObjects_proofs!SharedAsPreviewed` | `SharedAsShown`, an action property |
| `ServerObjects_proofs!OthersKeepTheirs` | `OthersKept`, an action property |
| `ServerObjects_proofs!IndexTypeCorrect` | the types of its state |
| `ServerObjects_proofs!DataGoesAsPreviewed` | `DataDeletedKnowing`, an action property |
| `ServerObjects_proofs!CompletedIsCleaned` | `CompletedMeansCleaned`, an action property |
| `ServerObjects_proofs!UpdateKeepsTheRest` | `SetKeepsRest`, an action property |
| `ServerObjects_proofs!DocTypeCorrect` | the types of the state of `StreamsAndInputs` |
| `ServerObjects_proofs!WritesOnlyNamedFields` | `OnlyNamedFields`, an action property |
| `ServerObjects_proofs!SecretsStayWrapped` | `SecretsWrapped`, an action property |
| `AdminTools_proofs!LintIsSound` | a source that the lint passes is well nested and calls known functions |
| `AdminTools_proofs!RuleTypeCorrect` | the types of the state of `PipelineRules` |
| `AdminTools_proofs!ParsedIsLinted` | `LintedBeforeParse` |
| `AdminTools_proofs!RuleGoesAsPreviewed` | `RuleDeletedKnowing`, an action property |
| `AdminTools_proofs!EventTypeCorrect` | the types of the state of `Events` |
| `AdminTools_proofs!NotificationGoesAsPreviewed` | `NotificationDeletedKnowing`, an action property |
| `AdminTools_proofs!RefusalsHaveReasons` | `RefusedWithReason`, an action property, for rules whose words are names |
| `AdminTools_proofs!AlertsSavedAsAsked` | `AlertsAsAsked`, an action property |
| `AdminTools_proofs!AdminTypeCorrect` | `AdminTypeOK` |
| `AdminTools_proofs!AreasImplementComponents` | `AdminSpec` implements, in each area, the component's specification |
| `TemplateStore_proofs!FileTypeCorrect` | the types of `StoreFile`'s state |
| `TemplateStore_proofs!TheLockKeepsOut` | `LockKeepsOut` |
| `TemplateStore_proofs!TheFileIsWhole` | `FileWhole` |
| `TemplateStore_proofs!WhatIsSavedIsOurs` | `SavedIsOurs` |
| `TemplateStore_proofs!ToolsUseTheProtocol` | `TemplateSpec` implements `FileSpec` |
| `TemplateStore_proofs!TemplateFileWhole`, `TemplateLockKeepsOut`, `TemplateSavedIsOurs` | the three of the tools |
| `TemplateStore_proofs!ToolsTypeCorrect` | `TemplateTypeOK` |
| `TemplateStore_proofs!IdsStayStable` | `IdsStable` |
| `TemplateStore_proofs!LinesAreCovered` | `ClustersCover`, an action property |
| `TemplateStore_proofs!NothingLostUnlessRaced` | `KeptUnlessRaced`, an action property |

The assumptions are the named ASSUMEs of each module, which every run evaluates:
the shape of the initial servers, that pages hold at least one entry, that the
operations are well formed, that the expressions of rules and conditions are
finite trees.

**delete_stream.** `DeleteIsConfirmed` is not inductive: that the DELETE follows
a matching second cascade needs to be known while that cascade is being read.
The invariant says, for each request a call may be about to make, what it has
established: an apply past the gate holds the token it echoed, the token was
shown, and it is the one its `build()` read. For `NothingStableMissed` the walk
needs an invariant of its own: a definition that has been linked to the stream
ever since `apply()` began, and has not been collected, stands behind the pages
walked so far. Creating a definition or changing one keeps that true, deleting
one does not: it moves the rest up, and the walk may pass one by. The history
variable `stable` therefore drops every event definition when one is deleted,
and holds none when there are more than the walk's cap lets it see. What such a
deletion can hide is part of what `delete_stream_unreviewed` shows.

**Roles.** The properties speak of the write alone; the invariant says what each
request before it has established: which tool can be there, which refusals are
behind it, that the cached catalogue is contained in the server's (catalogues
only grow), and that, unless the reading was raced, the basis of the token is
what the server holds. The last-admin theorem rests on the guard's reading: an
`unassign_role` that reaches its write saw an admin other than the user it
removes.

**Blueprints.** `Shaped` is the lemma about the chains: at most 22 requests,
steps in order, references only to earlier requests, and only a view may go
without a field. It is proved for every chain, `PipelineChain(n)` for each n
included. The invariant then says that a running chain has had carried out
exactly the requests of its transcript, and a failed one those and perhaps one
more; that the entries of earlier steps are what the report names gives
`ReportAccounts`. `Fresh` adds, for `OnlyAsAsked`, that until a stream's
connections change, what a call is about to write is what was asked of them.

For `WiredTogether`, `Linked` says of every chain that a request takes one id from
each earlier one it depends on, that none of these is a connection, and that what
is connected is a pipeline. `Answers` says of a running chain that each of its
answers stands for an object its own request made, and that the ids in them rise:
so no two placeholders of a request get the same id (`ValuesDiffer`), and as many
ids go into it as its chain asks for. `Pending` says of a connecting call that it
has read only pipelines that belong to the stream; one that an agent names may be
connected to anything (`Named`). The server's ids are new: nothing it began with
has one of those it will assign (`UnusedAssumption`).

**Dashboards.** `FreeRowBelow` says that `FreeRow`, a choice of the largest of
some rows, is one and lies below all positions: the positions of a tab are
finite, and a finite set of numbers has a largest (`LargestExists`, from the
well-foundedness of the subsets of a finite set). `TypeCorrect` needs to know
what a call's next request says of its reading (`Controlled`): without it,
`AddTo` could take the first of no tabs. `PlacedClear` becomes inductive
(`Places`) when it is said of the views calls hold as well as of the server's,
and with it that ids are drawn in order: a widget placed later has a higher id
than all the positions its row was computed from. For `OnlyAsAsked`, `Holds`
says that a call nobody has overtaken holds the dashboard as it is, or as it was
asked to make it, and `Spared` that whatever changes a dashboard overtakes the
calls that hold it.

`InStep` becomes inductive as `Stepping`, in three parts. `Bound`: no two
dashboards share a search, nor does one with a call that is about to create a
dashboard, so that writing a search disturbs one dashboard. `Agreed`: the view and
the search of a dashboard agree, each search type feeds one widget, and an
exception is made only for the tab a tool works on, the first with the widget or
the first of all; without the tab, removing a widget from one of two tabs would
end an exception the other might rest on. `Readied`: what a call nobody has overtaken
is about to write is the server's documents with one widget more or less, and at
its second write the search already has the type, or has it no longer. That a
drawn id is new to every view comes from `Places`. Each of the two writes then
has a lemma about documents alone (`TypeAddedAgrees`, `AdditionAgrees`,
`TypesTakenAgrees`, `RemovalAgrees`).

**The administration tools.** `Shared_proofs` says once what the wrapper's steps
preserve: a call that has passed the gate holds the token it echoed, and that token
was shown. The invariants (`ShareInv`, `IndexInv`, `DocInv`, `RuleInv`, `EventInv`)
add what the call has read. For share_entity and the index sets: that the body it is
about to post is the map of its token (`ShareConfirmed`), and agrees with the server
except for what has drifted since (`ShareFresh`, `SetFresh`, `NamesFresh`,
`CountFresh`). `JobsClean` says that a job that ended well has left no index. For
streams and inputs: that a document a call keeps is the server's but for the fields
that have drifted (`LikeDoc`), that a stream it is about to change was seen to be
editable, and that a catalogue once fetched holds only types that still are secret
(`CatalogueKnown`); `SecretsWrapped` follows, since a catalogue that holds them all
is then the server's.

**Walks over pages.** The ids of a listing are distinct (`Listable`), so a page with
room left is the last (`ShortPage`, by counting). The invariant of a walk
(`RuleAhead`, `DefsAhead`) says of what it has not met that it stands behind the
pages read so far, unless a deletion has moved the list since: the walk's answer is
then complete unless the list went on beyond its cap. Listings are defined by
counting up an order; the induction that takes is `Counting`, from the
well-foundedness of the natural numbers, and `Iteration` shows that the function it
defines exists.

**The lint.** `ParenScan` is such a function of a rule's tokens. `ScanKnows` says
what it knows after i of them: whether it is inside a quotation, by the parity of
the quotation marks, and how many more parentheses were opened than closed outside
of one. `LintIsSound` is what it comes to at the end, and `ParsedIsLinted` carries
it over to the calls that reach the parser.

**The emitter.** Conditions are finite trees, an assumption: a set of conditions that
is not empty has one with no operand in the set. `EmitUnfolds` shows from it that
`emitExpr` returns for every tree. `Whole` says of a sequence of tokens that the
linter's scan comes out of it as it went in, however many parentheses are open before;
concatenation, quotation, calls and parentheses keep it (`RunsConcat`, `WholeQuoted`,
`WholeCall`, `WholeParens`), and so do `emitArgs`, `emitAction` and `emitRule`
(`WholeJoined`, `ActionsWhole`, `RulesWhole`). What the lint refuses is then a name
before a parenthesis, as `RefusedWithReason` says. The theorem supposes
`WordsAreNames`: the schema takes any text for the name of a function, a variable or a
field, the emitter writes it as it is, and a parenthesis in it may well be refused.

**Conditions.** That conditions are finite trees is an assumption on `Exprs`, as the
parser's output is one: a set of nodes that is not empty has one with none of the set
below it. `VisitUnfolds` shows that `visit()` then returns for every tree, by gluing
the functions that visit part of the nodes; `NodesUnfold`, that the nodes of an
expression are the least set closed downwards. By the same lowest node
`VisitMigrates` has it that the migration leaves no version 6 node and keeps the
keys, which is what `AlertsSavedAsAsked` needs at the one step that writes a
definition.

**Side by side.** A step of `AdminTools` is, in each area, a step of its component
that leaves the rest alone (`AreaSteps`), so each component's invariant holds in its
area and `AdminSpec` implements its specification: with
`AreasImplementComponents` the theorems about the five modules hold of the tools as
they are registered, in the form in which `admin_tools` checks them.

**Template store.** `LockInv` gives `LockKeepsOut`: `HolderOwns` says that whoever
holds the lock is its recorded owner, unless a writer's lock was stolen, and
`NothingToBreak` that while no lock has aged none was stolen, none is stale, and
nobody is about to break one. `FileInv` says what the file, the temporary file and
the open files may hold at each operation, unless a writer's lock was stolen:
there is one writer, the temporary file is blank or torn only while it writes, and
whole when it renames. `ToolsUseTheProtocol` shows that a call is a `Save` and
everything else an operation or a stutter of `StoreFile`.

The theorems about the tools have one hypothesis, `Stores = TemplateStores`: the
protocol is stated for any contents, the tools for the stores they make.
`Cluster` is a recursive function over the lines of a batch. `ClusterSteps` is the
induction it needs, stated with a family of sets in place of a predicate: it shows
that the function exists, from the least line at which it would not, and that what
holds before the first line and is kept by `Assign` holds after the last. With it
`ClusterType` gives the types of a clustering, so that a call makes a store of a
store (`TheStoresAreClosed`), and `ClusterReports` what the properties need:
`Reports` says that the buckets are sound, that a template that is kept is
reported as it is, and that a line's template still covers it or has been evicted.
A template is learnt only when none covers the line (`CoveredIsSimilar`), since a
covered line scores its whole length and no threshold asks for more; that is why
an id never comes twice. `SoundInv` carries this over the file, the temporary file
and the stores in the processes' hands. `SavesOnTop` says of a call nobody has
overtaken that it is about to save what it makes of the file as it is, which with
`NewStoreKeeps` gives `KeptUnlessRaced`.

**Only model-checked.** `CallsReturn` (liveness under fairness is beyond the
prover) and `EveryLineCounted`, which adds up entries with a fold of the community
modules.

## What is not modelled, and the plan

Left out for good: previews' wording and layout, zod's validation of arguments
beyond their range, the listing tools and the search handlers (query building and
result formatting, reads without state), tool descriptors, the patterns that turn
a log line into tokens, of the rule language the values of literals, and of the
widget templates all but whether they make a search type. The connection that is
active is an argument of each call: no document promises that a preview and its
apply go to the same one. Saved searches are a file that one handler writes whole.

What a later round would add, most important first:

1. `config.js` and saved searches: files of their own, written without a lock.
