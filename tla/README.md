# A TLA+ model of the Music Assistant MCP server

This directory specifies the plugin under `provider/`: an MCP server that Music
Assistant (MA) loads into its own process and that lets MCP clients run MA
commands under a per-token policy. The modules are checked with TLC and the
central results are proved with TLAPS for every value of the constants.

The plugin is one asyncio loop. Code between two `await`s is atomic; at every
`await` other requests, MA, other plugins and the administrator may change what
the code looked at before. That is where the difficulty of this program lies, and
a step of every module here is the code between two awaits.

## The system

| Part | Code | State | Operations |
|---|---|---|---|
| Invocation pipeline | `execution.py`, `confirmation_context.py`, `audit.py` | the calls in flight, what each awaited and holds; the audit trail | look up, authorize, confirm, re-authorize, seal, execute, record |
| Permission arithmetic | `policy.py`, `command_policy.py` | none | combine modes, any-of alternatives, preflight classification |
| Token identities | `token_identity.py`, `auth.py` | a bounded LRU of bearer fingerprints | verify, bind, discard, resolve |
| Provider lifecycle | `provider.py` | the command set, at most one runtime | init, update_config, unload |
| MCP runtime | `server.py` | resolver, three unmount handles | start, stop, hot swap, rebuild |
| HTTP bridge | `http_bridge.py` | the ASGI lifespan task, routes on MA's webserver | mount, unmount, pump a request |
| Provider commands | `commands/*`, `confirmation_context.py` | registered commands, grants in contexts | start, stop, update_config, guard, execute, remove queue items |
| Event buffer | `debug/event_buffer.py` | ring of events, counters, subscription | start, stop, resize, record, snapshot |
| Policy configuration | `policy_config.py`, `config.py` | MA's stored values | compile a resolver, decide retention |
| Connect wizard | `connect/*`, `setup_flow.py` | tokens in MA | open, exchange, log in, mint, revoke |
| Resource authorization | `resource_authorization.py`, `middleware.py` | none of its own | authorize and read a resource |
| Target filters | `target_filters.py` | none | arguments, rows, items, events |
| Catalog and discovery | `catalog*.py`, `meta_discovery.py` | the compiled snapshot, the search index | compile, page, search |
| Answer envelopes | `dynamic_serialization.py` | none | cut an answer to its budget |
| Log reader | `debug/log_reader.py` | MA's log files | read a page backwards |

How they meet: MA's webserver hands a request to the bridge, FastMCP asks the
verifier for the bearer (which binds its identity), the runtime's resolver gives
the bearer a policy, the pipeline authorizes and runs the MA command. Binding an
identity calls back into the runtime, which recompiles its resolver and tells
the provider, which tells the command set, which decides whether MA's events are
retained. Saving the configuration goes provider → command set → runtime. The
webserver's routes are shared with MA's other plugins.

What makes it correct, part by part:

* **Pipeline**: a handler starts only if, at that instant, the policy in force
  permits it, the user has accepted every reason this policy wants confirmed,
  and each identity involved was seen valid since the user's last answer; the
  audit trail says what happened once and does not contradict itself; nothing
  but the user can hold a call open.
* **Lifecycle**: whoever reaches the endpoint reaches a running application with
  its commands; one lifespan at a time; every route can be unregistered again;
  the policy in force and the surface mounted are those saved; events are
  retained exactly when somebody may read them; operations end.
* **Token identities**: a bearer without an exact identity gets the Safe queries
  policy only; the registry is bounded, mixes up nobody, and the resolver is
  compiled for exactly the ids it holds.
* **Wizard**: a bootstrap is exchanged once; a client has one token; every
  request ends.
* **Provider commands**: registered as one set; a confirmation is good only in
  the execution the user accepted; every invocation leaves one record.
* **Event buffer**: never more than its capacity, counters that add up.
* **Resources and filters**: as the pipeline, with one phase; the places that
  write the filter rule down agree with each other.
* **Classification**: what may change something never needs read rights only;
  the class a call is authorized under fits what it does.
* **Catalog, log, envelopes**: pages join to one list or the caller is told to
  start over; nothing is skipped or given twice; an answer fits its budget and
  withholds no more than it must.
* **Bridge**: an upload that was cut off is never taken for whole; whoever can no
  longer send is told; no handler is left for a client that is gone.

The hazards, each at its line and with the properties that cover it, are listed
in `PROJECT.json`.

## Modules

| Module | What it is |
|---|---|
| `PolicyModes` | pure: modes, their combination, confirmation evidence |
| `Invocation` | one action per segment of a tool call, and the environment |
| `ReferenceMonitor` | abstract: authorization as one atomic step |
| `MCInvocation` | four capabilities, four policies, three commands for TLC |
| `InvocationProofs` | type correctness, the audit invariants, and that `Invocation` implements `ReferenceMonitor`, proved |
| `Lifecycle` | provider, runtime, bridge and retention together |
| `MCLifecycle` | runtimes, two mount paths, a token for TLC |
| `MCLifecycleRegimes` | the two worlds its main run explores: changing configurations, and other plugins after every route |
| `LifecycleProofs` | its types and its six invariants, proved |
| `TokenIdentities` | pure: the registry of authenticated bearers and its order of use |
| `Tokens` | the wizard's requests, the verifier and the registry over MA's tokens |
| `MCTokens` | symmetries for TLC |
| `TokensProofs` | type correctness and the four invariants of tokens and identities, proved |
| `TargetFilters` | pure: what a user's filters let it name and see |
| `Reads` | one resource read and its environment; implements `ReferenceMonitor` |
| `Commands` | the provider's command set, its guard, its grants |
| `EventBuffer` | the ring, its counters and its snapshots |
| `PlayerQueue` | the safe removal of queue items while the player plays |
| `MCSurface` | `Reads`, `Commands`, `EventBuffer` and `PlayerQueue` side by side for TLC |
| `SurfaceProofs` | every invariant of `MCSurface` and of its parts, the refinement by `Reads`, and `RemovalSafe`, proved |
| `Bridge` | one HTTP request |
| `CommandPolicy` | which capability a command needs |
| `Preflight` | the repeated looks at a call's arguments |
| `ClassificationProofs` | the properties of `CommandPolicy` and `Preflight`, proved with their types |
| `Discovery` | snapshot, visible view, ranking, pages and cursors |
| `LogPages` | paging backwards through a log that grows and rotates |
| `LogScan` | reading a log backwards in blocks: lines and their offsets |
| `Envelope` | the cut of an answer to its byte budget |
| `MCAnswers` | `Bridge` to `Envelope`, `LogScan` included, side by side for TLC |
| `BudgetProofs` | the invariants of `LogPages` and `Envelope`, proved |
| `AnswersProofs` | the invariants of `Bridge` and `Discovery`, and the types of all of `MCAnswers`, proved |
| `FoldTheorems` | lemmas on numbers, on functions built step by step, and on the folds of the community modules |

`MCSurface` and `MCAnswers` run their parts one at a time: a variable `part` says
whose behaviour it is, and the other parts stay as they start. The parts share no
state in the code either, but for what their inputs stand for.

### Invocation

`call[c]` is one run of `DynamicAPIAdapter._call`. `phase` says which of the
authorizations is running (`visible` is the catalog lookup, `first`, `second`
and `third` the authorizations before, after the first and after the second
prompt, `final` the one under the timeout), and `step` which `await` of it the
call stands at. `got` is the snapshot an awaited read returned, `auth` the user
that passed the identity check, `class` what the preflight found, `evidence` the
reasons accepted so far. `audit` counts the records by outcome.

An awaited read is two steps: the moment inside MA at which the value is taken,
and the code that resumes with it. So a value can be outdated when it is used,
which is the point of the exercise. Two reads are one step where that makes no
difference: the identity bound to the bearer and the token's id, because a
revoked token never becomes valid again and whatever makes the pair invalid in
between also fails the later check. `base_snapshot` holds a lock, but nothing is
awaited under it, so it never contends.

The environment can save policies, revoke tokens, evict or rebind bearers, edit
users, register other handlers and move setup flows on, at any moment. Each
change counts towards `MaxChanges`.

Users are reduced to what the pipeline tells apart: `granted` (in scope and
within the target filters for these arguments), `filtered`, `unscoped`,
`disabled`. The commands to audit are a constant: whether a command is
privileged is decided on the sealed invocation, which does not change while its
handler runs.

Not in this module: `require_auth` off (the default is on, and off there is no
identity to check; `Reads` has both); a name that is re-pointed to another user
while the prompt is open; the result envelope (`Envelope`); the context variable
that carries confirmations to the provider's own commands (`Commands`).

### ReferenceMonitor

Its inputs `need` and `valid` say what the live state demands of a call and
which identities MA accepts right now. Its own state is the stage of the call,
the reasons granted and the identities checked since the user's last answer.
`Start` is a single step that requires all three at once. `Invocation` defines
the refinement mapping: `Need` is computed from the state of the same instant,
not from what the call remembers. Two kinds of staleness are left, by the code's
own decision, and the mapping says so: an identity counts when it was valid at
*some* moment after the last answer, because MA can only be asked
asynchronously (`_final_authentication`), and config entries keep the
classification of the last preflight (`revalidate_preflight_command_sync`).

### Lifecycle

`attached` is `provider._runtime`, `commands` whether the command set is
registered, `runtime` the runtime objects with their compiled resolver (`policy`
and the tokens it was compiled for, `seen`), their token registry (`known`),
their lifespan and their three unmount handles, `routes` who owns each route of
MA's webserver. `active` and `listening` are what the command set was told and
whether its event buffer is subscribed.

`op` is the operation in progress. It waits at three places only: for the
lifespan to start, for it to drain in a stop, and for it to drain in a rollback.
Each wait has two phases, as in `http_bridge.py`: one that a timeout ends
(`LifespanFails`, `DrainTimesOut`), and then, the task being cancelled or having
reported its failure, one for the task itself (`ending`), which nothing limits.
All the code between two of these is one action, with everything it calls:
saving policy keys recompiles the resolver, hands the known ids to the command
set and re-decides retention in a single step, as in the code.

Assumptions about MA: it runs one lifecycle operation of a provider at a time,
calls `update_config` only on a loaded provider, mutates the config object in
place, and its `register_dynamic_route` raises on a route that is taken while
its remove callback frees the route. `require_auth` is on and a base URL is set,
so the metadata documents are mounted. The wizard's five routes are its page and
the others. `Retire` forgets stopped runtimes that nothing refers to, so that
two runtime objects serve any number of restarts.

`leaked` is a history variable `NoOrphanRoutes` is stated with: the routes a
group had registered when a later one of it was found taken.

Not in this module: `stop()` being cancelled itself, the failure of a command's
registration (in `Commands`), the retention capacity (in `EventBuffer`).

### Tokens and TokenIdentities

`token` is MA's store (external: from how the plugin calls it and from what
`_revoke.py` documents of it: revoking an unknown token raises). `held` are the
tokens a browser or client has been given. `req[q]` is one request: opening the
wizard (`actions.py`), an exchange, a login or a mint (`handlers.py`), or the
verification of an MCP request's bearer (`auth.py`); `at` is the `await` it
stands at. The shared helpers of the code are shared actions: `List` is
`list_user_tokens`, `Revoke` and `RevokeFails` are `revoke_token_by_id` and what
each caller does with its answer, `Identify` and `BindMinted` are
`_bind_request_identity`. Every call of MA can fail. `entries` is the registry,
least recently used first, `compiled` the ids the runtime last compiled its
resolver for.

A token's id stands for itself: MA gives each token one id. The order in which
the listed tokens are revoked is left open. An exchange and a mint take any
token as their bearer, as the code does. Origin and scheme checks, the audience
check before verification (a rejection like any other) and the look of the
wizard are left out; `identity_binder` is always there, as in `server.py`.

### Reads and TargetFilters

`read[r]` is one resource read: it waits for the tags of the address (one without
tags authorizes its own requests and is handed on), for MA to name the user
(`authenticate_with_token`), for the token's id, and for a library item; `Seal` is
the rest of `ResourceAuthorizer.authorize`, which runs without an await. `settings`
is what may change between: the config's `require_auth`, the bearer's validity and
registration, the user's account, the policy. Its refinement mapping to
`ReferenceMonitor` has no prompts and one identity: a read in a mode other than
Allow is refused. `TargetFilters` reduces a row to the names its fields carry and a
reference to its form; which argument of which command is a target is a table of the
code and enters as input. `RowAllowed` and `FilterRows` are both translated, because
the code writes that rule twice; `ListingAgrees` compares them.

### Commands, EventBuffer, PlayerQueue

`Start` to `Withdrawn` are the loops of `ProviderCommandSet.start` and `stop`, one
registration or one callback at a time: `callbacks` counts what the loop has
registered or has yet to withdraw, `Register` may find a name MA still has,
`StartFails` is any exception on the way (MA's or the buffer's), and each
`Withdraw` either frees a name or raises and is passed over; `stuck` are the names
whose withdrawal raised. The loops contain no await, so nothing else happens while
`phase` is not `rest`. `Dispatch` and `DispatchEnds` are the scope of one execution,
with a grant if the user accepted anything; `covers` says whether what was accepted
includes the command's own capability. `Spawn` is a task that inherits a copy of
the context, `Invoke` the guard of one command in any task, with `require_auth` on
or off (`secured`), `Returns` its end by any way. `EventBuffer` is the buffer's
configuration (`_configure_event_buffer`), its end, the recording callback and the
snapshot; `evicted` is a history variable `RingAccounting` is stated with.
`PlayerQueue` is `remove_items_safe`, with the item that plays and the buffered
ones moving on between commands.

### Bridge

`pump` is `pump_request_body`, `body` its queue, `AppReceives` and `Sends` the two
callables handed to the ASGI application, `CancelPump` and `HandlerEnds` the end
of `_asgi_to_aiohttp`. The client may leave at any step and everybody notices by
themselves. The application is FastMCP's: external, free to return, raise or be
cancelled at any time.

### CommandPolicy and Preflight

`CommandPolicy` decides every command there can be in one step: exact table,
prefixes, the longest family, MA's scopes, the profile's operation. `Preflight` is
one call whose arguments name a config entry or a setup flow: `CheckBefore` is
`preflight_command`, taken once per authorization, `CheckAgain` its synchronous
repetition at the seal, which may know less, `Sanitize` is `postflight_command`.
`Move` changes entry type or flow at any moment and any number of times. `seen` is
a history variable: what entry and flow were when each check looked.

### Discovery, LogPages, Envelope

`Discovery` walks through the catalog or a search by cursors: `RequestPage` takes
the snapshot, `AnswerKnown` resumes after MA's authentication and cuts the page;
registry, policy and scopes change between. `LogPages` follows the hints of
`tail()` page by page while MA appends and rotates, with the number of a line for
its byte offset. `LogScan` is what entitles it to that: `_iter_lines_backwards` byte
by byte, with blocks that divide lines, `ScanFaithful` saying that whatever the
blocks, the lines come whole, in order, each at its own offset, and all those the
cap lets in. `Envelope` answers one case of data, frame and budget in one step and
is compared with the definition of what it should do (`FewestWithheld`: no number
of items fewer would have fitted). The frame's size depends on what it says: the
flag `truncated` and the returned count change with what is removed.

## What is checked

| Run | Question | Size |
|---|---|---|
| `invocation_submit` | does a setup-flow submission (any-of capabilities, secret fields, a flow that moves) implement the monitor, with a consistent audit trail? | 3 changes, 334,310 states |
| `invocation_acting` | does a config save as another user implement the monitor, and does every call end or wait for its user? | 3 changes, 556,788 states |
| `invocation_cancelled` | does a cancelled execution leave a record? **No** | finding |
| `lifecycle` | are endpoint, lifespan, resolver, surface and retention consistent, can every route be unregistered but for those of a group that failed halfway, and does every operation end? | 606,052 states |
| `lifecycle_mixed_save` | is the policy in force the one saved? **Not after a save of both kinds of keys** | finding |
| `lifecycle_failed_start` | is all undone after a failed start? **Not if the second metadata document or the endpoint is taken** | finding |
| `tokens` | does a bearer buy one session, and is all gone that a new token replaces? | 654,768 states |
| `tokens_identities` | are identities kept apart and known to the resolver, and does every request end? | 218,772 states |
| `tokens_twins` | has a client one token? **Not after two overlapping mints** | finding |
| `surface` | do reads implement the monitor, are the provider's commands one set wherever a loop fails, is a confirmation taken only where and for what it was given, and is what is shown, audited, counted and removed right? | 778,173 states |
| `answers` | is nothing cut off taken for whole, nothing skipped, given twice or mixed from two states, every line of a file read in blocks whole and at its offset, every command classified safely, and nothing left hanging? | 314,766 states |
| `log_pages_lost` | does following the hints to their end lose nothing? **It does, in logs that begin with headerless lines** | finding |

**Bounds.** One call is enough for TLC: calls share no variable that a call
writes, and the environment can do whatever another call could (a request on the
same bearer rebinds or evicts it). The same holds of reads. The theorems cover
any number. Three changes let one authorization be invalidated, repaired and
invalidated again within a call; the four policies reach every mode, a policy
that only confirms secrets and one under which an alternative is denied. Two
handlers distinguish a re-registered command from the one looked up. In
`Lifecycle`, two runtimes are an old and a new one, two mount paths let an
operation fail on one and succeed on the other, two policies differ in one
token's row. `lifecycle` explores two regimes (`regime`): in one policies and tokens
change too and other plugins are after the endpoint and the first metadata document,
which fails a group before it has registered anything; in the other they are after
the endpoint, the second document and the rest of the wizard's routes, which fails a
group halfway, under one policy and with no tokens. A runtime whose route leaked
stays referred to, so what follows a leak goes on with the other one alone.
In `Tokens`, two requests overlap.
In `tokens`, three tokens are enough for a bootstrap exchanged twice at once,
for an open that replaces a bootstrap and its session, and for a mint that
replaces a client's token; the registry holds two, so lookups reorder it. In
`tokens_identities`, a user and a guest have a token each and the registry holds
one, so every second binding evicts. `Traffic` leaves a run the requests its
properties are about.

In `surface`, a read has two awaits and the environment two changes, one for each;
the accounts have each kind of filter, the rows each kind of name and reference, and
two instances of one domain separate an instance that is not loaded from the one a
lookup falls back to. Rings of two and three see five events, so both overflow and
are resized. A queue of four items has one playing, one buffered and one beyond, and
requests of two ids can repeat one.

The set of commands has one the filters apply to and one diagnostic, so a loop can
fail before, between and after its two turns; there are a dispatcher, a task it
spawns that may outlive the execution, and one grant, which is stale once that
execution has ended, while the dispatcher goes on with another. MA's own tasks carry
no grant and are left, with more grants, to the theorem.

In `answers`, a body of two chunks has a beginning, a middle and an end. Logs of
up to four lines of one or two bytes meet a page limit, a byte budget and a scan
cap that each bind on some of them. The catalog has three visible commands and
one denied outright, a page shows one, and two changes reach a registry that
changes and changes back. Every family of the table occurs with verbs of each
sort, and scopes in pairs. Entries and flows move without a bound. Budgets and
frames sit on both sides of each change in the number of digits of the byte count,
and lists of nine to twelve items on both sides of that of the returned count.

The files to scan are all of up to six bytes, in blocks of two under a cap of five:
a line can span two and three blocks, newlines fall on every edge of a block, the
cap cuts a block short, and files are shorter than the cap, as long and longer.

State spaces are explored completely.

**Deadlock** is not checked where the system may rest: a call, a read or a request
that has ended stays ended, a walk that is through asks no more, and a plugin
that nobody touches does nothing.

**Fairness.** `Invocation!FairSpec` assumes that MA answers its lookups (each
segment runs when its await has returned) and that `asyncio.timeout` fires. It
assumes nothing of the user, the client or the handler. `Lifecycle!FairSpec`
assumes only the code's own timeouts, 30 seconds for the lifespan to start and
twice 10 for it to drain; the application need not answer. What follows a timeout
has no limit in the code: the task is cancelled and awaited, and after
`startup.failed` it is awaited as it is. So an operation need not end, and
`OperationEnds` says just when it does: if the application lets go of its lifespan
whenever it was cancelled or has reported its failure (`Stalled`).
`Tokens!FairSpec` assumes that MA answers or raises; the wizard has no timeout
of its own. `MCAnswers!FairSpec` assumes that the event loop runs the pump and
the end of the handler, and of an application only that it goes on receiving and
returns once it has read of a disconnect (what an ASGI application owes its
server); of callers that page it assumes that they go on asking. It does not
assume that a client leaves or stays, nor that the log stops growing: a model's
log is bounded, but a page's cursor moves down whatever is appended.

### Findings

1. A privileged execution that is cancelled leaves no record of its outcome:
   `CancelledError` passes every `except` of `_execute_authorized`, while the
   provider's own commands catch `BaseException` for this purpose.
2. Saving policy and resource keys together rebuilds the surface but not the
   resolver. The old policy stays in force until a token is bound or forgotten.
   `ResolverLagsOnlyAfterMixedSave` shows that this is the only way to it.
3. `mount_well_known` leaks its first route when its second is taken. The
   next start under the same path then fails on the leaked route.
4. `mount_into_mass` loses the lifespan it started when the endpoint is taken.
5. Two overlapping mints for one client leave it two long-lived tokens: nothing
   keeps the second from listing before the first has minted. The next mint
   revokes both (`Rotated`).
6. The headerless lines at the start of a log share offset 0. When a page ends among
   them, because its budget or its limit is used up, its hint offers the rest
   under that offset, and the next page skips them all and has no hint.
`PagesFaithful` shows, and its proof for every log, that a log of one scan is paged
without loss while it is not rotated, but for 6. A longer one is not, and
`Pageable` leaves it out: every call scans from the end of the file again, so the
page that "page deeper with" an offset leads to is empty (`_build_hint`), and
nothing before the cap of one scan can be reached.

## What is proved

Every invariant of every passing run but `ScanFaithful` is a theorem, and so are the two
refinements and `RemovalSafe`. What the theorems rest on are the assumptions
named here, which TLC evaluates on the instances it checks.

For every set of calls, bearers, commands, handlers and capabilities, every
command table and policy set within `InvocationAssumption` (the tables are total
functions into capabilities, `None` and `Unknown` are no handler and no reason)
and `ImpersonationAssumption`:

* `TypeCorrect`, `OneVerdictHolds`, `PromptsAnsweredHolds`,
  `ExecutionAuditedHolds` in `InvocationProofs`. The audit properties are not
  inductive: that a call has at most one verdict says nothing of how many it had
  before it got here. `Trail(r)` therefore states, per phase, exactly which
  counters are zero and which match; `IInv` is `TypeOK` with `Trail` for every
  call. Every step ends in `Become`, which changes one call, so preservation is
  reduced to one lemma per action on one record.
* `ImplementsMonitor` in `InvocationProofs`: `Spec => MonitorSpec`. The
  interesting step is `Start`. What the pipeline checked last was computed from
  `SealedClasses`, the conservative re-classification, while the monitor asks
  about the live one; lemmas on `PolicyModes` show that deny and evidence are
  monotone in the classification (`DenyIsMonotone`, `EvidenceIsMonotone`), so
  what holds of the larger class holds of the live one. The other steps map to
  `Accept`, `Observe`, `Forget`, `Close` or a stutter; environment steps change
  only the inputs.

For every set of requests, tokens, users and clients, within `TokensAssumption`
(the markers are no token and no user, no client is called like one of the
wizard's own tokens) and any capacity and list limit:

* `TypeCorrect`, `SpentOnceHolds`, `RotatedHolds` in `TokensProofs`. `TInv` adds
  to the types what a request has at each place (`Placed`). `SpentOnce` needs to
  know of the exchanges that have revoked but not yet minted (`Paying`): their
  bearer is gone, nothing was bought with it and nobody else is paying with it.
  The step that matters is `Revoke`, which succeeds on a valid token only, hence
  once. `Rotated` needs `Swept`: each token MA listed to a request that its own
  token replaces is still to be revoked, revoked, or a reason not to mint. Both
  come down to one lemma for steps that mint nothing and one for `Issue`.

For every set of reads, accounts, players, items and default policies within
`ReadsAssumption` (`Nobody` is no user, player or item):

* `ReadsTypeCorrect`, `RefusalsAuditedHolds`, `ReadsImplementMonitor` in
  `SurfaceProofs`. Whatever is claimed of a read follows from its own record:
  `Sound` adds to the types that nothing is recorded before the end, that nobody
  is named before MA was asked or acted for before the seal, and that only a
  library read is about an item. One lemma per step says to which sound record
  it leads; invariance and refinement both rest on these. MA's answer maps to
  `Observe`, or to a stutter if the user may not do this at all; `Seal` maps to
  `Start` in the same step, which is the point: the monitor asks about the live
  policy and the code has no await between asking and starting.

The filters' agreement (`ListingAgreesHolds`, `EventsWithinReachHolds`) needs of
the state only that rows and accounts are what their types say: it is about the
two places that write one rule down, for any account, row and set of providers.

For every set of runtimes, mount paths, tokens, policies and other plugins'
routes within `LifecycleAssumption`:

* `LifecycleTypeCorrect`, `OneLifespanHolds`, `EndpointBackedHolds`,
  `ResolverLagsHolds`, `MountFreshHolds`, `NoOrphanRoutesHolds`,
  `RetentionFollowsHolds` in `LifecycleProofs`. The invariant comes in layers,
  each preserved given those before. `Shape` says where an operation can wait,
  what the attached runtime is like there (its lifespan, and that the three
  unmount handles come and go together) and that every other runtime is quiet.
  `Endpoints` adds that an endpoint's route belongs to the attached, serving
  runtime; `Current` what that runtime was compiled and mounted from, at each
  place an operation waits, which is more than the properties ask for between
  operations. `RetentionFollows` is preserved by itself.
* `NoOrphanRoutesHolds` assumes nothing of the other plugins: whichever routes they
  are after, a route of ours is held by the attached runtime or is one a group had
  registered before a later one of it was taken (`leaked`, finding 3). It is
  preserved by every step, given `Shape` and `Endpoints` (`NextOwned`).

For the registry of identities, of any capacity: `BindingsTrueHolds` and
`ResolverKnowsBoundHolds` in `TokensProofs`. Lemmas say what deleting, binding
and using an entry does to the set of entries and their order; the invariant adds
what a request knows of the bearer it is about to bind (`Knowing`): the user MA
named is the bearer's owner, and the id it resolved is the bearer's, although two
awaits and any number of other bindings lie between.

For every set of commands, tasks and grants within `CommandsAssumption`:

* `CommandsTypeCorrect`, `AllOrNothingHolds`, `CommandAuditedHolds` and
  `ConfirmedInDispatchHolds` in `SurfaceProofs`. `AllOrNothing` speaks of a set at
  rest; inside the loops (`LoopInv`) the names MA has are the first `callbacks` of
  the set and those stuck, and a loop that registers has met none of the stuck
  ones, since MA refuses a name it has. `ConfirmedInDispatch` needs `GrantsInUse`,
  that an active grant is the one its owner carries, made for the command the owner
  executes, and `DispatcherCarries`, without which the end of an execution might revoke
  somebody else's. Copies in spawned tasks then never matter: their holder is
  not the owner.

For queues, requests and rings of any length: `RemovalSafeHolds`,
`RingAccountingHolds` and `PageCompleteHolds` in `SurfaceProofs`. The loop of the
removal (`Turns`) and the filter of the snapshot (`Kept`) are recursive functions in
the model. The library's induction theorems cannot be used, since they take a
predicate as a parameter, but a set of numbers can stand for one. `FoldTheorems` has
what follows: `Least` from the well-foundedness of `<`, `Upto` from `Least`, and
`Stepwise`, that a function told what to be at 0 and, step by step, at each next
number exists. The same gives lemmas on the folds of the community modules: a fold
is a function on the subsets of what is folded, a fold of a sequence goes on from
prefix to prefix, and a sum depends on the set and not on the order in which it is
taken. The rest is what one step keeps. For `Turns` that is `Held`: every item
played or buffered is at the position it had before the removal, what was reported
removed is gone, and what was reported kept is there, so an id asked for twice is
reported truly the second time. For `Kept` it is that the due events up to the n-th
are exactly those kept, in their order. That the ring adds up needs that a ring that
has evicted anything is full.

`SurfaceTypeCorrect`, `OutcomesAuditedHolds` (refused reads and the outcomes of
commands) and `ShownRightHolds` put the four parts of `MCSurface` together: each
part's step leaves the others' variables alone, so the conjunction of their
invariants is one of the composition.

For classification, with any exact table, names, scopes and profile operations
within `PolicyAssumption` (scopes are pairs of strings, an exact entry needs
something and has an operation): `PolicyTypeCorrect`, `ReadNeverMutatesHolds` and
`MemberDecidesHolds` in `ClassificationProofs`. The types say that every decision
has an operation, and needs something exactly when it is one that can be done,
whichever of the four rules made it. `ReadNeverMutates` comes down to the columns of
each family of the table, none of which opens anything but reading to a read
capability, and to the fallback's refusal of the rest; `MemberDecides` to the
weakest of the scopes (`WeakestScope`): the member that gives the operation also
gives the family, in both of the code's searches. `PreflightTypeCorrect` and
`ClassHoldsAlways` hold for any number of changes: the invariant says how the class
fits what the last check before the seal saw (`ClassFits`), what was there at the
seal (`SealFits`), and how the result of a read fits the class and the entry's type
(`ReadFits`). A change leaves all three alone, since they speak of what was seen and
not of what is there.

For bodies of any length, in `AnswersProofs`: `BridgeTypeCorrect`,
`SilenceExplainedHolds` and `BodyWholeOrCutHolds`. News of a disconnect is looked
for in what was received and in the queue separately, since receiving moves it
from one to the other; for the body the two are one stream that only grows at its
end (`Pumped`): as many chunks as were pumped, and an end only after all of them.

For any commands, order of names, registries, policies, scores and page limit
within `DiscoveryAssumption` (finitely many commands, names in a strict total
order): `DiscoveryTypeCorrect` and `PagesJoinHolds`. The list of a page is chosen
as *the* arrangement of a finite set in a strict order; `Places` and `SortedIs`
show that there is one, by counting the predecessors of each item. The invariant
(`Joined`) says that what a cursor's revision stands for is the snapshot and the
view its list was made of. A page that is not refused has the same revision,
hence the same list, hence continues the slice.

For any lines, logs, page limit, response budget, scan cap and bound on growth
within `LogPagesAssumption` (they are positive, lines are not empty):
`LogTypeCorrect` and `PagesFaithfulHolds` in `BudgetProofs`. `PagesFaithful` alone
is not inductive: that what was delivered is the newest of what is owed says nothing
of where the walk stands. `Apart` adds that everything delivered of the log being
read lies at or above the cursor, which keeps the next page clear of it; `SoFar`
that in a log that can be paged everything owed at or above the cursor has been
delivered, and everything of the newer log once the walk has gone on to the older. A
page takes the newest candidates: with a record it takes every newer one
(`NewerTaken`), since sums of sizes grow with the set, and it is not empty if there
is anything to take (`SomeTaken`), since the first record is taken whatever its
size. Appending changes no record that is owed, because what is appended lies behind
the log the walk began with; where records begin at their own offsets, no two share
the one a cursor names (`BeginsAtOffset`).

For any data, frames, sizes of items and of fields within `EnvelopeAssumption`:
`EnvelopeTypeCorrect` and `CutFairlyHolds`, in `BudgetProofs` too. The assumption
bounds budgets and the length of a list by 10^9; the code has two budgets, of
12,288 and 65,536 bytes (`execution.py` 89-90).

* The frame of an envelope with more removed is no longer (`FrameShrinks`): the flag
  gets shorter once and the count no more digits.
* Removals go one by one (`WithoutNext`). Each leaves the lists a little shorter
  and none more than an item longer than another that lost some (`WithoutIs`):
  that is `EvenlyCut`.
* The byte count is part of what it counts. Writing it and measuring again
  settles by the third time (`CountSettles`): a second change would need two
  powers of ten within nine of each other. That is `SizeTrue`.
* Less data has no more items and no more digits, so what fits still fits when
  more is removed (`LessFits`). The bisection keeps that no number of removals
  below `low` is enough, that `high` is enough, and that the distance is used up
  when its steps are (`HalvedIs`, `FewestIs`). That is `FewestWithheld`.

`AnswersTypeCorrect` puts the seven parts of `MCAnswers` together as
`SurfaceTypeCorrect` does those of `MCSurface`. Of the scan it says that no byte is
read twice or left out and none beyond the cap.

Only model-checked: liveness (`EveryCallSettles`, `OperationEnds`, `RequestsEnd`,
`AnswersEnd`), which is outside this prover's reach, and that the lines of a file
read in blocks are whole (`ScanFaithful`). The two refinements
are proved for safety; their specifications state no fairness. The runs with an
expected violation have a counterexample and nothing to prove.

## Not modelled

* A name that is re-pointed to another user during a prompt, the cancellation of
  a `stop()`, a clock helper that raises after the buffer has subscribed: listed as
  hazards with the reason. Lifecycle calls do not overlap: MA serialises them.
* The tables of commands, arguments and rows beyond one entry of each kind; the
  scores of the search beyond their order; cursors' encoding; the conversion of
  results to JSON. They enter the models as inputs.
* `connect/page.py`, `connect/clients.py`, `setup_flow.py` (pages, snippets and
  steps without state), `origins.py` (string comparison), `dynamic_signatures.py`
  (a translation without state), `models.py`, `prompts.py`, `performance.py`.
* The log's statistics, time cursors and redaction, and the text of errors and
  diagnostics.
* `scripts/`, `packaging/`, `docs-site/`: release tooling and documentation.

MA, FastMCP and aiohttp are external: modelled as the environment, from how the
plugin calls them.

## Running

    tlc -config MCInvocation.cfg MCInvocation.tla
    tlc -config MCLifecycle.cfg MCLifecycleRegimes.tla
    tlc -config MCTokens.cfg MCTokens.tla
    tlc -config MCSurface.cfg MCSurface.tla
    tlc -config MCAnswers.cfg MCAnswers.tla
    tlapm InvocationProofs.tla

and so on for the other `.cfg` files (those of the lifecycle with `MCLifecycle.tla`,
those of the wizard with `MCTokens.tla`), the modules that end in `Proofs`, and
`FoldTheorems`.

Operators marked "Mutant" are deliberate errors. None is part of a
specification; substituted for the definition that follows, each makes one
property fail.
