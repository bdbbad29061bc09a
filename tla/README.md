# openbb-agent-server: a TLA+ verification of its core

This directory models the parts of `openbb_agent_server` whose behaviour depends
on the order of events - HTTP exchanges, asyncio tasks, threads, store calls that
fail, clients that leave - and checks them with TLC; the properties that matter
most are proved with TLAPS for every value of the constants. All paths below are
relative to `src/openbb_agent_server/` unless they start with `docs/` or `tests/`.

## 1. Inventory

| component | state | operations | hard behaviours | what makes it correct |
|---|---|---|---|---|
| **Query exchange** (`app/router.py`) | the registry `_cancellations` of cancel events, the handler's and the generator's locals, trace and message rows | `_run_query`, `stream()`, cancel, `DELETE /v1/me` | two exchanges of one turn share a registry key; disconnects surface as `CancelledError`, `GeneratorExit` or not at all; store calls fail; background `end_trace`; deletion under running exchanges | a live run stays cancellable, no trace stays open but for named reasons, the log holds what was answered |
| **Background jobs** (`runtime/jobs.py`, `plugins/tools/background_jobs.py`, `bind` in `runtime/context.py`) | job table, asyncio tasks, blocked `wait()` calls | submit, wait, cancel, list, end of the run | cancellation is a request the task sees later; cancel runs on an executor thread; a timeout races the result; the run ends under its jobs | job state agrees with its task, a settled job stays settled, no job outlives its run |
| **Stream adapter** (`protocol/adapter.py`, `runtime/emit.py`) | the splitter of the current message, the buffers for thoughts and for prose, artifacts and citations that wait for the end | one step per LangGraph event, final drain | deltas that end inside a tag, messages of parallel subagents that interleave, steps and calls in between, a source that raises | no word is lost or shown twice, thoughts and text before a tool call stay out of the answer, the answer is whole |
| **History and retention** (`persistence/`) | users, conversations, messages, traces, artifacts, citations, usage | `append_message`, `begin_trace`, `end_trace`, `delete_user`, `prune_older_than`, checkpoint pruning | read-then-insert sequence numbers, hand-written cascade, retention against running exchanges | sequence numbers order a conversation, a deleted user is gone, retention keeps what is in use |
| **Groq rate limiter** (`plugins/models/groq_rate_limiter.py`) | token buckets per key and model, locks of threads and of tasks | acquire, charge of the usage afterwards, refill | check and charge as one section, debt, many waiters that poll | no unit is spent twice, debt is bounded and repaid, a waiter is admitted |
| **PDF store** (`runtime/pdf_store.py`, `plugins/tools/pdf_extract.py`) | documents, pages, vectors, in-flight table | hand in, parse, index, wait, read, search, sweep | an in-flight table that all users share, crash between pages and index, keys that come back | a ready document has its pages once and its index, a reader gets pages of its own file, and an answer |
| **Widget store** (`runtime/widget_store.py`, `plugins/tools/widget_data.py`) | recordings of widget data, temporary views on pooled connections | record, read, query, tell the prompt | the client sends its whole chat again, views outlive their query | what is read or queried is what the conversation was told last |
| **Memory** (`memory/`) | rows of prose and code, pins | ingest, recall, pin, forget, erase | filtering by user after the search, a reranker that answers late, erasure table by table | a memory is recalled by its owner only, none is missed but for a crowd, and erased ones are gone |
| **Builder and middleware** (`runtime/builder.py`, `plugins/middleware/`) | counters per run, the message list before a model call | convert and normalise messages, guard, limit, record and announce calls | parallel tool calls, results without calls, a ledger that fails | the model sees every text once in an order it accepts, repeated calls are answered for, all calls are accounted for |
| **ACP provider, embedded runtime** (`acp/`, `runtime/embedded.py`, `plugins/tools/pywry_canvas.py`) | sessions with options and messages, turns in flight, the window with its chart and its waiters | prompt, stop, change options or profile, draw, wire a datafeed, ask the page | the thread of the window, the loop of the provider and that of its caller, turns given up while they work, tool calls in threads | a turn answers its own question with the options of its own profile, stop reaches it, whoever waits comes back |
| **Authentication** (`plugins/auth/`, `upsert_user`) | users, API keys | authenticate, refresh the user, issue, revoke, erase | a command of another process and a request about one user, each reads and writes later | a key has its user, a dead one admits nobody, an erased user does not return by accident |
| **Tool sources** (`plugins/tools/`, `runtime/emit.py`) | artifacts and citations of a run | emit, hold back, show at the end | a run that ends early, citations that collapse | a run that ends well has shown all of them, once, after the text |
| **Checkpoints** (LangGraph savers, `persistence/prune.py`) | threads of checkpoints, their writes | save, sweep | two databases, traces deleted before they are asked for | a thread can go on from where it was unless it is old |
| **Configuration, model providers, subagent prompts, logging** | none over time | - | - | - |

Interactions. The router builds a `RunContext`, binds it (`run_context.bind`), and
pulls events out of the agent (`runtime/services.py` → `runtime/builder.py`),
translated by the adapter. The tools of the agent reach the job registry through
the bound context, the memory, widget and PDF stores through the services, and
the model through middleware and the rate limiter. The end of `bind` cancels the
run's background jobs. The files and results of a request are handed to the PDF and
widget stores before the agent starts; tools wait for the first and query the second.
The desktop window runs the same agent through `EmbeddedRuntime`. Cancel requests reach an exchange only through the registry
`_cancellations`, and only when its next event arrives.

The hazards this code is exposed to are listed, each with its line, in
`PROJECT.json`.

## 2. Plan

The order puts first what every request passes through and what has the most
actors. A module with theorems has its proofs in a module of its own; constants
carry named assumptions; recursion is by recursive functions and folds, and no
module declares a RECURSIVE operator. Every item is modelled and checked; the last
column says how far it is proved.

| # | modules | proofs |
|---|---|---|
| 1 | `Jobs`, its abstract specification `JobLifecycle` | `WorkersProofs`: all safety, the refinement |
| 2 | `QueryRun`, its abstract specification `TraceLifecycle` | `RequestsProofs`: all safety, the refinement |
| 3 | `StreamAdapter` (text), `Extras` (artifacts and citations) | `TurnProofs`: all of `Extras`; none of `StreamAdapter`: induction over texts |
| 4 | `RateLimiter` | `WorkersProofs`: all safety |
| 5 | `History` (numbered logs, deletion, retention) | `StoresProofs`: all safety |
| 6 | `Checkpoints` (two databases under a sweep) | `StoresProofs`: all safety |
| 7 | `PdfLibrary` | `PdfLibraryProofs`: all safety |
| 8 | `MemoryStore` | `StoresProofs`: all safety |
| 9 | `WidgetData`, `Uploads` | `RequestsProofs`: all safety of `WidgetData`; `InputProofs`: all of `Uploads` |
| 10 | `ToolLoop`, `Transcript` | `TurnProofs`: all of `ToolLoop`; `InputProofs`: all of `Transcript` |
| 11 | `AcpOptions` | `StoresProofs`: all safety |
| 12 | `AcpTurn`, `Canvas` | `DesktopProofs`: all safety |
| 13 | `Accounts` | `RequestsProofs`: all safety |
| 14 | `Workers`, `Requests`, `Stores`, `Desktop`, `Turn`: parts beside each other | that each part behaves as alone, and what the parts promise |

What the plan has left: the parts of `Extras` about the moment at which something is
shown; and two compositions, `QueryRun` with `Jobs` (the end of an exchange reaps its jobs) and
`QueryRun` with `StreamAdapter` (what a client that leaves has seen).

## 3. How the modules correspond to the code

`PROJECT.json` maps each definition to its lines. The conventions: one action per
operation or per stretch of code between two suspension points; a variable per
piece of state that more than one actor sees; history variables, which no action
reads for control, say so where they are declared; a definition whose comment says
*Mutant* is not part of the specification, it is the definition it resembles with a
plausible bug, used to confirm that the properties notice.

**`Jobs`.** `state`, `outcome`, `finished` are the fields of `_Job`; `task` and
`cancelReq` are the asyncio task behind it; `waiter` holds the calls of `wait`;
`hand` follows a cancel that runs on an executor thread, because `cancel_job` is a
plain function, which LangChain calls there. `Submit`, `Cancel`, `Wait`, `Wake`,
`TimeOut`, `Close` are the registry's operations and the end of `bind`; `Start`,
`FactoryRaises`, `DropUnstarted`, `Land`, `Finish`, `End`, `Unwind`, `Swallow` are
the steps of `_run` and of the task around it; `ThreadCheck`, `ThreadDeliver`,
`ThreadMark` are the three places where the thread's cancel may be. `Land` splits
the last step of a task in two, because the thread may act in the middle of it.
Jobs are divided by what their coroutine does: `Stubborn` ones swallow the
cancellation, `Faulty` ones come from a factory that may raise, `Threaded` ones may
be cancelled from a thread.

**`QueryRun`.** A `Run` is one exchange; `run[r]` holds the program counter and
the locals of handler and generator. `OpenTrace`, `RecordHuman`, `Register` are
the handler's writes, each of which may fail (`Reject`); `Pulled`, `Emit`,
`StopAtEvent`, `BeginSend`, `SkipSend`, `Sent` are one turn of the loop in
`stream()`, which checks the cancel event between pulling an event and sending its
frame; `AgentEnds`, `AgentInterrupts`, `AgentRaises`, `AppendAnswer`, `Complete`,
`TailFails`, `ErrorFrameDone`, `CloseTrace`, `CloseFails` are its exits;
`EndInBackground` is the `end_trace` that a function call leaves to a task of its
own. A client that goes shows as `Disconnect` (the write fails), `TearDown` (the
task is cancelled), `Detach` (cancelled in the closing write), `Abandon` (the
generator is closed at a yield) or `NeverStart` (it never ran), which take
different paths through the except clauses. `Cancel` and `DeleteMe` are the two
endpoints that act on other exchanges, `Crash` the loss of the process with its
registry. What the agent emits comes from `builder.py` and `adapter.py`: any frames, then
a function call, an end, an interruption or an error. `late` counts every frame sent after
the cancel event was set, the error frame included.

**`StreamAdapter`.** A message is a script of tokens, a delta is any next piece of
it. `adapter` holds the splitter of the current message (`_ThinkingStreamSplitter`)
and the buffers for thoughts and prose. `Feed`, `Split`, `TakeTag`, `SafeEnd` are
the splitter: the regular expressions become the spans they match, and what is held
back at the end of a delta is computed as in `_safe_emit_end`. `Delta`, `ToolCall`,
`Custom`, `End`, `Raise` are what `adapt` does with the events of the stream. A
token is its place in a message, so the properties compare buffers and frames word
by word with the meaning of the whole script.

**`Extras`.** The other half of the adapter. `EmitArtifact`, `CiteWeb`, `CitePage`,
`CiteWidget`, `Say`, `Break`, `Stop` put events into the stream of the agent;
`TakeArtifact`, `TakeCitation`, `TakeText`, `TakeBreak`, `TakeCall` are the branches
of `adapt` that take them out; `DrainText`, `DrainArtifact`, `DrainCitations` are its
end, and `Unwind` a run that leaves without one. Lines of a markdown body are words,
headings and leaked calls, because the polishing of bodies and the choice of the
citations that are about the answer depend on them.

**`RateLimiter`.** `level` is `available` of each bucket, in units of 1/`Period`,
so that the refill per tick is an integer; `lock` is `threading.Lock`. `Acquire`,
`Lock`, `Check`, `Charge`, `Sleep`, `Wake` are the loop of `acquire`/`aacquire`,
with check and charge as two steps under the lock; `Record` and `Unrecorded` are
the charge after the answer, or its absence; `Tick` moves the clock and refills.
`used` and `span` observe a window that begins at any moment.

**`History`.** `entry` holds the rows of `messages` and `tool_calls`, `conv` the
conversation rows, `widgets` those of `widget_data`; `call` is a store call between
the statement that reads the highest number and its commit, which is where another
session may act. `ReadConv`, `ReadNewConv` and `ReadTrace` read, `Commit` inserts and
touches the conversation row, whose absence or presence makes it fail (`Fail`). The two
selects of an append to a conversation, for its row and for the highest number, are two
steps (`ReadConv`, `ReadSeq`).
`DeleteUser` and `PruneOlderThan` are one transaction each, `Page` is `get_messages`
with its limit. `saw` and `split` are history variables: what was there when an
append began, and which conversations a sweep took without all of their messages,
because `updated_at` is older than the last `ts`.

**`Checkpoints`.** `started` is the trace table, `thread`, `last` and `writes` the
database of the saver, `sweep` one pass of `run_prune`: `SweepHistory`, `AskRecent`,
`ListThreads` and `Drop` are its four looks at two databases, between which exchanges
`Begin`, `Save`, `WriteAfter` and `End`. `Began` is `begin_trace`, which inserts a row or
reopens the one that is there and leaves its `started_at` alone; `DeleteUser` takes the row
and no checkpoint. `began` and `removed` are history variables: when the row was inserted,
and which traces went with their user.

**`PdfLibrary`.** `doc`, `pages` and `vector` are the three tables, `task` is
`_inflight`, keyed by file as in the code, `reader` the exchange of each user.
`Ask` hands a file in, `TaskStep` is one stretch of `_ingest` (begin, parse, commit,
index a batch, fail, die), `ReaderStep` one of the tool that polls for 30 seconds and
reads; `Age`, `SweepDocuments`, `SweepVectors`, `SweepFails` the retention; `Crash` the
loss of the in-flight table. `IsNewId` is SQLite's choice of a key without
AUTOINCREMENT. `Hits` is what a search may find.

**`WidgetData`.** `chat` is what the client keeps and sends again, `rows` the table,
`views` what each pooled connection still has. `Ask`, `AskPreempted`, `Reply`, `End` are
the client and the exchange (a post is preempted when a human has the last word, a widget
of the dashboard has not said anything and none of them carries its data inline or in
files); `Record` and `RecordFails` the router's loop over all
results of the chat; `LookUp` and `Prompt` what the builder tells the model;
`GetWidgetData`, `BeginQuery`, `RunSql` the tools. Three things are folds, as the loops of
the code are: `Read` takes one message of the chat, `Keep` one result, `Note` one row into
the dictionary of the tables.

**`Uploads`.** `Collect` is `_collect_uploaded_files` over uploads, widgets, results in
the chat and the rest of the body; `HandIn` the loop that gives each PDF to the store, if
the server has one (`store`);
`Human`, `AI`, `Result` let the chat grow between two requests.

**`MemoryStore`.** `row` holds both tables. `Ingest`, `Pin`, `Forget`, `Erase` are the
writes; `Gather`, `Rank`, `RankFails` the halves of `recall` around the reranker, with
the lock released between them. Which rows are near is any choice some distances allow.

**`ToolLoop`** is the agent loop with its middleware: `ModelAnswers`, `LimitReached`,
`RecordUsage`, then `Start`, `ToolEnds`, `Record` for each call, in any order.
**`Transcript`** holds `ToLcMessages` (builder) and `StrictHumanAssistant` (normaliser)
as folds, and a chat that any client and model may write. The result of a
`get_widget_data` is replaced by a notice for each table it brought (`Notice`), and goes
through as it is only when it brought none; `Heard` says what of a chat the model must
have been shown, without the conversion: every text of a human and of an assistant, every
other result, and the notices.

**`AcpTurn`.** `reader` is `prompt`, `pump` the turn on the loop of the provider, `owner`
and `set` the cancel events, `messages` what the session remembers and `rows` what
history does. On the bridged path a caller who closes the stream has left at once
(`Leave`): the `GeneratorExit` ends `prompt`, and the `finally` of `_run_turn_bridged`, with
its cancel and its wait of ten seconds, runs when the loop finalizes that generator
(`CloseBridge`, which need not happen), so that the next turn may start beside the old
one. Only a reader whose task is cancelled (`ReaderCancelled`), or whose event is taken
from it between two looks (`Misses`), waits (`Left`, `LeaveTimesOut`). On the direct path
the generators are finalized in the same way (`LeaveDirect`, `LeaveAtError`,
`CloseDirect`), and a cancellation goes through all of them at once (`TaskCancelled`). A
turn that works on after its caller has gone is in `abandoned`.

**`AcpOptions`.** `session` has the fields of a `_Session`, two actors may change the
profile (`Switcher`: `set_mode` and the gear menu), each in its four assignments
(`SwitchProfile`, `SwitchOptions`, `SwitchOverrides`, `SwitchDone`), and they may overlap.
`Prompt`, `ReadMode`, `Announce` and `LeavePrompt` are the announcements of a prompt,
`ReadProfile`, `ReadOptions`, `SendTurn` the three arguments a turn reads one by one,
`StartTurn` and `RunTurn` where it copies the dicts it shares with the session until then
(a dict within the overrides is shared for longer). `torn` and `tangled` note that a turn
read its arguments within a change of profile, or after two that overlapped.

**`Canvas`** has the slot of the window, the handlers of a data request, the controller and
the waiters; a tool call is `Begin...` and the steps after it, beside those of others, as
LangChain runs them in threads. To wire the datafeed is to look at the flag, to wire and to
set the flag (`LookFeed`, `WireFeed`, `KeepFeed`; `Register`, `KeepRegistered` without a
datafeed), which nothing makes one step; `raced` notes that two calls were at it together.
A chart is a frame and then a chart in it (`Frame`, `Create`), and any of the emits and
registrations may raise (`Breaks`).

**`Accounts`.** `ReadKey`, `ReadUser`, `ReadHeader`, `ReadToken`, `ReadBearer` are the
backends; `UpsertRead`, `UpsertCommit` the refresh of the user row; `DeleteMe` the
cascade; `IssueRead`, `IssueCommit`, `RevokeRead`, `RevokeCommit` the command line.

**How runs share modules.** Parts of the system that share no state are checked as one
specification in which the initial state chooses the part (`part`) and only that part
takes steps. Every behaviour is one of a single part, so a property of a part is checked
exactly as it would be alone; it is only started together with the others. Five of these
are modules in their own right, so that theorems can be stated about them: `Workers`
(`RateLimiter` and, as `Registry`, `Jobs`), `Requests` (`QueryRun`, and `WidgetData` and
`Accounts` as `Data` and `Entry`), `Stores` (`History`, and `MemoryStore`,
`Checkpoints` and `AcpOptions` as `Memories`, `Saver` and `Options`), `Desktop`
(`AcpTurn` and `Canvas` as `Turns` and `Window`) and `Turn` (`ToolLoop`, and `StreamAdapter`,
`Transcript`, `Extras` and `Uploads` as `Texts`, `Messages`, `Shown` and `Filed`). The `MC`
modules only give values to their constants; `MCTurn` also has only the part that runs begin
in more than one state.

## 4. Runs

| run | parts | what it asks | bounds |
|---|---|---|---|
| `workers` | `Jobs`, `RateLimiter` | does a job's state agree with its task, is it reaped with its run, is `JobLifecycle` implemented; admissions, debt and progress of the limiter | three jobs (an ordinary one, a swallowing one and a threaded one, the last two with a factory that may raise), one call of `wait`; three callers, quotas of two with periods of three and two ticks, windows of four ticks |
| `query` | `QueryRun`, `WidgetData`, `Accounts` | registry, traces and messages under two exchanges of one turn, and how many frames follow a stop; is what is read or queried of a widget what was told last; keys, users and erasure | one event, one failing store call, one crash; two conversations, two widgets, two posts, two versions, two queries on one connection; two requests, two commands, two keys |
| `query_live` | `QueryRun` | does every exchange end and every trace close; is `TraceLifecycle` implemented; what may a deletion leave behind | one exchange, three events, two failures, one crash, the user may delete the account |
| `library` | `PdfLibrary` | is a ready document whole, does a tool get pages of its own file, and an answer | two users, two files, two keys, two requests, two batches, a crash, a sweep |
| `stores` | `History`, `MemoryStore`, `Checkpoints`, `AcpOptions` | the order of logs and what a page shows; own, full and erased memories; checkpoints that are kept; options that agree | two calls at once, two users, three rows, two moments; two rows searched of three; one exchange that may begin again, three checkpoints, four days; two profiles, two features, both ways to change the profile |
| `desktop` | `AcpTurn`, `Canvas` | does a turn answer its own question, does stop reach it, does it end; is a data request answered once and right, can whoever waits be told | two prompts on either path; three tool calls side by side |
| `turn` | `ToolLoop`, `StreamAdapter`, `Extras`, `Transcript`, `Uploads` | is text lost, doubled or misplaced; are artifacts and citations shown; is the model shown every text in an order it accepts; are calls counted; are files told | ten texts and two, cut at every place, one break, two places of interruption; four events and one talk; three messages, one answer; up to four model calls; two requests, three messages |
| `jobs_thread` (violation) | `Jobs` | a cancel that was granted leaves the job canceled | two jobs, one of them threaded |
| `query_cancel` (violation) | `QueryRun` | does a cancel request reach every run in flight | two exchanges of one turn |
| `library_scope` (violation) | `PdfLibrary` | do pages stay with the user they were ingested for | one batch, three requests |
| `citations_pages` (violation) | `Extras` | has each page that was cited a chip of its own | as in `turn` |
| `widgets_query` (violation) | `WidgetData` | is a query of a table that its user has answered | as in `query` |

Why the bounds are enough. *Jobs*: jobs meet only in `close` and in the waiter's
choice of a job, so one of each behaviour covers what a step can see. *QueryRun*: exchanges meet in the registry slot of their turn and in the rows
of their user; two fight over a slot, and a third would meet a slot that one of the
two holds. Failures and crashes are independent of each other, and one of each
already reaches every exit; liveness is checked for one exchange because no exchange
waits for another. *RateLimiter*: three callers let two compete while a third is in
a call; the window is longer than both periods; one call may cost a whole quota, so
debts arise. *History*: two calls race for one number; a third row is one that a
later call appends to what they left. *Accounts*: a request and a command about one
user meet in its row; a second of each lets a new key be used while the old is
revoked. *PdfLibrary*: a key comes back after one sweep, and two users and two files
let one user's task stand in for another's. For all of these the proofs remove the
bounds for the safety properties.

*StreamAdapter*: the splitter is replaced at each change of message, so two messages
give every kind of change; the texts are the smallest that hold each construct the
code looks at (marked, unmarked and attributed thoughts, citations, a bracket or `<`
that never becomes a tag, markers, reasoning beside text) with words around them.
*Extras*: two artifacts and two citations are enough for order, merging and a chip
that is lost. *Transcript*: the conversion and the normaliser look at most at the
message before and at pending results, so three messages of every kind give every
pair and what follows it. *ToolLoop*: two calls side by side, more than `MaxRepeats`
in a row, both limits reached. *WidgetData*: a second request records old results
after newer ones; a second query meets the views of the first. How often each of these
happens depends on where the widgets are (`Bounds`, a function of the place): the one behaviours
record and re-record, the others query. *MemoryStore*: three
rows where two are searched make a crowd. *AcpTurn*: a second turn meets what is left
of the first; there is one cancel slot, so a third meets what the second does.
*Canvas*: two calls may race for the wiring while a third asks the page. *Checkpoints*: a
sweep decides about each thread by itself, so one is enough; it may begin again, and lives
longer than both windows. *AcpOptions*: there are two who change the profile, and a mixture
takes two profiles.

The largest run, `stores`, has 1.6 million distinct states, `turn` 1.5 million, `desktop`
and `query` about 900 thousand each, `workers` 200 thousand with liveness; all of them
finish within five minutes with two workers. Deletion of a user beside an exchange is in
`query_live`: in `query` nobody leaves (`Leaver` is empty), and `AnswerFollowsQuestion` is
there about stops, failures and crashes.

**Fairness.** *Jobs*: the event loop runs tasks and timers that are ready and a
thread finishes what it began. That a coroutine ever returns is not assumed: the
timeout makes `wait` return. *QueryRun*: handler and generator take their next
step, which for a pull means that the agent yields, ends or raises, and for a send
that the frame is taken or the connection found dead; the background task runs.
Clients, crashes and store failures owe nothing. *RateLimiter*: the clock ticks,
the holder of the lock goes on and sleepers wake; a free lock goes to one of those
who wait, not to each of them, because neither kind of lock is fair to a particular
caller. No call has to return. *PdfLibrary*: a task that runs takes its next step,
and a tool polls and times out; no task has to be there. *AcpTurn*: both loops run
what is ready, and the agent ends or raises once it is running; the caller owes
nothing. The other modules have no liveness: they are driven by their callers.

**Deadlock** is not checked where the system really stops: the run ends, all
exchanges are over, the source is exhausted, the bounds of keys and rows are used up.
Since parts share a run this holds of every run; that waiters come back is checked as
liveness instead.

## 5. What is proved

All theorems hold for every value of the constants under the assumptions named in
the modules (`JobsAssumption`, `QueryRunAssumption`, `RateLimiterAssumption`,
`BucketsApart`, `HistoryAssumption`, `NoneIsNone`, `PdfAssumption`, `NoneApart`,
`ToolLoopAssumption`, and `WorkersAssumption`, `RequestsAssumption`, `StoresAssumption`,
`DesktopAssumption`, `TurnAssumption` for the parts), which say only that the constants have the right
types, are finite where the program can hold only finitely many, and are disjoint where
the code keeps them apart. Each composed module has a theorem `PartsAreThemselves`: its
behaviours, seen at the variables of a part, are behaviours of that part. What is proved of
a part carries over by it. The runs check the same
properties, and the assumptions, on small instances.

**`RequestsProofs`.** *Exchanges*: `IInv` joins the types with an invariant per exchange
(what its program counter says of its trace row, its registry slot and its messages), one
for the closing writes under way, and `RegistryHoldsLive` with what two exchanges of a
turn know of each other. `RegistryHoldsLive`, `SoleRunIsCancellable`,
`LeftRunningOnlyIf` and `CompletedIsRecorded` follow. `LifecycleImplemented` maps every
step to a step of `TraceLifecycle` or to a stutter; its core is that an `end_trace`
meets a row that is open, except the one that turns a completed row into a cancelled one.
*Their past*: `Past(q)` is what an exchange knows of its past: a
frame sent late only once and only before the next check, one more only as the error frame
of an agent that raised while its frame was on the way, a question logged before its
answer, a deletion it was in flight at. Steps of others are calm (`CalmKeeps`), most
of its own go on (`GoingOnKeeps`), and the rest are taken one by one. `LateFrames`,
`AnswerFollowsQuestion` and `ResidueIsInFlight` follow. *Accounts*: in `EntryInv`, `KeyInv`
says that a key's user is there and was not erased since, `RequestInv` that a request under
way was let in by a key that was alive, and is known to be doomed if its user was erased.
`KeysHaveUser`, `DeadKeysStayOut` and the action property `ErasedComesBackByFlight` follow;
`KeysHold` is all three beside the other parts. *Widget data*: `DataInv` says that all a chat
has said of a widget is accounted for (`Accounted`): it is still to be recorded, or it is
the last row that its conversation made since the request began. That is kept although old
results are recorded again before the newest (`LatestOfTail`), beside the rows of
others (`OthersServed`), and through the two lookups of the prompt (`Foretold`, `Promised`),
of which the first may come too late: a chat that has said something has a tool message
(`ResultsTyped`), so the tools are narrowed and the tables looked up again. What a request
is to record follows from the chat by two folds (`TodoIs`), the schema of a query from the
table by a third (`SchemaIs`). `WidgetsAreRead` follows.

**`Folding`.** The induction over data that the above needs. `FoldLeft` of the community
modules is the value of a recursive function on sets of positions; that it exists for every
sequence (`Solvable`), takes one element at a time (`FoldOfAppend`) and is reached by
induction (`FoldInduction`) is shown from the well-foundedness of the natural numbers, by
least counterexamples. The operator is a constant of the module, since a theorem that has one
as a parameter cannot be used by the provers; a proof takes an instance for each
operator that it folds with. The definition of `FoldLeft` stands there once more, as instances of
`SequencesExt` are large; each use shows that the two are equal.

**`WorkersProofs`.** *Limiter*: `IInv` adds that whoever is inside the section holds the
lock, that a level seen to suffice still does when it is charged (others only refill, since
all charges take the lock), and that what a window admitted plus what is left came from
one full bucket and the refill since. `AdmissionsBounded` follows from the last,
`DebtBounded` from the second and a count of the callers outside of a call. *Jobs*:
`RegistryInv` joins the types with `JobInv`, which couples a job's state,
its task and the thread's hand in four layers: what holds of any job, what holds
besides if its coroutine lets a cancellation through (`ObedientInv`), what holds besides
if it is only cancelled on the event loop, whatever its coroutine does with that
(`LoopInv`), and what holds of both (`SettlingInv`). The layers are needed because the
properties do not hold of all jobs. `StateTracksTask` is of every job that is only
cancelled on the loop, so also of those that swallow the cancellation and those whose
factory raises: for them it says what their state is when the task has ended in spite of
the cancel, and that a job whose factory raised stays running without a task.
`CancelSticks`, `WaitIsFinal` and the action property `SettledStaysSettled` are of jobs
that let the cancellation through and are cancelled on the loop only (`Settling`); of the
others they are false, as `jobs_thread` shows of one kind. `ClosedRunReaps` is of those
that let it through, `EscapeHasCause` of all. The refinement `LifecycleImplemented`, step
by step, is of `Settling` jobs whose factory does not raise. All is stated of the registry
as `Workers` has it, an instance of `Jobs`.

**`StoresProofs`.** *History*: `IInv` adds what an append under way knows (`CallInv`) and
what a committed one knew (`EntryInv`): the rows of its log when it began are older and have
smaller numbers. The types carry the bound that makes it inductive, that a number is
below the key of its row. Deletions are one lemma (`DeletionKeeps`): rows only
disappear, and a conversation that goes takes its messages along or is noted as split.
`ContextIsShown` counts: what an entry saw has smaller numbers, so a page that
reaches the entry has room for it.
*Memories*: `RecallInv` says of a recall under way what it has gathered. `AnnSearchIsOwn`
and `MergedIsEnough` are the two facts about a search: it returns rows of its user only, and
if no table was crowded by the rows of others, as many as there are up to the limit; the
merge of two tables then has enough for any answer, because a row that is cut in one
table had enough nearer ones in it. `ErasedInv` adds that erased keys were given out before,
so that no new row takes one. `RecallIsSound` and `ErasedIsGone` follow.
*Saver*: `RowInv` relates the trace rows to the day of the sweep and to the day on which they
were inserted, `SweepInv` says of every exchange a sweep would not keep that it is old, has
begun since or went with its user. `NewestKeeps` is the lemma about the newest checkpoints
of a finite set. `ResumePointKept` and the action property `DroppedOnlyIfOld` follow.
*Options*: the invariant says which assignments of a change of profile are still to come, for
two changes that may overlap, and what a turn that reads its arguments one by one can have
met: without a change on the way, and without a mixture left by two, the options and the
overrides belong to the profile. `OptionsAgree` follows. Its first part, that the options
of a turn are all those of one profile, holds of every turn, because a change replaces the
dict; the rest holds but for the turns that `torn` notes.

**`DesktopProofs`.** *Turns*: the deepest of them, because everything is found through
other state: a prompt through `owner`, its question through `messages`, its answer through
the queue. `TurnsInv` says that one turn works at a time but for those that were left at
work, that the owner of the session is the newest prompt unless one of those has taken its
event away (`OwnerInv`), and where in `messages` and
`rows` a turn's question and answer are for every place in its course; `OrderInv` adds that
unless a turn was left at work all of them are in the order of the prompts. Each of the some
thirty steps is a lemma. Steps that leave the lists alone are shown to be
local (`StepsAreLocal`), those that append are four. `TurnsAreOwn` and `CancelReachesTurn`
follow. *Window*: `CallsInv` is what a tool call knows of the page, `FeedInv` of the
wiring of the datafeed, one call after the other or two at once, `BarsInv` of the bars it
will answer with. `PageIsAnswered` follows, but for what `raced`, `feedFailed` and `mixed`
note and for a chart that broke after its bars were stashed: outside of these, a data
request has one handler, which answers with the bars of the chart on the page.

**`TurnProofs`.** *The tool loop*: `IInv` ties the guard to the streak of equal calls that it counts
(`Guarded`: its count is the length of the streak, and it has tripped if and only if the last
call was answered for) and the counters to the calls (`OneMoves`: a call that changes its
state leaves one count and enters another). `StreakGrows` is the lemma about a call that
reaches the guard, in whichever order those of one answer do. `CallsAreCounted` follows,
for any `MaxRepeats`, zero included. That the program counter is at a model call only when
the calls of the answer before have all come to an end is `Paced`.
*Shown*: the state of the adapter is folded from the stream, so `ExtrasInv` says what its
buffers hold after the events taken so far: the artifacts in the buffer and those still in the
stream come to all (`Reading`, and `Draining` once frames are sent), and the citations are the
first of each source (`Held`). `Held`, `ShownIn` and `Told` speak of sequences and numbers, not
of the state: so one event more (`HeldPast`, `HeldAlready`, `HeldNew`) or one frame more
(`ShownOfAppend`, `ChosenAre`) is a lemma about sequences, cited by the steps. `Polished` is
about bodies of any length: the walk over the headings keeps, up to its cursor, what the
analysis would (`Walked`, `CutKeeps`). `ExtrasAreShown` follows.

**`InputProofs`.** *The files*: what a request collects is a value of its body alone (`Collection`), and `CollectionOf`
says what is in it, by four folds: the hint that is carried through the messages is the widget
of the call that the next one answers (`CallNext`, `ScanIs`), and pushing keeps the first of
each key (`Pushed`). `CollectionGoesOn` is about two chats of which one begins with the other.
`UploadsInv` adds that the files of a request are those of the messages there were then
(`Earlier`), and counts the PDFs handed in so far. That none is missing is about the four
sources in the order in which they are pushed: what a source holds has its key among the
files (`KeysTell`), whichever file was first with it. `FilesAreTold` follows.
*The transcript*: `Sound` is what every conversation of an agent is: a result stands behind the
call that it answers, and only answers make calls. `ConvertedIs` shows it of any request, where a
call is made up for a result that comes without one, and `TranscriptInv` keeps it through answers
and results. The rest is about the four passes of the normaliser, each a fold with its own
invariant: what is put out and what waits come to what was read (`Reduces`, `ReduceKeeps`), two
neighbours of one kind never stay beside each other (`Merges`, `MergeIs`), and nothing is
left to be dropped at the end (`AllShown`). `Built` says what every pass keeps of the results: each
comes behind its call, or answers one that had no name. `ShownIs` puts the passes together, and
`TranscriptIsSound` follows.

**`PdfLibraryProofs`.** A task remembers a key across suspension points, so `TaskInv`
speaks of tasks that still hold their document (`Holds`): those know its state and
have indexed the batches before their own. That a key given out again while a task or
a tool remembers it becomes `recycled` is what makes this inductive. `VectorInv`,
`ReaderInv`, `EmptyKeys` and `RowsDistinct` are the other parts; `DocumentsAreWhole`
and `AnswersAreOwn` follow.

**Only model-checked.** Everything under fairness (`RunEndReapsAll`, `StreamsEnd`,
`TracesClose`, `Admits`, `ReadersAnswered`, `TurnEnds`) is out of the prover's reach. Not proved
is `AnswerIsRight`, where the splitter walks a message character by character and is replaced
within it. For these the instances in section 4 are all there is.

**What proving changed.** Three definitions were sharpened on the way. The wait of
`AcpTurn` for a run that was cancelled is of the bridged path only, as in the code, where the
other has no timeout.
`HistoryIsRemembered` of `AcpTurn` compares any two turns instead of whole lists, which says the
same where both are there and something where they are not. `ErrorsAreShown` and its companions in
`ToolLoop` are stated of every state and no longer of the end only. What `Extras`, `Uploads`
and `Transcript` compute over sequences was recursive or a comprehension and is folds now, by
operators with a name, as the loops of the code are. Some constants needed an assumption:
tool calls and widgets are finitely many, no profile is named `none`, which is how the model
writes that a session has none yet, a body of markdown is a sequence of lines, and an uploaded
file comes from no widget and has a name.

## 6. Where the code and its documentation differ

Each of these is a run that TLC refutes; the quotations are in `PROJECT.json`.

- A cancel from the executor thread may be granted to a job that then becomes done
  (`jobs_thread`).
- Cancelling a conversation misses an exchange whose slot was taken by another of the
  same turn (`query_cancel`).
- An ingestion may write its pages into another user's document, when the row it
  remembers was swept and its key given out again (`library_scope`).
- Pages of one PDF share a citation key, and only the first is shown
  (`citations_pages`).
- The views of a query stay on its connection and make the next query there fail
  (`widgets_query`).

Seen on the way, without a run of their own:

- *Jobs.* `wait` may raise the task's own exception, or its cancellation.
- *Exchanges.* One in flight when its user is deleted writes its messages afterwards
  (`ResidueIsInFlight` says that nothing else does); the conversation a preempted
  request is answered with ignores `body.conversation_id`.
- *History.* Appends that overlap take one number; `get_messages` returns the oldest
  messages of a long conversation; the deletion of a user leaves widget and PDF rows,
  against the list in the documentation of authentication; keys kept in a database of
  their own (`db_url` of the backend) would survive it too.
- *Stream.* The suppression of a harmony marker ends where another message or a step
  interrupts; citations with a title only share one key.
- *PDF.* Two nameless PDFs in one result get one name and only the first is kept; a
  newer PDF of the same name gives way to the older; the widget a citation shows
  is found by its parameters, whatever the stamp says; a search is crowded out by the rows
  of other users and matched to files by name.
- *Widgets.* What `extra` widgets return is never recorded; a lookup by name returns
  the newest unnamed row; `data_in_store` is reported for data that may be old; the
  citation of a query comes from a schema read after it.
- *Memory.* A reranker may leave pinned memories out.
- *Agent.* The strict pairing the normaliser announces is not kept; equal calls are
  looked for on the response object, which may wrap the message; a subagent whose tools
  are all narrowed away gets every tool.
- *Checkpoints.* The window of `checkpoint_retention_days` is documented as "no history
  activity within this many days" (`persistence/prune.py:254-257`), and the code goes by
  `started_at` of the trace (`persistence/sqlite_store.py:774-792`). `begin_trace` keeps it when
  it reopens a trace (`persistence/sqlite_store.py:167-172`), so a thread that is active
  today may be dropped, and one whose run is still at work as well. Both callers of
  `begin_trace` take a new id each time, so that a trace is reopened is allowed by the
  store and done by no code here. `DroppedOnlyIfOld` goes by the row, as the code does; a
  run of its own, for the words of the documentation, is left out for the first.
- *Desktop.* A trace begun before a setup that fails stays open; chart tools report
  success with no chart on the page; two calls that wire at the same time register two
  handlers, so that a data request is answered twice (`raced` in `Canvas`); two that show
  bars side by side may leave the bars of one under the chart of the other (`mixed`), and
  one whose emit raises after its bars were stashed leaves them under the chart that was
  there.
- *Desktop, turns.* A caller who closes the stream of a turn does not wait for it: the next
  turn runs beside it. The old one, when it ends, takes away the cancel event of the new
  one, whose stop is then lost, and its answer joins the session after the new question.
  `OwnQuestion` and `CancelReachesTurn` say that nothing but a turn that was left at work
  does this.
- *Options.* A turn reads profile, options and overrides one by one, and two changes of
  profile may overlap, without a lock: a turn that is sent meanwhile, or after such a pair,
  may run one profile with the options of another (`torn` in `AcpOptions`).
- *Accounts.* A request in flight can undo a name that `keys issue` filled in.

## 7. What is not modelled

*Router*: the read endpoints and the agents listing, which change nothing. *Adapter*:
the wire shape of payloads, messages without an id, and the event kinds `chunk`,
`error` and `updates`, which no producer emits with the stream modes in use.
*RateLimiter*: the cache of limiters, `blocking=False`, which has no caller, `snapshot`,
and the retries that the HTTP client makes within a call. *History*: the reads but
`get_messages`, and the tables that nothing writes. *PDF store*: parsing and the
wording of answers. *Memory*: embeddings and distances, and the writer, which nothing
calls. *Widgets*: the substring search, which only reads. *Builder*: the construction of
tools and the text of prompts but for what they say of stored data. *Desktop*: the HTML
and JavaScript of the canvas, and its tools' formatting. The retention job is modelled
with both of its settings given; without one its pass is skipped. A thread of checkpoints
whose id has no colon is never dropped (`persistence/prune.py:107`); no code here makes one. The
documents' retention is taken to be at least a day, which `settings.py:386` does not
demand, and there is an index of pages; a store without one skips the indexing
(`runtime/pdf_store.py:431`) and finds nothing by search. *Never*: model
providers, calls to the outside world, subagent prompts and configuration, which hold
no state over time, and logging.

*What the properties set aside.* Some of the hazards in `PROJECT.json` do happen. The
property about such a hazard names the state in which it has, by a history variable, and
says that everywhere else nothing is wrong; it does not refute the hazard. These are:
equal numbers of two appends at once (`LaterIsGreater`), a conversation swept under its newest
messages (`split`), pages whose index is missing (`unindexed`), a key given out again while
somebody remembers it (`recycled`), a code table that was never opened when an erasure came by
(`ErasedIsGone`), turns left at work (`abandoned`), turns sent within a change of profile
(`torn`), and wiring or bars of two calls at once (`raced`, `mixed`, `feedFailed`). What this
leaves to say is how far each of them reaches.
