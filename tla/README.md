# app_monitor: a verification project

app_monitor collects performance samples of Java processes (threads, connections, CPU)
and draws them.  Agents on the monitored hosts post JSON arrays to an embedded Jetty
server; the server keeps them in an embedded H2 database, one table per day, and draws
reports with JFreeChart; a small menu, a configuration file and the scripts that its pages
load surround that core.

This directory holds TLA+ models of the parts of the program whose correctness depends on
time, interleaving, callbacks, failures or restarts, the TLC configurations that check them
on small instances, and proofs of the main results for every value of the constants.

## 1. Inventory

Paths are relative to `src/src/main/java/org/langke/jetty/` unless they start with `src/`;
scripts of the browser are in `src/src/main/webapp/js/`.

| Component | State | Operations | What makes it correct |
|---|---|---|---|
| Daily tables: `server/Job`, `dao/impl/AppMonitorDao.create`, `common/TableUtil`, `server/SpringApplicationContext` | tables and index names on disk; per Spring context, where the run of the job stands and when the next is due | scheduled run once a day per context; one `CREATE` statement after the other, each committed by itself | at every moment the current day has its table; a batch without failures is complete; contexts do not undo each other's work |
| Storing samples: `servlet/MonitorHandler._add`, `AppMonitorDao.insert` | rows of the tables; per worker, the call in progress | name the table, stamp each sample, execute the inserts one by one, answer | an acknowledged batch is stored in full and once; a sample lies where the reports look for it |
| Reports: `MonitorHandler.report`, `common/Dbop`, `common/chart/ChartUtil.createXYCurveDataset`, `generateXYCurveLineChart` | the pool of 30 connections, the servlet's field `DBType`, per thread the report in progress | learn the product name, read addresses, read statuses, draw one picture per status | connections come back; every request is answered; a page has a cell for each status, in order, with its picture |
| Other charts: the rest of `ChartUtil` | none between calls | some twenty generators over a dozen dataset builders | a dataset holds what the result set holds; a failure does not mix datasets |
| Menu: `dao/impl/MenuDao`, `service/impl/MenuServiceImpl`, `controller/MenuController` | table `t_menu`; the pages administrators have open | add, update, soft delete, tree | an entry is shown once; a deleted one stays deleted; nothing vanishes without a cause |
| Configuration: `common/Config` | the file, the properties in memory, the time of the last load | load, refresh every 60 s, set a default, store at exit | the server works with what the file says, and the store keeps what it had loaded |
| Server and restart script: `server/AppMonitorJettyServer`, `src/bin/restart-server.sh` | the processes and the port | look, kill, wait one second, start | when all scripts are done there is a server, and only one |
| Agents: `src/bin/performance_monitor.sh`, `sys_performance_monitor.sh` | temporary files, one of them shared by all scripts of a host | list, measure and post once a minute | a sample carries the name and the values of its own process |
| Request bodies: `common/RequestUtil` | a buffer | read what has arrived | the servlet is given the text that was sent, if it came in one piece |
| HTTP client, `Share`, `DateUtil`, `resp/Response`, filters, `ExecutorFactory` | none between calls | conversions; retries that nothing calls | - |
| jQuery, requests: `jquery-1.4.2.js` | the closure of each request, `jQuery.active`, global functions of JSONP | send, answer, timeout, abort, callbacks | each request is answered and completed once; the indicator shows what is open |
| jQuery, effects: `jquery-1.4.2.js` | the `fx` queue of each element, `jQuery.timers`, one interval | animate, delay, stop, clearQueue, tick | what is queued runs one after the other and to its end |
| jQuery, events: `jquery-1.4.2.js` | handlers and native listeners by element, `jQuery.cache` | bind, one, live, unbind, die, trigger, remove | an element listens to what it has handlers for; `one` is called once |
| jQuery, ready: `jquery-1.4.2.js` | `readyList`, `isReady` | ready, the events of the browser, scroll checks | each function runs once, in order, with a body |
| jQuery, selectors and traversal: `jquery-1.4.2.js` | `done`, and `sizcache`, `sizset`, `nodeIndex` on the nodes | find, filter, not, closest, parents and others | what is found is what the selector says |
| Form plugin: `jquery.form.js` | the button pressed, the action and method of the form, a frame per upload | gather, clear, reset, submit, upload | the pairs are those of the successful controls; an upload is called back once |
| Query plugin: `jquery.query-2.1.7.js` | a tree of arrays and objects | set, SET, GET, REMOVE, EMPTY, COMPACT, read, write | what is written is read again; a change changes its key only |
| Validation plugin: `validate/jquery.validate.js` | the validator of a form, the answers of the server by field | check on keyup, focusout and submit; rules; remote checks | what is sent is valid; a submission that waits is sent or refused |

How they interact: the agents call `_add` over HTTP with a timeout of three seconds and no
retry; `_add` and the job share the tables (the job creates what `insert` names by the
clock); reports read the tables that inserts write; reports, inserts and one of the two
copies of the job share one connection pool; Spring creates two contexts in the process,
one by the listener of `web.xml` and one when the servlet is first used, each with its own
scheduler and pool; everything on disk survives a restart and everything else does not.
The scripts of the browser share nothing with each other but `jQuery.active`, and talk to the
server by requests; the page of the menu loads `jquery-1.4.2.js`, and the three plugins come
with the application for pages that want them.

Hard behaviour, by component, with lines, is listed under `hazards` in `PROJECT.json`.

## 2. Modules

| Module | What it is |
|---|---|
| `DailyTables` | the clock, the job in every context, statements, failures, restarts |
| `SampleLog` | abstract: what `POST /monitor/_add` promises |
| `SampleStore` (`_proofs`) | extends `DailyTables` with the workers that store samples; implements `SampleLog`; the proofs are of both |
| `ReportPool` (`_proofs`), `MCReportPool` | threads, the connection pool, the steps of a report and of an insert; symmetry for TLC |
| `Charts` (`_proofs`) | every generator of `ChartUtil`: its questions, datasets, connections, answers |
| `MenuAdmin` (`_proofs`) | the menu and the administrators who change it from pages of any age |
| `MCConsole` | composes `Charts` and `MenuAdmin` for TLC |
| `ConfigStore` | the configuration file between server, refresher and administrator |
| `Redeploy` | several runs of the restart script, and the servers |
| `RequestBody` | a body that is read while it arrives |
| `Agent` | the two scripts on a host, with the file they share |
| `MCHost`, `Host_proofs` | composes `ConfigStore`, `Redeploy`, `RequestBody`, `Agent` for TLC; the proofs of all four and of the sum |
| `AjaxPromise` | abstract: what `jQuery.ajax` promises of its callbacks |
| `Arrays`, `Arrays_proofs` | filtering an array; what filtering, flattening and summing return for every sequence and set |
| `Ajax` | requests as a stack of calls and callbacks; implements `AjaxPromise` |
| `Effects` | the `fx` queue, animations, delays, the interval |
| `Events`, `MCEvents` | handlers, native listeners, events that go up and are triggered in each other; a document for TLC |
| `DomReady` | functions that wait for the document |
| `Selectors` | Sizzle, and the methods that find and filter by it |
| `FormFields` | a form and what is gathered of it |
| `FormUpload` | extends `FormFields` with submissions and uploads |
| `QueryString` | query objects |
| `Validate` | the validator of a form |
| `ValidateRules`, `CreditCard` | how rules are merged and applied; the check sum of cards |
| `Scripts_proofs` | the proofs of `Ajax`, `Events` and `DomReady`: what jQuery calls of a page's functions |
| `Forms_proofs` | the proofs of `FormFields`, `FormUpload`, `Validate`, `ValidateRules` and `CreditCard` |
| `MCPage`, `MCPageLive` | compose the scripts of a page for TLC: safety, and what must happen |

`MCConsole`, `MCHost`, `MCPage` and `MCPageLive` are sums: `part` says which of the components a behaviour is
about and never changes, because these components share no state (`jQuery.active`, which requests
and uploads both count, is kept by each for its own).  `MCPage` EXTENDS the modules whose properties are
proved, so that a run and a theorem speak of the same definition, and has the others as instances.  A property of the sum says for each part
what its module states.

### DailyTables

Time is a day and a tick of the day.  `job[c]` is where the run of `Job.createDay` stands in
context `c` ("off" before the context starts, "idle", "today", "tomorrow"), `stmt[c]` how many
statements of the current batch ran, `target[c]` the day whose table the batch creates.
`ReadToday` and `ReadTomorrow` are the two readings of the clock in `create()`; `CreateTable`
and `CreateIndex` are the statements of a batch, each committed when it runs.  `FailStatement`
and `FailConnection` are failures: Spring's `batchUpdate` goes on with the other statements and
throws at the end, so `bad[c]` keeps the second batch from starting and `EndRun` ends the run;
the scheduler logs the exception and runs the task again a day after its previous due time.
Index names belong to the H2 schema, so `CREATE INDEX IF NOT EXISTS` is a no-op once any table
carries the name: `index[i]` is the day on whose table it stands.  `Restart` may happen between
any two steps; it takes what the contexts remember and leaves what is on disk.  `TodayHasTable` speaks of
the contexts of the running process and promises nothing before one of them has run the job;
`RunsOutlastRestarts` says what is left then: the tables that an earlier run made for its day and the next.

The clock is free except that a run of the job is over `MaxLate` ticks after it was due:
`RunsInTime` blocks the clock rather than the job.  This is an assumption on the machine, and
`MaxLate < DayLen` is the only bound on it.

### SampleStore

A worker's `req[w]` is its call of `insert`: `Receive` names the table, `Stamp` reads the clock
for one more element, `Prepare` needs the table to exist, `ExecuteRow` or `RejectRow` is one
insert of the batch, `Finish` answers.  A call that stops with the process is never answered.
The clock moves on during a call, at most `MaxInsert` ticks.  `DefaultReport` is the set of rows
that `MonitorHandler.report` selects when it is asked for no period.

### ReportPool

`req[t]` is the request of thread `t`: its `stage` is the question it asks the database
("check", "probe", "ips", "list", "chart", "write") or its end, its `step` is where it stands with
its connection (waiting for one, waiting again after `GetConnection` caught an exception,
running, closing).  `leaked` holds the connections nobody has a reference to any more.  Three
places lose one: the question for the product name (`MonitorHandler` 128-134), `setAutoCommit`
throwing after the connection was borrowed (`Dbop` 62-70), and `ResultSet.close` throwing in
`ChartUtil` 594-611.  `listed`, `i`, `map2` and `file` are the variables of the loop over the statuses, which
goes by two (`Turn`, `NextCell`): the number of statuses, the place of the left one, the status of the
right cell, which keeps the one of the row before when there is none, and `analysisfilename`, by the number of the status whose
picture it names, 0 for an empty name.  It is assigned when a picture was saved, so after a failure a
cell shows what the cell before it shows (`Draw`, `DrawFails`).  `page` is the cells, each with its side, the
status it was asked for and the picture it shows.  `auto[c]` is autocommit, which `Dbop` turns off, `JdbcTemplate` needs
on, and commons-dbcp restores when a connection returns, after a rollback (`Reset`).
The field `DBType` is read without a lock; the model assumes that a write of it is seen by
requests that begin later, and lets any number of requests have read it before.

### Charts

`Builder` and `Generator` say what tells the builders and generators of `ChartUtil` apart: how
many columns make a key, whether a repeated key replaces or throws (`setValue` and `put`, or
`TimeSeries.add`), whether the name is also read as the value (the info builders), whether a null
name is a key; and the questions of a generator in order, what it cannot do without, and whether it
catches its exceptions.  `call` is one call: `Ask` borrows a connection and sees the table as it is
now, `Take` takes the next row, `GiveUp` is the exception of a row that cannot be taken (the loop
ends, the dataset is returned as it is), `Close` gives the connection back, and `Fail`, `Draw` and
`DrawFails` end the call.  `Insert` is another thread.  A value is the number of the row it came
from, which is all that an overwritten or dropped value can be told by; every question selects all
rows in the order they were stored.  `Plan` only finds a generator by its name.

### MenuAdmin

`parent` and `status` are the columns of `t_menu`, `last` is its identity column, `page[a]` the page
administrator `a` looks at.  A save (`add`, `update`, `del`, `saveFails`) takes its choices from that
page, however old it is, and answers with a request for a new one (`Loading`), which `menuList` makes
with a query of its own: between the two others may save.  `Query` is every list the query may
return: sorted by parent, in any order among equals.  `getMenuTree` is one pass over it.  `add`
creates the table when it is missing; a query without a table throws and shows an empty page.
Names, links and hosts are overwritten with the parent and not told apart, and the order of the
children of one parent is free.

### ConfigStore, Redeploy, RequestBody, Agent

`ConfigStore`: `p`, `lmd` and `changed` are the fields of `Config`.  A start is `boot`, `firstLoad`,
`stat` (`lastModified`) and `get` (the constructor of the server asks for each key, and a default is
set for those that are missing); `refresh` is a round of the thread, whose load may fail after `lmd`
was set; `terminate` and `store` are the two halves of the hook, which truncates the file and then
writes it; `kill` may come at any time and `edit` is the administrator.  `due` and `missed` are for
the properties only: what the administrator can count on, and the file that was saved while the
server started, which nobody looks at again.

`Redeploy`: a run of the script looks for servers (`look`), kills all there are (`pkill`), waits
(`sleep`) and starts one (`start`); a server binds its port some time later (`bind`) or exits because it
is taken, and one that was killed is gone some time later (`die`).  `late` says that one took longer than
the second the script waits, in which case nothing is promised.

`RequestBody`: bytes arrive while `getRequestString` asks `available()`, reads into its buffer and
appends all of the buffer, whatever the number of bytes read.  Each buffer is decoded by itself: `joined` says which
neighbours are of one character, and a character whose bytes are not together in a buffer is garbled (`decode`).  If nothing
has arrived at first, the servlet is given the names of the parameters: nothing for a body that is no form, and
for a form what is before each `=`, decoded, in the order of a hash table (`keys`, by `mark`, which says what a byte means in a form).

`Agent`: each script lists the Java processes into the file that both use, then measures each process
several times, looking its name up in that file, which is empty while another `jps` writes it; processes start and
end all the time.  Pids are numbers, and `grep` finds one wherever its digits stand (`Contains`): in a
longer pid, or in a name (`Numbered`); `serverName` is then the names of all lines that were found, `netstat` counts
what ends in the digits, and `ps` is searched for the name and then for the pid, in whatever column.

### Ajax and AjaxPromise

`req[r]` is the closure of a request and `stack` the frames that run: a frame is a call into
`jQuery.ajax` at the point where it called a callback of the page, which may itself send and abort
requests before it returns (`AnswerReturns`, `CompleteReturns`) or throw (`CallbackThrows`).  The browser
answers (`Load`, `CallsJsonp`, `LoadScript`), and timers go off (`Timeout`), when the stack is empty.
`Respond` is `onreadystatechange` up to its success or error callback, `abort` calls it as the code
does.  `window[n]` is the global function of a JSONP request.  `AjaxPromise` has no stack: a request
begins, is refused, or is answered at most once and then completed at most once.

### Effects

`queue[e]` is the queue with the sentinel `inprogress` in it, `timers` is `jQuery.timers` with one timer
per animated property, `delays` the timeouts of `delay`.  `Dequeue`, `Start`, `Complete` and `StepEnds` are
the functions of the same or a similar name; `tick` goes over the list by index while complete callbacks
change it, as the code does.  Time is left out: any running animation may be due at a tick.

### Events

`Path[e]` is an element with its ancestors, which the page does not rearrange; an element that is removed
takes those below it with it.  `bound[e]` is the list of handlers of an element, `listening[e]` its native
listeners, `cache` who has an entry in `jQuery.cache`.  `frames` is the stack of events that run, each at an element with the handlers
that `handle` copied there; a handler is code of the page, so while one runs, any other operation may
be called (`bind`, `live`, `unbind`, `unbindType`, `die`, `removeElement`, `trigger`).  `unbind(type)` takes `liveHandler`
with the others of its type and leaves the entries of `live`, which are then called no more (`cut`).  A native event and a triggered one go
up by different code (`NativeUp`, `TriggerUp`), and `LiveCalls` is `liveHandler` with its pass over the closest
elements.

### DomReady

The browser parses and loads the document (`parse`, `loaded`, `doScrollCheck`) while scripts register
functions (`register`), some of which register others or throw.  `ready` is called by whoever comes
first; without a body it sets a timer (`again`).

### Selectors

The elements are numbered in the order of the document, so that ancestors and earlier siblings are
smaller numbers and the nearest is the greatest.  A selector is a sequence of parts with their
relations.  `SizzleParts` finds what fits the last part (`Candidates`, `Filter`) and then takes `checkSet`
leftwards through the relations: `Near` for `>` and `+`, `DirCheck` for descendants and `~`, which walks up
or back from each element and leaves its name and the place of the element on the nodes (`Walk`);
`Pruned` keeps what was found from the context.  `Count` is `:nth-child`, which writes into the same field.
`notes` outlive a query.  The property compares with `Selected`, which reads a selector from left to
right over sets.

### FormFields, FormUpload, QueryString

`fieldValue`, `formToArray` (in both orders), `clearForm` and `resetForm` are functions of the fields; the
form changes by the user.  A submission of `FormUpload` is a record of its options and of how far it is:
sent by `jQuery.ajax`, or for a file ten milliseconds later into a frame (`upload`), after which the
answer (`load`) and the timeout race for the one call of `cb` (`Done`), whose success callback may throw.
A url is the sequence of the queries that were put into it, each named by what made it one of GET: the method of the form,
which an upload changes to POST, or the option `type`, which it does not (`TypeOptions`); the option `iframe` uploads a form without
a file (`IframeOptions`).

A query object is a tree of nodes (array, object, value); `set`, `SetIn`, `AsObject` turn arrays into objects
where the code does, and an index into a string is one of its characters (`Character`).  A value is a string, a number, `true` or `false`.
`Written` and `Read` are what the texts of the run become: spaces and plus signs, numbers that lose zeros and signs, the
empty text that is `true`, and `false`, which is not written (`Chunks`).

### Validate, ValidateRules, CreditCard

`v` is the validator with its lists and sets, `Check` the loop over the rules of a field, `Asks` and `Verdict`
the rule `remote`, which is "pending" until `success`; `stopRequest` submits the form when the last
answer has come and the form was submitted meanwhile.  A new question of a field aborts the one before
it (`Asked`).  Some browsers say of an aborted request that it is loaded, and jQuery takes one without a status for a
success: `success(null)` runs in the middle of the check, after the new request was counted and before it is
sent (`Nulled`, `NullAnswers`, `CountAfter`).  `AbortAnswers` says which browsers there are; `page` and `page_live` have both.  `ShowErrors` is what `defaultShowErrors` does to
labels and marks.  `ValidateRules` has the merging of rules (`Rules`, `normalizeRules`) and what each method
refuses (`Refuses`, `optional`); a field has its rules from a class, from attributes, and from the settings,
which the page changes by `addRule` and `removeRules`.  `CreditCard` is the sum of Luhn and the slips of a user.

## 3. Runs

| Run | Bounds | Shows |
|---|---|---|
| `daily_tables` | 2 contexts, 3 days of 3 ticks, 1 index, 1 fault, 1 restart | `TypeOK`, `TodayHasTable`, `BatchIsComplete`, `RunsOutlastRestarts` |
| `daily_straddle` | 1 context, 2 days, no fault | violation of `RunCreatesToday` (finding) |
| `daily_twice` | 2 contexts, 2 days, no fault | violation of `OnceADay` (finding) |
| `sample_store` | 2 workers, 2 arrays of at most 2 samples, 2 days of 3 ticks, 1 restart | `StoreTypeOK`, `ReportShowsLastHour`, `NoDuplicate`, `KeepsPromise` (refines `SampleLog`) |
| `report_pool` | 2 threads, 5 connections, 3 statuses, 2 faults, symmetric | `PoolTypeOK`, `LeaksBounded`, `PageIsComplete`, `InsertKept` |
| `report_served` | 2 threads, 4 connections, 1 status, 1 fault | `Served` |
| `report_stall` | 2 threads, 2 connections, no fault | violation of `Served` (finding) |
| `console` | charts: 17 generators, 3 rows, 2 names of which 1 is a number, 1 time, null names and times, 1 shape, 1 fault; menu: 2 administrators, 3 entries | `ConsoleTypeOK`, `DrawnFromRows`, `OneConnection`, `TreeIsComplete`, `GoneStay` |
| `events` | 3 elements below each other, 2 handlers, 2 calls that unbind, die or remove, 2 events, also one inside the other | `EventsTypeOK`, `HandlersServed` |
| `page` | the parts of `MCPage` below | `PageTypeOK`, `RequestsServed`, `KeepsPromise` (refines `AjaxPromise`), `DisplayKept`, `ReadyCalls`, `SelectionRight`, `FormPairs`, `UploadsAnswered`, `FormsValid`, `RulesKept`, `CardsChecked`, `QueryKept` |
| `page_live` | the parts of `MCPageLive` below, with fairness | `SubmissionsKept`, `RequestsEnd`, `WorkEnds` |
| `host` | 3 scripts; 2 keys and 3 edits; bodies of up to 5 bytes, 2 of them marked, with a buffer of 2; 2 monitor scripts, the processes 12 and 123, 2 names of which one has 12 in it | `HostTypeOK`, `ConfigKept`, `ServersKept`, `IntactInOnePiece`, `OwnSample` |

The parts of `page`: two requests of four kinds, with aborts in all four callbacks, two calls deep;
three animations or delays of an element that is stopped in every way, of one that nobody stops,
and two of two elements that are stopped in delays and in callbacks; three ready
functions that register each other and throw, in a browser that scrolls; forms of two fields of
seven types and two values; two submissions of a form that has a file field beside a text, a button or
another file, with the options `type` and `iframe` or without, and whose success callbacks clear or reset it; a validator of two fields, one
required and one remote, and one with local rules only; at most three rules of the settings beside those
of a class and an attribute, over the numbers to 2; query objects of one base, eleven keys of up to two tokens, five texts and two operations, among them values that are converted;
card numbers of at most three digits with a dash; every document of three elements below `html` with 20 selectors, and two queries with a change of the document between them.

Why the bounds are enough: two contexts, workers, threads, requests or elements are what races
need; a day of three ticks has a moment that is not next to midnight, and three days have a run
whose second batch creates a table that is needed; two samples per array give a first and a later
row; three statuses give a left and a right cell and a row without one; five connections are one more than two threads and
two faults can lose.  Three rows give a repeated key, a row before it and one after it, and samples
that arrive between two questions of a call; one shape and two names give a series too many, as six
series do in the code, where there are five; three entries give a root, a child and a child of that
child, and a cycle of two with its child.  Two requests are one inside a callback of the other, or
both open at once (section 5 has any number); three entries of a queue are one that runs and two that wait, of which one
can be lost; three elements below `html` are a chain of two relations, and two elements that share
what they find; three scripts are one that kills the server that a second one started while a third
one looks.  `Horizon` stutters at the end of the bounded history of `DailyTables`, so that deadlock
stays checked; `report_stall`, `events`, `page`, `page_live` and `host` turn deadlock checking off because a page or
a host in which nothing is left to do stops, and in `report_stall` the program does stop: that is the
finding.

Fairness.  `FairPoolSpec`: a thread that can go on does (weak fairness of `Work`), and a waiting thread is
served if connections keep coming back (strong fairness of `Borrow`, which commons-pool 1.5 gives by
serving its waiting threads in order of arrival).  No request must arrive and no failure must happen.
`LiveSpec` of `MCPageLive`: an event that can occur again and again occurs: the server answers, a timer
goes off, a callback of the page returns (or throws, which is a return too), the interval steps each
running animation to its end, the browser parses and loads the document.  These are promises of the
browser and of the server; no click, edit, call of the page or abort must ever happen, and a request
without a timeout need not be answered.

Action properties and properties that hold after another condition (`StartInOrder`, `SetsOne`, `FindsMisread`,
`Told`, `SentAsked` and the like) are conjuncts of the properties of their run; `DisplayKept` has what a
page shows: its animations, and what the validator marks and labels.

## 4. Findings

* A run of the job that straddles midnight succeeds and leaves the new day without a table until
  the next run (`daily_straddle`).
* The job runs in two contexts every day (`daily_twice`).
* The first reports of a process each lose a connection when they race; 30 of them stall the
  process for ever (`report_stall`).

### Cases the models leave out, where the code does not keep a property

The models would show each of these if the constant or the condition named in the module let them
in; they are kept out so that a run speaks about everything else.

* jQuery, requests: a JSONP request that the page's own server answers is completed by its function
  and again by the transport (`jquery-1.4.2.js` 5018; kind "local jsonp" is only in `page_live`); after
  a send that throws the timer is still set (5256); an abort in the complete callback of an
  aborted request calls it again (5169, `AbortsAgain`, also only in `page_live`); requests that name their JSONP function alike are given
  each other's answers (5015, `SharedName`).
* jQuery, effects: `clearQueue` removes the sentinel of what runs (1203, `Clears`), `stop` during a delay
  lets the queue go on twice (1195, `StopInDelay`); a complete callback that stops animations changes the list
  that `tick` goes over by index (5871); with durations of 0 a `show` followed by `hide` shows (5785);
  `stop` leaves the overflow hidden (5650).
* jQuery, events: after `unbind(type)` the handlers of `live` at that element are not called until `live` is
  called for the type again (1733, `cut`); `die` leaves the `liveHandler` bound (2036);
  `unbind` leaves an empty cache entry (1027); a namespaced `trigger` calls the handlers of parents (1915);
  a native `focus` in a default action swallows the `blur` handlers (1889).
* jQuery, ready: a function that throws keeps those after it from being called (391).
* jQuery, selectors: a relation takes the nearest element only, so `a > b c` misses a `c` whose nearest `b` has
  another parent (3593, 3630); `+ a b` and `~ a b` from an element, and `#i + a b` from the document, find nothing
  (2704); position selectors such as `:first` select from several sets and keep duplicates (3668);
  `:not` of a list after a comma starts at a stale index of `chunker` (3087); `closest` of several elements
  keeps duplicates (3771).
* Form plugin: an upload whose success callback throws stays counted in `jQuery.active` for ever
  (`jquery.form.js` 334); the url an upload wrote stays in the form (284), though line 27 gives the action of the
  form as the default of `url`: with the option `type` of `'GET'` each submission adds a query to those before it (203), as
  `OneQuery` says; an upload leaves the pressed
  button out (292) and sends what was edited in the ten milliseconds before (280).
* Query plugin: spaces are written as plus signs, and plus signs in values too (`jquery.query-2.1.7.js` 189); a
  string that is empty, or reads like a number, and a number that is printed with an exponent come back as values of another type
  (86, 93); `false` is not written (193), and `GET` returns "" for it (118).  `Kept` in `RoundTrip` names the values that come back;
  all come back at their places, and what was read once is written as before.  A `null` in the tree makes
  `toString` throw (205) and is not modelled.
* Validation plugin: a remote check that fails is never answered, so its submission waits for ever
  (`jquery.validate.js` 935, `Fails`); a waiting submission is forgotten by the next check (726), or sent after
  the user changed the form (724); of two remote fields that are asked at once, when the first is refused and the
  last is not, the submission stays remembered, and the form is sent by a later answer without being submitted
  again (724, `Remote` of `page_live`); the box of errors stays open (344).
* Validation plugin, where an aborted request answers null: a comment says "sometimes synchronization fails, make sure
  pendingRequest is never < 0" (720), and it does.  The new request is no longer counted, its value counts as refused until its answer
  comes, and the error shows.  With two remote fields a form that is not valid can be sent, against "prevent submit for
  invalid forms" (73): both fields hold "taken" and are asked, the submission waits for two answers; the first field is
  rewritten to "good" and left, its aborted request answers null, and one answer is counted; the answer for
  "good" makes that none, and the form is sent while the question about the second field is open.  So `FormsValid` is checked and proved
  with one remote field, or with browsers that say nothing of aborted requests (`NoneLost`), and `PendingCounts`
  is about submissions that wait.
* Java code that nothing calls: a pie chart without a legend is never drawn (`ChartUtil` 243);
  `Dbop.executeUpdate` reports success and its change is rolled back (120); `HttpClientUtil` posts again what
  may have arrived (162).
* Scripts: two runs of the same monitor script mix their thread counts (one `TMPFILE` per script); a process
  that ends while it is measured is posted without a value.  A pid that stands in another pid or in a name finds both lines
  (`performance_monitor.sh` 28), so that the sample has two names, on two lines of a string, which
  makes the array unreadable, or the connections of a process whose pid ends in it (51); a share of the processor may be that
  of another process of the same name (69).  `OwnSample` is about processes whose digits stand nowhere else (`Apart`).
* Server: a client that gives up after three seconds does not learn that its samples were stored (`performance_monitor.sh` 11);
  it does not send them again.  The client is not modelled.
* A new process has no claim on `TodayHasTable` until it has run the job: if the last successful run was two days ago,
  samples that come in between find no table.
* Configuration: an edit while the server starts is not loaded until the next one; a load that failed is not
  tried again; two edits in one tick of the file's clock are one; `get` may race a reload.
* Request bodies that arrive in several reads, unless each fills the buffer, get padding in between, and a character that the
  end of a full buffer cuts is garbled (`RequestUtil` 21); a body that has not arrived when the servlet looks (12) is lost
  unless it is a form, and of a form only the names of the parameters are left (14).

## 5. Proofs

All theorems hold for every number of contexts, workers, threads, connections, scripts, keys, fields and
entries and every bound, under the named `ASSUME`s of the modules; those about requests and the validator say in
their statements which behaviour of the page and the server they suppose.

* `SampleStore_proofs`, of `DailyTables`.  `TodayHasTable` is not inductive: it speaks of the present day only.  The
  invariant adds that the clock is within the deadline of every run (`InTime`), that a run began on
  its due day or later and what the batch so far has created (`BatchInv`), and what a successful
  run left for the day after it (`LastInv`).  From there the day after a successful run has the
  table its second batch made, until the next run is due.  `BatchIsComplete` needs only
  `StatementsInv`.  `RunsOutlastRestarts` has an invariant of its own for each day `d`: once a run has succeeded on it,
  the tables of `d` and `d + 1` are there, by `LastInv`, and no step takes a table away, a restart least of all.
* `SampleStore_proofs`, of `SampleStore`.  The invariant says that an open batch is in the hands of at most one worker
  (`CallOwns`), which rows a call has written and where its next one goes (`CallsInv`), and that a
  row lies in the table of its stamp or of the day before, within `MaxInsert` ticks of midnight
  (`RowsInv`).  `PromiseKept` maps every step to a step of `SampleLog` or a stutter.
* `ReportPool_proofs`.  `LeaksBounded` is not inductive: a thread about to lose a connection has
  not lost it yet.  `LeaksCounted` counts the threads that probe with the lost connections once the
  name is known, and shows that before, every lost connection had a failure.  `Held` gives each
  connection one place, and `Good` is what is known of a single request: in a turn of the loop over the addresses the page
  has as many cells as the turn began with, and one more once the left one is written (`AtCell`), so that a bound check
  that is off by one would end with a cell too few or too many; and each cell has its own picture or, if the drawing
  of its own failed, that of the cell before it or none (`CellsRight`), which the name that is kept from cell to cell has to be
  known for.
* `Charts_proofs`.  `HeldInv`: a call holds a connection exactly while it reads or closes one, and
  what it lost is at most what failed.  `DatasetInv` says what a loop over a result set has made of
  the rows so far; `SetsInv` relates the datasets of a call: each is built as the plan of its generator
  says, all but the last are ended, and the rows of a later question begin with those of an earlier
  one.  As every plan asks for averages last (`AvgLast`, by cases over the generators), each series
  finds its average, which is `DrawnFromRows`.
* `MenuAdmin_proofs`.  `TreeIsComplete` follows from the types alone (`TreeOfTypes`): the rows of a
  query are a bijection, the sort puts a root before its children.  `BuriedStay` is proved through
  `Burial`: a set of active, unshown entries whose parents are deleted or in the set.  Every step
  keeps each such set, because a page made later shows visible entries only (`LoadedIsVisible`), a
  page is the only source of an entry to save (`IdsExist`), and a new id is nobody's parent.
  `DeletedStay` is a fact of each step in which `MenuInv` gives the types of the page.  `GoneStay` is both.
* `Host_proofs`, of `ConfigStore`.  `Agrees(f)`: `f` has what the administrator counts on.  While the server stores,
  what counts is in the server, and the file is empty or nothing is due; at other times it is in the file
  (`StoreInv`).  A server that has looked at the file that is there has what is in it (`LoadInv`), and no time it
  remembers is later than that of the file (`TimesInv`).  `ConfigKept` follows from the three.
* `Host_proofs`, of `Redeploy`.  `ServersKept` (`SomeServer` and `OnePort`) speaks of what is up.  A server that holds the port and was
  killed is waited for by a script that killed it, so the server that starts after the wait finds the port free,
  unless one was late (`AwaitedInv`); a script that has not started its server has none (`UnstartedInv`).
* `Host_proofs`, of `RequestBody`.  `IntactInOnePiece` says when the servlet is given what was sent, and only
  speaks of the end.  Before it, one of three things is true (`ReadInv`): all pieces so far filled the buffer, no end of one but the last
  cut a character, and what was read is in order (`InOrder`; `Ends` is what a cut leaves of the last byte); one shorter piece was read, followed by padding, which is cut off at the
  end (`OnePiece`); or a byte stands where it was not sent, or none where one was, because a shorter piece was followed by another one, or
  left bytes of the one before in the buffer, or a piece ended inside of a character (`Misplaced`), and no later read puts that
  right.  When nothing had arrived at first, the body is the names of the parameters of a form: all of it exactly when no byte of
  it means anything (`keys`).
* `Host_proofs`, of `Agent`.  `OwnSample` needs to know that the file in which a script counts threads holds those
  of the process it looks at, or none (`CountedInv`).  `grep` finds every line the pid stands in; for a pid that stands in no
  other one and in no name (`Apart`, also of the processes that are started later) the lines found are its own.  `HostTypesAlways` puts the four parts of the host together:
  a step of the sum is a step of one part and leaves the variables of the others alone (`PartsStep`).
* `Arrays_proofs`, on which the others rest.  `Filter`, `FlattenSeq` and `SumFunctionOnSet` are recursive functions, and what
  they return is shown by induction over sets: what is to be shown of every number is that it is in the set `A` of
  the numbers it holds of, and such a set that has 0 and every successor is `Nat` (`NatSetInduction`, from the least number
  of a set).  The same of sequences (`SeqSetInduction`) and of the subsets of a finite set (`SubsetInduction`).  `Iteration`
  gives the values of a recursive function one by one.  From there: which members `Filter` keeps, in which order, and
  what it makes of a concatenation; and that a sum is what one member adds to the sum of the others (`SumTaken`).
* `Scripts_proofs`, of `Ajax`.  `FrameInv` says what is known of a request at the point where a frame of the stack waits for a
  callback of it, and `OneFrame` that a request runs in one frame, but for calls of `abort` that were entered from
  its own callbacks: what a callback did in between is therefore what the frame finds when it returns.
  `AbortRuns` finds for an aborted request that is not done the frame that will complete it.  `CountInv`:
  `active` is the number of the requests that were sent and not completed, from which the indicator follows.
  `PromiseKept` maps each step to one of `AjaxPromise`: `Respond`, which is reached from several events, to
  the answer, the return of its callback to nothing, and so on.  `OwnData` needs `WindowInv` only, and holds
  also when sends and callbacks throw; the other two need `Benign`, which names the cases of section 4 in which
  jQuery does not keep its promise.
* `Scripts_proofs`, of `Events`.  `Listens` and `LiveServed` compare the handlers of an element with its listeners, which
  `remove` changes together when the last handler of a type goes (`RemovesTo`, `LeftOf`); `unbind` of a type with live handlers
  takes their `liveHandler` out, and marks them `cut`.  `OnceOnly` is about the copies that events hold: `handle`
  copies the handlers before it calls the first, and a handler of `one` unbinds itself where it is bound, not in the
  copies.  `OnePlace`: such a handler is bound once.  `Copies`: an event has it once, and if it is bound, then where
  the event took it.  `Totals`: as long as it is bound it was not called, and afterwards its calls and the
  events that still have a copy of it are together no more than the events that can be inside each other.
* `Scripts_proofs`, of `DomReady`.  A function that registers another one calls it at once when the document is ready,
  so that a call is a chain of calls (`Chain`), of functions with greater numbers (`Nesting`, which is how the model gives
  every shape of registering once); no function is in two chains.  `ReadyInv`: there is a list of the functions of the page that
  were called, it is the list of those registered as far as the loop came, and what ran is its chains one after the
  other (`Done`, `All`); before the document is ready nothing ran and all wait.  `InOrder` is then a fact about
  filtering such a concatenation (`Kept`), and `AllExecuted` one about how far the loop goes (`Reaches`).
* `Forms_proofs`, of `Validate`.  The account of the open questions is `Asking`: the fields that are pending are counted in
  `pendingRequest`, each was asked about a value, and where nothing is pending the answer that is kept in `valid` is
  about the value in `old`.  `Open(v)` is the set of the requests that this account knows of; those that are open
  were asked last (`Account`), those it knows of are open if none fails, and none else is where aborted requests say nothing
  (`ValidInv`).  Every check keeps the account (`ChecksKeepAsking`),
  though it aborts and replaces requests, and so does an answer (`AnsweredFacts`).  A check after which nothing is
  pending and nothing is wrong has therefore compared each value with the rules or with the answer about that very
  value, which is `FormsValid`.  It supposes that there is no button of class "cancel", which sends without a check, and
  that no count is lost (`NoneLost`): one field asks, or aborted requests say nothing.  With one field an answer of null for the
  aborted request stops the new one, whose value then counts as refused until its own answer comes, so that the form waits; with
  two it is taken for an answer of the other field, as section 4 tells.  Nothing is supposed of the server's answers, their
  order, or the user.  `ValidateTypesAlways` needs `NoneLost` too: a count that is lost is of no field.  `SubmissionsKept` adds `WaitInv`: a submission that
  waits is remembered and no field wants to be asked about, so the last answer decides.  Its theorem assumes what the
  run assumes (`Patient`, no failing request) and one remote field at most: with two of them TLC shows the case of
  section 4.  `AlwaysMarkedAsLabelled` is for rules the page checks by itself: with a remote field a
  label is kept while its field is pending and unmarked.
* `Forms_proofs`, of `FormFields`.  `formToArray` flattens the pairs of each field, so its pairs are those of the fields
  (`FlattenRange`), and as each field gives pairs of its own name only, the semantic order has them by field.
  The other order has the pairs of the pressed image button last, and the same ones.
* `Forms_proofs`, of `FormUpload`.  `SubInv` is what is known of one submission: a callback is called only by what sets
  `invoked`, and one that is about to write into the action posts.  `UploadInv`: `activeUploads` is the number of the
  `Pending` ones, of which a step moves at most one (`PendingOfAppend`, `PendingOfDone`, `PendingOfOther`), and the
  url that an upload writes into the action has one query more than the action had, and from the second one on (`Piled`) only
  what the option `type` of `'GET'` adds: a form whose own method is GET posts once it was uploaded, and before its action has none.
* `Forms_proofs`, of `CreditCard`.  A number is what is before the place of the slip, what is in it and what is behind, and its
  digits are those of the three parts one after the other, so a dash disappears and each other slip changes one digit or two
  neighbours of the digits (`Joined`, `Replaces`, `Differ`).  The sum is what the changed places count and the sum of
  the others, which is the same before and after.  Doubling and taking off the nine is injective on digits, so a digit read
  wrong changes the sum, by less than ten; a swap of `a` and `b` changes it by `a - b`, or by that and nine, which is a
  multiple of ten for zero and nine alone.
* `Forms_proofs`, of `ValidateRules`.  `RulesInv` says that the rules are functions from names of methods to parameters, and
  that a class says "required" and attributes `min` and `max` only.  `RulesFrom` tells for each rule that is left after
  merging and normalising which of the three it came from; the range of two numbers refuses exactly what one of the two
  does (`RangeSaysBoth`), as values that are no numbers are refused by both and the empty one by neither.

Only model-checked: liveness (`Served`, `WorkEnds`, and that requests complete in `RequestsEnd`), which is out of
reach of these provers; `QueryKept` and `SelectionRight`, which speak of trees and documents that recursive operators
walk through; `DisplayKept` as far as it is about animations, whose timers are a list that the interval goes over by index while callbacks
change it (its part `MarkedAsLabelled` is `AlwaysMarkedAsLabelled`); and `PageTypeOK`, the sum of the types of all scripts over the constants of
`MCPage`: those of requests, events, ready functions, forms, uploads and the validator are theorems of their modules
(`AjaxTypes`, `EventsTypes`, `ReadyTypes`, `FieldTypes`, `UploadTypes`, `ValidateTypesAlways`).  `ConsoleTypeOK` is the sum of
the types of `Charts` and `MenuAdmin`, which are theorems too (`ChartsTypeCorrect`, `MenuTypeCorrect`).

## 6. Not modelled

* The drawing of pictures and image maps (JFreeChart), in `ChartUtil` the marks of values 30% off the
  average and the grid of `generateInfoChart`; log wording; `AppMonitorDao.drop`, `ExecutorFactory` and the
  methods of `HttpClientUtil` besides `executeGet`, which nothing calls; the contexts, filters and servlets that
  Jetty is given; the memory-model question whether a plain field is ever seen late.
* In `jquery-1.4.2.js`: changing the document, styles, positions and sizes, browser detection, the emulation of
  submit and change events for Internet Explorer, the selectors named above; `querySelectorAll`, which a
  browser that has it uses instead of Sizzle from the document.
* In the plugins: check boxes, groups of fields and success labels of the validator, and its patterns
  for urls, mail addresses and dates; `load` and the settings of the query plugin; `ajaxFormUnbind` and
  `fieldSerialize` of the form plugin.
* Minified third-party code (jQuery UI, clipboard, date picker), lists of messages, the layout of pages.
