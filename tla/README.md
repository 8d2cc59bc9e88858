# A verification project for recoll

TLA+ models of the concurrent and stateful core of recoll, a desktop search
program (C++): the task queues of its indexer, full passes and partial updates
of the index, the real time monitor, the web page cache and its queue, the
extraction of documents from nested files, mail folders and external filters,
and the control of the indexing process. TLC checks the models on small
instances; TLAPS proves theorems about eight of them for every value of the
constants. Source paths below are relative to `src/src/`.

## The system

| part | state | operations | what is hard | what makes it correct |
|---|---|---|---|---|
| task queues, `utils/workqueue.h` | a queue of tasks, counts of waiting and exited threads, two condition variables, `m_ok` | `put`, `take`, `waitIdle`, `setTerminateAndWait`, `closeShop`, `workerExit` | wake-ups saved by counting who waits; failing workers; spurious wake-ups; termination | no task is lost, done twice or left while workers sleep; `waitIdle` returns when, and only when, all is done; nobody sleeps for ever |
| indexing pass, `index/fsindexer.cpp`, `index/indexer.cpp` | a walker and three stages of threads between queues, a list of purge candidates | `index`, `processonefile`, `indexFiles`, `purgeFiles`, `shutdownQueues` | stages run at the same time; each may fail; an interrupt may come between any two steps; files change meanwhile | after a complete pass the index holds the documents of the present files and no others; a failed pass deletes nothing that is there; a partial update brings the files of its lists up to date |
| index, `rcldb/` | Xapian database, `updated` (a bit for each document), write queue | `needUpdate`, `addOrUpdate`, `purge`, `purgeFile`, `purgeOrphans`, `open`, `close` | bits set by three kinds of threads and trusted by the purge; read errors; merge of temporary indexes | a bit is off only for a document whose file is gone |
| real time monitor, `index/rclmon*` | kernel queue, map of watches, queue of events, delayed events with their times, two lists | receive, walk new directories, push, pop, purge, index | the tree changes at every moment; an event replaces another; the map of watches lags behind the kernel | every directory is watched; a change reaches the index in the end; delayed files are indexed once in a while |
| tree walker, `utils/fstreewalk.cpp` | queue of directories, skipped names | `walk` | directories that go away | every file is visited once |
| web cache file, `utils/circache.cpp` | a circular file, its first block, a map from hashes to offsets in each open handle | `create`, `open`, `get`, `erase`, `put`, `rewind`, `next` | recycling; a change of the size; several handles; block, map and file disagree | the file can always be walked; what was put last is found until its place is used again |
| web queue, `index/webqueue.cpp`, the web cache editor of `qtgui/` | pages in a directory, the cache, the documents, the bits | full and partial passes, previews, erasure of entries | the cache forgets pages; a crash after a page left the queue | a page leaves the queue only when the cache has it; every page of the queue gets there |
| document handlers, `internfile/` | a stack of handlers with temporary files; a pool of handlers; for mail folders a file of offsets | `internfile`, `next_document`, `skip_to_document`, `getMimeHandler` | handlers are used again; the file differs from the one that was indexed; limits of height and loops | each document is indexed once, and its path leads back to it and to no other |
| external filters, `internfile/mh_execm.cpp`, `utils/execmd.cpp`, `filters/` | two pipes, a child that outlives the file, a position in the open file | requests and answers, time limit | a child that exits, hangs or says too much, in the middle of an answer | an answer is that of its question; a call comes back |
| process, lock and control, `index/recollindex.cpp`, `utils/pathut.cpp`, `qtgui/rclm_idx.cpp`, `qtgui/rtitool.cpp` | the lock on `index.pid` and the number in it, the status file, flags set by signals, the interface's idea of the indexer | start, daemon, pass, monitor, re-execution, stop, probe, bump | the process replaces itself; signals at every moment; the interface takes the lock to look at it | one indexer at most; a stop request reaches it and nobody else; the interface knows whether it runs |
| query side, `query/`, `rcldb/rclquery.cpp` | document sequences stacked on each other, windows of results | `getSeqSlice`, filters, sorts | little: one thread, data | a page shows the results of its window |
| the rest | - | configuration, text splitting, unaccenting, mail parser, spelling, bindings, other front ends | - | not modelled, see below and `PROJECT.json` |

How they interact: the walker puts files on `m_iwqueue`; the internfile workers
compare them with the index (`needUpdate`), extract documents through a stack of
pooled handlers, some of which talk to a filter, and put them on `m_dwqueue`;
the split workers make Xapian documents of these and put them on the write
queue; one thread writes. `ConfIndexer::index()` then waits for the three
queues, runs the web queue, and purges what has no bit. The monitor runs a full
pass first, executes itself again to shed memory, then starts the receiver,
which shares `RclMonEventQueue` with the main thread; the main thread calls
`purgeFiles()` and `indexFiles()` for lists of files. The graphical interface is
another process: it starts and stops the indexer through its number in the lock
file, opens the web cache, the offsets of mail folders and the index beside it,
and takes the lock while it edits the web cache. `stopindexing` and
`CancelCheck` are read by all of them.

## The modules

| module | models | state and actions |
|---|---|---|
| `TaskPool` | the contract of a task queue | tasks are waiting, running, done or dropped; a client may learn that the pool is quiet only when it is |
| `WorkQueue` | `utils/workqueue.h` | one variable for each member (`m_queue`, `m_ok`, `m_workers_waiting`, ...), the wait sets of the two condition variables, a program counter for each thread. An action is one critical section: what a call does between taking the mutex and either releasing it or waiting |
| `IndexPass` | `index/fsindexer.cpp`, `index/indexer.cpp`, `rcldb/` during a pass | the tree (`disk`), the index (`index`, `failed`), the bits (`known`, `updated`), three queues reduced to their contract, and the threads of each stage. Documents are a file's own and those inside (messages, archive members). A worker may fail, the index may be unreadable |
| `PartialUpdate` | `FsIndexer::indexFiles()` and `purgeFiles()`, `ConfIndexer`'s of the same name, with `rcldb/` | the two lists, the candidates (`candidates`), a job for each file with the signature of its `stat`, documents and deletions on the write queue; files change at any moment. `carried` remembers the candidates of earlier calls, `cut` the files of which a part of the work was lost and that no later call has made good; a document may be lost alone, and each call has a new writer |
| `Monitor` | `index/rclmonprc.cpp`, `rclmonrcv.cpp`, `rclmonrcv_inotify.cpp` | the tree and the user's changes, the kernel's queue and watches (external, from how inotify is used), `m_idtopath`, the receiver and its walks, `m_iqueue`, `m_dqueue`, `m_delays`, the main thread's lists and the index |
| `CirCache` | `utils/circache.cpp` | operators on a file (a sequence of cells: headers, bodies, padding), the first block and a handle's copy of it and map: `Create`, `Open`, `Scan`, `Get`, `Erase`, `Put`, `NextEntry` |
| `WebArchive` | the contract of the cache | a sequence of versions of pages: a new one replaces the page's older one and may push out the oldest |
| `WebQueue` | `index/webqueue.cpp`, the editor of `qtgui/webcache.cpp`, previews | the queue directory, the cache through `CirCache`, the documents (and those on disk, for a crash), the indexer's and the editor's handles, the walk of the cache and of the queue. A preview calls `create()` in up to three steps, between which the others go on: it reads the first block, scans the file, writes the block back (`view`). Refines `WebArchive` (`ImplementsArchive`) |
| `Mbox` | `internfile/mh_mbox.cpp` | folders as sequences of lines, the saved offsets, the documents of the last pass; one call of `next_document()` is an operator, `Call`, used by passes and previews. A preview opens the folder, reads a message and saves offsets in three steps (`view`); what it opened may have been rewritten and passed meanwhile |
| `Interner` | `internfile/internfile.cpp`, with the handlers' ways to go to a document | the file is a node of a forest, the stack of handlers, the temporary files, the documents found with their paths; one step is one turn of the loop of `internfile()` |
| `FilterDialog` | `internfile/mh_execm.cpp`, `utils/execmd.cpp`, `filters/rclexecm.py` | the handler in the pool or in use, the child, requests and answers in the pipes, element by element |
| `IndexerLock` | `index/recollindex.cpp`, `Pidfile` of `utils/pathut.cpp`, `ReExec`, `qtgui/rclm_idx.cpp`, `rtitool.cpp` | a record for each process from exec to its end, the lock and the text of the lock file, `hasmonitor`, what the interface and `recollindex --stop` do with the file, `m_indexerState` and the child of the interface |
| `MC...` | | the instances for TLC: functions that a configuration file cannot write |
| `WorkQueue_proofs` | | structure invariant, types, counters, bound, wake-ups; every accepted task is in one place, what the return of `waitIdle()` means, the queue implements `TaskPool` |
| `IndexPass_proofs` | | types, the drained queues, what the purge deletes, what a complete pass leaves |
| `PartialUpdate_proofs` | | what the calls leave of each file, what is never deleted |
| `Monitor_proofs` | | types, the order of the delays, what a quiet index holds |
| `Mbox_proofs` | | what a call reads of a folder; whole passes, whole messages, the right preview |
| `Interner_proofs` | | types and temporary files, the way from a path back to its document, that indexing extracts what a file holds |
| `FilterDialog_proofs` | | types, the pipes between two documents, whose the answers are |
| `IndexerLock_proofs` | | types, mutual exclusion, the number in the file |

`IndexPass` does not instantiate `WorkQueue`: three queues with all their wait
sets are out of TLC's reach. It uses what `TaskPool` promises (`Offered`,
`Pushed`, `Popped`, `Drained`), and the run `workqueue` shows that `WorkQueue`
implements `TaskPool` on an instance, the theorem `QueueIsPool` for every number
of threads and tasks. `WebQueue` is `CirCache` with its users. `Interner` and
`FilterDialog` meet at `next_document()`: what one calls a failure of a member
is what the other returns.

Definitions under a comment that begins with "Mutant" or "Faulty" are plausible
bugs: nothing uses them, except to show that the property listed with them in
`PROJECT.json` would notice.

## The runs

| run | what it asks | result |
|---|---|---|
| `workqueue` | three workers, two clients, three tasks, queue of one | all invariants hold, `WaitIdleMeansQuiet` holds, `TaskPool` is implemented, `put()` and termination come back, and `waitIdle()` unless the workers desert the queue |
| `index_pass` | one pass, every fault, two workers per stage, queues of one | the purge deletes what is gone, and of present files only those left halfway or untaken by workers that gave up; a complete pass is exact; nothing runs after the waits |
| `index_pass_purge` | are the bits right when the purge runs? | violated: a worker that fails after the last `put()` of the walk is not noticed |
| `partial_update` | the monitor's calls, and one command with a purge, on files that change meanwhile, every fault | the index follows the files; nothing that its file holds is deleted, with named exceptions; the index catches up |
| `monitor` | the first walk and two changes at any moment | the delays list is valid, the index catches up |
| `monitor_watches` | is every directory watched once the events are read? | violated: a directory created during a walk is not walked |
| `web_queue` | browser, full and partial passes, editor, previews, a change of the size, crashes | the file can be walked, the map is exact, the archive is implemented, a page leaves the queue when it is in the cache, all do unless the cache refuses; until a preview writes an old block back |
| `mbox` | a folder rewritten among eight contents, of Thunderbird or not, passes and previews | a whole pass lists the messages, a preview shows the right one unless offsets saved late mislead it, and always a whole one |
| `interner` | a forest of nested files, indexed and previewed, with handlers that come and go | each document once, its path leads back to it, temporary files match, every call ends |
| `filter_dialog` | three uses of a handler for two files, two troubles of the filter | nothing is left in the pipes, answers match, calls come back |
| `indexer_lock` | two processes, interface, `--stop`, one change, dialog, stop or kill | one indexer, its number in the file, a stop in time ends it, the interface catches up |
| `indexer_lock_all` | is what is signalled a process? | violated: the dialog calls `kill(-1)` when the lock file is empty |

Bounds. Queue: with two clients, one in `put()` and one in `waitIdle()`, a
notification can go to the wrong one; a queue of one with three tasks makes two
putters wait for one place while a third task runs; and of three workers one can
fail while two sleep: 369,261 states. The theorems say the same of any numbers. In
`IndexPass` two files, one of which is a container, give every combination of
new, changed, unchanged, failed and gone; queues of length one make every
`put()` wait; two workers per stage let the order of documents change:
4,102,523 states. In
`PartialUpdate` a container has four versions (with one subdocument, with none,
with another one and with the same) and an ordinary file one: 925,562 states. In
`Monitor` a
directory and three files let a file be changed beside, inside and with its
directory; two changes with an initial walk are enough to replace an event, to
reuse a path, and to change a file between event, `stat` and write; two delayed
files give the list of delays an order to keep. `MonitorMoves.cfg` gives up
the delays and the liveness for a second directory and four changes: the file
removed, its directory moved away, one of that name made with the file, and one
more to be walked meanwhile. The theorem says the same of any tree and any
number of changes. In `WebQueue` three pages, two
with the same hash, in two versions, with two sizes of the cache (4 and 6 cells
beside the first block): one entry of three cells fills most of it, so that
entries are overwritten from the second page on, and the size grows and shrinks
with entries on both sides of the write position; three saves, three events
(editor, preview, size, crash, interruption) and two waiting pages: 555,506 states. In
`Mbox` the eight contents have messages of one to three lines in two orders,
one too large, one without its empty line, two From_ lines in a row and a
folder that does not begin with one; three changes let offsets be two contents
old; one preview at a time, begun and ended at any moment: 1,989,652 states. In `Interner` the stack is 4 high and a file may loop 3
times, and the forest of 20 nodes has a branch higher and a run of skipped
members longer than that; two changes: 141,707 states. In `FilterDialog`
`MaxElements` (200 in the code) is 2: 65,385 states. In `IndexerLock` the second
process is never a monitor; one event and what the processes do to each other:
186,626 states, and the theorems about any number of processes and events.
`MaxPasses`, `MaxChanges`, `MaxSaves`, `MaxEvents`, `MaxUses`, `MaxTrouble`,
the versions, the lengths of the queues and `Interval` are bounds of the models;
the lengths of the queues, `MaxHandlers`, `MaxLoops`, `MaxElements`, `MinSize`
and `MaxSize` stand for constants of the code.

Most modules with theorems have their type invariants proved and not among the
runs; in the others the type invariant is a part of a structural property
(`ChainClosed`, `UpdateIsExact`, `OnlyWholeMessages`, `TempFilesMatch`,
`NothingLeftOver`).

`CHECK_DEADLOCK` is off wherever the system may really stop: queues that are
terminated, indexers that have ended, files that do not change any more.

Other configurations. `MonitorMoves` checks `QuietMeansExact` on a larger tree
than `monitor` and passes, in 1.7 million states. The other files `.cfg` that
are not in the table find each a property that a comment, the manual or the
usage states and the code does not keep; `PROJECT.json` names them with the
finding. Run one with `tlc -config X.cfg MCy`:

| configuration | property | what TLC finds |
|---|---|---|
| `WorkQueueHang` | `WaitIdleAlwaysComesBack` | with three workers, one that fails leaves two asleep in `take()` and `waitIdle()` waits for ever |
| `IndexPassRestart` | `RestartRestores` | an interruption between a container's own document and its subdocuments is not repaired |
| `MonitorOverride` | `OverrideIsHarmless` | a directory moved away and made again: its old files stay in the index |
| `MonitorThrottle` | `RateLimited` | the second event for a delayed file loses its interval |
| `MboxShrunk`, `MboxSmall`, `MboxInner` | `MessagesFound`, `SmallNotCached`, `OffsetsAreOwn` | offsets past the end, of a folder that became small, of another folder |
| `InternerAsked`, `InternerErrors` | `PreviewIsAsked`, `FileGoesOn` | a preview shows the next attachment; a member that fails ends the archive |
| `FilterDialogStall`, `FilterDialogUnread` | `TimeIsLimited`, `QuestionResponse` | a filter that stops inside a document is waited for without limit; the rest of a long answer goes to the next file |
| `IndexerLockStop`, `IndexerLockStruck`, `IndexerLockRequest` | `StopHonoured`, `StopsIndexer`, `RequestServed` | a stop lost in a re-execution; `--stop` ends the interface; a request for a pass that nobody serves |
| `IndexerLockLast`, `IndexerLockProbe` | `Restarts` | a monitor with `-n` as its last argument faults; one finds the lock taken by a probe, and ends |

## Assumptions, and what is left out

Assumed of callers. The clients other than the owner have left the queue
before it is terminated (the destructors of `FsIndexer` and `Db::Native` run in
the thread that waits); `NoStuckPutter` and its theorem are about the low water
mark of 1 that every user of the queue gives; the queues of `IndexPass` come
back from every call, the opposite of which `WorkQueueHang.cfg` shows.

Left out of `IndexPass`: changes of extended attributes only, `noretryfailed`,
in place reset, other backends' bits, temporary indexes, the shallow first
pass, a crash during the pass, and files that the configuration excludes. Left
out of the others: see the header of each module. The order in which immediate
events are popped is open in `Monitor`, the lists being sorted afterwards; a
walk reads a directory in one step and looks at each file again when it pushes
it, as the code does with `readdir` and `stat`. The overflow of the kernel's
queue and an unreadable index in `subtreelist()` are not modelled there. A crash
inside `put()` after the header was written again is not modelled in `WebQueue`:
the code says itself that it breaks the file. `create()` of
the indexer and of the editor is one step there: the two share the lock of the
indexing process, so that only a preview can come in between, and the steps of
the preview are the model's. In `Mbox` a last line without a line end, which the
code drops, does not occur, and the file of offsets is written in one step but
for a kill. `FilterDialog` has no transition for a use that the caller abandons
between two documents. `IndexerLock` takes the
modification time of the configuration for a flag, and leaves out `-D`, the
wait before the first pass, X11 and batteries. `recollindex -m -P`, which asks
for a purge after each partial update and would delete everything that was not
in the list, is not one of the ways the manual gives to start a monitor and is
not modelled: `PartialUpdate` has the purge with the command only.

### Not modelled

- The pool of handlers (`mimehandler.cpp`): `Interner`, `Mbox` and
  `FilterDialog` take a handler in use for their own; its LRU list is a hazard
  on record.
- The cache of uncompressed files, the paging of long texts, the extraction
  inside each handler, the mail parser, text splitting, unaccenting, encodings,
  configuration, the query language: functions of data. A model would be the
  function again.
- Opening, closing and merging of indexes with temporary indexes: off by
  default.
- The query side: sequences of results in one thread, over data of Xapian.
- `simdutf`, `miniz`, `catch`, `unac.c`, the generated parsers and SWIG
  wrappers, Qt forms, tests, documentation: generated or adopted code, half of
  the lines of the repository. The share of the code that the models cover is
  small for that reason and because they are about control, not extraction.

## Fairness

`WorkQueue`: weak fairness of each thread outside the wait sets: a thread that
can get the mutex runs. It does not include spurious wake-ups, so that a
sleeping thread needs its notification. Clients need not call anything.
`Monitor`: both threads run and time passes; the receiver is treated with
strong fairness because the main thread gives up the mutex for two seconds at
each wait; the processing of the lists is strongly fair because it is done
whenever `monixinterval` is over, while a look at the lists before that only
goes back to waiting. `PartialUpdate`: the main thread, the write thread and the
worker of each file run. `WebQueue`: a pass that was begun is taken to its end,
one begins when pages wait (the monitor or cron does that), and the editor,
which keeps indexers out, is closed in the end. `Interner`: `internfile()` goes
on once it is called. `FilterDialog`: the handler runs, with its time limit, and
the filter runs unless it hangs. `IndexerLock`: each process runs, a question to
the lock file and a dialog are answered, and the timer calls `periodic100()`.
The user owes nothing, and `IndexPass` and `Mbox` are checked for safety only.

## What the properties say

`WorkQueue`. The counters are those of the threads (`CountersMatchThreads`):
every decision to notify is taken from them. A task is in one place
(`EachTaskInOnePlace`). No wake-up is lost: not for a worker
(`NoStrandedTask`), not for a putter (`NoStuckPutter`: `take()` wakes a single
client, which may be the wrong one). `WaitIdleMeansQuiet`: when `waitIdle()`
returns nothing runs. `NoForgottenWaiter`, the same for `waitIdle()`, is a
theorem; the run checks that it comes back unless the queue is deserted: a
worker failed, tasks are left, and the other workers sleep in `take()`. There
`waitIdle()` does hang, as `WorkQueueHang` shows.

`IndexPass`. `OnlyTheGoneArePurged`: a document goes only when its file, or it
inside its file, is gone, or when this very file was left halfway (`cutshort`:
its handler failed after the file's own document, the index could not be read
for it, or a worker gave up with it or with one of its documents) or untaken, on
a queue that all the workers had left (`Untaken`). It holds in passes in which
workers gave up too: what they did not have is kept. `CompletePassIsExact` is
the converse for what is left, and excepts the same files, those beneath a file
that failed, and passes in which a worker gave up: there the note that a file
failed may itself be lost, and with it the reason why older documents stay.
The code does in these cases what its comments say it must not:
`index_pass_purge`, `IndexPassRestart` and the list of findings are about them.

`PartialUpdate`. `UpdateIsExact`: between two calls the index has the present
text of every file without an event, though files change between `stat`,
extraction and write, because the signature is that of the `stat`. `HeldIsKept`
names the three ways in which a subdocument that its file holds is deleted:
candidates carried over from an earlier call, a purge after a call that was cut
short or that lost a part of the file, and the deletion of a file that is
there again and listed. Excepted are files whose handler failed (`plus`, the
mark for a retry) and those of which a part was lost (`cut`). A loss is of one
document, whatever becomes of the others, and counts for its file only, until
a later call has done the file again with nothing left over (`Repairs`). When
it was the file's own document that was lost, the next call does not know that
the file was there before and does not look for orphans: the file stays `cut`
as long as there are any, which is one of the findings.

`Monitor`. `QuietMeansExact`: when no event is on its way, the index is the
tree. The files excepted are those a change of which no watch reported or whose
watch the receiver had lost (`missed`), and those whose directory's deletion
was replaced in the queue (`overridden`); `monitor_watches` and
`MonitorOverride` are about these exceptions. A file is missed until a listing
or the indexer meets it, with two reservations that `monitor` is too small to
need and that the proof asked for. The files of a directory whose creation is
read during another walk are missed even if they were listed: the events read
with it may hold the deletion of an older directory of that name, which is
processed after the listing. And a file that the indexer meets stays missed
while such a deletion waits. `MonitorMoves.cfg` reaches both. `MonitorSettles` says that the
index gets there.

`WebQueue`. `ChainClosed` and `MapExact` are what every other operation of the
cache relies on, for the indexer's handle and for any new one, after recycling,
resizing and erasures by another process. `ImplementsArchive` is the contract.
`LeavesQueueCached`, `FullPassAgrees` and `QueueDrains` join queue, cache and
index. Excepted are pages that share their hash with another one once the size
was changed (`Muddled`: an older version may survive the newer one), texts lost
in a crash before the flush (`outdated`), and a cache that refuses pages, which
by `RefusedOnlyAfterErase` happens only once its newest entry was erased. And
nothing is claimed once a preview has written back a first block that is not the
one it would write if it read the file again (`raced`): the code has no lock
against that, the properties are violated then, and a finding describes it. What
they say is that previews at all other moments do no harm, those included
that were begun before and write the same.

`Mbox`. `WholePassListsAll` compares the scan with a definition of messages
without one; `PreviewIsRight` and `OnlyWholeMessages` are about offsets of any
age, written by two processes or cut by a kill. A preview that opened an older
content may save its offsets after a whole pass over the new one, and a folder
inside another file is served with the offsets of what its handler served before:
the cache is then `astray`, and a preview that follows such offsets `misled`.
`PreviewIsRight` excepts that preview, because the code does show another
message (two findings); `OnlyWholeMessages` does not. `Interner`. `IndexIsExact`
compares the loop with a recursive definition of what a file holds;
`PreviewIsExact` says that the path given by indexing leads back, through
handlers that skip in three different ways. `FilterDialog`. `AnswersMatch` and
`NothingLeftOver`: children die and hang between any two elements, and still no
answer goes to another question, except after one with too many elements
(`unread`); `ComesBack` excepts a filter that hangs inside a document
(`Blocked`).

`IndexerLock`. `OneIndexer` holds across re-executions, where the lock is free
for a moment; `StopFindsIt`: whoever reads the file while the index is open
finds the writer. `StopEnds` excepts a request that comes after the last test
before a re-execution (`Past`). `GuiCatchesUp`: once nothing happens the
interface is right.

## What is proved

About the queues, for any finite sets of workers and clients, any tasks and
any bounds (assumptions `ThreadsAssumption` and the others of `WorkQueue`):

- `TypeCorrect`, `CountersExact`. The type invariant is not inductive: that a
  counter is not decremented below 0 depends on the waiting threads being
  counted. `Structure` adds to it where each thread may be when the queue is
  initialised, running or terminated, and that the counters are cardinalities of
  sets of threads; it is shown for each action from lemmas on the cardinality
  of a set with an element more or less.
- `BoundHolds`: the queue is within its bound, because the condition is tested
  again after a wait.
- `NothingStranded`, `NobodyForgotten`, `NoPutterStuck`: the wake-ups, by an
  invariant each, over `Structure`. Who is in a wait set is among those who are
  counted; a step that makes a condition true notifies, or leaves awake a
  worker that will.
- `NoTaskLost`, by `OnePlace`: no task is twice in the queue, in two hands or in
  both; the tasks that were given and have not run are those; and what a putter
  that sleeps will push is new. The counts of `EachTaskInOnePlace` follow from
  the absence of duplicates, and are not inductive themselves.
- `IdleMeansQuiet`. When `waitIdle()`'s condition is false the counters say, by
  `Structure`, that every worker waits or is gone. That nothing is left on the
  queue, or that a failure is the reason, needs to know why a queue may be
  aborted: `AbortsExplained`. It also says that the owner is the last client.
- `QueueIsPool`: the mapping takes the tasks in the hands of the workers for
  those running and the clients whose `waitIdle()` returned for those told.
  Each action is one step of the pool or none, over the three invariants above.

About a pass, for any files, contents, workers and lengths of the queues:

- `PassTyped`; `NothingRuns` by `Drains`: a stage whose queue was found drained
  has no worker with a job and nobody left to give it one, because the stages
  are waited for from the first to the last.
- `PurgeSafe` by `Flows`: until a file's documents have their bit the file is
  still to be walked, on a queue, or in a worker's hands with what it has yet
  to mark, or it was cut short: a worker that gives up cuts short the file it
  has, or that of its document, and no other (`SplitGoes`, `WriterGoes`). When
  the walk is complete and nothing runs, what is still coming can only be on a
  queue that all the workers had left. There is no exception for passes in which
  something failed elsewhere.
- `FirstPassExact`: `CompletePassIsExact` of the first pass over an index that
  a complete pass over an older tree left (`Consistent`: the subdocuments of a
  file have its signature, and all of them are there). By `Exacts`: while the
  pass goes on each document of a present file is right, or its file has yet to
  be looked at, or the right text is on its way to the writer, one for each
  name; what is gone has no bit. A failure of a handler shields the documents
  of its file, and it is noted in the index, or on its way there, until the
  purge (`FailNoted`). The theorem is about the first pass because the
  property is not true of every later one: after a pass that was cut short the
  signature of a container says nothing of its subdocuments, which is what
  `IndexPassRestart` shows; the run `index_pass` has one pass.

About partial updates, for any files, subdocuments, versions and sets of faults
(`FilesAssumption`), and whatever changes between any two steps:

- `UpdatedIsExact` by `Updates`, which says of each file (`FileOK`) what the
  index, the documents in flight and the job of its worker have to do with each
  other. Its centre is the pair of `UpToDateIsComplete` (what `needUpdate()`
  would take for up to date has all its subdocuments, in their present text or
  in flight, and any others have another signature and are recorded to be
  deleted as orphans) and `ProcessedIsNow` (a file that no event and no list
  names, and of which nothing was lost, has the signature of its present
  version, unless its handler failed). The rest is what these two need: a
  signature is never younger than the text (`Versioned`), a file is on one list
  or with one worker at a time (`Timely`), what a worker has done is a prefix
  of a whole version (`Extracted`), there is no subdocument without its
  file's own document, unless that was lost (`Rooted`), a file that is gone has none
  (`GoneIsEmpty`).
- `WhatIsHeldIsKept`, that is `HeldIsKept`, from the same invariant: a purge
  meets no document of a file that was processed (`FailedIsSeen`,
  `ProcessedIsNow`), and the deletion of the orphans of a file that this call
  recorded (`NewIsProper`) meets a complete one.

About filters, for any files, any number of documents and of restarts
(`DialogAssumption`): `NothingIsLeftOver` and `AnswersAreOwn`
by `Dialogue`. What the handler has read, what is in the pipe and what the child
has yet to say are, end to end, one answer to the question that was asked, cut
short if the child died (`OnePiece`); the position of the child in the file is
that of the handler (`InStep`), which starts it again whenever that may not be
so. Once an answer was given up (`unread`) nothing of this is claimed, only that
an answer still owed was paid for by a use (`Pending`), which the types need.

About the monitor, for any tree, any delayed files and any number of changes:

- `MonitorTyped`, and `DelaysSorted` by `InOrder`: `delayInsert()` keeps the
  list sorted, and a push or a pop of an entry changes list and queue together.
- `QuietIndexIsExact`, that is `QuietMeansExact`, by `Settled`, which follows a
  change from the kernel to the index. `Ordered` is about the kernel's queue: a
  deletion of a file that is there is followed by an event that brings it back,
  a write of one that is gone by a deletion, and a watch is lost with an event
  for its directory; only the last word counts, so a push that replaces an older
  one is harmless, but for the exception. `Tracked` says of each file where its
  last word is: a file that is there and that something will remove from the
  index, or that is wrong in it, is still to be pushed, waits, or is in the list
  (`Present`); of one that is gone and in the index, or about to be written, the
  deletion is on its way (`Absent`). `TopOK` says that the watch of the top
  directory is placed first and never lost, so that the creation and the loss of
  a directory are always told, and in their order. The property is not inductive:
  it says nothing of a state that is not quiet.

About the indexing processes, for any finite set of them and any number of
events (`LockAssumption`): `TypeCorrect`, `LockExcludes` and `NumberIsWritten`
by `IInv`: a process between the success of the lock and its end or its exec,
and an asker that truncates, writes or closes, is the one that holds the lock;
from the writing of the number to the exec the file has the number of that
process. `OneIndexer` alone says nothing of who has the lock, so that it is not
inductive.

About mail folders, for any folders, contents, sizes and number of changes
(`MboxAssumption`), by `FolderSafe`:

- The lemmas say what one call of `next_document()` reads (`CallMessage`,
  `CallBeyond`): from the line of a separator with the right number before it
  the next call gives the message of the next number, and puts the handler
  behind the separator of the one after. Numbers are counts of separators; that
  there is a separator of each number up to the count (`RankIsOf`) is an
  induction, made with the least element of a set of naturals.
- `WholePass`, that is `WholePassListsAll`: while a pass goes on, the messages
  it has listed are those up to its place (`PassOK`); when it reports the end
  of the folder, the last one is among them, and the offsets that it saves are
  those of all separators of this content (`IndexOK`, unless `astray`).
- `WholeMessages`, that is `OnlyWholeMessages`: offsets of any age are offsets,
  and a preview tests the line it was sent to before it reads from it, else it
  scans, so that what it shows begins at a separator and ends at the next.
- `PreviewRight`, that is `PreviewIsRight`: of a folder that is a
  file of its own and was passed to its end in its present content the cache has
  the offsets of this content, or none (`IndexOK`), unless a preview saved others
  since (`astray`);
  what a preview reads by them is the message it was asked for, and what it reads
  without them it has counted to. A preview that is between its opening and its
  saving holds the offsets of what it opened, not of the folder as it is
  (`view`); that is why the invariant speaks of contents and not of folders. The
  theorem is about any folders, those inside other files too.

About nested files, for any forest of them, any handlers and any limits
(`InternerAssumption`):

- `TempFiles`, that is `TempFilesMatch`, by `Typed`: the file of a handler has
  the rank of the handler's flag among those that are set; a push adds the last
  rank, and what is popped are the last ones.
- `PreviewLeadsBack`, that is `PreviewIsExact`, by `Retraced`. A route through
  a file is a sequence of handlers, each with the place of the document that the
  next one is for (`LeadsTo`). While indexing goes on the stack is a route
  (`Climbs`), so that there is one to each document of the index; a preview
  follows it step by step (`Follows`): at each stage the new handler goes to the
  place of the route and nowhere else (`StageFound`), by an element, because
  these are distinct, or to its first document, because a document without an
  element is the first. The hypotheses are that the members of each file have
  elements of their own (`Addressed`), which messages and attachments, that are
  counted, have, and members of an archive have if no two bear the same name,
  and that the loop may turn as often as the stack is high (1000 and 20).
- `IndexingExtractsAll`, that is `IndexIsExact`, under `Addressed`, by
  `Extracted`. What a file holds is a function that calls itself for the files
  inside; that there is one follows from the least depth at which there would
  be none (`HeldIs`). At every step of indexing, what the file holds is what is
  in the index, and for each handler on the stack what follows its place
  (`Splits`), no path twice. A turn shares what the top had to give out among
  the document it goes on to and those after (`RestAdvanced`); this document
  holds itself, and is returned, or nothing, and is passed over, or what a new
  handler has to give. A handler that is popped, after a failure or because it
  says that it has nothing more, has nothing to give (`Walks`, `RestNone`), so
  that with an empty stack all is in the index. TLC has checked `Extracted` on
  the instance of `Interner`.

Only model-checked: all of `WebQueue`, because the walk of the cache file is a
recursive operator; and liveness, which is out of the prover's reach.

## Findings

`PROJECT.json` lists them with their lines, and the two tables above say which
of them TLC shows. Those without a configuration were met while modelling and
are the reasons for the exceptions above: the error after a container's own
document, `needUpdate()` on a read error, the candidates that are carried
over, the purge after a call cut short, the container that lost all its
subdocuments, the file that lost its own document only, the size of the
directory taken for that of the cache, the block that is not written after an
erasure, the block that a preview writes back over that of the indexer, the
offsets that a preview saves after a pass over a newer content, the queue that is
empty when it is not, and the prefix that erases the watches of other
directories. Each hazard of `PROJECT.json` that is one of these says so in its
note, and names a property only for what that property still claims.

## The plan

1. Done: task queues, indexing pass with read errors, partial updates, monitor,
   web cache and queue, mail folders, stack of handlers, dialogue with filters,
   lock and control of the process; proofs about the queues, the pass,
   the partial updates, the monitor, the mail folders, the stack of handlers,
   the filters and the lock.
2. The pool of handlers with its LRU list and limit, shared by threads, under
   `Interner` and `FilterDialog`.
3. `Db::close()` with temporary indexes: merge, rename, remove, with a crash
   between any two steps, and what the next `open()` finds.
4. The sequences of results: filter and sort over a window of a query.
5. Proofs: the pairs of `WebQueue` and `CirCache` that need no recursion.
