# Crowler and its search engine in TLA+

This directory models and verifies the search system of this repository: the
crawler program (`crowler`), which follows links to a given depth and fills an
index in PostgreSQL, and the `search_engine` program, a web server that answers
searches from that index. The modules are written from
`src/CMake/_sources` and the two `main.cpp` beside it; `src/MSVS` holds the
same sources for Visual Studio. Line numbers below are those of the CMake copy.

Contents: [the system](#1-the-system) · [the modules](#2-the-modules) ·
[the runs](#3-the-runs) · [fairness](#4-fairness) · [what is proved](#5-what-is-proved) ·
[disagreements found](#6-disagreements-between-code-and-its-own-words) ·
[what is not modelled](#7-what-is-not-modelled) · [plan](#8-plan)

## 1. The system

| Part | State it keeps | Operations | Hard about it |
|---|---|---|---|
| `SafeQueue<T>` | `std::queue`, a mutex, a condition variable, an atomic flag that mirrors emptiness | `push`, `pop` (waits at most one second), `empty` (no mutex) | flag and queue change one after the other; one `notify_all` wakes all waiters for one element; spurious wake-ups and expiring waits |
| `ThreadPool` | its `jthread`s, a latch, a `stop_source`, a `SafeQueue<std::function>` | constructor, `submit`, the `work` loop, destructor | a worker leaves on two unsynchronised reads; nothing is notified of the stop request; tasks submit tasks while the pool is being destroyed; thread creation may fail |
| `Crowler` | the pool, a pointer to the database, the regular expressions, the counter `_working` of visits being made | `start`, `parseOnePage` with `getHtmlContent` and `httpCodeHandle`, `isWorking`, destructor | a visit submits visits and may fail in a dozen places; the counter is raised and lowered on every path; members die in the reverse order of their declaration while tasks still run; how a page's links and text are taken apart by prefixes and regular expressions |
| crowler `main()` | | reads the ini file, starts the crawl, polls `isWorking()`, destroys | polls a counter that says nothing of queued work |
| `CrowlerDatabase` | three PostgreSQL tables, one connection per call | `createTables`, `addOnePageData` (called by all workers at once), `getLinksOnWordsRelevance` | a page takes 2n+1 transactions that interleave with those of other workers and may break off anywhere; ids travel from one transaction to the next |
| `HttpServerCoro` | one `io_context` on one thread, a coroutine per connection | accept, read, answer, write | a blocking query in a coroutine; exceptions that leave `io_context::run`; an accepting coroutine that ends on any error |
| `ParserIniFile` | an `ifstream` that throws on `failbit` | `setFile`, `getValue` | scans to the end of the file after it has found its value; the end of the file is where the stream fails |
| search_engine `main()` | | reads the ini file, starts the server | |

How they meet: `main()` owns `Crowler`, which owns the pool; `start` and every
`parseOnePage` call `ThreadPool::submit`, which calls `SafeQueue::push`; every
worker calls `SafeQueue::pop` and runs what it gets. `parseOnePage` calls
`addOnePageData`, so that as many of these run at once as there are workers. The
server program shares nothing with the crawler but the tables.

What has to be right, part by part:

* **SafeQueue** is a linearizable FIFO queue: concurrent calls look as if they happened one at a time.
* **ThreadPool** runs every submitted task exactly once; its destructor drains the queue, returns, and leaves nobody behind.
* **Crowler** visits everything within reach of the start page and nothing else, loses no more than what lies behind a page that failed, counts the workers inside a visit exactly, and does not outlive its own members. Links lead where the page meant, and the words of a page are those a reader sees.
* **Indexing** leaves, whatever interleaves or fails, rows that refer to each other, one entry per link and word, and nothing that no crawl has found; what is reported as stored is stored. The tables outlive a run (`CREATE TABLE IF NOT EXISTS`, and nothing drops them), so all this is beside what earlier runs have left. When the program ends, every page read without a failure has been stored, and can be found under each word it was stored with, by a count that a visit of this run has read; its title may be an older one, and words it has lost since an earlier run, or an earlier visit, are still there.
* **Search** shows links that were crawled with a matching word, and shows what was reported as stored, the most relevant first, and for good, unless others as relevant fill the limit; a request that was read is answered.
* **ParserIniFile** gives a parameter the value of its last assignment, and refuses a file exactly for its defects.

The dangerous places in the code are listed one by one, with the property that
watches each, under `hazards` in `PROJECT.json`.

## 2. The modules

```
 AtomicQueue  <--implements--  SafeQueue + SafeQueueClients
                                   |
                                EXTENDS
                                   v
 TaskPool     <--implements--  ThreadPool
    |
 INSTANCE
    v
 Crowler --EXTENDS--> CrawlIndex --INSTANCE--> PageIndex
    .                                              ^
    . Web, Texts                               implements
    .                                              |
 PageContent                                CrowlerDatabase --EXTENDS--+
                                                                       v
                                            HttpServerCoro --EXTENDS-> SearchEngine
 ParserIniFile                                                         |
                                                                    EXTENDS
                                                                       v
                                                                  SearchHistory
```

**AtomicQueue** is the promise of the queue: call, effect in one step, return.

**SafeQueue** has one action per access to shared state. `op[t]` is the line a
thread is at, `slot[t]` its local variable, `owner` the mutex. `pop()`'s
`wait_for(ul, 1s, pred)` is the loop it stands for: test, sleep with the mutex
released (`"waiting"`), wake (notified, spuriously, or by the clock), lock
again, test again, and after the clock test one last time. `empty()` is a read of the
flag without the mutex. `QueueSpec` lets any threads call at will, any number of times; **SafeQueueClients** bounds their queue for TLC.

**TaskPool** is the promise of the pool, with its fairness: a submitted task is
started, a started one ends, and the destructor returns when nothing is left.

**ThreadPool** puts the constructor, the latch, the `work` loop and the
destructor on top of `SafeQueue`'s steps. `CheckStop` and `CheckEmpty` are two
steps because `stop_requested() && _tasks.empty()` are two reads. A task is a
value; running it submits any tasks not yet submitted, and so stands for every
task body. Tasks do not throw, as `parseOnePage` catches all.

**Crowler** is the crawler program over `TaskPool`. A visit is the arguments of
`parseOnePage` plus the trail of links that led to it; the trail is not in the
code and tells two visits of one page apart. `Web` says what each URL yields,
`Faults` what may go wrong on the way. Each path through `parseOnePage` is a sequence
of actions from `Enter` (the `fetch_add`) to `Drop` or `Leave` (a
`fetch_sub`). Links are data here: what a relative link resolves to is in `Web`, and that resolving may throw is the fault `"links"`.

**PageContent** is where that data comes from: the part of `parseOnePage` between
the response and `addOnePageData` (crowler.cpp:89-206), one worker, one page.
A URL is cut at its slashes, so that `"../"`, `erase(rfind("/"))` and gluing a name to a URL are
operations on sequences of pieces. A page is a sequence of well-formed elements (`Element`: anchors,
texts, titles, tags, scripts, style sheets); its html is the row of their tokens (`Written`,
`Tokens`), of which only those matter that the regular expressions look at. `next` is the
element the iterator of the loop is at: an element without a link is skipped, a link is resolved or throws, then
all links are submitted, then scripts go, then tags, then words are counted. The loop searches
the raw page, before scripts are taken out, so a script that writes an anchor has a link too (`WithHref`). A URL
may have a user or a port beside its host (`Aside`), which `urlView.host()` drops (`Host`). What is assumed of
pages and URLs is in `ContentConstants`: a URL that was fetched has a scheme that begins with `http`
and one host, and `../` stands in front of a link only. `Given` and `Rank` say which elements
have a link and at which place among them; `Target` is what a browser makes of a link, one with a scheme of its own
(`Schemes`: `mailto:`, `javascript:`) included.

**PageIndex** is the promise of `addOnePageData`, without ids, serials or rows: a
call puts the title, then word by word its counts in place of what was there, and
reports success only when all is put. A title once put stays; a call that fails has put any part.
The index begins with what earlier programs have left (`Earlier`). `CrowlerDatabase` implements it from an empty database
on (`NothingYet`): its behaviours begin when the tables were first created and go through any number of runs, since a
run that ends, also in the middle of a call, leaves the tables as they are.

**CrawlIndex** is the crawler program with its index: `Crowler`, but where a visit
stored its page in one step, it now calls into `PageIndex`, and visits of the same page
interleave in it word by word. `Texts` says what the html of each URL may hold; it may read differently each time. `Earlier` says what the index may hold when the program
begins. Three histories are kept: `before`, what it held then; `given`, the pages `addOnePageData` was
called with; `kept`, those it reported as stored. As in the code, the visit goes on in the same way whatever the call reports.

**CrowlerDatabase** makes every transaction one step (a second insert of the same
key waits for the first to end, so no statement of another transaction comes
between) and lets the server, the connection and the commit fail. A `BIGSERIAL`
gives numbers away even to inserts that do nothing or are rolled back.

**HttpServerCoro** has one step per stretch between two waits of a coroutine.
The query is a step of its own: `querying` holds the connection for which the
thread is blocked, and no other coroutine moves until it returns.
**SearchEngine** extends both, puts the server and the indexing of `CrowlerDatabase` side by
side over the same tables and adds the query: links grouped, ordered by the sum of
counts of all words that contain a searched word, cut at `Limit`.

**SearchHistory** puts a history beside it and changes nothing: `reported`, the pages some call has
reported as stored, at any time; `lasting`, those whose link no other call has touched in the meantime or since. `StoredIsFound`
speaks of every search that comes later, whatever was indexed in between. A lasting page is due its own counts
(`Due`); any other at least one for each of its words, since a count may be replaced but never goes.

**Vocabulary** declares the links and words the two of them share.

**ParserIniFile** reads a file of abstract lines (what brackets, `=` and `;`
make of a line) for the parameters of `main()`, one line per step. An end of file
behind a newline is the `getline` that throws.

The `*Proofs` modules hold theorems (section 5). `MC*` modules give TLC
its small webs, pages and files. Definitions marked *Slip* are the plausible bugs
that show each property to have teeth: replacing the definition that follows by the
slip violates the property that `PROJECT.json` pairs with it.

Which definition stands for which lines is in `PROJECT.json` under `map`.

## 3. The runs

| Run (`.cfg`) | Instance | Distinct states | Shows |
|---|---|---|---|
| `SafeQueueClients` | 3 threads, 2 items, at most 2 queued | 9 674 | types; `NeverTakeFromEmpty`; `FlagTruthful`; refinement of `AtomicQueue` |
| `ThreadPool` | 2 workers and the owner, 2 tasks | 9 000 | nothing lost, nothing doubled, somebody stays for a queued task, drained at the end; the destructor returns, every task runs; refinement of `TaskPool` |
| `ThreadPoolCreation` | the same | | **violated**: a constructor that fails never ends |
| `CrawlIndex` | 2 workers, 4 URLs, 3 words, 2 readings of the page, a new or an old index, depths 0, 1, 3, five kinds of faults | 600 000 | the counter, the trails, the order of destruction, completeness of the crawl, that what was read can be found, and nothing new in the index that was not read; the end of the program |
| `PageContent` | 7 page URLs; pages of up to 3 elements with 14 kinds of link, or up to 4 of 5 kinds of text and markup | 146 000 | links lead where a browser goes, all or none are submitted, the words counted are the visible ones |
| `CrowlerFinished` | `Crowler` alone, no faults | | **violated**: "finished" is printed when the first visit has ended and its links are queued |
| `CrowlerDatabase` | 2 workers, 2 links, 2 words, 3 pages | 193 000 | ids name rows, what is reported is stored, nothing invented, one entry per word, nothing dropped; refinement of `PageIndex` |
| `CrowlerDatabaseIds` | the same | | **violated**: a call fails although the database does not |
| `SearchEngine` | 2 connections, 5 requests, 1 indexing worker, 2 links | 270 000 | found implies crawled, errors are whole, requests are answered |
| `SearchHistory` | 1 connection, 1 request, 2 indexing workers, 2 links, 3 pages | 1 356 000 | stored implies found, for every later search |
| `SearchEngineTemplates` | the same; one file missing | | **violated**: an error page with the status of a success |
| `ParserIniFile` | files of up to 4 lines of 10 kinds, some of 5 | 200 000 | last assignment counts, success means a sound file, refusal has a cause |

Why these bounds are enough to be worth something:

* *Queue*: three threads give two waiters and a pusher, the smallest case where one
  `notify_all` wakes more threads than there are elements; a fourth adds only another
  loser. `MaxLength` bounds the clients' pushes, not the queue.
* *Pool*: one worker can leave while the other runs a task that submits the last
  one, with the owner in the destructor. `CHECK_DEADLOCK FALSE`: it ends.
* *Crawler*: the web has a cycle (a page is visited twice, at two depths), a redirect, a
  dead end and a URL that does not parse. Depth 3 lets the cycle
  close; depth 1 submits nothing; depth 0 is refused.
  The two words of the cyclic page are put by visits at two depths, at the same time, while a database fault
  may stop either half way. The second visit may read the page without one of its words. The old index has another title of the page, another
  count of a word, and a word the page has lost.
* *Page*: links of every branch, on pages at the root and one and two levels below, as
  directories and as files, and one with a port; two of them on a page, so that one throws after another has been resolved, or with a script between them that writes a third. Scripts hold
  what looks like tags and style sheets, style sheets what looks like scripts. Four elements give a block before and behind each of two.
* *Database*: the page of one link changes between crawls, so that a call
  meets rows of its own link with other counts, another title and a word less.
  `IntMax = 2` stands for 2^31 - 1 and is reached, `MaxSerial = 2` bounds how many calls
  begin. The two workers are interchangeable (SYMMETRY; no liveness is checked there).
* *Search*: `Limit = 1` with two matching links, so that the limit cuts; one
  word contains the other, so that one search matches a word it does not name. For the history, two workers, so
  that calls for a link overlap or follow; one link is read in two ways, with a higher and a lower count, and the other competes
  for the one that is shown. The workers are interchangeable (SYMMETRY; the run has no liveness).
* *Ini file*: four lines hold a section, an assignment, the section again in
  another spelling, and a second assignment.

`CHECK_DEADLOCK FALSE` stands in every configuration but `SafeQueueClients`,
since every program modelled there may come to its end.

## 4. Fairness

Always in a specification of its own (`FairSpec`, `FairCrawlSpec`, `FairSearchSpec`), never in the safety part.

* *ThreadPool*: a thread that can take a step takes one (`WF` of `Progress(w)`, of
  creation, and of the steps of the owner inside a call). The wait of `pop()` has a fixed deadline, since `wait_for`
  with a predicate computes it once; a thread that keeps being woken
  in vain still expires (`SF` of `PopTimeout`). No fairness of the mutex, of
  notifications or of spurious wake-ups is assumed, nor that the owner ever calls the destructor.
  That is what `DestructorReturns` needs: nothing but the clock tells sleeping workers
  about the stop request.
* *TaskPool*: the same promises in its own terms; `ImplementsTaskPool` checks that the pool keeps them.
* *Crowler, CrawlIndex*: `main()` and every worker go on, a call of the database returns, and a submitted visit is eventually taken
  (`EveryTaskRuns` of the pool). A request ends, except for the fault `"hang"`: the
  code's `expires_after` does not apply to blocking operations, so nothing in the code ends a silent one.
  `ProgramEnds` therefore reads: the program ends or some request hangs.
* *SearchEngine*: a query returns, and a response that can be written is written
  or its connection breaks. Nothing makes clients connect or send.

## 5. What is proved

The proofs hold for all values of the constants that satisfy the named
assumptions: any number of threads, workers, tasks, URLs, faults; queues and files of any
length; any web. tlapm checks them with Z3, Zenon and LS4.

**SafeQueue** (`SafeQueueProofs`), for `QueueSpec`: any threads, any items, a queue of any length. `NeverTakeFromEmpty` is
not inductive: that a thread at `"take"` finds an element depends on the flag, which depends on who
is in its critical section. `QueueInv` adds that the owner of the mutex is exactly the
thread in a critical step (`MutexHeld`), that the flag mirrors the queue except in the windows
of that thread (`FlagMirrors`), and what each step has in its slot (`SlotMatchesOp`).
From it follow `TakeIsDefined`, `FlagCorrect`, and, step by
step, `QueueIsLinearizable`: a push takes effect at `PushEnqueue`, a successful pop at `PopTake`, an
empty-handed one at `PopGiveUp`.

**ThreadPool** (`ThreadPoolProofs`). Above `QueueInv`: which calls each place in the
work loop can be in, and the accounting of where tasks are. `SomeoneStays` and `Drained` rest on the argument that
matters: a worker that has exited saw stop first and an empty queue after it, and whoever has pushed since is itself a
worker that will come back to look. `PoolIsATaskPool` shows the safety part of
`TaskPool`; it needs `Worker # {}`, since a pool without threads
(`hardware_concurrency()` may return 0) drains nothing. The pool calls the queue as clients may, so
`PoolQueueIsLinearizable`: inside the pool, too, it is an atomic queue.

**Crowler** (`CrowlerProofs`). `CrowlerInv` ties the phase of each worker to the task the
pool says it runs, and the life of the pool to the phase of `main()`. `WorkingCounts` counts with
the cardinality of a set that gains or loses one worker per step; `VisitsStayOnTrail` follows a
visit's trail through `Child`; `FieldsAreSafe` combines the pool's life with `main()`.
`CrawlIsComplete`: `CrawlComplete` says of the visits themselves, without recursion on the depth, that every visit a
finished one calls for has been made; the invariant says that it is submitted, running or finished from the moment its page was
read, and at the end the pool holds nothing.

**CrowlerDatabase** (`CrowlerDatabaseProofs`). `IdsNameRows` needs that every id in use lies below
what its BIGSERIAL gives next (`SerialsAhead`), also when a rolled-back insert has thrown a number
away. From it: an id once given stays (`IdsStay`), so a row is backed by the crawl that wrote
it for ever (`RowsFromCrawls`, which gives `IndexFromCrawls`) and rows are replaced but not lost
(`IndexOnlyGrows`). `StoredWhenReported` is carried by `WordsKept`, the same claim for
the words a call has behind it, and by `AloneHasNoRival`: no call that could overwrite the
counts of one that is alone is inside `addOnePageData`. `IndexIsAPageIndex` maps the tables to
`PageIndex`: storing a count changes what is found at one place only (`FoundAfterCount`, from the ids naming rows), and
nothing else changes it (`FoundStays`), so a transaction is a put, a stutter, or the failure of its call.

**CrawlIndex** (`CrawlIndexProofs`). `CrawlIsACrowler`: a step is a step of `Crowler` or leaves it alone, so all
its theorems carry over. On top of them `IndexInv` says: each call belongs to the visit its worker is in (`CallOfVisit`); the words a
call has behind it have a count some visit has read, and so have those of every page in `kept` (`PutSoFar`), since another
call can replace such a count only by one that was read, too; and every title and count
is the one the program found there or one that was read, and where it is new some visit accounts for it (`Accounted`). From the last follows
`IndexHoldsWhatWasRead`, for any earlier index; from the first two, with a page in `kept` for every visit that came through,
`WhatWasReadIsFound`, also when another visit of the page read it differently or was failed half way.

**SearchEngine** (`SearchEngineProofs`). The index's invariants carry over, as a server's step leaves the tables alone.
`ErrorsAreWhole` follows an answer through each of the functions that build it. For `FoundWasCrawled` a row of
the join is an entry of the index, an entry has a crawl behind it (`IndexFromCrawls`), and the set of crawls only grows while the answer is written. That the ranked list
is a sequence at all needs that finitely many links match (`FewCrawled`).
`StoredIsFound` is a theorem about `HistorySpec`. `HistoryInv` says that every page in `reported` has a row for each of
its words, with its own count if it is in `lasting`, and that no call touches the link of a lasting page. A step keeps it because a row is
replaced in place and only by a call that touches its link (`RowStays`); what enters the history has its rows by
`StoredWhenReported`. The rest compares sums. The library's sum over a function is a fold that picks elements in an unknown
order; the lemmas show that its recursion has a solution (`SumExists`), that of numbers it is a number
(`SumType`), that any element may come first (`SumAny`), and that numbers which stand among others, each at a
place of its own, have no greater sum (`SumOfInjection`). The counts a page is due are found in rows of their own
(`HistoryInv`, `OneEntryPerWord`), so the link's relevance is at least their sum, and a ranking that leaves the
link out has filled its limit with links that are no less relevant.

**ParserIniFile** (`ParserIniFileProofs`). A loop invariant over the lines read so far: the current section is that
of the last header (`SectionRead`), the result is what the last assignment so far says
(`ResultRead`), and no line so far is faulty. The reference it is compared with
(`Assigns`, `Faulty`, `Given`) has no scanner state at all.

**PageContent** (`PageContentProofs`), for pages of any length, any words, links and names. Three arguments:

* *The text.* The tokens of a page are a join: a row of pieces, with a function that says where each
  ends (`IsJoin`); `FlattenJoins` shows that the library's `FlattenSeq` makes one. A replacement is a
  recursion from the end of the text; `Copied` and `Passed` say what it makes of a stretch without markup and
  of one that begins with an opening token and runs to the first closing one. `OnePass` lifts
  that to a join: if each piece becomes what `Becomes` says, whatever follows it, the whole becomes the join of
  the results. `ScriptsGo` and `TagsGo` apply it twice; that scripts go first is needed where `TagsGo` is
  given tokens without any script. `CleanedPage` then has the words of titles and texts as the only names left, and
  `JoinCount` turns the number of places in the text into the number of places in the elements.
* *The links.* `LinksInv`: the links before `next` are resolved and stand at their rank, nothing is submitted
  before the last, and a page caught at its links has one that throws. `AllLinksOrNoLink` follows
  since a link that throws is no sound one (`ThrownIsUnsound`).
* *Where they lead.* `FoldLeft(Walk, ..)` is shown to be a walk, a path for each number of pieces
  (`WalkSteps`). A path without dots is where it leads to (`WalkCopies`), `../` goes up from it
  (`WalkClimbs`), and two paths that have come to the same place and go on alike end at the same
  (`WalkedAlike`). So the levels `erase` cuts off are the levels a browser climbs (`UpIsSound`); a host without user and port is what `Host` keeps; names, `./` and `/` have lemmas of their own,
  and `SoundIsResolved` puts the branches together.

The prover takes no predicate as a parameter, so the library's induction theorems cannot be cited. Where a
proof needs induction, the numbers for which the claim holds are put as a set, and `Upward`, `Downward` and
`LeastOf` (from the well-foundedness of `<` on numbers) do the rest.

Only model-checked: everything about liveness (`DestructorReturns`, `EveryTaskRuns`, `ProgramEnds`,
`EveryRequestAnswered`, and the fairness half of `ImplementsTaskPool`), which is out of the prover's reach.
Every invariant and every action property that a run checks is also proved.

## 6. Disagreements between code and its own words

Each is a run that violates the stated property; details and quotes are in `PROJECT.json` under `findings`.

1. *A pool whose second thread cannot be created never reports it.* The first worker waits at the latch for all `_cores`, and the unwinding constructor joins it.
2. *"Crowler: finished" may be printed early.* `isWorking()` is zero between two visits while others are queued: in the run, when the first visit has ended and its links have not been taken. That the first visit has begun is left to the two seconds `main()` sleeps before it looks. The destructor then does the rest of the crawl, which is why nothing is lost.
3. *`BIGSERIAL` ids are read into `int`.* Conflicting inserts use serials up; once past 2^31 - 1 pages with anything new are no longer stored.
4. *A missing first or second file of the result page is sent with status 200*, its error page and the results in one body.

Also seen, and not given a run (but for the blanks, nothing in the repository says otherwise):

* "did not match any documents" is also what a failed query says: `getLinksOnWordsRelevance` catches everything and returns the empty list (crowler_database.cpp:203-210).
* Blanks after `=` stay in a text value: `host= localhost` yields ` localhost`. The comment at parser_ini_file.h:172 takes blanks at the edges to have no meaning and `cutSpaces` is called, but for text the value is cut out of the line once more (282). `SetText` and `LastAssignmentCounts` say what the code does.
* A file that ends in a newline is refused by the parser (`ConfiguredMeansSound` says so; the files of the repository do not end in one); `name =` with a blank before `=` yields an empty text where `name=` is an error.
* A page crawled again keeps the title it had first and the words it has lost since (crowler_database.cpp:118, 148), over runs of the program as well; `FoundIsCrawled` says so with `before`.
* A link such as `page` on a URL that does not end in `/` is glued to the last name of the URL (crowler.cpp:148).
* A link with more `../` than the page has levels first takes the host away and then, with one more, makes `erase` throw, which costs the page all its links and its text (crowler.cpp:129; fault `"links"` of `Crowler`).
* `./page` never reaches its branch, as three characters are compared with two (crowler.cpp:133), and is glued to the URL.
* A name that begins with `http`, such as `httpd.html`, is taken for a whole URL (crowler.cpp:112).
* A link of another scheme, such as `mailto:someone` or `javascript:f()`, is taken for a name and glued to the URL (crowler.cpp:146-148).
* A link from the root of a site with a port or a user leads to the host without them, since it is built from `urlView.host()` (crowler.cpp:72, 144).
* Links are searched in the raw page (crowler.cpp:99), scripts are taken out later (162): an anchor that a script writes is followed. It does not shift the others, which `SoundLinksLead` checks.

The predicate `Sound` of `PageContent` draws the line: the links that the six of these about links do not touch are the ones `SoundLinksLead` speaks of.

## 7. What is not modelled

* In `PageContent`: `../` in the middle of a link, fragments (an `href` is given without its `#`), tags in upper case, scripts that are never closed, comments (an anchor in one is followed like one in a script, and its text is counted behind its first `>`), titles in scripts, anchors with another attribute before `href`, `>` in an attribute's value, entities, links with a query (`?`, which `urlView.path()` leaves out when the page is fetched), and encodings (punctuation is what separates words; a missing locale is `CleaningThrows`).
* In `Crowler`, a page's links and kind stay the same during a crawl; what it reads may change (`CrawlIndex`).
* `EveryRequestAnswered` excuses a server that an exception has ended, which leaves all its connections without an answer, and counts a failed query as answered, though with "did not match".
* TLS, DNS and HTTP as such: the outcomes of `getHtmlContent` are in `Crowler`, its protocol steps are libraries.
* `dropTables`, which no program calls; header fields and wording of answers; console output.
* Floating-point and wide integer parameters of `getValue`, and malformed arguments: both programs pass literals and read `std::string` and `int`.
* A second `setFile` after a failed one (it always fails, since `exceptions()` rethrows the old `failbit`): neither program tries.
* libpqxx, OpenSSL, PostgreSQL and Boost, which are vendored or external; the static html and css of the server.
* Of `src/` as a whole nearly all lines are vendored headers (OpenSSL, libpqxx, PostgreSQL, twice); the program's own code is about 1,700 lines in `src/CMake`, nearly all of which some definition stands for.

## 8. Plan

Done, in this order, because each is what the next stands on: the queue, the pool, the crawler, the index, the
search, the ini file, then what the crawler makes of a page, the index as an abstract specification, the crawler over it, the
proofs of all of them, those that need sums and recursion over data (`StoredIsFound`, `PageContent`), and last what
remains over runs and re-crawls (`Earlier`, `SearchHistory`).

What could still be added: a proof that `PageContent` supplies what `Crowler` takes as data (its links as `Web`, its
words as `Text`); the wider types
of `getValue` and `dropTables`, should a program come to use them. What a crash of the crawler between two transactions leaves for the next run is
any part of a page, as after a failed call; `Earlier` admits it.
