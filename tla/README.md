# xp_helper in TLA+

xp_helper is an Android module for the Xposed framework. It is loaded into
other applications' processes and replaces methods there: it stops the Play
Store from updating itself, keeps some packages from being installed, answers
HTTP requests from a cache, logs what encryption functions see. A small
application and a native library with utilities come with it. This directory
holds TLA+ models of the parts whose behaviour depends on order, failure or
concurrency, what TLC checks of them and what TLAPS proves of them.

Paths below are relative to `src/app/src/main/`; `java/` stands for
`java/com/`.

## 1. Inventory

### GooglePlayDisableUpdate (`java/hook/GooglePlayDisableUpdate.java`)

*State.* A file, `/data/data/com.android.vending/isid` (`IsIdFilePath`), shared
by all processes of `com.android.vending`; per process a static set `isids`,
guarded by its own monitor; the two hooks that a process has or has not.

*Operations.* `Application.attach` hooks the delivery and then the download
method (`HookDownload`). A hooked delivery of the Play Store itself appends its
isid to the file (`AddGooglePlay`), then runs the original method. A hooked
download looks up its cpn and its isid (`CheckGooglePlay`, which first loads
the file into the set) and is refused with an exception if one is known.

*Interaction.* Processes interact through the file only, threads of a process
also through the set and the monitor. It calls `PkgInstaller.HookInstaller`.

*Hard.* Two processes, no lock between them; kills; appends and loads that
fail, or that see the file while it grows; fragments of lines that the next line
runs into; a file that exists and is empty.

*Correct when.* A download is refused only for a name that a delivery put
forward, or that a failed append left; one that is recorded is refused in every
process from then on; a delivery leaves only after it is recorded or the append
has failed.

### okhttp_redirect (`java/hook/okhttp_redirect/`, `java/hook/RedirectResource.java`)

*State.* Per request the `HttpEngine` object of okhttp (was a request sent, the
response); per url a file `/data/data/<package>/<md5>` and an entry of a cache
service at 127.0.0.1:9002, which is not in this repository.

*Operations.* `sendRequest` and `readResponse`, replaced through `Hooker`;
`HasCache`, `GetCache`, `UploadCache` of `ResourceCache` or of
`ResourceCacheTest`; `Cache` to and from JSON.

*Hard.* The cache is asked twice per request and then read; the file is shared
by all requests for a url without a lock; each call can fail after the response
has arrived; one of the two hooks may be missing.

*Correct when.* What is replayed is what was received with code 200; only
overlapping saves damage an entry; a failure has a cause; an entry is used;
every request ends.

### Hooker (`java/tools/hooker/`)

*State.* Per fake class a map of replaced methods; per static `Field` object its
accessible flag, which every thread of the application uses.

*Operations.* `HookClass` (one method after the other, failures are logged, the
result is true anyway), `replaceHookedMethod` (dispatch to the fake method or
to the original one, and the unwrapping of exceptions), `GetFieldValue` and
`SetField` of `HookTools`. `FakeClassSingleton` has no subclass here.

*Hard.* Partly hooked classes. An access to a `Field` makes it accessible, uses
it and puts back what it found: two of them take the flag away from each other.

*Correct when.* An access comes to nothing only beside another one, and the flag
is given back unless accesses crossed.

### PkgInstaller (`java/hook/PkgInstaller.java`)

Refuses `createSession` and `installExistingPackageAsUser` for three packages.
No state of its own; called once per loaded package and again by
GooglePlayDisableUpdate. A failing reflective read lets the session through.

### MainHook (`java/hook/MainHook.java`)

A log stream per loaded package, written under `synchronized (logFileStream)`
by callbacks in any thread; hooks installed at load, at each launched activity
and at class definition. Hard: the stream is replaced while it is used as a
lock; hooks are installed again and again. *Correct when* lines stay whole and
none is lost, and no monitor is kept.

### ThreadPool, WaitGroup (`cpp/third/utils/thread_poool.h`, `wait_group.h`)

A queue under a mutex with a condition variable and a stop flag; a counter with
a condition variable. Hard: wake-ups that get lost, tasks that enqueue tasks
while the destructor waits, notifications outside the mutex.

*Correct when.* Tasks start in order, each once; the destructor returns, and
returns after every task; no worker sleeps while a task waits. `wait()` returns,
and not before what it was called for.

### singleCase (`cpp/third/utils/linux_helper.h`)

Runs a callback while the process has the record lock on a file. The state is the
kernel's; the descriptor and the lock are given back by deferred calls. Hard:
such locks belong to processes, so that threads of one process neither exclude
each other nor keep each other's lock; calls of the system that fail and look like a
refusal. *Correct when* callbacks of different processes exclude each other, no lock
is left behind, nobody is kept waiting, or refused without a failure or another process
that has the lock.

### copper (`cpp/third/utils/copper.hpp`)

Channels as in Go, and `select` over several. *State.* Per channel a buffer, two
queues of operations that wait, a mutex and a flag; per request a group with the
mark that one of its operations was run. *Operations.* pop, push and select, that
wait for ever, for a time or not at all; `close`, `clear`. No other file of the
repository includes it.

*Hard.* A request of several operations is in several queues at once, whose
partners come at the same moment; tries and registrations with gaps between them;
time-outs beside late partners; operations on the stacks of callers that return.
*Correct when* one operation of a request is run at most, its status is true,
nobody sleeps beside a partner, and each channel is a first-in first-out queue.

### File trees (`cpp/third/utils/linux_helper.cpp`)

`remove_files`, `remove_dir` (with a white list), `mkdir_recursive`, `traverse_path`.
The state is the file system's. Hard: another thread changes the tree under a call;
links lead out of it; calls of the system that fail half way. *Correct when* nothing
outside the tree is removed, true means gone (or there), false has a cause, and a
traversal visits each entry once that its white list leaves it.

### Crash (`cpp/third/crash/`)

Signal handlers write the number of a signal to an eventfd, which a thread reads
and reports to Java. Hard: handlers that run before, between and after the steps
of the set-up; an eventfd that adds up; results that are not looked at. *Correct
when* a report names a signal that was caught and a fault is reported.

### Native log (`cpp/third/utils/log.h`, `log.cpp`)

A vector of adapters that `do_log` goes through while another thread adds, clears, enables
and disables them, without a lock, and a tag that it copies and takes for a part of its
format while the other thread sets it. *Correct when* a line arrives once at each adapter
that is on.

### Shell (`java/common/units.java`)

`RunShell` and `RunUserShell`: a process, its two pipes and a caller that reads one
after the other, or both as one. *Correct when* a call ends, and has read all if it
gives an answer.

### String functions and parse_query (`cpp/third/utils/utils.cpp`, `cpp/third/http_server/http_server.cpp`)

`string_split`, `replace_all`, the hex functions with their buffers, and the parser
of the queries of the HTTP server, which nothing in the repository starts.

### Others

* the rest of `cpp/third/utils/` and `cpp/third/http_server/`: wrappers of system
  calls, JNI and mongoose.
* the rest of `java/common/`: logging, two NanoHTTPD servers.
* `java/tools/proxy/`: tables of reflected methods, filled once.
* `PangleHook`, `DeviceHook`, `Google`, `UCPackage`, `Test`: callbacks without state.
* `java/hook/unused/`: unreachable.
* `java/cache_service/`, `MainActivity`, `MyApplication`, `NativeHelper`,
  `LsposedHttpClient`: the application; I/O.
* the rest of `cpp/third/`: third-party libraries.

`PROJECT.json` lists every component with its status, and under `hazards` the
places where the code can go wrong in a way that a test would hardly reach.

## 2. Modules

| module | models | role |
| --- | --- | --- |
| `PlayPolicy` | what GooglePlayDisableUpdate promises: a regular register of names | abstract specification |
| `PlayGuard` | GooglePlayDisableUpdate | detailed specification, implements `PlayPolicy` |
| `PlayGuardProofs` | | theorems about `PlayGuard` |
| `OkhttpRedirect` | okhttp_redirect with both caches | specification |
| `OkhttpRedirectProofs` | | theorems about `OkhttpRedirect` |
| `ThreadPool` | thread_poool.h | specification |
| `ThreadPoolProofs` | | theorems about `ThreadPool` |
| `WaitGroup` | wait_group.h | specification |
| `SingleCase` | singleCase of linux_helper.h | specification |
| `MainLog` | MainHook | specification |
| `MainLogProofs` | | theorems about `MainLog` |
| `FieldAccess` | the accesses of HookTools to a shared Field | specification |
| `FieldAccessProofs` | | theorems about `FieldAccess` |
| `Channel` | what copper.hpp promises about values: bounded queues | abstract specification |
| `Copper` | copper.hpp | detailed specification, implements `Channel` |
| `CopperProofs` | | theorems about `Copper` |
| `FileTree` | file trees of linux_helper.cpp | specification |
| `CrashSignal` | cpp/third/crash | specification |
| `NativeLog` | log.h, log.cpp | specification |
| `Shell` | RunShell, RunUserShell | specification |
| `Strings` | utils.cpp, parse_query | specification |
| `Processes` | `SingleCase`, `MainLog`, `Shell` and `FieldAccess` side by side | specification |
| `ProcessesProofs` | | theorems about `SingleCase`, `Shell` and all of `Processes` |
| `Utilities` | `WaitGroup`, `FileTree`, `CrashSignal`, `NativeLog` and `Strings` side by side | specification |
| `UtilitiesProofs` | | theorems about all of `Utilities` |
| `MCPlayGuard`, `MCOkhttpRedirect`, `MCThreadPool`, `MCCopper`, `MCProcesses`, `MCUtilities` | | small instances for TLC |

A definition whose name has an underscore and whose comment begins with
"Variant" (`Answer_Forgets`, say) is no part of a specification. It is the
definition after it, changed the way a plausible mistake would change it, and is
there to see that a property is sensitive to that mistake: see section 5.

### PlayGuard

Two kinds of actors, threads and processes (`Home` gives the process of each
thread). `pc` follows the code: `idle` – `add` (waiting for the monitor) –
`create`, `write` (`AppendToFile`) – `send` – `delivered` for a delivery;
`idle` – `check` – `exists`, `length`, `read` (`LoadIsidFile`, `load_file`) –
`check` ... – `refused` or `passed` for a download.

The file is a sequence of terminated lines and possibly an unterminated rest.
Lines and rests are strings of `Isid`, where `EmptyIsid` and `NullIsid` stand for ""
and "null". An append is one write, as `BufferedWriter` flushes once, at close, and
the file is opened for appending; when it fails, a prefix may have been written
(`Fragment`), and the next append continues it (`Continued`, `Joined`). Either may be
a name that a download asks for. `damaged` is history: these fragments and the lines
that began with one. A read covers the bytes that `file.length()` gave (action
`Measure`). Because the file only grows, these bytes are fixed then.

A kill (`Crash`) removes a process with its threads, set and monitor at any
point. Failing operations are bounded by `MaxFaults`, lines by `MaxLines`.

### OkhttpRedirect

One actor per request. `pc`: `send` – `read` – `fetch` (a hit) or `network` – `open`,
`write` (`save_file`) – `upload` – `done`, or `failed` when the application gets
an exception. `hooks` is the subset of the two methods that `HookClass` managed
to replace. A body carries the number of base64 codings around it, because
`Cache` adds and removes them. The service is external: it stores, for
`upload_cache`, what the file holds at that moment, may answer or not, and may
drop entries (`Evict`).

`Backend = "fixture"` is `ResourceCacheTest`, which `RedirectResource` deploys.

The handlers reach okhttp's request and response through two static `Field`s. What
`FieldAccess` shows of them enters here as `LosesAccess`: beside another request, an
access may come to nothing. Then `ShouldFake` is false for a url it should be true
for (`SendUnfaked`, `ReadUnfaked`), or the handler throws, or the response is not set
(`HandlerThrows`). "Beside another request" is coarser than the crossing of two
accesses, which is what `FieldAccess` is about.

### ThreadPool

One actor per worker, per client and one for the owner that constructs and
destroys the pool. Sections under the mutex are steps; the notification after
them is a step of its own. A worker asleep in `condition.wait` leaves it by a
notification or for no reason (`WakeSpuriously`, without fairness). `Spawned`
gives the task that a task enqueues. `NDebug` is the build's choice.

### WaitGroup

One actor per task and per waiter. `done()` is three steps (`Decrement`,
`Compare`, `NotifyAll`), because none of them is under the mutex; `wait()` is a
test under the mutex (`Test` or `Return`) and `Sleep`, which gives the mutex
back. So the mutex is held exactly while a waiter is `tested`. `owed` and
`missed` are history: what a waiter was called for, and whether a notification
fell into its window between test and sleep. `add(n)` comes before its tasks
run, and is called by a task that is under way or by the program (`Main`).

### SingleCase

One actor per thread, `Home` gives its process. `pc`: `idle` – `opened` –
`callback` – `unlock` – `close`, from `opened` to `close` when refused, or `denied`
after a failing open. The lock is the process that has it; `Release` is what F_UNLCK,
`close` and exit do to it. The F_SETLK may fail for another reason than a lock
(`SetLockFails`), which the code treats as a refusal, and so may the F_UNLCK, which
leaves the lock to the close. `crowd` and `failed` are history: another thread of the
process was in singleCase during this call, a system call of this call failed.
`MaxErrors` bounds the calls with a failure that are under way at a time.

### MainLog

One actor per thread that calls hooked methods, and `handleLoadPackage` with its
four steps, once per package. `pc`: `idle` – `field` – `enter` – `text` – `end` – `exit`,
once for each callback that was in place when the method was called (`left`).
`logFileStream` is read three times and may be seen stale (`Sees`), since it is a
plain field that its writer sets without a lock. A file is the sequence of what
was written to it: texts and ends of lines, with the call that wrote them. `Kill`
ends the process, and the next one has new files. Which methods are hooked is
abstracted to the three groups that write to the log.

### FieldAccess

One actor per thread. `pc` follows the four statements: `idle` – `saved` – `use` –
`restore`; a use without the flag throws, which ends the access and leaves the flag
alone. `met`, `crossed` and `left` are history.

### Copper and Channel

One actor per thread, each with a request, that is a tuple of operations and a
waiting strategy. `pc`: `idle` – `pass` (the first pass of a select, in any order, one
mutex at a time) – `lock` (`_register_signals`, in the order of the tuple, keeping the
mutexes) – `enlist` – `wait` – `leave` (the destructor, channel by channel) – `idle`. A
single pop or push has no pass. A section under one mutex is a step, so `mutex` shows
only what is kept between steps. `Match` is what a partner does to a group: it marks
it and wakes it. `cleared` is history: a channel where `clear()` left pushes waiting.
`Channel` has queues and no threads; `buffer` is mapped to its `queue`.

### FileTree

A tree of four places, a link or directory elsewhere, and two threads: one in
`remove_files` or one of the `remove_dir`, one in `mkdir_recursive` or `traverse_path`.
A system call is a step, and each may fail for a reason that the tree does not show
(`RemoverDenied`, `ReadFails`, `MakeDenied`, `TraverseDenied`, `VisitUnknown`,
`ListingFails`): for `readdir` the code takes that for the end of the directory, for
`get_path_type` the entry for none to enter. `frames` is the recursion of `remove_dir`,
with the entries it has not got to yet; `below` is the names to come or the stack of the
traversal; `whitePath` is the white list of `traverse_path`, one of `WhiteLists`, by
which entries at any depth are passed over (`PassWhite`). `before`, `stays` (what nobody
changed), `leaked` and `denied` (who met a failing call) are history.

### CrashSignal

Three kinds of actors: `initWithSignals` step by step (`setup`), each faulting thread
in its handler (`fault`), each thread that reports (`reporter`). A handler returns to
the instruction that faults again. `count` is an eventfd: writes add up, a read takes
all. Creating the eventfd, the thread and attaching can fail.

### NativeLog

Loggers that have copied the tag (`head`) and are inside the range-for of `do_log` (`at`:
position, end and which memory), and one thread that calls `init_log`, `set_adapt`,
`disable_adb_log`, `enable_adb_log`: in the sources only main.cpp does, once. `manager`
says how far a call of `init_log` is, which ends with the two assignments of `setTag`
(`StartTag`, `EndTag`). `block` tells a vector that has moved from one that has not: a loop
over the memory it has left finds anything (`Crash`, `Output`, `Skip`), which is the
undefined behaviour of that loop; a copy of a tag that is being set (`torn`), or a tag with
a conversion in it, may crash likewise (`FormatCrashes`). `Types` has every adapter of
log.h; `output_log` of the custom one is empty.

### Shell

The process with its script, and the caller. A pipe holds `Capacity` writes; a read
takes some of what is there; the end of a stream is seen when the process has exited
and the pipe is empty. An IOException of a write of the command or of a read ends the
call (`Fails`).

### Strings

Each function once, for every input up to a length, of two letters. The iterations of
`string_split` and `replace_all` are steps, since whether they end is a question;
`status = "far"` is the bound on them. `parse_query` decodes and splits in one step
(`Decode`, with what `string_split` returns as the function `PiecesFrom`; that `Split`
returns the same is part of `SplitLosesOnlyTheEnd`), and then each iteration of its loop
is one (`PutParameter`). The hex functions are one step.

### Processes, Utilities

Small components that do not interact share a specification: the initial state chooses
one (`part`), which takes all steps while the others stay as they are. The properties of
these runs name the component they speak of. A behaviour of `PartsSpec` is therefore one
of each part, which is how theorems about a part become theorems about all.

## 3. Runs

| run | instance | question |
| --- | --- | --- |
| `play_faults` | 2 processes of 1 thread, 5 strings, 2 lines, 1 fault, kills | Is a refusal justified, a recorded or loaded name refused, a sent delivery recorded? |
| `play_policy` | 2 processes of 1 thread, 5 strings, 2 lines, 1 fault, kills | Does every behaviour implement `PlayPolicy`? |
| `redirect_service` | 2 requests, 1 redirected and 1 other url, 2 bodies, 1 fault or lost access, 1 dropped entry, kills | Is a replayed body genuine, damage the result of an overlap, a failure justified, an entry used? Does each request end? |
| `redirect_fixture` | 1 request, 2 urls, no fault | violated: `ResourceCacheTest` says yes and cannot deliver |
| `redirect_replay` | 1 request, no fault | violated: a replayed body is base64 text |
| `pool_release` | 3 workers, 2 clients, 4 tasks, both builds | Order, completeness, no idle worker, no deadlock? Does every task run, does the destructor return? |
| `pool_late` | with NDEBUG | violated: nothing keeps a stopped pool closed |
| `copper` | 3 threads, 5 requests, a channel of capacity 2 and an unbuffered one of void | Is a status true, a queue clean, a wait justified? Does every request end that should? Is each channel a queue? |
| `copper_late` | the same requests, the buffered channel of void | violated: a request that timed out was run nevertheless |
| `processes` | `SingleCase`: 3 processes, 2 of 2 threads, 1 failing call at a time, kills. `MainLog`: 2 threads of 2 lines, 2 packages, 1 failing write, kills. `Shell`: every script of up to 4 writes, pipes for 2, IOExceptions. `FieldAccess`: 3 threads | Who excludes whom, is a lock left behind, is a refusal justified; which lines are torn or lost; what does a caller of a shell get; what is a shared Field good for; does a call end? |
| `threads` | `WaitGroup`: 3 tasks, 2 waiters. `CrashSignal`: 2 signals, 2 calls of initWithSignals, 2 writes | Does `wait()` return late enough, and at all, but for the one lost wake-up? Is a report genuine, and a fault reported? |
| `results` | `FileTree`: every tree, call, white list of `remove_dir` and other thread, 3 white lists of `traverse_path`, any call failing. `NativeLog`: 1 logger, 2 new adapters. `Strings`: texts to 5, patterns to 2, queries to 7 characters | What stays of a tree, what is an answer worth? Which lines arrive, and what does a crash take? What do the string functions return? |

*Bounds.* Two processes and one thread each are all that the file can tell apart: a
third process only adds readers or writers that do what one of the two does; the two are
exchanged by symmetry, which no fairness or liveness is in the way of. Two threads of
one process, where the monitor matters, are in no run: the theorems of section 4 have
them. Two lines let one be in the file before and another arrive during a download, and
let a torn line be run into. The strings are "n", its double "nn", "", "null" and one
for all that nobody asks for: a torn "n" may be whole, run together with the next line
it is "nn", and downloads ask for either. `play_policy` has a delivery without an isid,
which writes "null". One fault is enough to reach each error path, and one error path's
effect on a later good one. For the redirection, two requests overlap in every way in
which a url can be contended; the second url is one that `ShouldFake` leaves alone. For
the pool, three workers let one be asleep, one be woken and one steal; four tasks with
one spawned keep the queue at two while the destructor waits. Three tasks and two
waiters let the counter reach zero, rise and reach it again while one waiter is in its
window and the other asleep. Three processes are the smallest number in which one loses
the lock, another takes it and a third is refused; two threads make a crowd; one failing
call at a time leaves a lock to a close, or refuses a caller beside one that is refused
with reason. Two loads replace the stream once, which is what a write can straddle, and
two lines of two threads can meet in one file and in both; two callbacks on Cipher make
one call write twice.

For copper, a select over both channels meets a push that waits on the one and a select
that pushes into the other; the buffer of two is filled, taken from and filled up by
pushes that wait, and cleared with more than one of them. One thread has a single
request and the others two, so that a request can meet the remains of an earlier one.
Four places and one link are the smallest tree with a directory in a directory, a file
beside it and a way out; the white lists of `traverse_path` are none, one of a directory
with a directory below it, and one of two entries of different depth. Two signals of
different numbers add up to a third; two set-ups replace the eventfd once; the second
write of a thread is its repeated fault. Two adapters beyond the first make the vector
move once. Pipes for two and four writes let each pipe be full while the other one is,
or is not, read. Five characters hold two matches of a pattern of two and what is around
them, a query of seven two parameters; a loop may go on for 32 iterations, as often as
there are texts of five letters. Three threads of a Field let one be spoiled by two.
Where a theorem (section 4) states the property, no bound matters.

*Fairness.* `PlayGuard` has none and no liveness: Java gives a monitor back on every way
out of a synchronized block, and nothing else in a call waits. `OkhttpRedirect`: weak
fairness of each request's steps; every call has a time-out in okhttp and no request
waits for another one; a kill and a new request are never forced. `ThreadPool`: weak
fairness of workers, pending notifications and the owner's steps once it has begun;
spurious wake-ups, calls of `enqueue` and the decision to destroy are not forced.
`Copper`: threads that can run do and clocks go on; nobody is made to call, to close a
channel or to wake up for no reason. `WaitGroup`: weak fairness of the steps of tasks
and waiters, as tasks end and threads run; again no spurious wake-ups. `SingleCase`:
only the caller whose call is followed is fair; the others may stop anywhere. `MainLog`:
weak fairness of a thread inside a callback; the monitor goes to and fro only as often
as `MaxWrites` allows, so nobody starves. `Shell`: the process writes when there is
room, and exits; the caller reads. `CrashSignal`: the set-up, the faulting threads and
the reporters go on. The parts of a run have the fairness they have by themselves.

*Deadlock* is checked in the runs of `PlayGuard`, `OkhttpRedirect` and `ThreadPool`,
where `Over` is a stuttering action: the pool is gone. The components of the other runs
stop when they have done what they were called for, or when the code lets them: requests
of copper that nobody closes the channels for, a process that fills the pipe of stderr.
There `CallEnds` and `PartsEnd` say who must get on.

*Exceptions.* Some properties name a case that they do not claim, because the code
really does it. They are the places to look at in a review:

* downloads: one failing append may leave two names that nobody put forward and that are
  refused from then on (`damaged` in `NoFalseRefusal`).
* copper: two selects that lock two channels in opposite order block each other for
  ever (`LockCycle` in `CallEnds`); `clear()` of a channel that is not of void lets one
  waiting push in and leaves the others beside the room (`cleared` in `PushWaitsForRoom`).
* redirection: overlapping saves damage an entry, which then fails every request for
  the url; a lost access to a Field loses an answer or sends a request that should not
  be sent.
* singleCase: two threads of one process (`crowd`); a failing call of the caller's own looks
  like a refusal (`failed` in `RefusedForAReason`). MainLog: a stream replaced while it
  is used. WaitGroup: the notification in the window (`missed`).
* file trees: a root that is a link is followed; the white list of `remove_dir` is not
  handed down; descriptors are lost in failures; a `readdir` that fails ends a directory
  (`denied` in `TrueMeansGone` and `TraversalIsComplete`).
* crash: signals that add up, reports without an eventfd, writes to a closed one.
* native log: any change of the vector under the loop of `do_log`, a tag that is copied
  while it is set or has a conversion in it, and a file that could not be opened.
* strings: an empty pattern or a replacement that brings the pattern back never ends;
  `hex2str` with a buffer of no bytes and `str2hex` of an odd text write beyond it.
* shell: more on stderr than its pipe holds, and `RunShell` never ends; an IOException
  leaves the process alone with its pipes.

## 4. Proofs

The theorems hold for every value of the constants that the named assumptions allow.
The assumptions say what the constants are and bound nothing. Each proof has an
inductive invariant, lemmas that every step preserves it, and a temporal step at the end.

| module | theorems |
| --- | --- |
| `PlayGuardProofs` | `[]TypeOK`, `[]NoFalseRefusal`, `[]RecordedIsRefused`, `[]CachedIsRefused`, `[]SentIsRecorded`, `ImplementsPolicy` |
| `OkhttpRedirectProofs` | `[]TypeOK`, `[]HitIsGenuine`, `[]DamageNeedsOverlap`, `[]CacheIsUsed`; `[]FailureHasCause` with the cache service |
| `ThreadPoolProofs` | `[]TypeOK`, `[]StartedInOrder`, `[]JoinedMeansRun`, `[]NoIdleWhileWork`, `ClosedInDebug` |
| `CopperProofs` | `[]TypeOK`, `[]StatusIsTrue`, `[]NoDanglingOp`, `[]NobodyWaitsInVain`, `ImplementsChannel` |
| `FieldAccessProofs` | `[]TypeOK`, `[]FieldIsShared` |
| `MainLogProofs` | `[]TypeOK`, `[]MonitorIsUsed`, `[]LinesStayWhole`, `[]NothingIsLost` |
| `ProcessesProofs` | of `SingleCase` `[]TypeOK`, `[]Exclusive`, `[]LockIsOwed`, `RefusedForAReason`; of all parts `[]PartsTypeOK`, `[]OutputArrives`, `[]FieldIsShared` |
| `UtilitiesProofs` | `[]PartsTypeOK`, `[]WaitMeansDone`, `[]SleepIsExplained`, `[]TreeIsKept`, `TreeAnswersAreTrue`, `[]CrashReportIsGenuine`, `[]NativeLinesArrive`, `[]StringsResults` |

### PlayGuardProofs

For any sets of processes, threads and strings, whatever the fragments of a string are and
whatever strings run together to; the assumption is `ConstAssumption` (special strings
differ, `Absent` is no string, "" adds nothing). No property is inductive: a refusal is
decided long after the look-up, and the look-up long after the load. `IInv` adds what
holds in between:

* `SourceInv`: whatever a file, a set or a view holds is "", was put forward by a
  delivery or is damaged.
* `DamageInv`: a failed append adds one damaged string, and one more when an append
  continues it, so that there are two for each failure at most.
* `SendInv`: a delivery that is about to be sent is stored or lost.
* `ExistsInv`: a file with a line in it exists.
* `AskedInv`: the names that a download still has to look up are asked names,
  never "", and a positive answer is for a name that was put forward or is damaged.
* `DueInv`: as long as a download owes a refusal, the name is among those still
  to be looked up (and, during a load, among the lines that will be loaded), or
  the answer is positive already, or its load failed.
* `CachedInv`: the same for a name that the set has: sets lose nothing.

Each part has a lemma that every step preserves it; `SplitUpper` and `SplitLower`
say what `SplitLines` may add (only "") and must keep (all but "").

`PolicyIsImplemented` is the refinement: every step is a step of `PlayPolicy` or
changes nothing that it sees. It needs `PolicyInv`, which adds to `IInv` that a thread
that is neither asked nor answered owes nothing (`NoneInv`). Most steps of a look-up are
stutters; the answer is justified by `AskedInv` and `DueInv`.

### OkhttpRedirectProofs

For any requests, urls and bodies, both back ends, any choice of hooked methods, any
faults, kills and dropped entries, under `RedirectAssumption` and `MarkAssumption` (the
marks for an absent, empty or damaged file are no documents).

* `SaveInv`, `GenuineInv`: a response that is being saved was received with code 200 for
  its url, and so was every document in a file or in the service. A hit is genuine because
  of what was in the service before the request began.
* `OverlapInv`, `FileInv`: two requests that write or upload one file have been noticed
  (`overlapped`); one that is alone finds the file empty and leaves a document in it. So
  what the service takes is whole, or two requests overlapped.
* `AskedInv`: a request that read nothing from the network is where it is because of an
  entry that is there or was dropped, a hook that is missing or an access that was lost.
  `FailureHasCause` follows for `Backend = "service"`. The hypothesis is needed: with
  `ResourceCacheTest` the property is false, which the run `redirect_fixture` shows.
* `DueInv`, `FreshInv`: a request that began with an entry and keeps its luck finds the
  entry at each of its questions.

### ThreadPoolProofs

For any finite sets of workers and clients, any set of tasks and any choice of which
task enqueues which; `PoolAssumption` says that there is a worker and that both sets of
threads are finite. `ClosedInDebug`: in a build without NDEBUG nothing enters the queue
of a stopped pool.

* `StartedInOrder` is carried by two facts about sequences, `MoveHead` (a task
  that is taken) and `AddLast` (a task that is pushed).
* `JoinedMeansRun` speaks of the end only. `IInv` says what leads there:
  `WorkerInv` and `JobInv` (a task that was started has returned or is in some
  worker's hand), `OwnerInv` (nobody exits before `stop`, nobody is left after
  the joins), and `DrainInv` (as long as the queue is not empty some worker has
  not exited: a worker that leaves saw an empty queue, and whoever fills it
  afterwards is a worker that is still there).
* `NoIdleWhileWork` needs the types only, but its steps have to be counted: a
  notification that is used up turns a sleeper into a worker that comes, or
  finds no sleeper.

### CopperProofs

For any channels and capacities, threads, requests and numbers of calls, under
`CopperAssumption`. `IInv` is the type invariant with two families of facts.

*Of each channel* (`ChanInv`): what waits in a queue is there once and belongs to a
request that may still know of it; nothing waits in a closed channel; beside a pop that
waits and is not matched the buffer is empty and no push of another thread waits, and
beside a push the buffer is full or `clear()` made the room.

*Of each thread* (`ThreadInv`): `RanOf` (one operation was run if and only if it is
matched, and none before it waits), `LockedOf` (a thread that keeps the mutex of a channel
still sees the channel as its failed try has left it, which is why a registration misses
nobody), `WaitOf` and `CountOf` (as long as it is not matched, it is in the queue of each
channel that is open, and `openOps` is no less than the number of these queues, so that
`close()` wakes it when the last one goes), `PassOf`, `LeaveOf`, `StatusOf` (what its
status rests on at each stage), `CallOf`, `UsedOf` (values are new).

What a match does to the others is said once: `Take` (queues lose their first operations,
and the requests of those are matched), `Deal` (values move), `Spares` (nobody else is
changed). The lemmas about them serve pop, push, `clear()` and the select alike.
`NobodyWaitsInVain` is about pairs of requests that registered at different times with
different channels; it rests on `ChanInv` alone once that is inductive.
`ChannelIsImplemented` is a step simulation: a try that succeeds, a match and a refill of
the buffer are the push and the pop of one bounded queue, in this order; the steps of
registration, waiting and leaving change nothing that a channel shows.

### FieldAccessProofs

For any threads, with no assumption. `AloneInv` says that the Field is accessible for an
access that has met nobody, `MetInv` that accesses that go on at once both know it;
`CrossedInv` carries the flag as long as none did, and `LeftInv` says that whoever goes on
after the flag was left set has found it set.

### MainLogProofs

For any threads, loads, hooks, lines and faults; each theorem has the hypothesis
`LogAssumption`, since `Processes` has the module as an instance. `CountOf` counts what a
call has left. `MonitorOf` says that a thread has a monitor exactly between its entry and
its exit, whatever the field has become. `LastOf` and `TextOf` say what is at the end of a
file: a text there is torn, or its thread is about to end it; `LinesStayWhole` needs no
more than the neighbours that a write gets there. `PartsOf` follows each line of each
thread, from nothing in the files (`Absent`) over its text (`HalfDone`) to text and end in
this order (`Done`): after the callbacks, nothing is lost but what a failed write cut.

### ProcessesProofs

`PartsAssumption` is what the parts assume. A behaviour of `PartsSpec` is one of each
part, or leaves the part alone.

* `SingleCase`, whatever system calls fail: `KeptInv` says that a thread alone in its
  process keeps the lock it was granted, `CrowdInv` that two threads of a process that
  meet both know it; `LockIsOwed` is part of the induction and justifies refusals: who
  is refused without a failure has met the lock of another process, and that lock is
  owed by a thread of it.
* `Shell`: every write of the process is in a pipe or was read (`CountInv`), what was read
  of a stream comes before what is in its pipe (`OrderInv`), `RunUserShell` has one pipe and
  its order (`UserInv`), `RunShell` returns as much as it read (`RootInv`), a stream is left
  at its end only, unless the call failed (`EndInv`).
* `MainLog`, `FieldAccess`: their theorems, through instances of their proof modules.

### UtilitiesProofs

`UtilitiesAssumption` is what the parts assume. `PartsTake` says what a step of the whole
is for each part; `PartsInv` puts the invariants together.

* `WaitGroup` (`GroupInv`): the counter is the number of tasks under way
  (`GroupCountInv`), which facts about cardinalities carry through `Add` and `Decrement`;
  nobody is owed a task that was not added (`OwedInv`); `WindowInv` extends
  `SleepIsExplained` to the waiter that has tested and does not sleep yet, which is where
  the notification is lost.
* `FileTree` (`TreeInv`), for every tree that the module has. Only the remover
  takes things away, so that an entry it has still to come to is what it was when it was
  listed: `FramesInv` says so of each directory of the recursion, and that what is in such
  a directory is still to come, kept, made meanwhile or being removed, unless `readdir`
  has failed (`Accounted`).
  `KindInv` and `CallInv` relate the tree to what it was before; `VisitInv` and
  `CompleteInv` say that a traversal has visited what it has visited once, and has still to
  come to the rest but for its white list; `SpareInv` that it never visits that or what is
  behind a link; `MakeInv` follows the names of `mkdir_recursive`. The invariant holds
  where `FileTree` takes the steps.
* `CrashSignal` (`CrashInv`): an eventfd that was written once holds the number of a handled
  signal, one that was not holds nothing (`CountInv`); who is in a handler has a signal that
  is handled (`FaultInv`); an eventfd is closed, missing or read as -1 only after a failed
  step (`CloseInv`, `NotifierInv`, `ReadsInv`).
* `NativeLog` (`NativeInv`): the vector has different adapters in the slots it uses
  (`VectorInv`); a loop ends with the vector it began with unless it was shaken (`LoopOf`),
  has written to those adapters before its position that were on (`OutOf`, `OnOf`), and
  `OverOf` is what remains of that at the end. A crash is of the step that makes it, so that
  `CrashNeedsOverlap` is inductive beside these.
* `Strings` (`StringsInv`), for texts of any length. `string_split`, what the pieces should
  be (`PiecesFrom`), `OnePass` and `Join` are recursive functions, and the proof has to say
  what they return for every text. The induction theorems of the library cannot be
  instantiated, so that `Recursion` derives from the well-founded order of the naturals
  that a function with such an equation exists: were there a rank below which there is
  none, there would be a least one. `Agreement` says in the same way that two of them are
  the same. `PiecesFromFacts`, `OnePassFacts` and `JoinFacts` are the equations, `FindFacts`
  what `string::find` returns.
  * `string_split` (`SplitInv`): the pieces, joined, and the pattern are the text up to the
    position; no piece has the pattern; the pieces to come are those from the position on.
    Each iteration takes a character unless the pattern is empty.
  * `replace_all` replaces each match once (`PassInv`): the text has a part that is done
    and ends like the original from some place on (`Replacing`). A match in what is done
    would lie before the first one or have a letter of the replacement, so that the first
    match is the next of the original (`ReplacedMore`).
  * `replace_all` ends (`ReplaceInv`): a shorter replacement takes a character. One of the
    same length differs from the pattern first in some place; seen as the set of the places
    that have the replacement's letter of that place (`Marks`), the text goes up in the
    order of the first difference (`Precedes`, `ReplacedIsLater`), and there are fewer than
    `2 ^ MaxText` sets before one (`EarlierCounts`). That is why `StringsAssumption` has
    `2 ^ MaxText <= MaxLoops`.
  * `parse_query` (`QueryInv`): the pieces to come are those from some character on, and
    the map has the value of the last of the parts before it for each key (`Arriving`);
    a pair has two pieces (`PairPieces`), an empty part none (`NoPieces`).
  * The functions without a loop are never at its bound (`NoLoop`); `HexStaysInBuffer` is
    inductive.

*Model-checked only.*

* Liveness (`RequestEnds`, `WorkEnds`, `CallEnds`, `PartsEnd`): it needs
  fairness and ENABLED, which the prover does not have.
* The properties that the findings refute.

Every other property of a passing run is stated by a theorem.

## 5. Sensitivity

Each property of a passing run is paired in `PROJECT.json` with a variant of a
definition that breaks it: reading past the end of the file, dropping the test for the
empty name, loading once per process, letting a failed load empty the set, sending
without recording, `=` for `|=`; coding a body three times, saving error pages,
swallowing a failed save, asking the file instead of the service, sending although there
is an entry, retrying a damaged entry; losing a task at the end, not removing a task
from the queue, leaving with a task in the queue, not notifying, notifying one instead
of all, not asserting; adding one for several tasks, comparing before the decrement,
`if` for `while`; a lock that belongs to a thread or a descriptor, that everyone is
granted, that is waited for, or that is left to the close; writing without the monitor,
leaving the wrong monitor or none, dropping the end of a line; remembering the flag of a
Field after setting it, or not setting it; not marking or not waking the group that is
matched, giving the mutexes back before registering, not filling up the buffer, a push
that overtakes it, a close that tells nobody, operations left in the queues; following
links, `..` and `.` in a listing, a white list for files only, a white list whose
entries are entered all the same, returning true unasked; a semaphore for a counter,
reading without waiting, closing too early; a loop that stops or goes on at an adapter
that is off; RunUserShell with a pipe of its own for stderr; ends of matches that are
off by one.

## 6. Findings

* `redirect_fixture`: `ResourceCacheTest.GetCache` names the body "data" where `Cache`
  reads "body". Every redirected request of the deployed configuration ends with
  an exception.
* `redirect_replay`: `Cache.ToJson` codes the body twice, `Cache` decodes it once.
* `pool_late`: with NDEBUG a stopped pool accepts tasks, against its comment.
  The task is still run when another task enqueues it (`JoinedMeansRun` holds).
* `copper_late`: a request that is told `unavailable` at the end of its time may have been
  run by a partner before it left the queue, against the comment on the status. A
  caller that pushes the value again has pushed it twice.

## 7. Not modelled, and the plan

1. `HttpServer`: its table of handlers, which a handler may change while it runs, and
   `Close` under `Start`. It needs a model of what mongoose does with its connections.

Left out, with the reason:

* `PkgInstaller`: two callbacks that compare a name with a list. The model would be the
  comparison.
* The rest of `Hooker`: `HookClass` is in `OkhttpRedirect` as the set of methods it got
  hooked; `FakeClassSingleton` has no subclass.
* `FakeRealBufferedSource`: the state it changes is okio's, which is not here.
* `mid_string`, times, random strings, files of utils.cpp; `GetFilePerm` and the wrappers
  of linux_helper.cpp: one call, one outcome, no state.
* The text of log lines, headers, dates: no property is about them.
* Vendored libraries (json, sqlite, mongoose, tinyxml2, hv, dobby and others), reflection
  tables, callbacks that only log, JNI and system-call wrappers. The libraries are nine
  tenths of the lines of the repository and none of its own logic: modelling them would
  say nothing about xp_helper.
