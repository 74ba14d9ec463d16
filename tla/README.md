# A verification project for mini-tsc

mini-tsc translates TypeScript to C and links the result with a C runtime. This
directory holds TLA+ modules that model the parts of the compiler and of the
runtime whose correctness depends on order: threads, callbacks, queues, event
loops, memory that is freed while somebody still looks at it, and the order in
which modules are initialised. TLC checks them on small instances; TLAPS proves
all safety properties the runs check (of the worker pool, the timers and the event
loop, promises, the event emitter, the heap and its strings, exceptions, the hash
map, the module graph, worker threads, and the connections of the HTTP server) for
every instance. Section 1 is the inventory of the whole system,
section 2 the plan, sections 3 to 9 say what the modules model, what the runs and
proofs show, and what is left out.

Paths below are relative to the repository.

## 1. Inventory

### The system's parts

| Part | Source | State | Operations | Hard behaviour |
|---|---|---|---|---|
| Worker pool and async loop | `runtime/src/thread_pool.c` | two queues with a mutex and a condition variable each, `g_inflight`, `g_pool_inited`, `g_pool_shutdown`, 4 worker threads | submit, worker loop, completion poll and wait, shutdown, `ts_async_run` | threads, wakeups, nested polls, shutdown, restart |
| Timers | `runtime/src/builtins.c` 263-441 | linked list of timers | add, clear, poll, run | callbacks change the list while it is traversed; polls nest through `ts_await` |
| Promises | `runtime/src/promise.c` | state, result, one handler of each kind, one derived promise | new, resolve, reject, then, catch, finally, await | handlers run synchronously inside resolve and call back |
| Event loop | `src/driver/compiler.ts` 1241-1290, `ts_async_run`, `ts_await` | none of its own: composes the three above | the loop `main()` ends with | starvation, nested waits, jobs left over at exit |
| Garbage collector | `runtime/src/gc.c` | heap list, roots, threshold, byte counts | alloc, free, collect, collect when idle | objects that only `malloc`ed memory refers to; collection from other threads |
| EventEmitter | `runtime/src/builtins/node_events.c` | listener array per event | on, once, off, emit, removeAllListeners | listeners that change the list while it is emitted |
| WebSocket | `runtime/src/websocket.c` | list of objects, each with a descriptor and a ready state | connect, upgrade, send, close, receive, poll | partial reads, handlers that throw, objects used again |
| Worker threads | `runtime/src/builtins/node_worker_threads.c` | workers, ports with one queue each, the identity of "the" thread in globals | new, start, post, receive, terminate | globals that every worker overwrites, cancellation |
| HTTP server | `runtime/src/builtins/node_http.c` | accept threads, queue of pending requests, one global server | listen, accept, poll, respond, stream, upgrade | several threads, blocking reads, handlers that await |
| Net sockets | `runtime/src/builtins/node_net.c` | sockets and servers | connect, write, end, server poll | does not compile, and nothing polls it |
| File system | `runtime/src/builtins/node_fs.c` | one job record per asynchronous call | sync calls; async calls through the pool | job records keep promises outside the collector's reach |
| Child processes | `runtime/src/builtins/node_child_process.c` | pipes, pid | spawn, exec, execSync, kill | pipes that fill while the parent reads the other one |
| Strings and arrays | `runtime/src/string_ops.c`, `array_ops.c`, and the string statements of `src/codegen/expression-emitter.ts` and `statement-emitter.ts` | text blocks, item arrays, a reference count nobody increments | literals, concatenation, appends in place, push, reads, frees at the end of a loop body | one block with two holders, blocks freed too early |
| Other core values | `runtime/src/runtime.c`, `hashmap.c`, `closure.c` | values, hash tables | set, get, has, count; value operations | probing and growth, keys changed in place |
| Exceptions | `runtime/include/runtime.h` 475-485 | one global jump buffer and the pending exception | try, catch, throw | nested try blocks, throws through C frames of the runtime |
| Module resolver | `src/modules/module-resolver.ts`, the root files in `src/parser/ts-parser.ts` 112-147 | dependency graph | `parseTypeScript`'s root list, `buildGraph`, `detectCycles`, `topoSort` | cycles, re-exports, imports by bare names |
| Module init | `src/modules/module-init.ts`, `src/codegen/c-emitter.ts` | init flags in generated C | generated init functions and the choice of the entry | circular imports |
| Symbol mangler | `src/modules/symbol-mangler.ts` | name table | mangle | collisions |
| Parser, visitor, type mapper, emitters | `src/parser`, `src/visitor`, `src/types`, `src/codegen` | AST and C text | translation | size, not order |
| Driver, CLI, feature usage | `src/driver`, `src/cli` | file lists | read, compile, call cc | file I/O |
| Bindings | `node_os.c`, `node_process.c`, `node_crypto.c`, `node_sqlite.c`, `node_quickjs.c`, `node_7zip.c`, `node_webview.c`, `node_webkit.c`, `node_mouse.c`, `node_readline.c`, `node_ffi.c`, `node_path.c`, `node_assert.c`, `node_chalk.c`, `node_ctype.c`, `node_uuid.c` | handles of the library | one call each | mostly straight-line calls |
| Vendored code | `runtime/src/sqlite`, `runtime/src/quickjs`, 7-zip, `third_party` | - | - | third party |

### How they interact

The compiled program has one main thread. Its entry function runs the user's
code; asynchronous calls become `TsJob`s for the pool, timers go into the list,
and a promise links a result with the code that waits for it. `ts_await` does
not suspend: it polls timers and completions on the spot, so callbacks nest
inside callbacks. When the entry function returns, `main()` runs one of the
event loops that `generateMain` chooses by the features the program uses. The
collector runs inside allocations and from the event loop. `emit` calls
listeners synchronously. Worker threads and the HTTP accept thread are the only
other threads, and they share globals with the main thread. A request goes
from the kernel over an accept thread and the queue to the main thread, which
answers it or binds its connection to a WebSocket object that the main loop
polls. All objects are hash tables. A throw is a `longjmp` that unwinds not only
the program's functions but also the runtime's that called them.

### What makes each part correct

* Pool: a job is never lost, run twice, completed twice or used after it was
  freed; its completion sees its result; a sleeping worker never leaves a job
  waiting; the pending count is exact; the loop ends, and ends drained.
* Timers: a timeout fires at most once and at least once unless cleared, a
  cleared timer stays quiet, intervals keep their distance, nobody reads a
  freed timer.
* Promises: settled once, each handler called once, each derived promise
  settled when its source is.
* Event loop: every job completes and every timer fires before the program
  ends; neither starves the other.
* Collector, strings and arrays: nothing reachable is swept or freed, also from
  job records and timers; a string is the value that was assigned; the byte
  counts are exact and bound the heap.
* Exceptions: a throw reaches the innermost try block that is still open, and
  leaves the runtime in a state in which the program can go on.
* Hash map: probing ends, and the table answers like a finite map whatever its
  size and the hashes.
* Connections: one owner at a time, closed once; requests in order and all
  answered; open, messages, close in order, frames complete.
* Worker threads: a worker knows who it is, gets its messages, and stops when it
  is terminated.
* Emitter: a listener registered or removed during an emit stays so; a once
  listener is called once.
* Modules: a module is initialised once, and after what it imports; the file
  on the command line is the entry.

## 2. Plan

### Modules, in order of importance

| # | Module | Composes / refines | State |
|---|---|---|---|
| 1 | `JobService` | abstract specification: what the pool promises | done |
| 2 | `ThreadPool`, `ThreadPool_proofs` | implements `JobService` | done, proved |
| 3 | `Timers`, `MainThread_proofs` | - | done, proved |
| 4 | `EventLoop`, `MainThread_proofs` | extends `JobService`; timers, awaits and `main()`'s loops on top of it | done, proved |
| 5 | `Promise`, `Promise_proofs` | - | done, proved |
| 6 | `Events`, `Containers_proofs` | - | done, proved |
| 7 | `Heap`, `HeapStack_proofs` | the collector together with strings, arrays and the statements that use them | done, proved |
| 8 | `FiniteMap` | abstract specification: what a hash map promises | done |
| 9 | `HashMap`, `Containers_proofs` | implements `FiniteMap` | done, proved, the refinement too |
| 10 | `Exceptions`, `HeapStack_proofs` | one jump buffer against the stack of try blocks; callbacks of the pool, sockets and promises | done, proved |
| 11 | `ModuleGraph`, `ModuleGraph_proofs` | resolver, choice of the entry and init calls | done, proved |
| 12 | `Workers`, `Workers_proofs` | - | done, proved |
| 13 | `WebSocket` | server side of a connection | done |
| 14 | `HttpServer`, `HttpServer_proofs` | extends `WebSocket`; accept threads, queue, main loop | done, proved |

Each module keeps its parameters as CONSTANTS with a named assumption, has one
action per operation, and uses no recursive operator, so that theorems can be
stated about it. The programs a property is restricted to ("callbacks do not
await", "one reaction a promise", "one holder a string") are rigid variables
chosen in `Init`: one run then explores both kinds.

## 3. The modules

### JobService

What the users of the pool may rely on, with no threads, mutexes or condition
variables in it. `queue` holds the submitted jobs, `running` at most
`Parallelism` of them, `finished` the results in the order they were stored,
`delivering` the stack of completions in progress, `delivered` and `abandoned`
the jobs that are over. Jobs start in submission order, run once, and are
delivered once, in the order their results came; `Abandon` is what is left of
the queue when a pool that was shut down is started again.

### ThreadPool (`runtime/src/thread_pool.c`)

| Code | Module |
|---|---|
| `g_work`, `g_done` | `workQ`, `doneQ`, head first |
| `g_inflight`, `g_pool_inited`, `g_pool_shutdown` | `inflight`, `inited`, `shutdown` |
| position of a worker in `worker_main` / `q_pop` | `wpc`, its local job in `wjob` |
| C stack of nested completions | `frames` |
| `ts_async_run`'s position and `did` | `drv`, `did` |
| `malloc` / `free` of a `TsJob` | `heap`; what `work` stored, `ready` |
| `q_push`, `q_pop` | `PushWork`, `PopJob`, `PopExit`, `PopCheck`, `PopWait` |
| `ts_thread_pool_submit` with the lazy init | `SubmitCount`, `SubmitPush` |
| `ts_completion_poll`, `ts_completion_wait` | `PollCall`, `PollJob`, `CallbackReturn`, `Settle`, `PollEmpty`, `WaitCall`, `WaitTimeout` |
| `ts_thread_pool_shutdown` | `ShutdownCall`, `Broadcast`, `Join` |
| `ts_async_run` | `EntryReturn`, `LoopTest`, `LoopDecide` |

A critical section is one step. The exception is a worker that found the queue
empty: it holds `g_work.mu` between its test of `g_pool_shutdown` and
`pthread_cond_wait`, and `ts_thread_pool_shutdown` does not take that mutex, so
the flag and the broadcast can come in between (`PopCheck`, then `PopWait`).
Condition variables wake spuriously. User code may submit, poll, wait and shut
down wherever it runs, completions included. `draining` says at which depth of
completions `ts_thread_pool_shutdown` drains `g_done`: its poll ends when the
completions it called have returned, and those further out are still in progress
when the pool is down. If such a completion submits, `ts_thread_pool_init` sets
`g_inflight` to 0 (line 192), the submission makes it 1, and the return of the outer
completion makes it 0 (line 248) with a job in flight. The history variable
`miscounted` records that this happened. The one place where user code may not shut
down is a completion that the drain itself calls: the code would then join threads
that were joined, which is undefined.

### Timers (`runtime/src/builtins.c` 263-441)

A timer is its id; `ts_timer_add` prepends and ids grow, so the list is the set
`linked` in descending order. `polls` is the stack of `ts_timers_poll` calls,
each with the pointer it traverses with (`at`) and its local `now`. `FireTimer` calls
the next timer that is due and active; `CallbackReturn` does what follows the
call (re-arm, go on to `t->next`); `PollReturn` ends with
`ts_timers_gc_inactive`, which unlinks and frees. When the pointer's timer is no
longer linked, the same return is `ReadFreed`, after which nothing is promised.

### EventLoop (`src/driver/compiler.ts`, `thread_pool.c` 312-344, `promise.c` 115-147)

`stack` is the C stack of the main thread, with a frame for `main()`, for each
`ts_await`, each of the two polls and each callback. All waiting of a compiled
program is here: the three loops `generateMain` may emit, `ts_async_run`, and
`ts_await`, which does not suspend but polls. A callback settles its own promise
first (as the completions in `node_fs.c` do) and then runs user code, which may
submit jobs, set timeouts and await. The pool is `JobService`, which
`ThreadPool` is shown to implement; a timer is its state only, and time is the
step that makes it due. Sockets, workers and HTTP are reduced to "an event's
callback may run while something is open".

`ts_await` of a rejected promise throws (`promise.c:144-147`), as user code may
itself. Either the awaiting code catches it, and goes on as after any return
(`AwaitReturn`), or `Throw` unwinds: `longjmp` goes to a try statement of a callback
further out or to `main()`'s, and the polls, callbacks and awaits above are gone. A
job whose completion is among them was taken from `g_done` and is never counted
down: it stays in `cut`, and `ts_jobs_pending` is true for good. Programs in which
callbacks catch what is thrown in them are among those called `careful`. Which
frame is jumped to is any, since the one jump buffer may name any (`Exceptions` has
the buffer).

### Promise (`runtime/src/promise.c`)

A promise has room for one reaction: `then` stores both handlers and the derived
promise, `finally` a third handler, and a second call overwrites the first.
`stack` holds the `run_handlers` calls in progress, each at the start, in a
handler, before the finally handler or in it. `run_handlers` reads
`then_promise` after the handler returned, so `HandlerReturn` uses the reaction
of that moment. User code runs when the stack is empty and in handlers, and may
throw (`Throw`): `longjmp` drops all frames.

### Events (`runtime/src/builtins/node_events.c`)

Every `emit` in progress has its snapshot, its position and the list of those
that stay, which `EmitReturn` stores in the map it found when it began.
`removeAllListeners()` replaces the map, so the map has a number. `wanted` is
what the calls on the emitter asked for, a history variable the properties
compare with.

### Heap (`runtime/src/gc.c`, `string_ops.c`, `array_ops.c`, the emitted string statements)

A statement of the compiled program is one step: the blocks it frees, the
collection its allocation may start, the block it gets and the assignment. The
collector marks from the static data and the stack (`Roots`) and from whatever
stale word still lies on the conservatively scanned stack (`Stale`, a free
choice), through the items of arrays. No code increments a reference count, so
`refcount == 1`, which the append operations take for "sole owner", is just "on
the header list", and `heap` is that list. A block off the list may be handed
out again at once: dangling pointers then read another string. `want` and
`wantItems` are what the TypeScript program says its variables are worth.

### HashMap (`runtime/src/hashmap.c`), which implements FiniteMap

`entries` is the table, a function from slots, and `holds` what each string
object contains: the table keeps the pointer it was given as a key, and
`ts_string_append` changes a string in place (`StringAppend`). `Probe`, `Stops` and
`ProbeEnd` are the loop that `set`, `get` and `has` share. A resize is not one
step: `SetGrow` installs the empty table of twice the size, `Move` re-inserts one
slot of the old one through the second half of `set`, and `SetAfterGrow` does the
insertion that asked for it. During a resize nobody can look, so the abstract
map is what the old table says (`Answers`).

### Exceptions (`runtime/include/runtime.h` 475-485 and its callers)

`stack` is the C stack: `main()`, functions and callbacks, each with the try
statements it is in. `buffer` is `_ts_current_error`: the frame that executed
`setjmp` last and the try statements it was in then. There is no code at the end
of a try block (`LeaveTry`), so the buffer still names it. `Throw` goes to the
buffer, or is undefined if that frame returned. What the C function that called
a callback does next is in `AfterCallback`: a throw through it skips that. The
calls that run callbacks are the completion poll, the WebSocket poll with its
guard, and `ts_promise_resolve`.

### ModuleGraph (`src/modules/module-resolver.ts`, `src/driver/compiler.ts`)

A recursive `dfs` is an explicit stack `calls`, with the imports it has still to
visit; `FromKeys` and `FromImports` are the two places that call it, and
`ReadDfs`, `CyclesDfs` and `SortDfs` what it does. `Read` is the order in which
the TypeScript program lists its files: from each root file in turn (`RootFiles`),
depth first, a file after those it names by a path. The roots are the file on the
command line, the `.ts` files of `types/` and the local files that
`findLocalNpmImports` finds behind the bare names in the text of the entry
(`ts-parser.ts:112-127`); so the entry need not be the last key. What TypeScript
follows (`names`) and what `buildGraph` takes for imports (`imports`) are two
relations: an import by a bare name that `resolveImport` finds in the project is an
import, but TypeScript does not follow it, and its file may not be in the program at
all (`nodes.has`). Then `detectCycles`, the two loops of `topoSort` (`TopoSort`, and
`AppendCycles`, a key at a time), the choice of the entry (`EntryOf`) and the init
calls run one after the other. Re-exporting modules (`export {x} from`) are the
other way round: they have the named file in the program, but no import of it. That modules have no cycle is said
by sets (`HasCycle`): no set of them is such that each leads to one of the set.

### Workers (`runtime/src/builtins/node_worker_threads.c`)

A worker thread runs the program's own entry function. `isMainThread`,
`currentId`, `parentPort` and `workerData` are the globals of the file, written
one after the other by a starting thread (`SetMain` to `SetData`). `pc` says
where a thread is, also inside the two operations that are not atomic
(`g_next_thread_id++`, the getter that installs a port). `half` is what the entry
function was told when it asked `isMainThread`. A port is one queue: what a
worker posts on `parentPort` comes back to itself. `terminate` sets the flag,
cancels and joins. `pthread_cancel` is deferred, so `Cancelled` may happen at any
time but must happen only to a thread that waits in `pthread_join`, or in programs
whose workers come to a cancellation point again and again (the rule `"yields"`).

### WebSocket (`runtime/src/websocket.c`) and HttpServer (`runtime/src/builtins/node_http.c`)

`WebSocket` has the state of a connection and of the objects: `where` says who
has a connection, `fd` which one an object holds, `inbox` what can be read from
it. A frame may arrive in two parts, which join if the first was not read yet;
`ReadFrame` reads what is there and takes it for a whole frame, as
`ws_recv_frames` does. `log` records the calls of `onopen`, `onmessage` and
`onclose`.

`HttpServer` extends it with the accept threads (`Choose` reads the global
`g_server`, `Accept` and `ReadRequest` block), the queue, and the main thread,
whose `pc` walks through the drain of the queue, the timers, the poll of the
sockets and the second poll in `main()`. A handler may answer, stream, or upgrade
with or without a key; callbacks may listen, set timers and close sockets. A handler
may also throw, or return a promise that is rejected, for which `ts_await` throws
(`node_http.c:650-651`): `HandlerThrows` jumps to `main()`'s catch clause, after
which the loop goes on, with the request taken and the descriptor in no variable
(`where` is `"lost"`). Programs without such handlers have the rule `"contained"`.

## 4. The runs

| Run | Question | Result |
|---|---|---|
| `thread_pool` | Is a job always in one place and delivered once, does one signal a job suffice, is the count exact, does the loop end drained, does the pool implement `JobService`, and does every job complete? | holds |
| `thread_pool_shutdown` | "Wake all workers" (`thread_pool.c:288`): does `ts_thread_pool_shutdown` return? | violated |
| `timers` | Under callbacks that add, clear and await: no freed timer is read (without awaits), a timeout is called once at most and once at least, a cleared timer stays quiet, intervals keep their distance. | holds |
| `event_loop` | In all three loops, with awaits nested in callbacks and throws out of both: nothing is left at exit, no await of a job or timeout returns early, completions nest like the C stack, jobs are not starved, awaits return. | holds |
| `promise` | Derived promises settled, outcomes passed on, each handler called exactly once | holds |
| `events` | Exact listener lists, once listeners once, `removeAllListeners` final | holds |
| `heap` | In programs that share no string: no reachable block is freed, no block has two holders, every string is what was assigned. In all programs: the byte count is exact and the heap bounded. | holds |
| `hash_map` | Is there always a free slot to end a probe, is the count exact, does a resize never start another, and does the table implement a finite map? | holds |
| `exceptions` | Which programs catch in the innermost try block, never jump to a frame that returned, and skip nothing of what the runtime does after a callback? | holds |
| `module_graph` | Is what `detectCycles` reports a cycle, and is one reported for every cycle? Is every module initialised once, after what it imports, in the order of the language? Is the root the entry? | holds |
| `workers` | Do threads know who they are, do messages reach the right worker in order and at all, does `terminate` return and stop the thread? | holds |
| `http_server` | Has every connection one holder, are requests handled in order and all answered, are the events and frames of a socket complete and in order, is every socket read? | holds |

The violation: **lost wakeup at shutdown** (`thread_pool.c:286`). A worker has
seen the flag clear and the queue empty and holds the mutex; the main thread sets
the flag and broadcasts without it; then the worker goes to sleep, and
`pthread_join` waits for ever.

### Where the code keeps less than the language promises

Most properties say for which programs they hold, because for others the code
does not keep them. The programs are the rigid variables `careful`, `awaits`,
`plain`, `keysFixed` and `rules`; each run explores those inside and outside of
the restriction, so it is on the property and not on the model.

| Property | For programs | Otherwise |
|---|---|---|
| `InflightExact`, `ExitOnlyWhenDrained` (ThreadPool) | in which no completion shuts the pool down and then submits | the new pool counts from 0 (`thread_pool.c:192`) and the outer completion is counted down from it (248): `g_inflight` is too low, and `ts_async_run` may return with a job in flight. It also returns at once while the pool is down |
| `NoUseAfterFree`, `IntervalSpacing` (Timers) | whose timer callbacks do not await | a timeout is deactivated before its callback; if that awaits, a nested poll frees the timer, and the outer loop reads `t->next` from it (`builtins.c:387`, "fire all currently due timers"). An interval is called inside itself |
| `NothingLeftAtExit`, `EveryJobCompletes` (EventLoop) | whose timer callbacks submit no jobs, if the loop is `ts_async_run`, and whose callbacks catch what is thrown in them | it ends with `ts_timers_run`, after which a job is polled for once, without waiting (`thread_pool.c:326`). A job whose completion a throw leaves, an await of a rejected promise say (`promise.c:145`), stays in flight |
| `AwaitReturns` (EventLoop) | that await, in callbacks, only what something settles, and catch there what is thrown | the completion itself counts as pending, so "nothing will settle this promise" (`promise.c:138`) is never found; after a throw out of a completion it is found nowhere any more |
| `DerivedSettled`, `HandlersExactlyOnce` (Promise) | with one reaction a promise; no throw | a second `then` overwrites the first; `finally` on a settled promise runs the handlers again |
| `ListenersExact`, `OnceOnce` (Events) | whose listeners leave their own event alone | `emit` stores a list computed from its snapshot, undoing what listeners changed meanwhile (`node_events.c:226`, "safe" in the comment at 209) |
| `HandlesLive`, `OneHolder`, `ValuesAsWritten` (Heap) | that keep one holder a string | `const s = name;` in a loop body binds `s` to the block of `name`, which the end of the body frees (`statement-emitter.ts:524`, "dead temporaries" at 519); converting an array frees its strings; `+=` changes every holder |
| `ImplementsMap` (HashMap) | that change no string that is a key | the key changes inside the table and is found under neither name |
| `CatchesInnermost`, `NoUndefinedJump` (Exceptions) | whose try statements never overlap, in callers and callbacks either, and which throw only inside one | after an inner try statement, a throw goes to it again, or to a frame that returned; a throw in a catch clause repeats its own try statement's catch |
| `NothingSkipped`, `LoopEnds` (Exceptions) | whose callbacks catch what they throw | `g_inflight` stays up and the program never ends; `g_ws_polling` stays set and no socket is read any more; a derived promise stays pending |
| `LanguageOrder` (ModuleGraph) | whose files are all found from the entry by paths, without cycles | a local file that the entry imports by a bare name is read after the entry (`ts-parser.ts:124-127`), so with `import 'commander'; import './a'` the module `a` is initialised first |
| `ImportsFirst` (ModuleGraph) | as far as no reported cycle is involved | modules of cycles come after all others, also after those that import them (`module-resolver.ts:414`), though "they use lazy init" only in functions nobody calls |
| `EntryIsRoot` (ModuleGraph) | in which everything is imported, and the entry by nobody, or is on a reported cycle and the only root | a module that is only re-exported is imported by nobody, comes first, and is taken for the entry (`compiler.ts:1081`); a package that imports the entry back is read after it, is the last of the cycle, and is taken for it |
| `OwnIdentity`, `RightHalf` (Workers) | with one worker at a time, started by the main half of the entry | the "thread-local state" (`node_worker_threads.c:352`) is global |
| `TerminateReturns` (Workers) | whose workers come to a cancellation point again and again | one that computes, or polls `receiveMessageOnPort` (`mq_pop`: lock, unlock, `malloc`), is never cancelled, and `pthread_join` (`node_worker_threads.c:435`) waits for ever |
| `MessagesArrive` (Workers) | that post only to workers, and whose `main()` stays | `ts_worker_pending` is always 0 (`node_worker_threads.c:760`) |
| `OneHolder`, `SocketsAreRead` (HttpServer) | that upgrade with a fresh object, and whose handlers neither throw nor return a promise that is rejected | the object's earlier descriptor is overwritten and neither read nor closed; the throw leaves `node_http_server_poll` before it answers or closes (`node_http.c:682-683`) |
| `FramesInOrder` (HttpServer) | (clients) whose frames arrive whole | a partial frame is passed on, and its rest taken for a header |
| `HandledInOrder`, `EveryRequestAnswered` (HttpServer) | with one server; the latter also with no intervals, upgrades with a key, and handlers that do not throw | both accept threads accept on the second server; a streamed response lasts as long as any timer; the main thread waits for the key; a request whose handler throws gets no answer |

## 5. Bounds

| Constant | Value | Why it is enough |
|---|---|---|
| `Jobs`, `Workers` (`ThreadPool`) | 3, 2 | two jobs compete for a wakeup while a third is delivered or submitted by its completion; a worker can sleep, be awake or hold the mutex while the other works. The safety results are proved for any number |
| `MaxShutdowns` | 1 | one shutdown and the restart after it, each from code or from a completion, so that completions of the old pool return under the new one |
| `MaxTimers`, `MaxTime`, `MaxNest` | 2, 2, 2 | one timer traversed while the other is added, cleared or freed; an interval can come due twice; a poll inside a poll |
| `Jobs`, `Timers`, `Events`, `Orphans` (`EventLoop`) | 2, 1, 1, 1 | two jobs nest; each other activity meets both |
| `MaxDepth` (`EventLoop`) | 5 | main, await, poll, callback and an await in it |
| `MaxPromises`, `MaxDepth` (`Promise`) | 3, 3 | a chain of two derivations; handlers that re-enter `run_handlers` twice; two values show which outcome was passed |
| `MaxRegs`, `MaxClears`, `MaxDepth` (`Events`) | 3, 1, 2 | two events, one of them `error`, an emit inside an emit, one replaced map |
| `Strings`, `Arrays`, `Vars` (`Heap`) | 3, 2, 1 and the loop's own | one block a variable or element each, and one to be freed and handed out again; an old and a new array |
| `Contents`, `Strings`, `MaxCapacity`, `MaxAppends` (`HashMap`) | 4, 4, 8, 1 | two doublings from 2 slots; hashes that meet, probes that wrap round; one key changed in place. Termination of probing is proved for any table and hash |
| `Jobs`, `Messages`, `Thens`, `MaxFrames`, `MaxDepth`, `MaxTries`, `MaxThrows` (`Exceptions`) | see `Exceptions.cfg` | one callback of each kind, nested in each other and in functions; two try statements beside main()'s; a throw after a throw |
| `Modules`, `Programs` (`ModuleGraph`) | 4, all graphs of up to two names a module (`MCNames`), each with the `Variants` of `MCModuleGraph` | two cycles that share a module, a cycle entered at any of its modules; one re-exporting module; one module imported by its bare name, found by the scan of the entry or not, beside another root; all proved for any lists |
| `Workers`, `Messages` (`Workers`) | 2, 3 | two threads in every phase of their setup against the main thread; order of two messages, and one that is null |
| `Clients`, `Sockets`, `Servers`, `MaxFrames`, `MaxTimers` (`HttpServer`) | 2, 2, 2, 2, 1 | one connection is read while the other is handled, upgraded or overwritten; a second server; order of two frames |
| `MaxLen`, `MaxItems`, `MinThreshold` (`Heap`) | 2, 1, 1 | an append to a non-empty string; the lowest threshold makes collections start everywhere |

Every bound is a guard of the action it limits. Counters in history variables
stop at 2, since every property that reads them asks for at most one.

## 6. Fairness

* `ThreadPool`: each worker and the main thread are strongly fair, since a mutex
  may be taken and released by others again and again and still is granted in
  the end; user code returns if it can again and again (it is not an endless
  loop). Spurious wakeups and user calls are not fair. `work` returns.
* `Timers`: the clock advances (weak, it is enabled until the bound), the loop
  runs (weak), callbacks return (strong: user code may interleave other calls).
* `EventLoop`: pool, time and the main thread's own steps are weakly fair:
  nothing disables them. Callbacks and the entry function return (strong). Nothing
  is assumed of throws.
* `Exceptions`: callbacks are called, user code returns and main() goes on (weak).
* `ModuleGraph`: one sequential program that runs (weak fairness of `Next`).
* `Workers`: threads get through their setup, non-atomic operations and joins
  finish (weak). A cancelled thread ends if it is at a cancellation point
  (`AtCancellationPoint`): it waits in `pthread_join`, or the program has the rule
  that its workers yield. Without the rule nothing makes it end. That a worker polls
  its port is a rule of the program too, and only then fair.
* `HttpServer`: main thread and accept threads are scheduled, and a client that
  connected sends its request or leaves (weak); frames and leaving are not fair.
* `Promise`, `Events`, `Heap` and `HashMap` state safety only and assume no
  fairness.

`ShutdownReturns` is refuted under these assumptions.

## 7. What is proved

### The worker pool

`ThreadPool_proofs` proves, for every set of jobs, every finite non-empty set of
workers and every number of shutdowns (`ConstantsAssumption`):

| Theorem | Statement |
|---|---|
| `TypeCorrect` | `Spec => []TypeOK` |
| `JobsInOnePlace` | `Spec => []OnePlace` |
| `InflightCounts` | `Spec => []InflightExact`: never too high; exact unless a completion shut the pool down and submitted |
| `ResultsBeforeCompletions` | `Spec => []CompleteAfterWork` |
| `ReturnsDrained` | `Spec => []ExitOnlyWhenDrained`, for the same programs, if the pool is up |
| `JobsFindWorkers` | `Spec => []NoSleepingOnWork` |
| `Refinement` | `Spec => ImplementsService` |

The argument. None of the properties is inductive alone. `OnePlace` needs to
know which local variables are set at which program counter (`Control`): a
worker's job counts as held only between pop and push. It also needs what
shutdown leaves behind (`Stopped`), or a restart could reset queues that
still have completions. `InflightExact` is preserved by adding and removing
one element of `Outstanding`, which must therefore be finite, and by a
completion's decrement only because `OnePlace` says that its job is
outstanding. A completion that belongs to an earlier pool is counted down from the
count of the new one, which is what `miscounted` excepts; too high it never gets.
`CompleteAfterWork` needs `ResultStored` for the worker
between `work` and push. `ExitOnlyWhenDrained` needs `LoopLeft`: between the
loop's last test and the exit nobody submits, and an exact count of 0 means that
none is outstanding. Together these are `PoolInv`.

Most steps touch little of this state; the `Quiet` lemmas say that a step which
leaves queues, workers' jobs and frames alone preserves `PoolInv`, and there is
one lemma for each step that does not. `JobsFindWorkers` adds `CheckedEmpty` (a
worker that is about to wait still sees an empty queue, because it holds the
mutex) to get `WakeInv`. The refinement maps `running` to the jobs workers hold,
`delivered` to the freed and `abandoned` to the leaked jobs; each step then maps
to a step of `JobService` or to a stutter, under `PoolInv`.

### The hash map

`Containers_proofs` extends `HashMap` and `Events`, and proves each for its own
specification (`Spec` and `EventsSpec`). For every hash function with natural values, every
initial capacity of at least 2 and every bound (`HashMapAssumption`), also for
programs that change keys in place, it proves:

| Theorem | Statement |
|---|---|
| `TableSafe` | `Spec => []TableInv` |
| `ProbingEnds` | `Spec => []ProbesStop`: for every content, the probe ends inside the table, at a free slot or at a key with that content |
| `Refinement` | `Spec => ImplementsMap`: the table is a `FiniteMap` of contents, if no string that is a key is changed |

The argument (`TableIInv`). A table at rest holds at most three quarters of its
capacity. While a growth is under way, the load is at most the number of slots of
the old table that are done (`Load`), so at most the old capacity, which is less
than three quarters of the doubled one: no second growth can start, and there is
room for the association that started the first. So a slot is free
(`CapacityFacts`); walking from any home and wrapping round reaches it, and the
probe ends there or before (`ProbeEndFacts`, with the least such distance from
the well-foundedness of `<`). The count is kept because an insertion occupies
exactly the slot where its probe ended (`InsertFacts`).

The refinement needs `MapIInv`. `Located`: every key is where the probe for its
content ends, so two keys never have one content, and what `get` finds is what
`set` stored. Occupying a free slot keeps that: a probe that ended elsewhere does
not pass through the slot, or it would have ended there. `MovedSoFar`: during a
growth the new table answers as the old one does for contents whose slot there is
done, and has nothing else; when all slots are done the two agree, and the
growth was a stutter of the abstract map.

### The main thread

`MainThread_proofs` extends `EventLoop` and `Timers`, whose names differ, and proves
each for its own specification (`Spec` and `TimersSpec`).

The timers, for any number of timers, any intervals and any nesting:

| Theorem | Statement |
|---|---|
| `TimersSafe` | `TimersSpec => []TimersInv`: in programs whose callbacks do not await, no freed timer is read; a timeout is called at most once |
| `IntervalsSpaced` | `TimersSpec => IntervalSpacing` |
| `ClearedTimersQuiet` | `TimersSpec => ClearedStaysQuiet` |

The argument (`TimersIInv`). Without awaits a poll runs to its end before the
next starts, so only its own last step frees, and what the traversal points to is
still linked. With awaits the traversal may stand on anything, but ids are fresh
and a timeout is off before its callback starts, so nothing calls it again. An
interval's due time is set after its callback returned, from the clock of that
moment (`NextCallLate`), which spaces the calls.

The event loop, for any jobs, timers, server events, promises nobody settles, and
depth of callbacks:

| Theorem | Statement |
|---|---|
| `LoopSafe` | `Spec => []LoopInv`: types, nothing pending when `main()` returns (careful programs), completions nest |
| `AwaitsSettle` | `Spec => AwaitSettles` |

The argument (`Core`, which is `LoopIInv` without what follows from it).
`CompletionsOnStack` speaks of the whole stack at once, so it is kept as an
enumeration: the n-th completion in progress is that of the n-th job callback on
the stack, and a poll or a return adds or removes the last of both (`CallJob`,
`JobReturns`). `JobsOnce`: a job is queued, running, finished, being completed or
completed, and only one of these; its promise is settled from the call of the
callback on. `Awaited`: the job an await waits for was submitted and the timeout
was set; so if nothing is pending when the await gives up, the promise is settled.
`Winding`: once `ts_async_run` polls the timers for the last time no job is
pending, and only a timer's callback can run above it; such a callback submits no
job in the programs the property is about, so nothing becomes pending on the way to
the end of `main()`. Every other step of the stack than a throw is a move, a call or
a return (`Moves`, `Grows`, `Shrinks`), and one lemma for each, above `main()` and in
it, keeps the invariant. A throw takes the upper part of the stack away, and with it
the last of the completions in progress, as many as it has job callbacks.

### Promises

`Promise_proofs` proves, for any promises, values and depth of nested handlers:

| Theorem | Statement |
|---|---|
| `PromisesSafe` | `Spec => []PromiseInv`: state goes with result, outcomes pass through promises without a handler |
| `DerivedAlwaysSettled` | `Spec => []DerivedSettled` |
| `HandlersCalledOnce` | `Spec => []HandlersExactlyOnce` |

The argument (`PromiseIInv`) follows a derived promise from `then` to its
settlement. `Derivation`: what is not made yet is untouched, and a derived
promise has one source, is settled by it alone and not before it. `Frames`: only
the innermost `run_handlers` can be at its start, and one that stands in a handler
had a handler, unless a reaction put in since has been served. `DerivedAwaited`:
the derived promise of a settled one is settled, or a frame on the stack is about
to settle it, or an exception has cut that frame. When the stack is empty only the
first and the last remain. `Served`, for programs with one reaction a promise,
counts calls: the only handler that may still be uncalled although its promise is
settled is that of the innermost frame at its start (`Due`); and no other frame can
call it again, because a derived promise has one source and a settled promise is
not settled again.

### The event emitter

`Containers_proofs` proves also, for any events, listeners, registrations and
depth of nested emits:

| Theorem | Statement |
|---|---|
| `EmitterSafe` | `EventsSpec => []EventsInv`: what was used up or cleared does not come back |
| `ListenersAlwaysExact` | `EventsSpec => []ListenersExact` |

The argument (`EventsIInv`). `Registered`: every registration has its own number
and belongs to one event, so calling a listener uses up nothing of another event.
`Snapshots`: what an emit has and keeps comes from the map it started with; after
`removeAllListeners()` that is an old one, and the emit's store goes nowhere.
`Undisturbed`: as long as listeners leave the event alone, what the emit kept so
far followed by the rest of its snapshot is the list wanted (`AsWanted`); at the
end the rest is empty, and the list stored is the list wanted.

### Worker threads

`Workers_proofs` proves, for any workers, messages and kinds of program
(`WorkersAssumption`):

| Theorem | Statement |
|---|---|
| `WorkersKnowThemselves` | `Spec => []OwnIdentity` |
| `WorkersSafe` | `Spec => []WorkersInv`: types, messages, halves, ids, termination |

The argument (`WorkersIInv`). `Lifecycle`: an object is made, numbered, started
and run in this order. `JoinedOrGone`: a terminated worker has ended, or its
creator waits for it, unless that has been cancelled itself. `OnlyMainCreates`: if
the entry is guarded, the main thread's test comes before the first start and a
worker's test after the flag was cleared, so no worker creates workers, and
between the read and the write of `g_next_thread_id` nobody else reads it.
`OneLive`: with one worker at a time there is one live thread besides the main
one, the globals it has stored are its own, and the getter never finds an empty
`g_parent_port` while code of a worker runs, so it never installs one. `OwnPort`:
the only port such a worker can hold is its own, so what it received followed by
what is still queued is what was posted to it (`MessagesReachTheirWorker`); a null
that was posted is received as "no message" (`Answer`). `Numbered`: an id counts
worker objects, which bounds the numbers `TypeOK` speaks of.

### The heap and the C stack

`HeapStack_proofs` extends `Heap` and `Exceptions`, and proves each for its own
specification (`Spec` and `ThrowSpec`).

The heap, for any blocks, variables, arrays, texts and thresholds, and
whatever stale words the conservative scan meets:

| Theorem | Statement |
|---|---|
| `HeapSafe` | `Spec => []HeapInv`: types, one holder a string, exact byte count, bounded heap |
| `NothingReachableFreed` | `Spec => []HandlesLive` |
| `StringsAsWritten` | `Spec => []ValuesAsWritten` |

The argument (`HeapIInv`). The three need each other. A statement frees the block
of the variable it assigns, and an append writes into it: that is harmless only if
nobody else holds it (`OneHolder`). A block that is handed out was off the header
list, so it is none that is held, since those are on it (`HandlesLive`). And that
an append in place is taken for the right string needs the text to be there
(`ValuesAsWritten`). A collection frees blocks but none that a variable or the
array reaches, whatever else `Stale` keeps. The byte count is kept because each
statement adds and removes single blocks of a finite heap; the bound, because a
collection starts before an allocation that would pass the threshold.

The jump buffer, for any nesting of functions, try statements, callbacks and
throws, and any kinds of program:

| Theorem | Statement |
|---|---|
| `ThrowsSafe` | `ThrowSpec => []ThrowInv`: no jump to a frame that returned, and nothing skipped |
| `ThrowsCaughtInnermost` | `ThrowSpec => CatchesInnermost` |

The argument (`ThrowIInv`). `Skeleton`: ids grow along the stack, so a buffer names
at most one frame, and a job, message or reaction has at most one callback on it.
`BufferNamesBody`: if try statements do not overlap, at most one block is running,
it is its frame's last, and the buffer was set by it; `EnterTry` where another block
runs is what the discipline excludes, and functions that return out of a block take
it away with them. `MainsTry`: if `main()`'s is the only one, the buffer keeps
naming the frame below all others. `JobsCounted` needs no discipline: a throw can leave
`g_inflight` too high but never too low, so the count does not go below zero.

### The module graph

`ModuleGraph_proofs` proves, for any modules and any lists of names, imports and
root files, which need have nothing to do with each other (`ModuleGraphAssumption`):

| Theorem | Statement |
|---|---|
| `GraphSafe` | `Spec => []GraphInv`: the cycles reported are cycles and none is missed; every module is initialised once |
| `ImportsAlwaysFirst` | `Spec => []ImportsFirst` |
| `OrderOfLanguage` | `Spec => []LanguageOrder`, for one root and imports by paths |
| `EntryAlwaysRoot` | `Spec => []EntryIsRoot`, where what is in the program is imported |

The argument (`GraphIInv`). The three traversals share two invariants. `Path`: the
calls in progress are a path of modules that lead to each other, each once.
`Behind`: what a module leads to was left before it, is still ahead of it or is the
next on the path, with one exception for each traversal (`Excused`): a name that
closes a cycle of names, an import of which both ends are on reported cycles, an
import that is on one; and, once the files are read, an import that is not among
them. Entering, skipping and leaving a module keep both
(`Enters`, `Skips`, `Leaves`), whatever the traversal does besides.

A cycle is reported when the module found on the stack is on the path: the part of
the path from there on is the cycle (`CycleFacts`). That none is missed is kept
step by step (`Detecting`): the modules left and not reported have no cycle. When
one more is left, a set in which every module leads to another must contain it,
and with it removed would be such a set before, since by `Behind` nothing left
earlier leads to it without being excused (`CyclesDfsStep`, `DetectCyclesStep`).
This needs no induction over the graph.

In the sort the modules left are those in the order, so by `Behind` an import goes
first (`ImportsBefore`), from whichever key the sort starts. In a program without
cycles of names, the files come after those they name (`NamesBefore`, kept while
they are read unless a cycle was found). If all imports are among the names
(`Plain`), every `dfs` of the sort returns at once from all imports, re-exported
modules included, and the order is that of the files (`Sorting`); with one root,
that is the language's order. The entry: every file but the roots is named by
another (`Named`), so if what is named or a root is also imported (`AllImported`),
only the file compiled can be imported by nobody. If it is the only root, it is the
last key (`OneRoot`), and when it is on a reported cycle, the second loop puts it
last (`Appending`).

### The HTTP server and its sockets

`HttpServer_proofs` proves, for any clients, servers, sockets and programs:

| Theorem | Statement |
|---|---|
| `RequestsInOrder` | `Spec => []HandledInOrder` |
| `ConnectionsSafe` | `Spec => []ServerInv`: one holder, events in order, whole frames complete and in order |

The argument for the first. With one server one thread takes connections, from one
backlog, and holds one at a time (`OneThread`). So the requests handled, those
queued, the one being read and the connections waiting stand in line, in the order
of connection (`InLine`); each step moves the first of one part to the end of the
next, or a new client to the end of the line.

The argument for the second (`ServerIInv`). `HoldersOf` is a set over all places,
so a step that moves a connection must know that it is in no other place. `Names`
says so: `where[c]` is the place, no place holds a connection twice, and no two
threads or objects hold the same one. `Busy`: the main thread holds a connection
just while a handler, a stream or the wait for a key is on its stack, through
callbacks too, so a new request never overwrites one. `NoneLost`: only a throw out
of a handler leaves a connection in no place. `Accounted`: the descriptor
is closed once, when the connection goes, and only a WebSocket has events.
`WholeFrames`: the frames heard and those still in the socket are 1, 2, 3, ...
without a gap, in whole pieces, for clients whose frames arrive whole.

## 8. What is only model-checked

All liveness properties (`AwaitReturns`, `EveryJobCompletes`, `LoopEnds` and the
others of section 4): fairness and ENABLED are beyond the prover. Every safety
property of a passing run, invariant or action property, has a theorem, and so have
the two refinements.

What a recursive definition computes for every input cannot be proved: the
induction theorems of the library cannot be instantiated here. So the bounds that
are sums over a set (`MaxFrames` limits the frames of all clients together) are
guards, and `TypeOK` does not repeat them; and the acyclicity of a graph is stated
by sets of modules and not by paths.

The invariants a run checks come in two sizes. The one named after the module
(`LoopInv`, `TimersInv`, `PromiseInv`, `EventsInv`, `HeapInv`, `TableInv`,
`ThrowInv`, `GraphInv`, `WorkersInv`, `ServerInv`) is the conjunction of the type
invariant and of the parts its definition names, which are documented one by
one; the others stand alone.

## 9. What is not modelled

* `ThreadPool`: a call of `ts_thread_pool_shutdown` out of a completion that an
  outer call is draining, which joins threads that were joined (undefined). Throws
  out of completions (see `EventLoop` and `Exceptions`). `JobService` knows orders
  and counts but no stored results; that a completion finds what `work` stored is
  `CompleteAfterWork`, a part of `OnePlace`. Windows builds (critical sections and their condition variables
  in place of the POSIX ones). Of the two versions of `ts_async_run`,
  `ThreadPool` has the one without timers and `EventLoop` the one with them.
* `Timers`: a clock that is set back, ids that overflow, sub-tick tolerance, throws
  out of callbacks.
* `EventLoop`: intervals (see `Timers`) and what a socket, worker or HTTP poll
  does before it calls back. `clearTimeout` of a timeout that is awaited: nothing
  would then settle its promise, and the await would give up with it pending, against
  `AwaitSettles`. The freed timer that an outer traversal reads after a nested one
  freed it, when a timer's callback awaits (`Timers` has it, as `ReadFreed`): here it
  is taken for an inactive timer. Which promises are rejected: every await of a
  settled one may throw. Promises that nothing settles are not awaited, in careful
  programs, by callbacks; after a throw out of a completion even an await in the
  entry function never gives up on one, since `g_inflight` stays up.
* `Promise`: handlers that return promises are not unwrapped by the code, so a
  promise is a value like any other. `Promise.all` and the like are not in
  `promise.c`.
* `Events`: more than one emitter, the queries, the warning about too many
  listeners.
* `Heap`: explicitly registered roots (nobody registers any), blocks of other
  kinds (maps, closures, promises), nested arrays, interior pointers, pointers
  held only in registers or in `malloc`ed records, collections on other threads,
  and the emitted form of `s.charAt(i) + w`, which appends in the wrong order, and
  the append of a `charAt` out of range, which adds a NUL character where the
  language adds nothing (`string_ops.c:102-103`).
* `HashMap`: `for_each` and `to_string` (which reads its quote string after it
  freed it, `hashmap.c:129` and `135`), and the collector's walk over a table.
* `Exceptions`: `finally`, which is code after the try statement, and the value
  thrown. Callbacks other than those of jobs, sockets and promises unwind in the
  same way.
* `ModuleGraph`: how a specifier is resolved to a file, by TypeScript, by
  `resolveImport` or by `findModuleInDir` (the lists are any); the code of
  `ts.createProgram`, of which only the order of traversal is modelled; a root
  list with declaration files, which are filtered out; and the functions of
  `module-init.ts` (`generateDagInit`, `generateLazyInit`), which nobody calls. For
  modules on reported cycles no order is stated.
* `Workers`: `MessageChannel` ports of the program's own, handlers stored with
  `on` (never called), the close flag (never read), and programs in which
  another thread than its creator starts or terminates a worker.
* `WebSocket`, `HttpServer`: the client side, ping and pong, frames of more than
  a mebibyte, errors of `accept`, one server listening twice, several timers due
  in one poll, and callbacks of sockets that await or throw (`g_ws_polling` stays
  set then, and no socket is read any more: `Exceptions`). What becomes of a
  connection that is overwritten or lost is stated only as far as nobody holds it;
  of two servers only `ServerInv` is claimed.
* `node_net.c` does not compile as it is, and no loop polls it.
* Hazards without a module: roots the collector does not see (a promise held
  only by a `malloc`ed job record, `node_fs.c:310`; a collection that starts on a
  worker thread, `gc.c:410`), and the pipes of a child process, read one after
  the other (`node_child_process.c:331`).
* The components marked `not_modelled` in `PROJECT.json`, each with its reason:
  pure input and output, one-call bindings, the translation from trees to text,
  and third-party code. SQLite, QuickJS and 7-zip are most of the repository's
  lines; they are used unchanged, through the one-call bindings, and their
  correctness is not a property of this program.
