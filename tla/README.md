# Gothic framework: a TLA+ model

Gothic is a Go web framework: server-rendered templ pages, page modules compiled
to WebAssembly that share state in the browser through "topics", a file-based
router with a page cache, and a command line tool with hot reload. This directory
holds TLA+ modules that model its stateful parts, the TLC configurations that
check them on small instances, and theorems about them that TLAPS checks for every
instance. Paths below are relative to `src/`; `helpers/` is `src/pkg/helpers/`, and
`runtime/` is `src/pkg/wasm/wasm-runtime/runtime/`.

    tlc -config MCTopicSync_safety.cfg MCTopicSync     # any run: its cfg, its MC module
    tlapm TopicSyncProofs.tla                          # the proofs of a module

`PROJECT.json` lists the runs, the mutants (small bugs put into a definition that
the property named beside it must catch), the lines each definition models, the
disagreements found, the hazards and the theorems.

## 1. The system and its parts

| Component | Keeps | Operations | Talks to | Hard because |
|---|---|---|---|---|
| **Topics** (`helpers/wasm/embedded_templates/wasm_topic_manager_main.go.tmpl`, `wasm_page_main.go.tmpl`, `runtime/topic.go`) | manager: fields, whole struct, dirty flag; consumer: field values, online flag, pending struct; browser: string store, one payload slot per event name, microtask queue | boot, whole-struct and per-field request, broadcast, ping, online ack | each other, through window globals and events only: every WASM module has a heap of its own | ordering, slots overwritten while events are queued, either side may boot first |
| **Reactive runtime** (`runtime/observable.go`, `observer.go`, `scheduler.go`) | subscription lists, active flags, cleanups, batch depth, pending list | Set, Observe, ObserveWithCleanup, Stop, BeginBatch, EndBatch | user callbacks, which call it again | re-entrancy: loops inside loops over copies of lists that change |
| **Page and API cache** (`helpers/routes/fileBasedRouting.go`, `cache_memory.go`, `cache_files.go`) | entries with expiry time, or files plus a map of expiry times | Get, Set and the STATIC and ISR handlers around them | concurrent HTTP requests, the file system | check-then-act without lock, files written in place, restarts |
| **Hot reload** (`cmd/hotReload.go`) | watched directories, debounce timer, mutex, current process | event, timer, rebuild, cancel and launch | file system, child processes, proxy | three kinds of goroutine, edits in the middle of a rebuild, processes that take time to die |
| **Development proxy** (`helpers/proxy/proxy.go`, `script.js`) | table of event streams, one unbuffered channel each | register, Send, deliver, unregister; retry; rewriting of responses | browser tabs, hot reload | blocking goroutines against a channel being closed |
| **WASM build** (`helpers/wasm/wasm_build.go`, `wasm_cache.go`, `wasm_compress.go`, `cmd/wasm.go`) | output files, hash cache in memory and on disk | scan, collect topics, hash, skip or compile, compress, record, save; `wasm clean` | compilers, the developer's editor | parallel page builds, edits between scan and hash, killed and failed builds, files written in place |
| **Tools** (`helpers/wasm/wasm_binary.go`, `wasm_archive.go`, `helpers/tailwind.go`) | a binary, a directory, temporary names | look, download with retries, verify, extract, replace | network, other processes of the same user | a directory cannot be replaced at once; two processes, kills, half archives |
| **Binary codec** (`helpers/wasm/wasm_codec.go`, `wasm_codec_types.go`, `runtime/codec.go`) | none | code of a type; encode, decode, capture | topics | widths, signs, lengths, containers in containers; capture is a decoder with its writes cut out |
| **Page scan, tree shaking** (`helpers/wasm/wasm_scan.go`, `astx/`) | a queue of declarations, what was seen, what was found | find the page literal, search what it reaches, collect imports | WASM build | several names in a declaration, several files in a package, declarations that use each other |
| **Topic code generation** (`helpers/wasm/wasm_topic.go`) | topic sources and `topic_gen.go`, rewritten in place | read, name, generate, normalise | WASM build, watcher | reads what it has rewritten, in up to five passes of a command, those of the pages in parallel; kills between two files |
| **Route generation** (`helpers/routes/fileBasedRouting.go`, `routescan_ast.go`) | `routes_gen.go`, the helper's lists | walk three folders, deduplicate, prune, write | watcher, the developer's editor | lists kept between renders; files come and go during the walks |
| **Bootstrap and DOM events** (`helpers/routes/wasm_bootstrap.go`, `runtime/events.go`) | one global Go class, a slot per compiler, scope ids, one registry entry per module, one proxy per name | insert, load shim, instantiate, register, dispatch | browser, htmx, reload script | scripts interleave at awaits, modules outlive their page, names are shared |
| Source rewriting (`helpers/wasm/wasm_rewrite.go`) | none | Go syntax tree to Go syntax tree | WASM build | meaning of the input language |
| Templ render cache, migrations, init, deploy, image optimisation | files | sequences of file and cloud calls | the outside | partial failure |

What makes each correct:

* **Topics.** Consumers converge to the manager's values; a deferred rebuild of the
  whole struct is never forgotten; the last request wins; every consumer gets
  online and hands its pending struct over.
* **Reactive.** No notification is lost, lists and subscriptions agree, Stop is
  final, cleanups run.
* **Cache.** A request is answered with something rendered for its own key, whole,
  and, if the page expires, before it has expired.
* **Hot reload.** The last edit gets built and the rebuilds come to rest; only the newest
  process serves.
* **Proxy.** A stream gets each event once; no goroutine is left blocked; a client
  that leaves harms nobody.
* **WASM build.** What a build skips or builds is made from the sources as they are,
  whole, in one compression; every build ends.
* **Tools.** A tool that looks ready is whole, and, where a checksum was compared, the
  right one; installing ends.
* **Codec.** A module of either compiler reads back every field that has room on the wire and
  in its own types; captured bytes are those of their field; a message cut short is an error.
* **Tree shaking, topic generation.** A page gets what it reaches, no more and no
  less; no name is declared twice; the accessors pages call stay.
* **Routes.** Every route written has its import; no import is left over.
* **Bootstrap.** A module runs with its own compiler's shim and hears the events of its
  own element.

## 2. Modules, and how they correspond to the code

### TopicSync

One topic of one page, with the manager(s) and the consumers that mount it.

| State | Code |
|---|---|
| `store` | `window.__gothic_topic_store[key]`; `AsText` is the trip through a JS string (topic.go, `string(data)`) |
| `reqSlot`, `reqFieldSlot`, `eventSlot`, `onlineSlot` | `window.__gothic_topic[name]`, one slot per event name |
| `queue`, `current`, `todo` | the microtasks queued by each broadcast; the event being dispatched; its listeners still to run |
| `fields`, `whole`, `dirty` | `_fields`, `_lastWholeEncoded`, `_wholeDirty` of a manager |
| `value`, `online`, `pending` | the fields of the topic object, `_online`, `_pending` of a consumer |
| `origin` | history: where a consumer's value of a field comes from |

Boots are tasks (`Idle`), deliveries are microtasks, and each listener of a delivered
event is one step, since listeners run one after the other and effects of a
listener run inside it (`Acts`). Pings are synchronous events. `OnOnlineEffect` is
the effect that runs between the end of the ack's batch and `_online = true`.
A page whose code sets one field several times in the same callback takes several steps.

### Reactive

The call stack is a variable. A frame is a loop over a copied list (`notify`,
`flush`) or user code (`observe`, `fn`, `cleanup`); user code makes one runtime call
per step, in any order and any number, and may return at any time. The auto-tracking
branch (`explicitDeps = false`) is reached by no constructor and is left out.

### CachedRoutes, PageCache, MemoryCache, FileCache

`PageCache` is the abstract promise: an answer is a rendering made for the request,
or an earlier rendering of the same key, and (where `Expires`) one whose time has not
run out. `MemoryCache` and `FileCache` model the handlers and their store step by
step, with the lock sections of the code as steps, and implement it: `KeepsPromise`
is `Promise!Spec`, with `Promise == INSTANCE PageCache WITH answer <- ...`. The abstract `renderings` is
history the modules keep. `CachedRoutes` declares the constants they share.
`FileCache` treats a file as `os.WriteFile` and `os.ReadFile` do: truncated first,
written from offset 0 through each writer's own descriptor, readable and removable at
any time, unless the removal fails, which the code does not notice; it implements the promise with `Expires <- FALSE` only, see section 4.
The key is what the code builds: URI without method.

### HotReload

Sources have a version, each edit is the next one. Rebuilds are goroutines: `waiting`
for the mutex, then `step` through generate, wasm, compile, restart. `from` is the
version at the start of the rebuild: a rebuild that reads files while they change is
taken to have built the oldest version it read. A version in `Broken` fails to
generate or to compile. Processes are `launched`, `starting` (exec'ed, not listening),
`serving` or `gone`; cancelling sends a signal that takes effect later.

`watching` is how far `watchForChanges` is: it adds the directories one by one after the first rebuild
(`adding`), and either gets them all or stops at an error, rebuilds once more and begins its loop with what it has
(`partly`). While some are not added, a write may raise an event or none (`Noticed`, `Unnoticed`); `missed` is history, the
last edit that raised none. The WASM step rewrites topic sources that are not in normal form (`Rewritable`), which is such a write too; the
generated files are not watched.

### SseHub

One handler goroutine per stream, its channel, the table of streams and the goroutines
Send starts. A goroutine blocked on a channel that is closed panics, and no one
recovers it, so the process is gone (`panicked`). Its names begin with `Hub`: one module
proves the theorems of both halves of the development server.

### CacheStore

The application's choice between the two stores, and one property for both:
`KeepsPromise` is `PageCache` with expiry over the memory store, and without it over
files. `App` pairs a strategy with the routes and the number of content versions of
an application (a bound).

### WasmBuild

| State | Code |
|---|---|
| `text`, `edits` | sources on disk, each text a number; `Brotli` are the texts whose configuration asks for brotli |
| `out` | `public/wasm/<name>.wasm.gz` and `.br`: missing, torn, or what it was compiled from |
| `cacheFile`, `cache`, `hash` | `wasm-cache.json`, its copy in memory, and the hashes taken in this command |
| `scanned`, `used` | the texts the command works from, and the topics a target was compiled with |
| `at`, `phase` | the goroutine of each target; the command |
| `quiet`, `suspect` | history: nothing disturbed the last command; targets the hash cache may be wrong about |

A hash is the record of what it covers (`PageHash`, `ManagerHash`), so two hashes are
equal exactly when their inputs are. Managers are built one after the other, pages by
goroutines with `Cpus` permits. Each read, each write of a file in place and each
critical section is a step; `Edit`, `Kill` and `Fail` fall between any two.

### ToolInstall

Processes with private steps over a shared directory tree: `final`, `tmp` (the same
name for all), `file` (Tailwind). A directory is a function from entries to what they
hold, so removing one (`List`, `RemoveEntry`, `RemoveDir`) takes several steps in
which others can interfere, and renaming over one that is there fails. Binaryen is
installed by the same steps as TinyGo in a directory of its own, without checksum:
the case where `Expect` finds none.

### Codec

Pure operators, in the steps of the code:

* The generator: `StructCode` chooses code for each field's type, a tree (`TypeCode`, `SliceCode`, `MapCode`, ...), or refuses it (`Accepts`).
* The encoder: `Put` is the set of messages of a value, since Go ranges over a map in any order.
* The decoder: `DecLines` are the statements the format strings of `wasm_codec.go` write, with their variables
  (`_n`, `_i`, `_item`, `_inner`, `_sv`, ...), and `Run` executes them with Go's scopes, so that a variable that hides another does so here.
* The captures: `CaptureLines` are those statements after `StripReceiver` (`stripReceiverWrites`), which cuts the writes to the field out;
  `CaptureAllFields` runs them over a message as the manager does.
* Go: `Compiles` says whether each variable is in scope, used, and assigned what it may hold. The generator accepts types
  whose code does not compile (section 4); no module exists then, so only structs in `Builds` are sent.

`int` and `uint` are a `Word`: four bytes in a TinyGo module, eight in one compiled with Go, and both kinds mount topics on one page. `Fits`
says which numbers have room on the wire and at the reader. A byte is a digit of base `Byte` because TLC's integers are 32 bits wide
and only the number of bytes matters. `MCGeneration` sends one value of one struct from a module of either compiler to one of either, in each behaviour.

### TreeShake

`scanFile` on one page, each identifier, declaration and import spec a step.

| State | Code |
|---|---|
| `package` | what the loader has parsed and type-checked: declarations with the names they define and the objects and packages they use, import specs, literals of type `RouteConfig` |
| `stage`, `at` | the phase of `scanFile`; the literal or the import spec it is at |
| `todo`, `queue` | the rest of the node `ast.Inspect` walks; the nodes after it |
| `seen`, `helpers`, `pkgs` | `seenObj` with `seenPkg`, `decls`, `pkgNames` |
| `lines` | the import lines of the main |

The reference, `Reached`, is the least closed set. What the search does with an object is in the order of the code, one
declaration for each object that leads to it. Packages are any the Go type checker accepts (`TypeChecked`), an assumption on the constant.

### TopicGen

| State | Code |
|---|---|
| `author` | history: the topic files as the author left them |
| `sources`, `genFile` | `src/topics/*.go` and `topic_gen.go` |
| `phase[w]`, `snapshot[w]`, `left[w]` | one call of `collectTopicSnippets`: how far it is, the files as it read them, the files it has still to read or to rewrite |

A command makes a pass for the stubs, may make one to count the managers, one to build them, and then one for
each page, all at the same time (`MayBegin`). Reading a file and rewriting a file are steps; `NextCommand` is
the end of a command or its death at any point, and the author edits between commands (`Edit`). Names are sequences of words, so
that `P` with the suffix `Topic` can be the name of something else.

### Generation

The three generators together, `RouteGen`, `TreeShake` and `TopicGen`. They read folders of their own and share no variable, so `GenerationSpec` is
their conjunction, and what is proved of one holds of the whole. `MCGeneration` lets one of them, or a codec, work in each behaviour (`of`), which
visits every state of each and none of their product.

### RouteGen

`Render` as its walks: each folder is one step, the author saves and removes files
between them, and one helper renders again and again. `read` is history: the tree
when the render began, dropped when it changes.

### PageBoot

Each render of a page or component is an element, a script and a module. A script is
one step between two awaits: insertion up to its first await (`Insert`), the end of the shim's
load (`LoadShim`; its event fires in the same task, so no script of another module runs
between the shim's definition of `Go` and the script that takes it over), the start
of the module (`Run`). `Boost` replaces the body and keeps `window`; `Reload` clears the
registry and keeps the rest.

### MC modules and configurations

`MC<module>` gives the constants names; each `.cfg` picks instances and properties.

## 3. Runs, and what they show

| Run | States | Shows |
|---|---|---|
| `topic_safety` | 516,168 | One manager, two consumers, two fields, two values of which one does not survive the string store, two queued requests: `Converged`, `CleanMeansFresh`, `LastRequestApplied` |
| `topic_live` | 68,293 | Two managers, two consumers, one field: `EventuallyOnline`, `PendingIsFlushed` |
| `reactive_safety` | 3,709,471 | Two observables, two subscriptions, one with cleanup, stack of five frames, nested batches: `EffectsSeeLatest`, `SubscribedExactly`, `StopIsFinal` |
| `cache_promise` | 543,035 | Two requests over the memory store (a STATIC and an ISR route, changing content) or gzip files (an ISR page, restarts at any step, failing writes and removals), a running clock, pages that panic: `KeepsPromise`, `ExpiryNotForgotten` |
| `hot_reload` | 1,252,327 | Two edits, the first of which does not build, falling between any two steps, with the watcher set up in part or in full, and topic sources to rewrite: `LastEditIsBuilt`, `OnlyNewestServes`, `EditsGetBuilt` |
| `sse_hub` | 169,344 | Three streams, three sends: `DeliveredOnce`, `SendsEnd` |
| `wasm_build` | 1,089,658 | Two pages, one of which names the topics package, one topic, one permit, two edits, two texts of different compression: `BuiltIsCurrent`, `QualifiedUseCurrentTopics`, `CommandEnds` |
| `tools` | 203,499 | Two processes, an archive of two files, two tries: `TailwindNeverTorn`, `ReadyMeansComplete`, `EnsureEnds` |
| `generation` | 712,542 | Each generator by itself, in behaviours of its own. Routes: four files in three folders and four packages, renders without end: `QuietMeansExact`, `RoutesAreImported` (674,382 states). Pages: 672 packages of four declarations in two files, with cycles, a group, a package variable, a package imported in both files: `KeepsWhatIsReached`. Topics: two files, two structs with no, one or two declarations each, the passes of two pages, commands without end: `AccessorsStay`, `NamesOnce`, `OnlyFirstRewrites`. Codecs: ten structs with every kind of field, and four that are accepted but do not compile, the edges of every number in either compiler, each encoding of each value, and each writer and reader: `RoundTrip`, `CapturesFit` (8,826 states) |
| `page_boot` | 515,155 | Two pages and two renders of a component, two compilers, shared function names: `RightShim`, `HeardByOwner` |
| `topic_repeat` | violated | `RepeatIsSafe`: the second pass renames an accessor |
| `sse_panic` | violated | `LeavingIsHarmless`: a client that leaves between Send and delivery panics the process |

Each module's runs also check its `TypeOK` (`HubTypeOK`, `CacheTypeOK`, `GenerationTypeOK`), which includes one relation between
variables where there is one.

### Bounds, and why they are enough

* `MaxQueue` (2) stops new requests and pings while that many events are queued;
  events the manager adds go beyond it, so queues of five events occur. Two consumers
  make requests cross; two fields separate a field from the struct and, in
  `AsText`, the damaged field from those behind it; two values suffice because
  fields are only copied and compared. One field is enough for the liveness run: online and pending are per struct.
* `MaxStack` (5) is a handler's loop, a callback, its loop, a callback in it and its
  loop. `MaxBatch` 2 has a batch inside a batch. Two subscriptions give every case of
  removal from a list, except the move of an entry from beyond the next one.
* Clock and content bounds leave time for an entry to be stored, expire, be replaced
  and expire again (`MaxTime` 2, time to live 1); two requests cover every race of two handlers. The
  application over files keeps its content fixed (`App`, versions 0): its hazards are in the bytes
  and the expiry time; a rendering cut short still differs from a whole one.
* `MaxEdits` 2 gives an edit that is overtaken and one that is last; the safety
  theorems hold for any number.
* `WasmBuild`: one edit can race with a build and another undo it (`MaxEdits` 2, two texts, so
  that a text comes back); the number of commands is not bounded. One permit makes a page wait while
  another fails.
* `ToolInstall`: two processes meet in every step, `MaxRetries` 2 has one try that is repeated and one that is not;
  two entries are the compiler and what may be missing beside it.
* `Codec`: `Byte` 4 makes an integer of eight bytes a number TLC can hold, keeps every width apart and is even, as 256 is; values
  are the edges of the field's width in either compiler and on the wire, and those just beyond, as far as the writer can hold them; containers hold up to two elements.
* `TreeShake`: two functions that may use each other and themselves, a group of two constants and a variable are each way a search can come back,
  branch and be refused; two import specs of one path are the case where the first counts.
* `TopicGen`: two pages are two passes at the same time; two files are one that is rewritten and one that is not when a command dies. The number of commands is not bounded.
* Three streams are one that stays, one that leaves and one that comes late.
* Symmetry is used for consumers, observables and requests, in runs with no liveness property.

`CHECK_DEADLOCK FALSE` is set for HotReload and SseHub, whose environment
(edits, streams, sends) is bounded, and for `generation`, since a codec and the scan of a page answer one input and
stop; the other systems can always make a step, and deadlock is checked.

### Fairness

* TopicSync: weak fairness of dispatching microtasks, of listeners and of `BootManager`
  (the page mounts it, the browser loads it), and of `PingTopicManager`, which
  `PingUntilOnline` repeats on a timer as long as the consumer is offline. No fairness of writes, or of consumers' boots.
* HotReload: weak fairness of setting up the watcher, its loop, the timer, rebuilds and processes (goroutines
  and the operating system). None of edits.
* SseHub: weak fairness of each handler's select and of its deferred function. None of
  Send, of connecting or of disconnecting.

* WasmBuild: weak fairness of the command as a whole (`Work`): as long as one of its
  goroutines can go on, one does. None of starting it, of edits, failures or kills.
* ToolInstall: weak fairness of each process's installation of TinyGo: downloads have
  timeouts. None for Tailwind's download, whose HTTP client has none.

* Generation: none; what is checked there is safety. The scan is a loop of one goroutine, over nodes it marks as seen.

## 4. Where the code and what is said of it disagree

Two runs are expected to be violated; `PROJECT.json` quotes the lines.

* **topic_repeat** `PregenerateTopicStubs` is said to be safe to call repeatedly (`wasm_topic.go:129`). `var GetP = CreateTopic(P{}, ...)` with
  no SubscriberFnName gives `GetP` at the first pass, which takes the variable away, and `PTopic` at the second, in the same command.
  `AccessorsStay` has the condition under which it is (`NamesAreConfigured`).
* **sse_panic** The handler closes a channel that goroutines may be sending on (`script.js:10`).

Others were met while modelling, most of them seen with TLC, and have no run of their own.
At run time:

* The encoded struct is stored as a JS string, so binary data that is not UTF-8 does not
  come back, and a consumer that boots late starts from damaged values (`topic.go:430`,
  against `helpers/wasm/README.md:1046`).
* Stop does not run the cleanup (`observer.go:44`, against `observer.go:99`).
* Expiry times do not survive a restart, files do: an ISR page then never expires
  (`cache_files.go:47`, against `cache_test.go:107`).
* The reload is announced before the new process serves, so a tab can load from the old
  one and hear nothing more (`hotReload.go:329`, against `hotReload.go:30`).
* A consumer that boots while the manager is dirty starts from an older struct and
  counts as online (`helpers/wasm/README.md:1641` says it always reads the latest).
* A field that an effect of the first online ack sets is changed locally and never
  sent (origin `dropped`; `helpers/wasm/README.md:851`).
* Two managers mounted on one page can end with different structs (`helpers/wasm/README.md:753`).
* A subscription can run twice for one batch, when a callback of the flush opens one
  itself (`scheduler.go:19`).
* The cleanup of a run nested in the same subscription's callback is overwritten and
  never called (`observer.go:116`).
* A STATIC page can be rendered more than once, by requests that miss together, and
  routes with the same path and different methods share a cache entry.
* A page cut short because its client went away is stored; a STATIC one stays cut.
* Without compression the file store answers with damaged files.
* Two requests that evict and store the same expiring file can answer one more hit
  after its time; the promise with expiry therefore holds of the memory store only.
* Edits during the very first rebuild, or before their directory is watched, raise no event and wait for the next edit;
  after an error of the walk (`hotReload.go:182`) the directories behind it are never watched.
* A file whose removal fails (`cache_files.go:55` ignores it) is left without expiry time; if the page then panics, it never expires.
* `int` and `uint` are eight bytes in a page compiled with Go and four in a TinyGo page of the same topic: a value above 2^31 that the one sets is cut
  off in the other without an error (`wasm_codec.go:86-87`), and so is one that the tags `i32` and `u32` put on a narrower
  wire. A `time.Time` beyond the years that 64 bits of nanoseconds hold, the zero time included, does not come back. `RoundTrip` speaks of the fields that fit.
* A new process can find the port still taken and exit, so nothing serves.
* `helpers/wasm/README.md:1670` says a per-field broadcast happens only if the value
  changed; the code always broadcasts, and `Converged` depends on it: its mutant
  `BroadcastField_IfChanged` breaks it.

In the build:

* A build that is killed or fails has replaced outputs whose hashes it never saves. If
  the sources then go back to what the saved hashes describe, the next build skips these targets (`suspect`).
  An edit between the scan and the hash records old code under the new hash.
* The comment of `pageInputHash` (`wasm_cache.go:61`) names the topic files among its inputs;
  `feedTopicFiles` is never called. Only a page that names the topics package in front of its symbols
  is rebuilt when topics change; hence `QualifiedUseCurrentTopics` speaks of these alone.
* The pages `/a/b` and `/a-b` share an output name. Not modelled: pages have names of their own.
* An error of the topic managers is only logged, and the build goes on and saves.
* Two processes that install TinyGo at once share `finalDir.tmp`, and either may make the
  other's directory incomplete (`clashed`).
* Of `const ( A = 1; B = 2 )`, or a group of types, a page that uses both names gets the declaration
  twice: the search remembers objects and collects declarations (`extract.go:316`), and the main prints what was collected. It does not compile, against
  `helpers/wasm/README.md:62`. `VisitDecl` does the same; `KeepsWhatIsReached` speaks of the set of helpers and holds.
* The codec generator accepts types whose code does not compile: slices nested three deep, whose decoder hides `_inner` (`wasm_codec.go:346`);
  `type MyItem Item`, although the comment at line 173 names it, as a field or behind a pointer in a slice or map (line 416), while `type MyItem = Item` is fine;
  a tag on a field that is no `int` or `uint`.
* The captures of slices and maps still allocate: `dropMakeAssignments` looks at the statements outside blocks only, and every `make` is in a block (against line 229).
* A package imported under two names gets the first file's name in the main, whichever the helper uses; `TreeShake` abstracts what a name is for.
* `os.WriteFile` truncates the author's own topic file before it writes it (`wasm_topic.go:568`), and every page build truncates `topic_gen.go` while
  another page's compiler may read it (`templates.go:104`). Both writes are one step in `TopicGen`.
* Calls of `CreateTopic` in a page body are rewritten to `<Struct>Topic`, whatever SubscriberFnName says (`wasm_rewrite.go:223`).
* A render that a removed file ends leaves no `routes_gen.go` at all, since `Initialize` deletes it first.
  Two directories whose packages have one name are both imported, which does not compile; `Dir` excludes it.
* An event whose own module has not registered yet, or is dead, goes to the first other module with a
  function of that name (`events.go:112`, against `helpers/wasm/README.md:206`); after
  hx-boost that can be a module whose page is gone.

## 5. What is proved

| Theorem | States | Assumes |
|---|---|---|
| `TypeCorrect` (TopicSyncProofs) | `Spec => []TypeOK` | the named assumptions on TopicSync's constants |
| `Convergence` | `Spec => []Converged` | the same |
| `RebuildIsNeverLost` | `Spec => []CleanMeansFresh` | the same |
| `LastRequestWins` | `Spec => []LastRequestApplied` | the same |
| `TypeCorrect` (ReactiveProofs) | `Spec => []TypeOK` | `ReactiveAssumption` |
| `NoNotificationIsLost` | `Spec => []EffectsSeeLatest` | the same |
| `BothEndsAgree` | `Spec => []SubscribedExactly` | the same |
| `StoppedStaysStopped` | `Spec => StopIsFinal` | the same |
| `CacheTypeCorrect` (CacheStoreProofs) | `CacheSpec => []CacheTypeOK` | `PageCacheAssumption`, `FileCacheAssumption` |
| `NoExpiryIsForgotten` | `CacheSpec => []ExpiryNotForgotten` | the same |
| `StoresKeepThePromise` | `CacheSpec => KeepsPromise` | the same, and `Compressed = TRUE` |
| `NoEditIsLost` (DevServerProofs) | `Spec => []LastEditIsBuilt` | `HotReloadAssumption` |
| `TypeCorrect` | `Spec => []TypeOK` | the same |
| `OldProcessesGo` | `Spec => []OnlyNewestServes` | the same |
| `HubTypeCorrect` | `HubSpec => []HubTypeOK` | `SseHubAssumption` |
| `NothingLostOrRepeated` | `HubSpec => []DeliveredOnce` | the same |
| `TypeCorrect` (WasmBuildProofs) | `Spec => []TypeOK` | `BuildAssumption` |
| `QuietBuildsAreCurrent` | `Spec => []BuiltIsCurrent` | the same |
| `QualifiedPagesSeeTopics` | `Spec => []QualifiedUseCurrentTopics` | the same |
| `TypeCorrect` (ToolInstallProofs) | `Spec => []TypeOK` | `ToolAssumption` |
| `TailwindIsNeverTorn` | `Spec => []TailwindNeverTorn` | the same |
| `ReadyToolsAreComplete` | `Spec => []ReadyMeansComplete` | the same |
| `TypeCorrect` (PageBootProofs) | `Spec => []TypeOK` | `PageBootAssumption` |
| `ShimsNeverMix` | `Spec => []RightShim` | the same |
| `EventsReachTheirModule` | `Spec => []HeardByOwner` | the same |
| `GeneratorsAreTyped` (GenerationProofs) | `GenerationSpec => []GenerationTypeOK` | `RouteGenAssumption`, `TreeShakeAssumption`, `TopicGenAssumption` |
| `TypeCorrect` | `Spec => []TypeOK` | `RouteGenAssumption` |
| `NoRouteWithoutItsPackage` | `Spec => []RoutesAreImported` | the same |
| `QuietRendersAreExact` | `Spec => []QuietMeansExact` | the same |
| `ScanTypeCorrect` | `ScanSpec => []ScanTypeOK` | `TreeShakeAssumption` |
| `ScanFindsWhatIsReached` | `ScanSpec => []KeepsWhatIsReached` | the same |
| `TopicTypeCorrect` | `TopicSpec => []TopicTypeOK` | `TopicGenAssumption` |
| `AccessorsAreStable` | `TopicSpec => []AccessorsStay` | the same |
| `NoNameTwice` | `TopicSpec => []NamesOnce` | the same |
| `LaterPassesOnlyRead` | `TopicSpec => OnlyFirstRewrites` | the same |

They hold for any number of fields, values, managers, consumers, observables, subscriptions,
requests, routes, applications, edits, streams, renders, compilers and files, any depth of callbacks and batches, of pages, topics, source texts and build permits, of processes, archive
entries and retries, any queue bound, packages of any number of declarations, and any number of topic files and declarations.
`TreeShakeAssumption` is what the Go type checker guarantees of a package: each object has one declaration, and what a declaration uses the package has or
imports. `TopicGenAssumption` says the same of topic sources: no name is declared twice.

**Convergence.** `Converged` speaks of the moment the queue is dry and is far from
inductive. `IInv` says, while one manager is mounted, that a value that differs from the
manager's is going to be replaced: `Told`, a value that came from the manager is the
manager's or the field's broadcast is on its way (`Coming`); `Answered`, a value the
consumer asked for has its request or the answer on the way (`Asked`, `Coming`);
`EventFresh`, the slot of a field's broadcast holds the manager's value. Acks are the
difficult part, because one can carry an old struct: `AckFollowed` and `AckDelivered`
say that the field's broadcast is queued behind such an ack. The rest (`Frame`) is
typing, that slots are filled before events are queued, that only registered listeners
run, and that nothing is online or in flight before a manager boots. Lemmas about
sequences carry the queue arguments; then there is one lemma per group of actions.

**RebuildIsNeverLost** adds `StoreFresh` to the part of that invariant about managers.

**LastRequestWins.** The two kinds of request share the queue and have different slots, so
what is applied in the end depends on which name is last in the queue. `OInv` adds to
`IInv`, for each field, that the kind asked last is `UnderWay` (its name is in the queue, or being
delivered, with none of the other kind behind it) or that the manager already holds its
payload and the other kind is `Clear` (none is queued or being delivered). The queue lemmas
`LastConcat`, `LastAppended` and `LastTail` say how the last name moves.

**The reactive runtime.** `EffectsSeeLatest` speaks of the empty stack; `NothingForgotten` says what keeps it
true while callbacks nest: a subscription whose last run began before a change of a dependency is `Owed` a run: it is queued in an
open batch, or ahead of a loop somewhere in the stack, or its cleanup is running, after which `run()` calls the
callback without looking again. With an empty stack and no batch nothing is owed. A change is owed to the
subscribers only because the lists are exact (`SubscribedExactly`), and a list gains an entry once only because what is
active has been created (`ActiveCreated`). `AddAllAdds` says what the loop that fills the pending list leaves in it, a recursive
function: it holds at each index since there is no least one at which it fails (`Least`).
`StoppedStaysStopped` needs no more than the types: each step that pushes a frame for a subscription asks whether it is active, or new.

**The cache.** For the promise, `MemoryInv` and `FileInv` say that what a store holds, or a request found in
it, is among the renderings and was rendered for its key, and that what a request has rendered and not yet stored was
rendered after it came in (`UnderWay`). `Set` is then the abstract `Render`, a hit the abstract `Reuse`, the
end of a request or of the process `Finish`; all other steps stutter (`MemoryImplements`, `FileImplements`). In memory the time to live
is kept, since the request compares the entry it holds with the clock in the very step that answers. With files
the proof uses `Compressed`: a damaged file is a miss. `NoExpiryIsForgotten` does not. It rests on `ExpiryInv`: a whole file that expires has
its time, or there is a request between deleting the time and removing the file, or between writing the file
and setting the time (`SeesToExpiry`), unless the key is `excused`: a restart has forgotten its time, or a removal has failed. A failed write or a panic cannot break that: both come before that request has written a whole file.

**The hub.** `HubInv` is the conjunction of the typing, `SentAtMostAll` and `DeliveredOnce`.
They need each other: a send counts one goroutine for each stream in the table, and that a
stream in the table has a handler that is not done keeps goroutines from sending on a closed channel (`NoLateSend`, a conjunct of `HubTypeOK`).

**NoEditIsLost.** `BuildSettled => ...` needs to know where an unbuilt edit is
remembered while the builder is busy: in an event, the armed timer, a waiting rebuild or in a rebuild
that began after it (`EditsAreKept`), whether or not the loop runs yet. The other part, `BuildsMoveForward`, says that the version a
rebuild has read is never older than the binary's: without it a rebuild that began
earlier could overwrite a newer binary, and `EditsAreKept` would not survive `Compile`.

**OldProcessesGo.** `ServerInv`: every process but the one launched last has been cancelled (`OldAreCancelled`), and
the last one, if it starts or serves, has the version of the binary, except between a compilation and its restart (`NewestIsCurrent`).

**Shims and events.** `RightShim` needs `SlotsAreRight`: a slot holds the class of its own
compiler or none, which the task in which a shim defines `Go` and the script takes it keeps. For
`HeardByOwner`, `Owns` says that a render in the document has begun, that its element bears its scope, and that
what its module registered is in its entry and has a proxy; clearing the registry is harmless only because
it comes with an empty document.

**Routes.** `Collected` (each route has its import) holds at every step and survives pruning because
an import is kept while a route uses it. `QuietRendersAreExact` adds `Quiet`: while the tree is the one the render began
with, the routes are those of the folders walked so far; the imports may be more until `Prune`, whatever earlier renders left.

**The search.** `KeepsWhatIsReached` is about declarations (`HelpersFit`) and imports (`ImportsFit`). The first compares the end of a breadth-first search with the least closed set, so it needs an invariant on each
side. `SoundSearch`: what has been seen, is being walked or is queued is in every closed set, hence in `Reached`. `CompleteSearch`: what has been seen is
closed but for what the walk and the queue still hold; with both empty it is closed, and `Reached` is inside it. `Origin` ties the helpers to the
objects seen, `LiteralsInv` the body to the literal that decides. A set that is an intersection over all closed sets is what lets this be proved without induction
over the search. `ImportsInv` does the same for the import lines: they are exactly the first specs of paths used by the nodes behind the walk, and that a path used
has a first spec (`FirstExists`) is the least-number principle (`LeastOf`).

**Topic generation.** A pass may read files of which a killed pass has rewritten some, while variables of several files have names that another file's
topic may take. `SourcesInv` says that every file, on disk or read, is the author's or the author's without all the names in `Taken(author)` (`Half`), and that the disk is
never behind what a pass has read. This is inductive because of `RewriteFits`: a pass over a mixture takes fewer names away (`TakenHalf`), yet of a file it
has read unwritten it takes all, since a name that gave an accessor is the variable of one file only (`OneVariable`, from Go's own rule); so one pass always ends where every
other would. `PassesInv` says that once the stubs are done nothing is left to take, which is `OnlyFirstRewrites`, and `GenInv` that `topic_gen.go` is generated from such
a mixture. `GenFileKept` then gives `AccessorsStay`, and `PackageFits` `NamesOnce`. Both have a hypothesis about the author's names; states of the run satisfy both, with
and without variables to rewrite.

**The WASM build.** A target is skipped when its hash is the saved one, so `HashesFit` says what a hash is worth:
for a target outside `suspect`, the saved hash and the one in memory describe its output, if there is one
of that hash's compression: whole, from that text and those topics, and with no output of the other
compression beside it. A target that is being built (`InWork`) is not `Trusted` between
the removal of its other output and the new hash. `Quiet` says that, while nothing
is edited, what was scanned and used is what is on disk and each skipped target is current;
`Control` says where targets can be in each phase, so that a build that ended has left none behind.

**Tools.** `TailwindNeverTorn` needs only that a process about to rename has a whole file
(`Binary`). For `ReadyMeansComplete`, `Archives` says that a process past the comparison holds an
archive that was not refused, and `Alone` that, unless two have clashed, only one installs, nothing is
ready meanwhile, and the shared temporary directory holds what that process has extracted
so far (`Progress`): whatever a killed process left there is gone since `Clear`.

**Only model-checked.** `RoundTrip` and `CapturesFit` of the codec: what its recursive operators compute for every type and value is an induction over data, which
the prover cannot do. And everything about liveness (`EventuallyOnline`, `PendingIsFlushed`, `EditsGetBuilt`, `SendsEnd`, `CommandEnds`, `EnsureEnds`): TLAPS has no support for
`ENABLED` here, so fairness stays with TLC. Every other invariant and action property of a passing run is proved.

## 6. What is not modelled

* The Redis store (atomic commands of an external server), `CACHE_CONTROL_HEADERS` (no state).
* Key-based topics written by hand; the auto-tracking mode of the reactive runtime.
* Source rewriting (`wasm_rewrite.go`): a map from Go syntax trees to Go syntax trees, for
  constructs no stub of `pkg/wasm` declares. Of topic generation: files that do not parse, types the codec refuses, edits while a command runs. Of the tree shaking: the rejection of `init`, dot imports, methods reached only through
  interfaces. The compilers.
* The text of generated code and URL patterns; DOM accessors; `CreateWasmFuncWithReturn`.
* The copies of `wasm_exec.js` that a WASM build makes once its modules are written.
* Images, templates, `init`, deployment, migrations and the templ render cache: sequences of file and cloud
  calls by one goroutine, with no state that outlives them but their files.
* The browser tab and the proxy's retries behind the development proxy; new directories under
  the watcher before `watcher.Add`, and a watcher that cannot be created, which ends the command; an ISR page with `RevalidateInSec` 0, which never expires.

## 7. Plan

Every safety property of the stateful modules is proved. What would come next is modelling: the source rewriting of topic calls in page bodies, the
templ render cache, and the writes of `topic_gen.go` in pieces.
