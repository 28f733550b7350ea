# Joe CLI HTTP in TLA+

This directory holds a verification project for joe-cli-http, a Go library of
command line actions for HTTP clients and servers: TLA+ modules translated from
the source, TLC runs on small instances, and theorems checked by TLAPS. Paths
such as `httpserver/server.go` are relative to `src/`.

## 1. The system

| Component | Source | State | Operations | What makes it correct |
|---|---|---|---|---|
| Reloadable handler | `httpserver/reloadable_handler.go` | `handler`, `once`, `mu` | `ServeHTTP` (`ensureHandler`), `Invalidate` | one handler per epoch; nothing stale; every call returns |
| Registration and reload | `httpserver/server.go`, `reloadable_handler.go`, `handler.go` | `Server.Handler`, patterns of the mux, `targets` | `WithHandler`, `Handle`, `HandleSpec`, `applyMiddleware`, `ReloadAll`, the reload handler | targets and routes agree; an answered reload has reached them |
| Server life cycle | `httpserver/server_commands.go`, `server.go`, `ready_func.go` | `Server.Handler`, `actualBind`, the listener, the channel `errors` | `RunServer`, `execContext`, `ListenAndServe`, ready and shutdown functions | the configured handler serves; the listener is given back; the command ends |
| Server options | `httpserver/server.go`, `options.go`, `server_commands.go` | fields of `Server` | setters, `Options`, flags | the order of flags does not show |
| Handlers of the commands | `httpserver/handler.go`, `echo_handler.go`, `server_commands.go` | none | file, ping, echo, redirect, reload, and the middleware around them | they answer as their options promise |
| Access log, response writer | `httpserver/handler.go`, `wrap_writer.go` | status, bytes written, tee | `WriteHeader`, `Write`, `Flush`, `ReadFrom`, `Hijack` | the handler does not notice it; what it reports is so |
| Client | `httpclient/client.go`, `middleware.go`, `transport.go` | the shared `Request`, cached factories | `Do`, `doOne`, the middleware chain, `handleDownload` | locations are independent; a failure is contained |
| Client commands | `httpclient/command.go` | fields of `Client` | flags and arguments, with those they imply | what was given is what is sent |
| Authentication | `httpclient/auth.go` | `UserInfo`, request headers | `Authenticate`, prompting | what was given is sent, and not asked for |
| Content | `httpclient/*content*.go` | buffered body | `NewContent`, conversion, `Set`, `Read` | the body is what the flags say, for every location |
| Downloader, integrity | `httpclient/downloader.go`, `integrity.go` | `index`, open outputs, the hash | `OpenDownload`, `Write`, `Close` | success means verified; no download is lost |
| Location resolver | `httpclient/resolver.go`, `value.go` | locations, base URL, variables | `Add`, `SetBaseURL`, `AddVar`, `Resolve`, `URL` | templates are expanded wherever the variables come from |
| URI templates | `uritemplates/`, `internal/uritemplates/` | variables, parsed template | parse, merge, expand, expand partially | a partial expansion can be completed |
| HTTP trace | `httpclient/http_trace.go`, `transport.go` | trace level, the logger's flags | one callback per event | what is logged is in order, once, and asked for |
| TLS options | `tls/` | `tls.Config` | setters, name sets | the versions and roots of the flags |
| Expressions, interface resolver, programs | `httpclient/expr/`, `httpclient/interface_resolver.go`, `cmd/` | none | formatting, one lookup, wiring | |

How they interact. A command creates a `Server` or a `Client`, puts it into the
context, and flags call its setters, all on one goroutine; joe-cli decides in
which order. `RunServer` starts `ListenAndServe` on a goroutine, and a second
later the ready functions on another; `net/http` serves every connection on its
own. These goroutines share `Server.Handler` and `actualBind` without a lock; the
reloadable handlers below the mux have a lock of their own. `ReloadAll`, called
by the ready function `ReloadServer` and by POSTs to the reload handler,
invalidates every target of the mux. A client handles one location after
another on one goroutine, with one `http.Request` that middleware,
authentication and content modify in place; below it, the transport calls the
trace from the goroutines of its dials.

What is hard here:

* the interleavings of requests, reloads, the ready functions and
  `ListenAndServe` on shared, mostly unsynchronised state (data races are
  modelled as what the words of a Go interface can hold);
* double-checked lazy construction with a `sync.Once` that is itself replaced;
* a timer that stands for "the server is up", and a shutdown with a deadline;
* the order in which options, flags and registrations are applied;
* for the client, errors that are dropped, one request reused for all
  locations, dials that outlive the round trip they were started for, requests that
  `net/http` sends again by itself, and resources left open on error paths;
* templates that are expanded in two steps, with variables merged from many flags.

`PROJECT.json` lists every hazard at its line, with the properties about it.

## 2. Modules

| Module | What it is |
|---|---|
| `HandlerCache` | The abstract promise of a reloadable handler: one handler per epoch, dropped by `Invalidate`. |
| `ReloadableHandler` | `reloadable_handler.go` at the grain of lock operations and single word accesses of `h.handler`. |
| `ReloadableHandlerRefinement` | The refinement mapping from `ReloadableHandler` to `HandlerCache`. |
| `ReloadableHandlerProofs` | Its inductive invariant and theorems, and the proof that it implements `HandlerCache`. |
| `ServerMux` | Registration of handlers, `ListenAndServe`'s wrapping, and reloads target by target. |
| `RunServer` | The goroutines of a running server, from start to exit. |
| `ServerFlags`, `ServerFlagsProofs` | From the command line of weave and `Options` to the responses of its handlers. |
| `ResponseWriter` | The wrapped response writer under any handler. |
| `ServerProofs` | Invariants and theorems of `ServerMux`, `ResponseWriter` and `RunServer`, which share no variable. |
| `Client`, `ClientProofs` | `Do` and `doOne` over several locations and calls. |
| `ClientFlags`, `ClientFlagsProofs` | From the command line of wig to the requests it sends; extends `TLSConfig`. |
| `TLSConfig` | The TLS configuration and its options, as functions. |
| `ClientTrace`, `ClientTraceProofs` | The trace level, the logger and the events of round trips, redirects and dials. |
| `Download`, `DownloadProofs` | The downloaders, the stripping of components and the integrity check. |
| `UriTemplate`, `TemplateVars` | Parsing, expansion and partial expansion; variables and how they merge, as functions. |
| `Locations`, `LocationsProofs` | rug's expander and wig's location resolver, built on the two. |
| `MC...` | Small instances for TLC. |

The modules meet where the components do. `ReloadableHandler` is composed into the
server by way of its abstraction: `ServerMux` has one reloadable handler as
`HandlerCache` describes it. `RunServer` has the mux as one value of `Server.Handler`.
`ClientFlags` has the middleware chain of `Client` link by link where flags decide
what a link does, and leaves what surrounds it to `Client`.

Operators called a fault in their comment (`OnceUnlocked` in `ReloadableHandler`,
and so on) are wrong versions of the definition after them. No specification uses them; they
are what the properties are tried against, and each property fails with one of them.

### ReloadableHandler

The two words of the interface value `h.handler` are `handler.itab` (nil, the
503 function, the user's handler) and `handler.data` with the epoch it was
stored in. Each request goroutine has a program counter through `ServeHTTP`
and `ensureHandler`; each reloader one through `Invalidate`. Under the write
lock stores go word by word, because the re-read of line 75 holds no lock and
sees them half way; that re-read goes word by word too, in either order. `fn`
may return a handler, an error or nil, or panic (`net/http` recovers; the
deferred `Unlock` runs and the `Once` counts as done). `sync.RWMutex` is modelled
by what it guarantees: a pending writer holds back new readers, and an unlock
admits the readers that queued. `epoch`, `calls`, `since` and `answer` are
history that no action's guard reads, but for the bound on `epoch`.
`lastError` is written and never read and is left out.

### ServerMux

One goroutine configures: `WithHandler`, `Handle` and `HandleSpec` in any order,
with patterns that `http.ServeMux` refuses by a panic (malformed or taken),
which `Server.Handle` turns into an error. `HandleSpec` registers what
`RegistryHandlerSpec` makes: everything but the reload handler sits in an
`http.StripPrefix`, so that `reloadSupport.Handle` does not see a reloadable
handler in it. `ListenAndServe` wraps the handler if the middleware does.
Then requests build handlers from the version last published, and POSTs run
`ReloadAll`, one `Invalidate` per step.

### RunServer

`main` is the action of `RunServer` with `execContext`; `thunk` is the goroutine
of `ListenAndServe`; `ready` the goroutine of `DefaultReadyFunc`; `conns` the
connections. `Server.Handler` is a pair of words, stored in two steps and read
in one (two loads with a store in between see what one load between the two
stores sees); a value mixed from two is "torn". A torn value in a request is a
panic that `net/http` recovers; in the ready goroutine it ends the process
(`Crash`). The configuration is chosen initially: a handler of the application,
the built-in mux or none; a handler factory; middleware that wraps or not; TLS
off, on, or with files that do not load. joe-cli may or may not run the After
hooks when the action fails: both are behaviours.

### ServerFlags

`line` is the set of flags that occurred, `config` an `Options` value; `FlagRuns` runs
one pending setter, in any order, on the record `server` (the fields of
`Server`). `Listen` decides address and scheme, the ready functions report them,
and `Serve` computes the response of the handler that the longest matching
pattern of `routes` selects, with the middleware around it: the status, the
kind of body, the `Server` headers and the lines of the access log. A path is a
sequence of `Tokens`, one of which is `"/"`; the path of a request whose
URI is a host alone is empty. `ServeMux` redirects
unclean paths, and `/a` to `/a/` if that is all there is for it. `Files` says what the
entries of each directory are, files or directories. Loops of the code are recursive functions:
`Applied` goes through the fields of an `Options` value, `Wrapped` puts the
middleware around a handler, `Noted` collects the errors of the echo handler. The named
assumptions say what command lines, `Options` values and requests can be: only `--handler`
and directories are `EachOccurrence` flags, so only they occur more than once, and a path
that is not empty begins with `"/"`.

### ResponseWriter

`below` is the set of optional interfaces of the wrapped writer, and `Offers`
those of the type that `newWrapResponseWriter` picks for it and the protocol. Each
method is an action: what it does to `wroteHeader`, `code`, `bytes` and `tee`, and
what reaches the writer below (`status`, `sent`), which behaves as that of
`net/http`. Writes may be short. `copied`, `teed` and `due` are history.

### Client

One goroutine: `Do` resolves, `doOne` takes one step per call that can fail or
change state. `opts` is the configuration that the setters left. Everything
outside answers in every way: resolver, location, transport factory,
middleware, credentials, servers and file system; authentication without a `UserInfo`
panics, as the code does. The request is shared by all
locations, so `header` counts the values that authentication added, and `body`
says whether the request's reader was consumed. `transport` is the cacheable
with its error. `open` is the set of response bodies and outputs that nobody
closed. `ran`, `built` and `sent` are history.

### ClientFlags and TLSConfig

Flags are applied as in `ServerFlags`, to `client`; a flag also queues those that it
implies. Then, for each location, the links of the chain run: content with the
values to fill in, the query, prompting and authentication, the request ID.
`request` is what of the one `http.Request` persists from location to location;
`sent` records the requests. Texts of headers and of `--user` are sequences of
tokens, since they are split; all others are atoms. The loop of `setupBodyContent` over
the values to fill in is the recursive function `Filled`, one `FillOne` per value.
`TLSConfig` has a certificate file as the set of certificates in it (`CertsAssumption`)
and is applied by the flags for TLS. The named assumptions of `ClientFlags` say what can be
given: an occurrence is a flag with its argument; only the flags of `EachOccurrence` occur
more than once; and the arguments of `--auth`, `--body-content` and the version flags are
those that their parsers accept.

### ClientTrace

A level is the set of its bits; `LevelString` and `LevelSet` are the two
conversions. `level` is what the setters left, `logger` and `flags` what the first
`Do` built from it. The goroutine of `RoundTrip` goes through `pc`; a dial is an
element of `dials` that goes from event to event by itself, beyond the end of
its round trip if that got another connection. A host that is an address
(`Addresses`) needs no DNS, and an HTTPS proxy makes one dial shake hands twice. A reused
connection may turn out to be closed: `net/http` then asks for another one within the
same round trip (`Retry`), which is a new `attempt`. `out` is what was printed by
the round trips, line by line (an event of `Events` or a header field of `Headers`) with
round trip and attempt, and `dialed` counts what dials printed.

### Download

A path is a sequence of components, split at every slash, so that any of them but the
first may be empty (leading slashes are trimmed). `actualDownloader` (`Actual`) applies the
middleware in order: an integrity downloader, or the type assertion of
`WithStripComponents`, which panics over a downloader that does not support it.
`OpenDownload` names the file (`FileName`), creates or truncates it, and starts the
hash; headers, body and `Close` follow, each of which may fail. `files` is the
file system, `index` the counter of `exprAdapter`, `genuine` the responses whose body
has the digest that was asked for. `Suffix` is what an index adds to the name of
a file: different indices make different names. The chain of middleware
(`Applied`) and the components put back together (`JoinUpTo`) are recursive functions.

### UriTemplate, TemplateVars, Locations

A text is a sequence of tokens: names, numbers, the characters of the template
syntax, and characters of values by how they are escaped. `Parse`, `Expand` and
`PartialExpand` follow the functions of `internal/uritemplates` with their
errors and panics as outcomes. Go iterates over maps in any order: `Iterations`
are the orders, and actions choose one. In `Locations` one flag or argument is
one action, for rug (`program = "rug"`, which prints) and for wig (which resolves and
then asks location after location for its URL). `given` is history. Loops over terms,
values, flags and paths are recursive functions, each with an operator for one step
(`ExpandTerm` of `ExpandTerms`, `UpdateOne` of `Update`). The named assumptions say that arguments are
sequences of `Chars`, that `-t` is given a JSON object, in which a string is one item, and that neither the
characters that `escape` keeps nor what it makes of another is an opening brace.

## 3. Runs

| Run | Instance | Shows |
|---|---|---|
| `ReloadableHandler` | 2 requests, 2 reloaders, fair | `BuildDiscipline`, `NoStaleServe`, `OnlyInvalidateDisturbs`; `ImplementsHandlerCache` (refinement; a build that finds a handler, the 503 of a failed one too, is no step of the abstract cache); `CallsFinish` (every request is answered, every `Invalidate` returns) |
| `ReloadableHandler_nil` | 2 requests, 1 reloader | VIOLATION of `RecomputesWhenInvalid`: a request calls a nil handler |
| `ServerMux` | 4 patterns (1 malformed), 2 reloadable handlers, 2 POSTs, 3 versions, symmetric | `RegistrationsHold`: targets match routes, accepted registrations are routed, the application's handler is kept; `ReloadReachesTargets` when nothing wraps the mux |
| `ServerMux_wrapped` | 3 patterns, 1 POST | VIOLATION of `ReloadReachesAll`: with middleware a reload does nothing |
| `RunServer` | 2 connections, all 36 configurations, fair | `ConfiguredHandlerServes`, `ListenerAsReported`; `CommandEnds`: a signal ends the command, a shutdown ends `ListenAndServe`'s goroutine |
| `ServerFlags` | 9 `Options` values, sets of up to 3 flags, 13 paths (the empty one, a subdirectory and unclean ones among them), 2 methods | `ServesWhereTold` (address and scheme), `MiddlewareOnEvery` (log and `Server` header), `HandlersAsOptions` (the echo handler keeps its promises; a file server with the option lists its root at most) |
| `ResponseWriter` | 16 writers below, 2 protocols, 4 statuses, 2 tees | `WrapperTransparent`: no type assertion panics, the reported status is the client's unless the handler began with a flush or an informational status; `WritesAddUp`: bytes are those sent unless `ReadFrom` met a tee, and each tee gets what is sent while it is set |
| `Client` | 2 calls of `Do`, 2 locations, all 384 configurations, fair | `FailureContained`, `RequestsAlike`, `DoReturns` |
| `ClientFlags` | sets of up to 4 flags for the body, 3 for credentials, 3 for TLS, 2 others; 3 locations | `BodyAsGiven`, `CredentialsAsGiven`, `LocationsIndependent`, `TLSAsGiven` (roots without `--capath`) |
| `ClientTrace` | 2 round trips, 1 retry, the levels of `--verbose` and one more, 2 headers, dials that go on | `LevelsReadBack`; `TraceReadable` (nothing twice but by a retry, nothing out of order, nothing unasked but the status) |
| `Download` | 2 responses, 7 paths, 5 downloaders, up to 2 middleware | `VerifiedOnSuccess`, `DownloadsKept`, `StripsLeading` (every count but -1) |
| `Locations` | command lines of up to 4 flags and arguments | `OccurrencesAccumulate`, `PartialKeepsRest`, `TemplatesExpand` |

Every passing run checks the type invariant too (`TypeOK`; `WriterTypeOK` of `ResponseWriter`, `CommandTypeOK` of `RunServer`).

### Bounds

* `ReloadableHandler`: with `MaxReloads = 1` both reloaders may start in epoch 0, so
  there are three epochs: a request can start in one, load a word of the next
  and meet the store of the third, the longest chain that the properties
  tell apart. Two requests and two reloaders make every pair of critical
  sections meet with a third goroutine on the unlocked path.
* `ServerMux`: three good patterns hold two reloadable handlers and the reload
  handler, or one handler twice; `MaxVersion = 3` lets two POSTs start in
  different versions with a publication after both.
* `RunServer` has no counter to bound.
* `ServerFlags`: the paths are those that a pattern of the run serves, redirects or
  leaves alone; each directory has a file and a subdirectory.
* `ServerFlags`, `ClientFlags`: setters interact when they touch the same fields.
  The sets of flags are those that do: address, access log and TLS, pairs of
  handlers with one more flag; four flags for the body because a
  method, a content type, a body and a value to fill in make a request
  together. Other flags are tried in pairs, the remaining ones for TLS alone. Three locations are one with
  the query of the one before, and one without.
* `ResponseWriter`: `MaxChunk = 2` has empty, short and whole writes; `MaxBytes = 3`
  has a response of several of them; the statuses are one informational, one
  without a body, the default and another.
* `Client`: with two locations there is one after a success and one after a
  failure, and with two calls of `Do` the caches are met again. `MaxVia = 2`
  stands for the 10 of `defaultCheckRedirect`: one redirect followed, then one
  refused.
* `ClientTrace`: two round trips are one that a redirect, a failure or a late
  dial of the first can disturb, and one retry makes a second dial in a round trip. The
  second trip is to an address, so that dials with and without DNS meet. The levels are
  off, one of two components without the status, and the three of `--verbose`. `LevelsReadBack` looks at all 512 levels.
* `Download`: two responses have a file name twice; the counts, from -9 to 9, are
  below, at and beyond the depths 0 to 3 of the paths in either sign; chains of
  two middleware are the shortest in which order and repetition matter.
* `Locations`: four flags are a template or two URLs, and two or three occurrences for
  one variable of different kinds. The templates have operators of every kind, one
  and two terms, explosion, prefixes, and two that are broken.

`CHECK_DEADLOCK FALSE` is set where the system really stops: `ServerMux` and
`ServerMux_wrapped` (no reload handler, or all POSTs answered, and everything built),
`ResponseWriter` (the handler has returned or panicked), `Download` (all responses done, or
a panic), and `Locations`, `ClientFlags`, `ClientTrace` and `ServerFlags` (the command is
done, has failed or panicked).

### Fairness

The Go scheduler runs goroutines that can run: weak fairness per
goroutine. Acquiring `h.mu` gets strong fairness, since `sync.Mutex` hands
the lock to a waiter that starved for a millisecond. `fn`, the handler factory
and `net.Listen` are assumed to return; the one-second timer and
`ShutdownTimeout` elapse. Nothing promises that a signal, a request or an
`Invalidate` arrives, that a request ends, or that accepting fails. `Client` has
weak fairness of the one goroutine of `Do`: servers, prompts and files that it
waits for answer in the end (by an error, if need be), but nothing says that a
server stops redirecting. The other modules are about safety and state none.

## 4. Proofs

Each `...Proofs` module defines an inductive invariant `IInv` of named parts (`ServerProofs`
one for each of its three modules: `IInv`, `WriterInv`, `CommandInv`), has
one lemma per part (or per action) that says that every step keeps it, combines
them into `Spec => []IInv` and derives the properties of the runs. Every
safety property of a passing run but two (see "Only model-checked") has a theorem.
The assumptions are those of the model's constants and nothing else.

### ReloadableHandlerProofs

For any sets of requests and reloaders and any bound, from `ProcAssumption` (the
two kinds of goroutine are disjoint) and `BoundAssumption`: `BuildDiscipline`,
`NoStaleServe`, `OnlyInvalidateDisturbs`. None of them is inductive. `IInv` adds to
`TypeOK`:

* `LockInv`: who holds the write lock by the place where it stands, and that
  readers are exactly those about to test `h.handler`;
* `OnceInv`: how `h.once`, the calls of `fn` and the place of the builder go
  together;
* `HandlerInv`: which words of `h.handler` are old, new or nil at each stage of a
  store, and that a value outside a store is whole and of this epoch;
* `LoadInv`: what the unlocked re-read has loaded so far, by the epochs passed.

`InstalledHandlerStays`, part of what the refinement below needs, says that only an
`Invalidate` opens the way to a store over an installed handler.

### ReloadableHandlerProofs: the refinement

`Refines`: `Spec => ImplementsHandlerCache`, for any constants. The mapping takes
each request by itself, so the argument goes by what a step does to one
request: locks, tests, `fn` and the type word of a store happen while it waits and are
not seen (`WaitingSteps`); the data word of a store is the abstract `Build`, that
of a clear `Discard`; a load of a data word is a `Fetch`, or a `Disturb` if the
words do not go together. That this last step is allowed (only after an
`Invalidate`) is `LoadInv`; that a `Build` finds the cache empty, and a `Discard`
something older, is `HandlerInv`.

### ServerProofs: the mux

For any finite set of patterns, any handlers, any number of POSTs and any bound,
from the four assumptions of `ServerMux` (finitely many patterns; the reload
handler, the reloadable handlers and "no route" are different), every property
of the run `ServerMux`. `TargetsMatchRoutes` and `AcceptedIsRouted` need `MuxInv` (a
server without a mux has no patterns: `ensureMux` starts from nothing).
`ReloadReachesTargets` is about an answered POST, and is not inductive. What
carries it is `PendingInv`, about the POSTs in progress: each target is still to
be invalidated, or is not built, or was built since the POST began. With
`TargetsMatchRoutes` it holds when the POST begins; a request that builds a
target uses the current version, which `VersionInv` says is no older than any
POST; and when nothing is left to invalidate it is the property for this POST.
`ConfigInv` says that all this starts only when the registrations are over.

### ServerProofs: the life of the server

For any set of connections and any configurations (`CommandInv`): `ConfiguredHandlerServes` and
`ListenerAsReported`. `OrderInv` says how the places of `main`, `thunk` and `ready`
go together (no goroutine runs before it is started; the channel holds an
error only after the send). `HandlerInv` says what each of the two words of
`Server.Handler` is at each place of `thunk` when a handler was configured: the
bare one until `wrap`, old or new while `wrap` stores, wrapped from then on. So the ready
functions find a handler and leave it, and requests, which begin after
`serving`, load it whole. `ListenerInv` does the same for the listener.

### ServerProofs: the response writer

For any statuses, tees and bounds (`WriterInv`): `WrapperTransparent` and `WritesAddUp`. The lemma
`OffersBelow` (by cases over the six types) says that what the wrapper offers, the
writer below has. `HeaderInv` says that before the wrapper has written a header,
no status is decided below or remembered; `CopiedInv` that the bytes counted are those sent
and, once more, those that `ReadFrom` copied to a tee. Where nothing was copied the two
are equal; in general they are not (`BytesAreSent`).

### ClientProofs

For any bounds and configurations: `FailureContained` and `RequestsAlike`. `LoopInv`
says where the loop of `Do` stands, so that the responses are those of the locations
before; `OpenInv` what is open at each place of `doOne`; `ChainInv` how far the
chain of middleware got; `SharedInv` what of the shared request and the caches
earlier locations have left.

### ClientTraceProofs

For any levels, any header fields that are not events, any number of round
trips and of retries, any hosts that are addresses, and however long dials run on:
`TraceReadable` (each event once per round trip, attempt or dial, whichever it belongs to;
round trips in order, and a connection asked for again only after a reused one; but for
the status line, nothing that the level of the first `Do` did not ask for). Its parts say
what was printed and not what may still be, so none is inductive. `IInv` adds:

* `LoggerInv`: which logger there is, from the first `Do` on; a nop logger logs nothing;
* `LinesInv`: the lines of the current round trip and attempt (`Current`) are of the kinds
  that `RoundTrip` has been through where it stands (`SoFar`), so that the next one is new;
* `RetryInv`: whenever a connection is asked for again, the line of the last one says that
  it was reused;
* `MarksInv`: at each place the line that opens or ends a round trip was printed, which
  puts the next round trip after this one;
* `DialsInv`: an attempt starts one dial at most, and what a dial still has before it
  (`Ahead`) was not printed for its attempt.

### DownloadProofs

For any configurations, with chains of middleware of any length and any count of
components, any paths and any number of responses: `VerifiedOnSuccess`,
`DownloadsKept`, `StripsLeading`. The assumptions say that configurations have the
shape that the flags make, that a path has a component and the first of several is not
empty (leading slashes are trimmed), and that different indices have different suffixes. `IInv` adds to the properties
`OpenInv` (what is open at each place), `NumberedInv` (the open file is that of `index`, and those of
downloads done are of earlier indices) and `NamedInv` (a file that is open has a
name). Two lemmas are by induction over the data: `StripIsLeading` (what is left of a path,
put together again without its empty components, is its tail) and `ActualMiddleware` (what a chain of
middleware makes of a downloader, over the length of the chain).

### ServerFlagsProofs

For any command lines, `Options` values, requests and directories, from the assumptions on
their shape: `ServesWhereTold`, `MiddlewareOnEvery`, `HandlersAsOptions`. The properties
speak of the whole command line, whose flags run in any order; the invariant says the
same of the flags that have run (`RanTexts`), over what `Options` set before:

* `AddressInv`: each part of the address is what its flag gave, if it ran, else that of `Options`;
* `AccessLogInv`: the format is that of `--access-log`, or none, of those that have run;
* `MiddlewareInv`: the access log, then the header of `Options`, then that of `--server`;
* `RoutesInv`: every route is a handler of some specification;
* `PhaseInv`: nothing is shown or answered before the server listens, when no flag is
  left, and it uses TLS if and only if it has both files.

`ApplyNewServer` goes through the fields of `Options` one by one; the lemmas on `Wrapped` and `Noted` are by
induction over the middleware and the errors; `LongestMatch` shows that a
request some pattern matches is answered by a longest one, `FileServerAnswer` that a file
server which hides listings shows one only when nothing is left of the path, and
`NothingLeft` that this is the path it is registered for. Nothing excludes empty or
unclean paths, or handlers that are registered.

### ClientFlagsProofs

For any command lines, any number of locations with any queries, any answers to the prompts and
any certificates, from the assumptions named above: every property of the run `ClientFlags`.
None but a part of `TLSAsGiven` is inductive: they speak of the whole command
line, and of requests already sent. Of the flags that have run (`RanTexts`) and of the link of the chain
that is next, `IInv` says:

* `PhaseInv`: flags run before the first location, and nothing is sent, typed or in the
  request until then;
* `TLSInv`: the roots are those of the readable files so far; both bounds are set
  together by whichever version flag ran, and differ only through `--tlsv1`;
* `UserInv`, `PromptedInv`: the one `UserInfo` is what `--user` gave, with what was typed last
  for the rest; it is complete after the prompts, and from `Authenticate` on the
  `Authorization` field is made from it. The second half holds for whole requests only: a
  chain that stops early (`request.whole = FALSE`) is sent as it is;
* `RawInv`: once `--body` has run the content is its text, as every conversion after it
  either fails or keeps it, and each flag before it yields to it;
* `FillsInv`: the names to fill in are those given so far, an object has no others, and
  `--json-content` without other flags for content has made the content JSON;
* `FilledInv`: from the first location on the content is `Settled`, that is, to fill in the same
  values again, as every later location does, changes nothing;
* `HeadersInv`, `RequestIDsInv`, `QueryInv`: which fields there are and who put them there, and that the
  query of the request is that of its location, with that of the flags added after the link that does so;
* `SentInv`: requests are in the order of their locations, and a whole one is what
  would be sent now (`AsNow`) but for query, ID and credentials: among them the field of a bearer token, to which
  each location adds. Two requests that agree with the present
  client agree with each other: this is how `LocationsIndependent`, about pairs, follows from what a
  single step keeps.

`Settled` is the heart of it. That one pass over the values settles the content is an
induction over `client.fill`: after `i` values an object has the names of the first `i`
(`With`), a raw content refuses the first, and a name with a dot stops the pass.
`Shaped` says which fields a client has, since the provers need the domain of a
record to update it.

### LocationsProofs

For command lines of any length and arguments of any text, from the assumptions named above: `TypeOK`,
`OccurrencesAccumulate` and `TemplatesExpand`. Most of the module is about the functions the two programs
are made of; for each there is a lemma on what it makes of any text, value or order of a map:

* `SplitChunks`, `VarsSetIsValue`, `ReadVarIsVar`, `NewVarValueIsValue`: what flags are parsed into is a value, a
  string of one item among them, over the characters that were given;
* `AccumulatedOne`, `AddAllAccumulates`, `UpdateAccumulates`: one more value for a name extends what the history
  says of it, whatever kind is there, if any, and whatever kind comes;
* `ParsedParts`, `ExpandClean`, `JoinPathClean`: cutting a text at its braces leaves parts without one, a value is
  escaped, and the URL of the expansion keeps that.

`IInv` adds to the properties `Accumulated`, which is also about names with a map and names
without a variable: a string or an array after a map is not what `OccurrencesAccumulate` speaks of, but it
decides what the next flag is added to. `Expanded` says that, once `Resolve` has run, each location is
a template if and only if there is a variable. This stays so since no flag runs after it; that
variables may come after the locations on the command line is why `Resolve`, and not `URLArg`, decides.

### Induction

Induction in the library takes an operator as a parameter, which the installed
provers do not instantiate. `LeastNumber` (a nonempty set of naturals has a least
element, from the well-foundedness of `<`) and `Induction` (a set of naturals with 0 and every
successor is all of them) state it for sets, and the step cases go through as set
membership. A recursive function comes with the lemma that it satisfies its
definition: the functions on `0..n` that satisfy it exist for every `n`, and agree.

### Only model-checked

* Liveness (`CallsFinish`, `CommandEnds`, `DoReturns`) is out of the prover's reach.
* `LevelsReadBack` is about the nine components of the trace level and no constant: the
  run looks at all 512 levels, which is all there is.
* `PartialKeepsRest` compares two expansions, one of them of what `Parse` makes of the text
  that `PartialExpand` printed. It needs that parsing undoes printing, term by term and with the literals
  around them, for the parts that `Survives` admits: an induction over printed templates for each
  operator. `LocationsProofs` has what `Parse` guarantees of any text, but not this inverse. `TemplateArg`,
  `PartialFlag` and `ExpandAndPrint` are in its invariant for the types and the variables only.

## 5. What the checks found

Runs that show a disagreement between the code and what it says of itself:

* `reloadable_handler.go:75` reads `h.handler` again after the unlock; an
  `Invalidate` in between makes the request call a nil handler.
* `server.go:375`: `ReloadAll` looks for the mux in `Server.Handler`, which
  `applyMiddleware` has wrapped: with the default access log no reload happens.

Documented claims that the code breaks, without a run of their own. Each is a definition of its
module, next to the property that leaves its case out; with `INVARIANT` and its name in
place of the invariants of the configuration named, TLC shows a counterexample.

| Claim | Configuration | The code |
|---|---|---|
| `StatusIsSent`: `Status` is "0 if one has not yet been sent" (`wrap_writer.go:56`) | `ResponseWriter` | `wrap_writer.go:132`: after a `Flush` that sent 200 the status is 0 |
| `BytesAreSent`: `BytesWritten` is "the total number of bytes sent to the client" (`wrap_writer.go:59`) | `ResponseWriter` | `wrap_writer.go:197`: `ReadFrom` with a tee counts what `Write` has counted |
| `ListingsHidden`: `hide_directory_listing` "controls whether the directory listing response is served" (`handler.go:127`) | `ServerFlags` | `handler.go:265`: `hideListing` tests the path that `http.StripPrefix` left, which is empty at the root of a handler |
| `ServerConsulted`: the file handler "also consults the server for whether directory listings can be served" (`handler.go:129`) | `ServerFlags` | `handler.go:130`: it reads its own option only |
| `JSONTypeSent`: `--json-content` "Sets the Content-Type header to application/json" (`command.go:206`) | `ClientFlags` | `client.go:676`: a `--body` that runs later takes the place of the content, and the type goes with it |
| `ValuesFilled`: `--fill` "Fills a value in the body of the request" (`command.go:175`) | `ClientFlags` | `middleware.go:126`: a value is set to its own name |
| `CAPathSearched`: `--capath` is the "CA directory to verify peer against" (`tls_command.go:70`) | `ClientFlags` | `tls.go:175`: the `.pem` files are those of the current directory |
| `StatusAsked`: the components of a level are "the various parts of the roundtrip to trace" (`http_trace.go:64`) | `ClientTrace` | `http_trace.go:549`: the status is logged without a look at `TraceResponseStatus` |
| `NegativeKeepsOne`: the entry "negative" keeps `e/f.txt` for -1 (`downloader_test.go:61`) | `Download` | `downloader.go:91`: the file name only |

Behaviour that the models contain and no property is about, seen on the way:

* Server. `server_commands.go:430`: readiness is a timer; the ready functions may
  run on a server that does not listen yet, and `ReloadServer` installs an empty
  mux on a server without a handler, which displaces that of a slow factory
  (`server.go:382` against 355). `--host ""` cannot clear a host; `--port` on an address
  without a port loses the host; with `Options` and `--server` there are two `Server` headers;
  the server's setting does not hide the listing for an empty path either; the errors of an
  urlencoded form are hidden by `ErrNotMultipart`; a certificate without a readable key
  fails only after listening.
* Response writer. An informational status keeps the final one from being passed on.
* Client. `client.go:447` drops the error that stops the middleware chain and sends
  the request without the links that were to come; `client.go:477` puts response headers
  through the integrity check, which then refuses a body that matches; a
  transport factory that fails leaves `c.logger` unset. A typed password is asked for again at the next
  location; bearer authentication adds a value per location; `-O` after
  `--strip-components` forgets the count; authentication without a `UserInfo` panics
  (`Authenticate` of basic authentication).
* TLS. Errors of options are dropped, so that a `--cacert` or `--cert` that
  cannot be read is ignored; a file without certificates still takes
  the place of the system's roots.
* Trace. The error of a DNS lookup goes to
  standard output; `ErrUseLastResponse` is logged as an error; a TLS handshake
  that failed is logged as done.
* Templates and locations. Only the second location is tested for being
  absolute (`resolver.go:199`); the base URL is never used by `Resolve`; a partial
  expansion loses `+` and prefix lengths, reorders terms, and may print what
  cannot be parsed (`Survives` in `Locations` says which parts survive); a second
  `PartialExpand` loses the values of the first; `{}` and JSON numbers panic; `Vars.Add` drops
  the error that `Update` returns.

## 6. Not modelled

* Formatting: write-out expressions, the texts of the trace's templates and of the access
  log, what the echo handler reflects, the printing of values. No property of the
  system is about the wording.
* The interface resolver: one lookup of the operating system.
* Programs: `main` functions and generated metadata.
* Of components that are modelled in part: `struct2map` (no command reaches it), the
  parsing of integrity strings and PEM files, expressions in file names,
  `Query` of contents (unimplemented), `WithMethod`, `WithHeader` and `WithHeaders` (user
  middleware), the provider registries that look up names.
* External and modelled by what the code relies on: `http.ServeMux`, `net/http`,
  `sync`, `encoding/json`, joe-cli.

Possible next steps: registration while the server serves, which races `ReloadAll`
(`reloadable_handler.go:53`; no command does it); a composition of `RunServer` with
`ServerMux`, so that a reload meets a shutdown; that `Parse` undoes the printing of a template, and
with it `PartialKeepsRest`.
