# tun0access in TLA+

This directory holds the formal model of `tun0access`, a command-line tool that
fetches free VPN and proxy servers, lets the user choose a country and keeps
one tunnel up in the foreground. It contains TLA+ modules, TLC configurations
and TLAPS proofs. Paths below are relative to `src/cli/` unless they start with
`src/`.

- `tlc -workers 2 -config EngineRun.cfg MCEngineRun.tla` checks one run,
- `tlapm EngineRun_proofs.tla` checks one module of proofs,
- `PROJECT.json` lists components, runs, mutants, the map from definitions to
  source lines, findings, hazards and theorems.

## 1. The system

| Part | State it keeps | Operations | What makes it correct |
|---|---|---|---|
| `internal/runtools` (process.go) | per call: two pipes and pumps, ring buffer, `sync.Once`, ready channel, watchdog, `timedOut` | `Run` | OnReady once; the deadline bounds the time to ready and is reported; the end of the output is kept; nothing happens after the return |
| `internal/proxy/runner.go`, `internal/openvpn/runner.go` | temp directory with config and credentials, derived context | `Run` | the config outlives the engine; the engine ends with the call |
| `cmd/connect.go` | attempted servers, verdict, globals `lastMbps` and `lastExit`, per-attempt flags, contexts | `runConnect`, `attemptConnect`, the probe goroutine, `pickServer` | no server twice, best first; a bad server is left, a good one kept; Ctrl-C ends everything |
| `internal/proxy/installer.go` | the cached sing-box binary on disk, shared by all runs of the program | `EnsureSingBox` | who gets the path can run it; an interrupted install is made good |
| `internal/geoip` | cache in memory and on disk | `New`, `ResolveMany`, `saveToDisk` | entries age out; failures are not persisted; a torn file is ignored |
| `internal/asncheck` | address ranges, dataset on disk | `Prepare`, `Lookup`, `IsSuspicious` | a run knows when it goes without; the search finds the covering range |
| `internal/cdncheck` | ranges, disk cache | `Prepare`, `Detect` | a partial list is not saved as whole; degraded mode keeps the bundled ranges |
| `internal/backend` (backend.go) | registry | `Register`, `FetchAll`, `GroupByCountry` | a failing backend does not lose the others' servers; best first |
| `internal/backend/ssaggregator.go` | list cache of 30 minutes | `Fetch`, `fetchSource` | one server per host and port; CDN hosts go to `XX`; forwarders sink; no URI within the limits is lost |
| `internal/backend/riseup.go` | none across calls; one struct shared by three goroutines | `Fetch`, `bestTransport` | what failed is not taken for a certificate; the documented transport order |
| `internal/backend/warp.go` | registration on disk | `ensureRegistration`, `Fetch` | a fresh registration is reused |
| `internal/backend/vpngate.go` | none across calls | `Fetch`, `parseVPNGateCSV` | every whole row of a sound table gives one server, with its own fields |
| `internal/proxy/parser.go`, builders of `runner.go` | none | `Parse`, `buildConfig` | the configuration has the URI's own protocol, server, port and TLS |
| `internal/speedtest`, `internal/exitcheck` | the resolved probe address | `Prepare`, `Probe`, `Where` | a probe ends within its timeout |
| `internal/diagnose` | pattern tables | `IsSuccess`, `Recognise` | the first match wins |
| `internal/openvpn/openvpn.go` | none | `EnsureInstalled` | - |
| `internal/ui/picker.go` | none | `BuildEntries` | the rows agree with the pools servers are drawn from |
| `cmd/{root,list,status,doctor,validate}.go`, `main.go` | none | printing | - |

How they interact: `runConnect` calls `backend.FetchAll`, which runs every
backend in a goroutine; the aggregator calls `geoip`, `cdncheck` and
`asncheck`. For the chosen country `runConnect` then loops: `pickServer`,
`attemptConnect`, verdict. `attemptConnect` derives a context and calls
`dispatchEngine`, which makes sure the engine is installed and calls
`openvpn.Run` or `proxy.Run`; these write a config and call `runtools.Run`. The
pump that sees a success marker calls back `onReady`, which spawns the probe
goroutine; that goroutine measures speed and exit and, when they are bad, sets
a flag and cancels the context, which kills the engine, which lets the call
return, which lets the loop read the flags. Ctrl-C cancels the parent context.

What is hard here: five goroutines and a foreign process around one engine
call; a callback that spawns a goroutine nobody waits for; a kill that travels
through a context, `os/exec` and possibly `sudo`; timers that race events;
globals shared by attempts; and caches on disk that several processes rewrite
without a lock. `PROJECT.json` lists these under `hazards`, each at its line.

## 2. The modules

### EngineAbs: what a caller may rely on

An engine call is idle (installing, writing its config), running or returned.
It may become ready once, be cancelled, and returns `ok`, `error` or `timeout`;
a call that never started an engine returns `error`. Its fairness says what the
deadline and the cancel are for: a call that is not ready becomes ready or
returns, and a cancelled call returns. Both hold only if `direct`: the process
the program started is the engine itself and not `sudo`.

### EngineRun: the call in detail

| In the model | In the code |
|---|---|
| `main`, `Setup` ... `Cleanup` | the calling goroutine: the runner's setup (proxy/runner.go 28-58, openvpn/runner.go 34-72), `Cmd.Start`, `Cmd.Wait`, `wg.Wait`, the check of `timedOut` (process.go 62-139), the deferred `cancel` and `RemoveAll` |
| `sent`, `fetched`, `scanned`, `pump` | a pipe, the scanner's buffer and the pump goroutine; a line is `info`, a success `marker` or `long` (over 1 MB, at which `Scan` gives up) |
| `once`, `calls`, `readyCh` | `readyOnce`, the calls of OnReady, the channel of capacity one. A second pump at `fire` blocks while the first is inside the Once |
| `watch`, `expired`, `timedOut`, `deadlineHit` | the watchdog's `select`, its timer, its flag and `CancelOnDeadline` |
| `Kill` | os/exec's goroutine that kills the process when the context is done |
| `open` | the read ends of the pipes, which `Cmd.Wait` closes |
| `host` | who is killed: the engine (`direct`), a `sudo` that dies and leaves its child (`wrapper`), or nobody because the signal is not allowed (`refused`) |

Every access of shared state that can interleave is a step of its own: OnReady
and the send on the channel, the flag and the cancel of the watchdog, the exit
of the process, the return of `Wait` and the end of each pump. The ring buffer
is counted in lines and not in bytes; what matters is which end is dropped.
`WaitReturns` may answer an error for a process that exited well when the
context is done, as os/exec does when a kill was refused.
The engine is an environment: it prints and exits as it likes.

### Connect: the retry loop

`Connect` instantiates `EngineAbs` on its own variables and adds the loop
(`fetch`, `pick`, `engine`, `switch`, `done`), the servers of the chosen
country ranked by score, the verdict, and one probe goroutine per attempt. A
probe keeps its own attempt number, as the closure does, and goes on after its
attempt ended. `StoreSpeed`, `ExitLooked` and `Reject` are its stores in the
order of the code. `quoted` is the attempt whose number the retry message
quotes, which tells whether the globals hold anything at all. The flag
(`Reject`) and the `cancelRun` after it (`Drop`) are two steps, so an engine
may end by itself between them, or before the flag is set. `Judge` reads all flags in
one step: at most one fault is ever set for an attempt and none is taken back,
so loads one after the other reach no verdict that one reading does not.

The answers of the three helpers the goroutine and the loop call are operators
of their own: `Probe` (failed, slow, fast), `Where` (unknown, the label's
country, a forwarder in it, another country) and `Recognise` (whose fault).

### Installer: one cache directory, several processes

File system steps of `EnsureSingBox` in their order. A path names an inode, so
that a process goes on writing a file another one has removed; `Create` on an
existing path truncates it under its writer. The error of `Chmod` is dropped, so
`Chmod` has a branch that leaves the mode as it was and returns the path all the
same; a `Stat` that fails is a miss. `clean` and `refused` are history variables:
the process has had the directory to itself since its own `RemoveAll`, and its
chmod failed.

### FetchAbs and Fetch: collecting the servers

`FetchAbs` is what the commands rely on: every backend answers once, with
servers or an error, and the call returns once all have, with exactly that.
`Fetch` is the call with the goroutines below it.

| In the model | In the code |
|---|---|
| `ch`, `Answer`, `Return` | the channel, the goroutine of a backend, `wg.Wait` and the merge (backend.go 83-115) |
| `SimpleAnswers` | a backend that is one request: vpngate, warp |
| `heard`, `offered`, `SourceAnswers` | the aggregator's sources and `allURIs`, in the order of arrival (ssaggregator.go 83-101) |
| `ParseUri`, `Collect` | the loop that parses the URIs and keeps the first of each `server:port`, a turn at a time, and its end (103-124) |
| `Resolve`, `AsnPrepared`, `Materialize` | `ResolveMany`, the goroutine that prepares the ASN dataset, and the loop after `<-asnReady` (126-203) |
| `Fronted`, `Ranges`, `loadErr` | `cdncheck.Detect` and `Prepare`: the bundled ranges are added when a list failed, not when the lists answered without a range (cdncheck.go 52-70) |
| `part`, `lastErr`, `RiseupParses` | Riseup's three requests, the error they all store into, and what is checked after (riseup.go 82-146) |

An address is one of a few kinds: covered by the bundled ranges (`core`), only
by published ones (`other`), on a forwarder's network, plain, or none. A URI is
its endpoint and scheme. `servers` is indexed by item, which keeps the loop's
order and says which item a server was made of. The race on Riseup's error is a
data race; the model lets the stores happen in any order, and what counts of a
torn store is the type word that came last. The memory caches of the backends
are left out: a program runs one command, and each command fetches once
(connect.go:90, list.go:17, validate.go:41, doctor.go:29).

### DiskCaches: four files, several runs of the program

`geoip.json`, `cdn-ranges.json`, `ip2asn.tsv.gz` and `warp.json` are loaded,
refreshed and rewritten by every run without a lock. The four have one shape
(`Start`, load, fetch, `Open`, `Write`) and differ in when a file is accepted
(`GeoLoads`, `CdnLoads`, `AsnLoads`, `WarpLoads`) and in what a fetch leaves and
saves (`GeoFetches`, ...). A ranges list may fail, or be answered without a range
that parses, which is no failure; a registration may lack its key or address,
and is used and saved; `void` is what an accepted answer came without, a history
variable that the file carries along. `kind` says which file a behaviour is about; the files
share nothing. Memory maps an item to the time of the lookup that answered it, 0
for an empty answer; so freshness and completeness can be stated of what is in
memory. `os.WriteFile` is two steps, the open that truncates and the write from
offset 0: between them a crash leaves an empty file, and a second writer's
content may lie over the first's. `degraded` is a run that knows of a gap
(`Prepare` returned an error); `tidy` is a history variable: since its last lone
open the file had one writer, undisturbed. A load is one step because the file
is read in one `os.ReadFile`; a read that meets a writer finds a file that does
not parse, which `Open` leaves behind anyway.

### AsnDb, Outbounds, Catalog and Algorithms: the sequential algorithms

`Algorithms` calls them one at a time on any input of given sets. `call`,
`input`, `pc`, `at`, `work` and `output` are the operation, its arguments, where
it stands, the elements its loop has passed, what it has built and its result. A
step is one turn of a loop, one halving of `sort.Search`, or one `sort.Slice`,
which may put equal elements in any order; a Go map is walked in any order. The
bodies of the loops are operators of three modules:

| Module | In the code |
|---|---|
| `AsnDb` | asncheck's rows in a pool for each family (`ParseRow`, `SortPool`), the search and the row found (`Halve`, `Detected`; asncheck.go 132-183, 209-262) |
| `Outbounds` | from a URI to the engine's configuration: what each parser refuses, and which outbound, TLS and transport blocks come out (parser.go 69-340, proxy/runner.go 92-370) |
| `Catalog` | the rows of a VPN Gate table (`TableRow`, and `TableFails` for a table that is lost whole; vpngate.go 80-154), the lines of a subscription within the limits on a body and on a line (`Arrived`, `SourceLine`, `SourceStops`; ssaggregator.go 227-266), the offers of a Riseup gateway (`NextTransport`, `NextProtocol`, `NextPort`, riseup.go 173-197), pools and the picker's rows (`GroupServer` ... `SortRows`, backend.go 119-128, picker.go 22-50) |

The loops are steps and not folds so that what they compute can be proved for
inputs of any length: the induction over the input is then the one over the
steps of a behaviour.

### The MC modules and the configurations

`MCEngineRun` gives `EngineRun` its two streams and a bound of lines for each,
`MCFetch` gives `Fetch` its endpoints, lists and places, `MCAlgorithms` gives
`Algorithms` its sets of inputs. The other modules take
plain numbers and model values and need no MC module.

## 3. The runs

| Run | Shows |
|---|---|
| `engine` | all properties of one call, and that it implements `EngineAbs` with its fairness |
| `connect` | all properties of the loop |
| `installer` | what the installer guarantees under crashes and errors |
| `disk_caches` | what the four caches guarantee under partial answers, full disks, crashes and overlapping writers |
| `fetch` | that `FetchAll` implements `FetchAbs`, with its fairness, and that what is collected side by side is put together soundly |
| `algorithms` | the sequential algorithms, turn by turn, against what they are for |
| `geo_age` (violation) | a location outlives its 24 hours |
| `engine_output` (violation) | output can be lost: `Cmd.Wait` before the pumps are joined |
| `engine_deadline` (violation) | a ready engine can be killed and reported as never connected |
| `engine_sudo` (violation) | behind `sudo` a cancelled call may never return |
| `connect_oneshot` (violation) | `--no-probe` does retry |
| `installer_overlap` (violation) | overlapping first runs hand out an unusable binary |

The properties, in words:

- `OnReadyExactlyOnce`: once the pumps are joined, OnReady has been called
  exactly if a marker was scanned, and never twice.
- `RingHoldsTail`: of each stream the ring holds a gapless run, in order, that
  ends with the last scanned line; nothing is dropped before it is full.
- `JoinNotStuck`: the join has no timeout; every pump it waits for has a closed
  pipe, and one that waits at the Once waits for a pump inside OnReady.
- `EngineHasItsConfig`, `NothingAfterReturn`, `DeadlineKillReported`: the order
  of the ends: engine, pumps, check, directory, return.
- `CancelStopsEngine`, `DeadlineBoundsHang`: liveness of one call.
- `ImplementsEngineAbs`: safety and liveness of the abstract call.
- `NoServerTwice`, `BestFirst`: the k-th pick is new and among the best k+4.
- `GoodServerKept`, `VerdictFromOwnProbe`, `QuotesAMeasurement`: late
  goroutines of earlier attempts neither cancel nor condemn a later server, and
  a number quoted was measured.
- `FailedEngineNotGood`: an engine that failed before its probe came back is
  retried. (After the probe came back the code may call it good, see 5.)
- `NoEngineAfterInterrupt`, `InterruptEnds`, `AttemptSettles`: Ctrl-C wins, and
  every attempt is settled.
- `UndisturbedWorks`: an undisturbed install returns a complete binary whatever
  was there before, and one that runs unless its own chmod failed.
- `FailuresForgotten`: an empty answer is never taken from the disk.
- `UsedIsFresh`: what is taken from the disk is within its age limit, for all
  but locations, for which `EntriesAgeOut` is violated.
- `AnswersComplete`: a run that ends without an error has all the ranges, routes
  or fields it wanted, but for what an accepted answer came without: a failed
  list, a crash or a torn file is never taken for the whole, then or later.
- `LoneSaveRepairs`: a save that nothing disturbs leaves a file that parses.
- `EachEndpointOnce`: one server of each endpoint that was offered in a form that
  parses and can be placed, of the protocol heard first, whatever the order.
- `ForwardersSink`, `CdnRelabelled`: forwarders rank below clean servers, and
  what has a CDN's name, an address in the ranges that were had or, when a list
  failed, a bundled address is not sold under a country.
- `ImplementsFetchAbs`: `FetchAll` returns, with what every backend answered.
- `LookupFindsCover`: an ASN is only answered from a row that spans the address,
  and the row of the address's own family that covers it is found.
- `OutboundFaithful`: a configuration is of the URI's protocol, server and port,
  and has TLS exactly where it must (REALITY apart). It does not say that the
  engine can start with it: see 5.
- `VpnGateRows`: exactly the whole rows of a sound table come out, each once and
  in their order.
- `SourceKeepsUris`: what comes out are URIs of the body, each once, in order and
  whole unless the limit on the body cut it; all that both limits let through of
  a body that is plain or decodes.
- `TransportOrder`: the transport is offered, UDP 1194 is taken whenever it is
  there, and no offer of the same protocol comes before the one taken. What
  code and comment disagree on, TCP 443 and TCP against UDP, is left open.
- `PickerMatchesPool`: every country shown has the size and the best score of
  its pool.

Each property has a mutant in `PROJECT.json`: a plausible slip in the code,
written beside the definition it replaces, that breaks it.

### Bounds

- `EngineRun`: two lines on stdout, one on stderr, a pipe of one line, a ring
  of two lines. This is the least with which both pumps race for the Once, a
  line follows a marker, the ring overflows, a pipe fills behind a pump that
  gave up, and a line is in the pipe, in the scanner and in the ring at once.
  The three violation runs leave out `long` lines, so their counterexamples
  do not need them.
- `Connect`: up to four servers, two attempts, a draw from the best two. Two
  attempts suffice for a goroutine to outlive its attempt; with four servers the
  draw excludes one in the second attempt too, and both ends of the loop (attempts used up, servers used up)
  occur. In the code the numbers are 5 attempts and 5 servers.
- `DiskCaches`: two runs of the program (each starts again and again), two
  items, files of two lengths, an age limit of two units on a clock of four.
  Two items suffice for an answer in part; a short content can be written over
  a long one; an entry can be one unit old, renewed, and then too old. The
  clock stands while a run is between its fetch and its save: a unit is hours,
  and requests time out within 90 seconds.
- `Fetch`: two sources that each fail or send one of two lists, two endpoints
  of which one has a CDN's name, four kinds of places (an address covered by the
  bundled ranges, one of a forwarder, a plain one, none), one backend of one
  request. The lists offer an endpoint twice, under two schemes, from one
  source and from both, with a URI that does not parse in front. A dataset, a
  lookup and a range list can fail. The call ends, so deadlock is not checked.
- `Algorithms`: datasets of up to three of seven rows (gaps, touching rows, a
  single address, an unrouted row, both families, one that overlaps others, one
  that does not parse), 55,296 URIs (a port that is missing, negative, 0 or 443), tables of up to two
  rows of two to five cells under 24 headers and tables that are not sound,
  bodies of up to three lines in three forms, cut after any of them, with lines
  longer than the scanner takes, gateways of two transports with
  up to two ports (`MaxRows`, `MaxServers`, `MaxTransports` and the sets of
  `MCAlgorithms`), four servers of three countries or none, with scores below
  and above 0. Three rows are enough for the search to leave one on either side;
  what holds of any number is proved.
- `Installer`: two processes, two calls each, a file of two chunks: one process
  can crash and come back while the other is at any step.

### Fairness

Goroutines that can run do run; timers fire; an allowed signal is delivered
(`Fairness` in `EngineRun`). Nothing is assumed of the engine or the user: the
engine may hang, print for ever or die. `Connect` takes `EngineAbs`' promises,
which the `engine` run checks of `EngineRun`, and that each probe ends, which
holds because `speedtest` and `exitcheck` use timeouts. It also takes for
granted that `openvpn.EnsureInstalled` ends, which a package manager that waits
for ever would break: nothing bounds it (openvpn.go:54-58, 117-123). The picker may wait for
ever. In `Fetch` every request ends, because each client and each resolver has
a timeout, and the goroutines go on; nothing is assumed of what is answered.
`Installer` and `DiskCaches` state no liveness: each call is a straight line
with timeouts, and a run may crash anywhere.

## 4. The proofs

`EngineRun_proofs`, `Connect_proofs`, `Installer_proofs`, `DiskCaches_proofs`,
`Fetch_proofs` and `Algorithms_proofs` prove, for every value of the constants,
every safety property that a passing run checks, and the safety part of both
refinements. The only assumptions are those that the modules state:
`BoundsAssumption`, `SizesAssumption`, `InstallerAssumption` and
`DiskCachesAssumption` say that bounds are numbers and that the ring, the number
of attempts, the draw, the file and the set of items are not empty;
`FetchAssumption` says that the two modelled backends are not among the simple
ones; `AlgorithmsAssumption` gives the types of the inputs and says that no
suspicious ASN is 0.

**One engine call.** `TypeOK` is inductive as it stands. The order of the ends
is not: `LifeInv` says which processes and goroutines exist at each point of
the calling goroutine (while the process is up the caller is at `Cmd.Wait`;
once the pumps are joined all are done), and `EngineHasItsConfig` and
`NothingAfterReturn` follow from it. `OnceInv` ties the number of OnReady calls
to the Once and `MarkInv` ties the Once to the lines scanned (a marker was
scanned exactly if a pump has come to the Once); at the join no pump is left at
`fire`, which gives `OnReadyExactlyOnce`. `PipeInv` says how long the pipes are
open and that a Once that is running has a pump inside it, whence `JoinNotStuck`:
the part of "a call ends" that is safety. `RingHoldsTail` is inductive together
with the types: a line is appended at the end, and what is dropped is dropped at
the start. `DeadlineInv` carries "flag before
cancel" from the watchdog to the kill. `RunnerImplementsEngineAbs` is the step
simulation: `StartEngine`, the first `FireFirst`, `CallerCancels` and `Cleanup`
are the visible steps, every other step is a stutter; `ResultInv` says that a
call without a process returns an error.

**The connect loop.** `AttemptInv` says that nothing is tried before the list
is there. `PickedRank` is the counting argument of `BestFirst`: the servers
better than a pick were tried before or are fewer than `TopPick`. `FlagInv`
says that an attempt which is not ready yet has neither goroutine nor flags,
and that a flag names a fault only if its own goroutine rejected the server;
this is what late goroutines cannot break (`ProbeOwn`). `CancelInv` names the
only two reasons for which a running attempt is cancelled. `MeasureInv` says
that a goroutine stores what it measured before it raises its flag, and
`InterruptInv` that an interrupt reaches every call that has not returned.

**The installer.** `CleanInv` says, for each step of an undisturbed run, what
it has made of the directory so far: the path is free, then names its own file
with the pieces written so far, then the whole, then the whole with its mode.
Any step of another process that touches the directory ends the claim, and a
chmod that failed leaves the whole file without its mode.

**The disk caches.** `TypeOK` needs `PastInv`: neither the file, nor a memory,
nor a draft has a time in the future; the clock stands while a run is at its
save, so a draft's time stays the present. `SolidInv` says that neither the file
nor any draft holds an empty answer, which gives `FailuresForgotten`.
`FreshInv` is the invariant of `UsedIsFresh`: for all files but `geoip.json`, a
run between its fetch and its write holds answers of the present, and the items
of the file bear the file's own time, so an age limit on the file is one on its
items. For `geoip.json` this is what fails. `EnoughInv` says what each step of a
run owes `AnswersComplete`: what is held, drafted or on the disk accounts for
every item (`Accounted`: it is there or in `void`), given that ranges are only
saved when no list failed. `LoneInv` follows an undisturbed writer from its open to its write.

**Collecting the servers.** `ChannelInv` says that each backend has at most one
answer in the channel and that the aggregator answers when it is done; with it
every step is an answer of `FetchAbs`, its return or a stutter
(`AbsAnswer`, `AbsReturn`, `AbsStep`). `ScoresInv` says that no server is made before the dataset is there
or given up, and that a server's score is then the one its address has for good.

`OneServerPerEndpoint` rests on `ItemsInv`, the invariant of the aggregator's
loop: the items are the first URIs that parse of their endpoints among those
looked at, and every endpoint among these has one. `ServersInv` says that the
servers are the items that can be placed.

**The algorithms.** `Stages` says where each call can stand, so that the proof
of a step looks only at the actions of its own call (`OwnSteps`). Each algorithm
then has one invariant about what its loop has passed:

- `DetectInv`: the pools have exactly the rows passed, by family; a sorted pool
  is a permutation of what was unsorted (`RearrangedIs`); all rows at or below
  `lo` start no later than the address and all above `hi` start after it
  (`Between`), which either half keeps (`Halving`, from the order of addresses,
  `AddressOrder`). At the end the row before `lo` is the only one that can cover
  the address: a covering row lies at or before it, and if it were an earlier
  one, the two would overlap.
- `SourceInv`, `TableInv`: there is a strictly rising map from what came out to
  the elements passed that were to be taken (`FromText`, `FromRows`); one more
  element extends it (`PickNext`). `ArrivedIs` says what the limit leaves of a
  body, and that a cut URI is the last. `CellIs` says which cell a row gives under a
  name if no name occurs twice.
- `TransportInv`: the best so far is offered, and no offer passed has a higher
  priority; `Priorities` turns priorities into the order of the property.
- `EntriesInv`: each pool has just the servers of its country among those passed
  (`Pooled`), each row counts them and has their best score (`Tallied`), the
  list has every row at most once (`Listing`). `RowMatchesPool` compares a row
  and a pool made of the same servers.
- `BuildInv` is only that the output was made of the input; the work is in
  `Parsed` (what the parsers make of a URI they accept) and `Blocks` (what the
  builders make of that).

What stays with TLC is everything under fairness: `CancelStopsEngine`,
`DeadlineBoundsHang`, the fairness parts of `ImplementsEngineAbs` and
`ImplementsFetchAbs`, `InterruptEnds` and `AttemptSettles`, since the prover
handles neither liveness nor ENABLED.

## 5. Findings

Where the code and what is said of it disagree (`findings` in `PROJECT.json`,
six of them with a counterexample): output lost between exit and `Wait`; the
`select` race of the watchdog; `sudo` and the kill; `--no-probe` that retries;
the installer that is said to rename atomically and does not, and that accepts
a truncated binary for ever and drops the error of its chmod; the README's claims about retries (3 tries, no
retry on a wrong country, a clean timeout); globals "reset per attempt" that
are not. The property `VerdictFromOwnProbe` shows what still holds of the
last: only the message can be wrong, never the verdict. Of the parts below the
commands: locations that never age (`geo_age`); a dataset that is no dataset
accepted for a day; an engine that dies between two stores of its probe and is
taken for a good server; Riseup's last transport that is never chosen and its
shared error; REALITY taken for plain TLS; brackets and ports in Shadowsocks
URIs; registrations that are saved and then refused; lists of ranges that answer
without one and are saved as whole; URIs lost behind a long line or a body's
limit, in silence.

## 6. Not modelled

- The memory caches of the backends: no command reads them back.
- Printing, wording and the terminal form; decoding (base64, JSON, CSV quoting)
  beyond whether it succeeds; the text of OpenVPN configurations; Mbps.
- `releaseURL`, cache paths and package managers (`openvpn.EnsureInstalled`):
  straight lines of external effects without state of the program's own.
- The tables: CDN suffixes and prefixes, suspicious ASNs, diagnose patterns.
- What the remote services answer is nondeterministic where a model needs it.
- The error of `writeFile`'s deferred `Close`, which the code drops too; numbers
  of ports beyond 16 bits, which no branch of the parsers tells apart.
- The byte limit of the ring buffer is a line limit. SIGTERM during the picker
  is outside `InterruptEnds`.
- The printing commands `list`, `status`, `doctor` and `validate`.

## 7. The plan

Done: EngineAbs, EngineRun, Connect, Installer, DiskCaches, FetchAbs, Fetch,
AsnDb, Outbounds, Catalog and Algorithms, with their proofs.

Left, in this order:

1. The composition of `FetchAbs` and `Connect`: `Fetched` takes a pool of any
   size, where it could take what `GroupByCountry` makes of the merged servers.
2. `geoip`'s hosts that share an address, and the workers that look them up.
