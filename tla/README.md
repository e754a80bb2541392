# Verification of dhcp-batcher

dhcp-batcher tells a Sonar instance which client (MAC address) has which IP
address. It runs in one of two modes:

- **batch**: scripts on routers report leases over HTTP; the batcher collects
  the reports in a table and posts the table to Sonar at every tick.
- **proxy**: the batcher relays DHCP between routers and servers, puts the
  leases it sees acknowledged into a table, counts them down, and posts the
  whole table at every tick.

In either mode it starts from `conf/proxybatcher.yaml`, which a text interface,
the **configurator**, can write.

This directory holds TLA+ models of the concurrent core of both modes, of the
batch endpoint, of the configurator and of the start of a process, the TLC runs
that check them, and machine-checked proofs about them. All source paths below are relative to `src/proxybatcher/`.

## Inventory

| component | state | operations | interacts with | hard part |
|---|---|---|---|---|
| batch endpoint (`batch_mode.go`) | none of its own; router list in `options` | `BatchModeEndpointRouter`: check a request, start an updater, answer; `startBatchModeServer`: serve, wait for ctrl+c, stop | starts `UpdateBatchTable`; sends on `ctl` | answers before the update; falls through after two of its error answers |
| batch table (`batch_scheduler.go`) | `entry` (MAC to assignment), `rwTableMutex`, `currentID`, `skippedID` | `initTable`, `UpdateBatchTable` | written by updaters, drained by the scheduler | one goroutine per report |
| batch scheduler (`batch_scheduler.go`) | its slice `t`, the ticker | `RunBatchScheduler` (batch branch, proxy branch) | both tables, `ctl`, starts `sendBatch` | length read without the lock; drain and reset; select |
| dispatch (`batch_scheduler.go`) | one goroutine per batch | `sendBatch` | Sonar over HTTPS | no retry, no timeout, no order between batches, version 2 empty; goes on with the request after an error left it nil |
| lease table (`proxy_lease.go`) | `entry` (MAC to lease), `mutex` | `addLease`, `trim`, `printDebug`, `printInfo` | DHCP handler, scheduler, `ctl` | countdown of a uint32, printing without the lock, option 82 slicing |
| DHCP handler (`proxy_handler.go`) | `h.m`, the transaction ids seen | `ServeDHCP`, `startDHCPProxy` | called by two listeners; calls `addLease` | `h.m` shared without a lock, never shrinking and looked up by transaction id alone; two receivers on `ctl` |
| proxy server (`proxy_server.go`) | one socket, control message and buffer per listener | `ListenAndServeIf`, `Serve`, `ReadFrom`, `WriteTo` | handler, network | which interface a message leaves by |
| configuration (`options.go`) | `options` | `initConfig`, `checkConfig`, TLS and server setup | read by all | the version check is never true; two servers from one set of options |
| configurator (`configurator.go`) | `config`, a copy of the options per form, two tables | the callbacks of fields, ADD, REMOVE, SAVE and the two ways to quit | `options`, the YAML file | copies that share the arrays of their lists, saved in any order; the write is not looked at |
| process start (`dhcp-batcher.go`) | none | `main` | all of the above | gets as far as the file allows |
| logging (`logging.go`) | the logger's level, format and file | `initLogging`, `endpointLogger` | `options` | none |

What makes each correct:

- *batch table and scheduler*: an accepted report gets to Sonar at most once,
  is superseded only by a newer report of the same client, and is never lost
  between the table and a batch; batches are unambiguous and not empty.
- *order*: Sonar ends with the report the client's router was last answered
  200 for, unless the code itself leaves the order open.
- *lease table*: the time left follows the granted time, never wraps, and
  only an ACK revives a lease; an expiry is reported.
- *start and stop*: ctrl+c ends the process and does not cut a drain in two.
- *endpoint*: what any sender is answered, listed or not, agrees with what
  becomes of its report; only listed routers report; and the table stays
  readable with one slot per device.
- *DHCP handler and proxy server*: no reply is relayed or recorded whose
  transaction no client asked with, no answer is dropped for coming too soon, who
  is told of a lease is recorded, a message leaves by the interface the manual
  says, and the listeners do not get at the transaction table together.
- *option 82*: a batch names the remote id the relay agent wrote, wherever in the
  option it is, and an option with a single sub-option is served.
- *configurator*: what was saved is what the file has, and the tables show the
  lists that removals work on; what is loaded and left alone survives; a write
  that breaks off mixes no two routers; a first session makes a file that starts.
- *configuration and start*: what passes the checks runs: a batcher with TLS is
  reached over TLS only, and neither a cycle time nor Sonar's name ends the
  process.

The hazards of the code, each at its line and with the properties that watch
it, are listed in `PROJECT.json`. Those without a property carry a note: the
code does something there that no comment, document or test speaks about, and
the models do it too.

## Modules

| module | what it is |
|---|---|
| `ReportLedger` | abstract specification of batch mode: how far each report has come, no goroutines |
| `LeaseLedger` | abstract specification of proxy mode: leases that are recorded, age together and are told in whole batches |
| `BatchMode` | the handler's accepted path, `UpdateBatchTable`, the scheduler's batch branch, `sendBatch` and the panic in it, and the shutdown, interleaved |
| `BatchModeProofs` | TLAPS proofs about `BatchMode`, among them that it implements `ReportLedger` |
| `BatchOrderProofs` | TLAPS proofs of the order of batches and of what Sonar ends with, on top of `BatchModeProofs` |
| `BatchOrder` | extends `BatchMode` with history: last answer per client, order of stores, what Sonar has |
| `Option82` | the relay agent option's format, and what `addLease` cuts out of it |
| `Option82Proofs` | TLAPS proofs about the cut |
| `ProxyMode` | extends `Option82`: `addLease` of both listeners, `trim`, the scheduler's proxy branch, the shutdown, and the death by a map race |
| `ProxyModeProofs` | TLAPS proofs about `ProxyMode`, among them that it implements `LeaseLedger` |
| `DhcpProxy` | both `Serve` goroutines, `ServeDHCP` and its transaction table, the relaying, and clients, servers and UDP around them |
| `DhcpProxyProofs` | TLAPS proofs about `DhcpProxy` |
| `Endpoint` | the checks, answers and table writes of `BatchModeEndpointRouter` for requests good and bad |
| `EndpointProofs` | TLAPS proofs about `Endpoint` |
| `Configuration` | operators: flags over file, the logger, `checkConfig`, how far `main` gets, the HTTP servers |
| `Configurator` | extends `Configuration`: sessions of the configurator and starts of the batcher around one file |
| `ConfiguratorProofs` | TLAPS proofs about what `Configurator` starts, and about what it loads |
| `ConfiguratorSaveProofs` | extends it: TLAPS proofs about what `Configurator` writes and shows |
| `MCBatchOrder`, `MCProxyMode`, `MCDhcpProxy`, `MCEndpoint`, `MCConfigurator` | instances for TLC |

### BatchMode

| variable | code |
|---|---|
| `updater[r]` | where the `go UpdateBatchTable` of report `r` is: not started, before `Lock`, after `Lock`, after the map write, through |
| `rwTableMutex` | the holder of the mutex: a report (its updater), `Scheduler` or `None` |
| `entry[m]` | the map; an assignment is represented by the report that wrote it |
| `sched` | the scheduler's place: `select`, `count` (before `len`), `lock`, `range`, `reset` (before `make`), `unlock`, `dispatch`, `exited` |
| `tick` | the ticker's channel, which holds one tick and drops others |
| `t` | the slice; a set, since the order is the map's random order |
| `currentID`, `sends` | number of batches so far, and the goroutine posting each |
| `nameMakesURL` | whether `http.NewRequest` can make a URL of Sonar's name: either, and never changed |
| `main` | `startBatchModeServer`: serving, signalled (blocked on `ctl <- true`), in `Shutdown`, exited; or crashed, by a goroutine that panicked |

There is one action per access to shared state, so TLC and the proofs see every
interleaving the Go scheduler may choose. `SchedulerTake(m)` is one turn of the
range loop. `SchedulerReset` drops whatever the map holds, as `make` does: that
it holds nothing is a result (`NoSilentLoss`, `Phases`), not an assumption.
`SendOutcome` says what a `sendBatch` that returns can have done: version 1 posts
or fails; any other version discards. `SendPanics` is the one that does not
return: if `http.NewRequest` can make no URL of Sonar's name (`nameMakesURL` is
false), it returns no request, the error is logged, and the use of the nil
request on the next line ends the process. `ProxyMode` hands its batches to the same `sendBatch`
and ends at `go sendBatch(t)`, so what becomes of a batch is modelled here only.
A report's address, remote id and expiry are not told apart.

`ImplementsLedger` is refinement with the mapping `LedgerStatus`. The drain, a
dozen steps in the code, maps to the single `Dispatch` step of the ledger. It
takes effect at `SchedulerReset`: until then a copied report still counts as
staged, afterwards as dispatched.

### BatchOrder

Three goroutines handle each report in turn (handler, updater, sender), and none
waits for its predecessor's predecessor. `SonarUpToDate` says exactly when Sonar
may still be trusted: for a client with no two updaters at once, no two posts in
flight at once and no failed post, Sonar has the last answered report as soon as
nothing about the client is on its way. Dropping any of the three excuses from
`Unordered` makes TLC find a behaviour in which Sonar keeps a stale address, so
none of them is superfluous. `BatchesFollowTheTable` needs no excuse: batch
numbers keep the order of the table writes.

### ProxyMode

| variable | code |
|---|---|
| `waiting` | ACK datagrams not yet read; each is read once |
| `serve[l]` | listener `l` (port 67, port 68): reading, or inside `addLease` for an ACK |
| `mutex`, `entry` | `leaseTable` |
| `trim`, `trimTick` | `leaseTable.trim` and its ticker |
| `sched`, `tick`, `t` | as in batch mode |
| `toTrim`, `toCopy` | the clients that the range loops of trim and of the scheduler still come to |
| `dispatched` | the last slice given to `go sendBatch(t)`, history of what Sonar was told |
| `main` | `startDHCPProxy`, or `crashed` |

The loops of `trim` and of the scheduler take a step per turn (`TrimTake`,
`SchedulerTake`), over the clients that are there when the mutex is taken, in any
order. `printInfo` and `printDebug` range over the map without the mutex: `Fatal`
is the run time killing the process for that, enabled whenever a goroutine is
about to write while another prints; the turn for an expired lease writes
nothing. `Trimmed` subtracts modulo `Uint`, the size of the integer type.

`ImplementsLedger` says that the turns do not show. In `LeaseLedger` all leases age
in one step and a batch is drawn from the whole table in one step, with numbers
that have no width. Under the mapping both take effect when the goroutine has
the mutex: a lease that trim's loop has not come to counts as trimmed
(`LedgerLease`), and one that the scheduler's has not come to as drawn (`Drawn`).
So no batch has one client before and another after a trim, and none is empty
although the length was read without the mutex.

A lease carries the remote id that `addLease` cuts out of the relay agent option.
`Option82` lays an option of up to three sub-options (`MaxSubOptions`) out in
octets, with any codes in any order, as the format that `proxy_handler.go` quotes
allows. The cut looks at one octet, the length of the first sub-option, adds 2 to
it in a byte, and skips two octets more; codes it does not look at. An option
that it slices out of range is a panic (`AddLeasePanics`), which ends the process.
`SecondValueReported` says for every such option what gets to Sonar, through
trims, renewals and batches: what is behind the second header, a third
sub-option included; and nothing, ever, of an ACK with a lone sub-option. Where that
departs from the quoted format is listed under Findings.

### DhcpProxy

| variable | code |
|---|---|
| `wire` | every message sent to the proxy so far; reading one leaves it there, so a datagram may come late, again, out of order or never |
| `m` | `DHCPHandler.m` |
| `serve[p]` | the `Serve` goroutine of port `p`: reading, about to write (`mark`) or read (`look`) the transaction table, in `addLease`, relaying, or returned after a read error; the message it handles; the servers left to write to |
| `leases[c]` | the last ACK `addLease` was called with |
| `toServer`, `toRouter` | what left the proxy so far |
| `crashed` | a panic, or the run time's concurrent map access error |

`Stray` messages are replies to somebody else's relay, of which nothing is
assumed: any transaction id, a client's included, and any MAC address
(`StrayOK` says only that they are replies). The proxy's own servers echo what they
were asked with, as RFC 2131 has it; what does not is a stray. The
handler looks at the transaction id alone, and `h.m` forgets none, so
`OnlyAskersAreServed` promises what is left: every reply relayed or recorded has a
transaction that a client asked with (`InUse`), and one that is no stray is for a
client that asked with it (`Due`); clients may share an id. That a listener can be at
`h.m` while the other writes it is `Fatal` here as in `ProxyMode`: the run time may
kill the process for it, or not notice. `ProxyMode` continues where `Lease` leaves off: its `ServeACK` is
an ACK that passed the table. The order of the servers in the loop and the
header fields and options of the copy are left out: the copies are straight-line
code without a branch on what they copy, and no property here would look at them.

### Endpoint

`Checks(q)` lists the handler's checks in the order of the code with the status
each writes before it returns, so the first that fails decides. Three are
unusual, and modelled as they are. A request whose URI cannot be parsed makes the
handler panic before it writes anything, because it logs the query of the URL
that it did not get (`URIPanics`; net/http recovers and closes the connection, so there
is `NoAnswer`). A request without `ip_address` returns
without a status, which net/http turns into 200. An address not in the list of
routers is answered 401 without a `return` (lines 67-70), and the checks go on
with an empty user name and password as the expected ones; `Status` takes the
first status written, as net/http does. `AnswerTellsOutcome` relates answer and
table for all of them: a listed router told 200 has its report on its way, or sent
no `ip_address`; an unlisted sender is told 401, and its report is on its way
exactly if it is well-formed and its credentials are the empty ones. That
the last case exists is against the manual: `OnlyListedRoutersReport`, violated.
The handler is one step, since it shares nothing before it starts the updater;
`BatchMode` has the updater and the drain in detail. A request identity is used
again as soon as its updater is through, so the run has no last request.

### Configuration and Configurator

Everything `main` does before it serves is a function of the file and the flags,
so `Configuration` has operators only: `Overridden` (the flags), `Logs`
(`initLogging`), `Passes` and `Checked` (`checkConfig`: its verdict, and the
instance name it rewrites), `Outcomes` (how far `main` may get) and `Servers` (what
`startBatchModeServer` starts). Texts stay texts; what the library makes of
them (`ToLower`, `ParseIP`, `Stat`, ...) is a constant operator that an instance
gives and the proofs leave open.

`Outcomes` is a set, because the scheduler's goroutine makes its ticker while
`main` compares the mode: with a mode that `main` does not know and a cycle time
that no ticker takes, the process exits or crashes. Such a cycle time is a negative
one, or one so large that its product with `time.Minute` wraps (`Duration`, in
nanoseconds and 64 bits, scaled down by `Minute` and `Half`); both can be typed.
`DispatchPanics` is the other way a running process ends by its options:
`SendPanics` of `BatchMode`.

| variable of `Configurator` | code |
|---|---|
| `file` | the options in `conf/proxybatcher.yaml`, or `Unreadable` |
| `phase`, `options` | the process: a session, a running mode, or how the last one ended; the global of a running one |
| `loadYaml` | the flag of the session |
| `config` | the options that SAVE AND QUIT writes, blank at first |
| `form` | `sonarOptionsConfig`, `batchOptionsConfig`, `tmpProxy`, `tmpLoggingConfig`, the mode's drop-down and the text of the IP field |
| `tmpCfgRouters` | the router form's slice |
| `heap` | the arrays behind the slices, as long as their capacity |
| `shown` | the rows of the two tables |
| `sessions`, `using` | the bounds' counters: sessions so far, the forms this one changes |
| `scratch`, `torn`, `typed`, `saved`, `loose` | history: the file goes back to a session that loaded nothing; half routers that writes which broke off have left; fields changed; sections as they were saved; lists that may have changed since |

`config`, the forms and what was loaded are Go structs, so an assignment copies
them, but the two lists in them are slices and the copies share an array. The
model has the arrays: `append` writes in place while there is room, REMOVE
shifts the array and blanks its last element under everyone who holds it. A
drop-down that is set calls its function, which stores the entry it is set to:
opening a form with a value it does not offer changes the value (`Forms`,
`LoggingForm`, `Choice`). Fields show defaults that they do not store; only what
is typed is stored, and of the batch form's IP field not even that: the text is
checked and left. A field is filled in at once.

The result of the write is not looked at. A write that fails leaves the old file,
one that cannot be read (`Unreadable`), or one that breaks off and still is YAML:
`CutOff` has every such file, with the fields before the break in the order of the
Go types as they were, those behind it as in `programConfig{}`, and of the field
at the break nothing or what `CutShort` and `CutNumber` make of it. A router list
may so end in half a router. `RoutersAreWhole` says that this is the only way a
half router comes about, however later sessions go on with it.

`WritesWhatWasSaved` and `SavedIsWritten` differ in `loose`: the second is what
the screen's help says, and the code breaks it in two ways; the first says that
these two ways are the only ones. Both start from what SAVE put into `config`, so
neither sees the IP that SAVE leaves in its field. What that costs a first
session is the theorem `ScratchIsNoBatchHolds`.

`TableShowsServers` says that the table of DHCP servers is the list that removals
work on, except that with `--loadyaml`, while that list is still empty, loaded
servers are in the table alone. The exception is the code's: such servers are
shown and are gone at the next SAVE. `LoadedSurvives` leaves out the TLS drop-down
for a like reason, since a load sets it the wrong way round; for every other field
it holds. Both are under Findings.

`TLSGuardsEndpoint` is about two different ports. With equal ports one of the two
listeners fails, which one is open, and the redirect leads to itself if it is the
other; the model has no failing listeners.

## Runs and bounds

| run | result | shows |
|---|---|---|
| `batch` | pass | the invariants, `NoSilentLoss`, `ImplementsLedger`, `BatchesFollowTheTable` and `SonarUpToDate`, and under fairness `ReportsGetDispatched` and `ShutdownCompletes`: three reports about two clients, with a name that makes a URL and with one that ends the process at a batch |
| `batch_v2` | violation | with version 2, `sendBatch` drops the batch |
| `proxy_safety` | pass | the lease table with two clients, one renewing, two listeners (symmetric); grants of 9, 13 and 20 seconds; relay agent options in both orders and with a third sub-option; the invariants, the action properties, `SecondValueReported` and `ImplementsLedger` |
| `proxy_live` | pass | expiry gets reported, ctrl+c ends the process; one client renews, another's ACK has a lone sub-option, which ends the process with nothing of it told |
| `proxy_ctl` | violation | trim takes the scheduler's exit |
| `proxy_race` | violation | the table is printed while it is written |
| `dhcp_safety` | pass | `OnlyAskersAreServed`, `AnswersPassTheGate` and `ToldAreRecorded`, with stray ACKs for a transaction in use and for another |
| `dhcp_interface` | violation | requests leave by the downstream interface |
| `endpoint` | pass | answers agree with the table, for listed and unlisted senders and unreadable URIs; one slot per device, a readable table |
| `endpoint_unlisted` | violation | an unlisted sender's report is stored |
| `configurator` | pass | a session and the starts before and after it, and a write that fails or breaks off anywhere: what is written, what the tables show, that half routers come from breaks only, what a start makes of the file |
| `configurator_save` | violation | what a SAVE saved is not what SAVE AND QUIT writes |

Bounds. The reports (ACKs) of an instance are finite and each is handled once;
every batch takes at least one report, so batch mode needs no bound on its
counters. Two reports about one client put one in a batch and one in the table, or
race each other from updater to Sonar; the report about the other client makes
batches of two and keeps the range loop going for more than one turn. A third
report about the first client has been checked too, with the same result, by the
invariants (symmetric in the three) and by `BatchOrder` (1.6 million states); the
smaller instance is kept for its speed, and the proofs cover any number.
In proxy mode the grants are below, at and between multiples of the period;
`Uint = 32` stands for 2^32, small enough for TLC and larger than any grant, so
that a wrap shows as a time above the grant. The relay agent options are the
usual order, one with empty values and a third sub-option, and the remote id
first; the lone sub-option is in `proxy_live`, since an ACK with it ends the
behaviour. `Option82Proofs` covers all contents and lengths.

In `DhcpProxy` two clients share the one transaction id in use. Of two stray ACKs
one has that id and is for the second client, whether it asked or not, and one has
an id that is not in use and is for the first. One of the clients sends DISCOVER and REQUEST, the other REQUEST and
RELEASE, so every kind of first step is taken and both listeners can be at the
table at once. One server is enough for the properties, which speak of one
message at a time; the proofs cover any number. In `Endpoint` the requests are a
good one and those that fail in one place, from a listed router and from another
address (with the empty, the right and other credentials), with two spellings of
one device and expiries around 0 and 1 (`01` included); two at a time show two
spellings racing for a slot.

In `Configurator` the first file is the blank one the repository comes with, a
file for each mode, a proxy's with a cycle time that wraps (20, with `Minute = 4`
and `Half = 64`), or unreadable; `-5` may be typed for a cycle time, and for Sonar's
name one that makes no URL. One session
(`MaxSessions`) is enough for what is written, because a process keeps nothing
for the next one but the file, and the first files include those that a session
could have left; a start may come before it and after it. `ConfiguratorProofs`
needs no such bound. A session changes the forms of one element of `Usage`, so
that every form meets every other form that shares a section or a list with it;
the others are saved or not, as they are. Lists are added to up to two rows
(`MaxRows`), which is where `append` runs out of room and where it has room left
after a removal. Two routers share an address, as a table of addresses must show
them apart. `RoutersAreWhole` has also been run with two sessions on routers, the
second on what a break in the first has left. `MCCutShort` cuts one address in
one place, `MCCutNumber` a cycle time; the proofs leave open what they make of a
text.

Fairness. Goroutines that can go on do (weak fairness of the updaters, the
scheduler, trim, the exit), tickers tick, and `select` chooses at random among
ready cases, so a sender on `ctl` that is ready again and again is received from
(strong fairness of the exits). In proxy mode trim and the scheduler return to
the mutex for ever; a waiter gets it because `sync.Mutex` hands over to whoever
waited longer than a millisecond (strong fairness of the three locks). Nothing
is assumed of Sonar: `SendBatch` has no fairness, since `http.Client{}` has no
timeout. No report, ACK, interrupt or crash has to happen.

## Findings

With a run that shows the violation:

- `sendBatch` has no code for `sonar_version` 2, which the manual offers and
  calls the default: drained batches disappear (`batch_v2`).
- In proxy mode `ctl` has two receivers and gets one value: the exit the comment
  addresses to the scheduler may end `trim` instead (`proxy_ctl`).
- The lease table is printed without its mutex, while the code's comment asks
  for the mutex to avoid read/write races (`proxy_race`).
- The listener of port 67, where requests arrive, treats the downstream
  interface as the other one and sends requests for the servers out by it, while
  the manual calls `-proxy_upstream_if` the interface to pass requests to the
  servers (`dhcp_interface`).
- The manual says that only authorized routers can create batch entries. An
  address that is on no list is answered 401, and its report is stored if it was
  sent with an empty user name and password (`endpoint_unlisted`).
- The configurator's help says that SAVE saves the changes. The batch form's SAVE
  puts the form's own list of routers, loaded or empty, in place of the one the
  router form has saved; and a row removed after SAVE, without another SAVE,
  shifts and blanks the saved list, which shares the array, so that a blank
  router or server is written (`configurator_save`).

Without a run of their own, each in the model that is named and in what the
passing runs and the proofs say about it:

- When no request can be made of Sonar's name, `sendBatch` logs the error and then
  uses the nil request, which ends the process at the first batch. `checkConfig`
  lets such a name through, for instance one with a space. (`SendPanics`; the
  invariants of `batch` hold up to that end, and `ShutdownCompletes` counts it as one.)
- The table of transactions is read and written by both listeners without any
  mutex. (`Fatal` in `DhcpProxy`.)
- The format of the relay agent option that `proxy_handler.go` quotes (lines
  37-45) leaves the order of the sub-options open and asks for one at least.
  `addLease` expects two with the remote id second: in front of the circuit id it
  is not reported, and a single sub-option with a value panics a listener.
  (`OptionRead` and `SecondValueReported` say so for every option.)
- `--loadyaml` is to "load dhcp-batcher YAML file into configurator"
  (`options.go:86`). The DHCP servers get into the table and not into the form's
  list, so SAVE saves none of them (the exception in `TableShowsServers`); and the
  TLS drop-down is set the wrong way round (lines 221-225 and 260-263 of
  `configurator.go`), so that saving the batch form turns TLS off when it was on
  and on when it was off (the exception in `LoadedSurvives`).
- `--configurator` is to configure the program for the first time
  (`options.go:85`). No form has a field for the endpoint's credentials, and the
  IP typed is never stored, so what a first session saves for batch mode is
  refused at the next start. (`ScratchIsNoBatchHolds`.)

Of the rest no document or comment says the contrary, and the models have it as
the code does:

- The forms show defaults (cycle time 5, ports 80 and 443, certificate paths,
  the log's path) that they store only when typed: a shown 5 is saved as 0,
  which the scheduler takes for 15 seconds.
- Without `--loadyaml` the TLS drop-down starts at yes.
- Of two routers with one address, REMOVE takes the selected row out of the table
  and the later of the two out of the list, whichever was selected.
- SAVE AND QUIT writes blanks for the sections that were not saved, also with
  `--loadyaml`.
- The configurator is reached only after the file has been read
  (`options.go:90-119`), although the log of a missing file advises to run it.
- `checkConfig`'s version check can never fail, and it takes the mode in
  capitals, which `main` then does not know: the process ends without an error.
- A logging mode of `none` is `info` to `initLogging`, and `debug` after a load
  and save.
- A negative `batch_cycle_time` panics the ticker, in proxy mode too, and so does
  one above 153 million minutes, for which the product wraps.
- `checkConfig` takes `https://` off Sonar's name and no other scheme.
- Equal HTTP and TLS ports pass the checks. One of the two listeners then fails,
  and if it is the endpoint's, the redirect leads to itself.
- `startBatchModeServer` sends the log back to stderr (line 220), whatever
  `logging_output` says. A listener that cannot start is logged and the process
  goes on.

## Proofs

`BatchModeProofs` proves, for all sets of reports and clients, any version, and
from the assumptions `MacOfType` and `DistinctNames` only, with a name for Sonar
that makes a URL or not:

- `TypeCorrect`, from `TypeStep`;
- `InvCorrect`: `IndInv` is inductive. The invariants of the run are not
  inductive by themselves: that the map replaced at `reset` is empty, for
  instance, follows from the mutex being held since `range`, which is
  `LockDiscipline`, and that a batch is not empty from the table being non-empty
  at `lock`, since only the scheduler removes entries. `Phases` collects these
  facts for each place of the scheduler;
- `LockDisciplineHolds`, `AtMostOnceHolds`, `UnambiguousBatchesHolds`,
  `NoEmptyBatchHolds`, `CleanStopHolds`, as parts of `IndInv`;
- `NoSilentLossHolds`, from `IndInv` and `LossStep`;
- `ImplementsLedgerHolds`: `LedgerStep` shows for each action either the ledger
  step it is (the handler is `Acknowledge`, the map write `Stage`, the reset
  `Dispatch`, the end of a post `Settle`) or that it leaves the mapped status
  alone.

`BatchOrderProofs`: `StepIsBatchStep` carries `IndInv` over to `BatchOrder`. On it
rest

- `BatchesFollowTheTableHolds`: `OrderInv` adds that the report in a slot is the
  last one stored about its client and that nothing stored after a report in the
  slice has been sent;
- `SonarUpToDateHolds`: `FreshInv` says, for a client that none of the excuses
  covers, where its last answered report is: with its updater, in the table, in
  the slice, in a post under way, or with Sonar, and that nothing older of the
  client is behind it.

`Option82Proofs` proves `OptionRead`: of every option of at most 255 octets and three
sub-options, of whatever codes, order and contents, `addLease` panics on a lone
one that has a value and on no other, and otherwise cuts out what is behind the
second header. It is arithmetic on the positions of a concatenation
(`HeaderOctets`, `SecondHeader`); the sum of the length byte does not wrap because
the option is no longer than 255 octets (`ByteSmall`, `LengthsFit`).

`ProxyModeProofs` proves, for all sets of clients, ACKs and listeners, any grants,
any relay agent options of up to three sub-options and any width of the integer,
from `SizesOK` (the period fits the integer), `AcksOK` (every grant does), `AgentsOK`
and `NamesOK`:

- `InvCorrect`: `IndInv` is `TypeOK`, `LockDiscipline`, `Accounting` and
  `Bookkeeping`. `Accounting` needs the lemmas `ModSmall` and `TrimmedLease`: one
  turn of trim's loop subtracts only what is there. `Bookkeeping` is what the
  action properties rest on: an ACK is in one place until its lease is stored,
  neither the slice nor the last batch is ahead of the table, the slice with what
  its loop still adds is newer than the last batch, and the loops are over
  leases;
- `TypeCorrect`, `LockDisciplineHolds`, `AccountingHolds`, `BookkeepingHolds`, as
  parts of `IndInv`;
- `SecondValueReportedHolds`: the id follows its ACK into table, slice and batch
  (`RidsFollow`), no ACK that panics gets past its check (`HandledIsRead`), and
  `OptionRead` says which do and what the id is;
- `CountsDownHolds`: the step that stores a lease stores a fresh ACK, so every
  other change of a slot is a trim;
- `BatchesMoveForwardHolds`: only the dispatch changes what was last said, and
  the slice it takes is newer by `Bookkeeping`;
- `ImplementsLedgerHolds`: `LedgerStep` shows of each action that it is a `Record`
  (the map write), an `Age` (trim's lock), a `Draw` (the scheduler's lock) or a
  `Tell` (the dispatch) of the ledger, or leaves the mapped state alone. A turn of
  a loop leaves it alone because the mutex keeps the other loop and the map
  writes away; `TrimmedIsAged` says that trim's arithmetic, with a width and a
  flag, is the ledger's.

`DhcpProxyProofs` proves, for all clients, servers and transaction ids and any
replies from elsewhere, from `NoneOK`, `XidsOK`, `SendsOK` and `StrayOK`, none of which
keeps a stray from having a client's transaction id:

- `InvCorrect`: `IndInv` is `TypeOK` and `Provenance`. A reply is relayed because
  its transaction is in the table, so one needs to know that the table holds
  only transactions that a client asked with, that a reply on the wire is a stray
  or answers a request on the wire, and that what a listener holds past the table
  stays covered by it while the other listener works (`OneHandlerMoves`);
- `TypeCorrect`, `ProvenanceHolds`, `OnlyAskersAreServedHolds` and
  `AnswersPassTheGateHolds`, from `IndInv`;
- `ToldAreRecordedHolds`: with `AcksGoByTheTable`, which says of an ACK that a
  listener is about to relay that its client is in the lease table, kept while
  the other listener works (`OneAckMoves`).

`EndpointProofs` proves, for all routers, requests and parsers, from `ParsersOK`
(what an address prints as is read back as the same address), `RequestsOK`,
`CredentialsOK` and `UndefinedOK`:

- `InvCorrect`: `IndInv` adds to the types that a request has an updater exactly
  if no check failed (`Handled`) and that a slot is named as its device's address
  prints (`Readable`). `AcceptedMeans` says what the eleven checks add up to, and
  `StatusTells` which status is written first, for listed and unlisted senders;
- `TypeCorrect`, `AnswerTellsOutcomeHolds`, `TableIsReadableHolds`, and
  `OneSlotPerDeviceHolds`, since two slots of one device would have one name.

`ConfiguratorProofs` proves, for all inputs, files, flags, cycle times and names,
any number of sessions and whatever is read of a text that is cut, from `TextsOK`,
`SystemOK`, `GivenOK` and `RoutersOK`:

- `ScratchIsNoBatchHolds`: no batch mode starts from a file that goes back to a
  session which loaded nothing. `FromScratch` says that while a session has loaded
  nothing, neither its forms nor what it will write have a user name for the
  endpoint, which is kept by every edit and save since none of them reaches the
  field, and by a write that breaks off since a cut blank is blank (`CutIsBlank`);
- `RunningHolds`: what runs has passed the checks of its mode, from which follows
  `TLSGuardsEndpointHolds`, for any two different ports;
- `LoadedSurvivesHolds`: `LoadedInv` says that in a session with `--loadyaml` every
  field that was not typed in has, in its form and in what was saved of it, the
  value from the file.

`ConfiguratorSaveProofs` proves, from `GivenOK`, `RoutersOK` and `TextsOK`, for lists
of any length and any number of sessions, with `SaveInv`:

- what was saved is in `config` section by section (`Kept`), and `AppendMoves` and
  `RemoveMoves` say what an append and a removal do to the arrays for whoever else
  holds one: an append changes no element that a slice not longer than the
  form's sees, a removal changes one array. So the saved slice, which is in an
  array of its own or not longer than the form's (`LastSaved`), shows what it
  showed until a row is removed; and no array is shared by routers and servers
  (`TwoLists`);
- `WritesWhatWasSavedHolds`;
- `RoutersAreWholeHolds`: only whole routers, blanks and the halves that breaks have
  made (`torn`) ever get into the routers' arrays (`RouterCell`), and a break makes at
  most one more, at the end of the list (`CutFileOK`);
- `TypeCorrect`: every slice stays within its array. The index that a removal
  takes is in range (`LargestIndex`, by the well-founded order of the library);
- `TableShowsRoutersHolds` and `TableShowsServersHolds`, from `TablesInv`. A removal
  takes the selected row out of the table and the last router of the same
  address out of the list, so the two may differ in order: what they agree in is
  how often each address is in them (`SameRows`, kept by `AddRouterShows` and
  `RemoveRouterShows` with the library's facts about cardinality). The servers
  stay in the order of the list, and are all different, because ADD refuses one
  that is there; loaded ones, which are on no list, go from the table at the first
  ADD.

`TextsOK` says that the words the modes and the logger are known by are in small
letters, that an empty text is no address, has no file and cannot be cut; `GivenOK`
that the first file has the sections and fields of `programConfig`, which is what
`yaml.Unmarshal` fills, and no half routers, so that `RoutersAreWhole` has something to
start from; `RoutersOK` that the router form has the fields of a router; `SystemOK`
that the host has an interface and an address.

Every invariant and action property of a passing run is stated by a theorem.
Only model-checked are the liveness properties, `ReportsGetDispatched`,
`ExpiryGetsReported` and the two `ShutdownCompletes`, since TLAPS handles neither
`ENABLED` nor fairness, and the properties that the code violates. `DhcpProxy` has
no liveness property: UDP promises no delivery and the code never sends again.

## Plan

The modules were written in the order of their weight: `ReportLedger`, `BatchMode`
and its proofs, `BatchOrder`, `ProxyMode` and its proofs, `DhcpProxy` and its
proofs, `Endpoint`; then `Option82`, `Configuration`, `Configurator` and the
proofs of these and of `Endpoint` and `BatchOrder`. `Configuration` and
`Configurator` end where `BatchMode` and `ProxyMode` begin: `Outcomes` has `batch` or
`proxy` exactly when `main` gets to the state that is `Init` there. What is left:

1. A clocked extension of `ProxyMode`: how early and how late a lease is flagged
   in wall-clock time (a lease loses up to one period when the trim comes right
   after its ACK).
2. The fields and options of relayed copies, should a property need them.

## Not modelled

Certificates, cipher suites, timeouts and a listener that fails to start belong
to the Go library; the text interface's drawing and navigation and the output of
the log change no state. The HTTP details of a post (method name, credentials,
body) do not influence the program, which ignores the status code of the answer.
`skippedID` and the debug output are only logged. Of relayed DHCP messages the
header fields and options are not told apart. The reading of YAML is modelled
as reading back what was written, or the fields before a break; every file that
cannot be read is one value.
