# ahara-collector: a TLA+ model

TLA+ modules for the parts of the collector in which something can go wrong
that a unit test hardly reaches, TLC configurations that check them on small
instances, and proofs, checked by TLAPS, about the spool, delivery, ingestion,
the API server, the WiiM inventory and proxy, the MediaServer lease, the two
pollers, the KLAP session and its cipher, base64, the strings of JSON, the
updater and the certificates. The reference is the code; `PROJECT.json` maps
every definition to the lines it stands for.

    tlc -config MCSpool.cfg MCSpool      # a run
    tlapm DeliveryProofs.tla             # proofs

## The system

The collector is an appliance on the IoT LAN of a house. A Rust service
(`service/src`) polls devices, spools readings on disk and serves one HTTP API
to TrueNAS. NixOS units around it (`hosts/collector`, `modules`) deploy the
appliance and keep its certificates. The parts, the state each keeps, what acts
on it, what is hard about it, and what must hold:

| part (code) | state | operations | hard | must hold |
|---|---|---|---|---|
| **Spool** (`spool.rs`) | a directory of numbered closed segments and one open one; `Inner`: next number, open length, dropped count | open, append (write, rotate, enforce the cap), next_batch, ack, stats | death or an I/O error between any two system calls; eviction while a consumer holds a batch; numbers after a restart | accepted lines stay until acknowledged or evicted; the cap takes the oldest and is kept; a batch never changes; order |
| **Spool set, ingestion** (`spool.rs`, `api.rs`) | map from module to spool, behind a mutex; directories | open at start, `for_module`, `POST /ingest` | two pushes for a new module; a push that fails half-way; modules without a poller after a restart | one spool per directory; 200 means all is stored; what is stored is served |
| **Reading delivery** (`api.rs`, `docs/integration.md`) | requests in flight; the consumer's batch | `GET /readings/next`, `POST /readings/ack` | lost answers, late and repeated acks, timeouts, restarts in between | at least once; everything accepted gets there |
| **WiiM inventory** (`wiim.rs`, `registry.rs`) | the scan thread's vector, the registry, the state file, one temporary file | load, publish, scan, probe, save | a scan and several probes at once, a failing save, death while saving | the file is never damaged and agrees with the registry; known renderers stay |
| **WiiM transport** (`wiim.rs`) | LOCATIONs and descriptions of a search or a probe under way | search, fetch and validate descriptions, candidate ports, proxied UPnP and LinkPlay commands | addresses that change, a file from a site with another CIDR | no request leaves the CIDR, or goes to a renderer it is not for |
| **MediaServer lease** (`ssdp.rs`, `api.rs`) | one lease in memory | registration, search replies, announcements | clock readings that are old when used; a clock that is set in between; requests that overtake one another | nobody remembers a server longer than its lease; nobody forgets one that is renewed |
| **Environment poller** (`sensors.rs`) | device list of one thread | discovery, validation, rounds of polling | addresses that change hands; one failure that costs the device until the next discovery | labels are right unless an address moved; a device that stays is heard again |
| **Kasa poller** (`kasa.rs`) | device list, sessions beside it, registry | discovery, handshake, name, reading | plugs that forget sessions; two parallel lists; names learned apart | the same, dead sessions are replaced, names settle |
| **KLAP session** (`kasa.rs`, `crypto.rs`) | keys and sequence number of a handshake, the plug's newest session | handshake, encrypt, sign, decrypt, strip padding, base64 | a lost request, a session that ends, numbers that wrap, another plug at the address | no IV for two texts; a session the plug still has answers |
| **Envelope, HTTP client, JSON** (`envelope.rs`, `http.rs`, `json.rs`) | none: an answer becomes a line | parse an answer cut anywhere, build or normalize a reading, print it | answers without a length, leniences of the parser, floats, escapes, overflow | a line is one line, and says what the device meant |
| **API server, HTTP server** (`api.rs`, `http.rs`) | connections, each with a thread | accept, read a request, route, authorize, answer | requests that arrive in part; clients that send or read nothing | who waits is answered; only whole bodies of authorized pushes are stored |
| **Start-up, configuration, credentials** (`main.rs`, `config.rs`, `collector.nix`) | two documents, two token files | read the files in turn, exit on a bad one, start the parts | files that get better later, a token cut on the first boot | up once the files are good |
| **Updater** (`deployment.nix`) | published revision, machine values, running system, profile, boot default, record | migrate, poll, build, activate, check, commit, roll back | a kill or reboot between any two commands; edits while it builds | the boot default passed its check; the record is true; a good release is deployed |
| **Identity client** (`enroll.nix`) | authority, key, certificate, request, response: five files | pin, check, request, post, install | a kill between any two commands; refusal; no network; expiry | a usable identity is kept; key and certificate match; a declared machine gets one |
| **Shared certificate** (`enroll.nix`, `tls.nix`) | two files, what nginx has loaded | fetch, compare, install, reload | a stop or reboot between installing the two files, or before the reload | nginx serves what is installed; the latest gets there |

**Interactions.** Pollers and ingestion append to spools; the API reads and
acknowledges them, all under the mutex of the one spool. The pollers publish
device lists in the registry, which `/devices` and the WiiM endpoints read. The
WiiM scan thread and probe handlers share the registry and a file. The
registration handler writes the lease that the two SSDP threads read. nginx
stands before the API with the shared certificate, which is fetched with the
machine identity; a run of the fetch starts the identity client first. Every
device answer, pushed line, configuration document and spooled line is JSON and
goes through one parser or printer. The updater replaces all of it.

**Not modelled**, all listed in `PROJECT.json`: the metrics (relaxed counters
that nothing reads back), the certificate expiry gauge, the bootstrap and
rendering scripts, which run by hand before there is an appliance, and the
declarative host configuration, which is the range of the constants. The tests
were read for what they expect. Left out *inside* modelled parts: power loss (a
crash is the death of the process; the code calls no fsync, and what the page
cache holds survives that), the rounds of AES and
SHA-256 (a digest is a term of what was digested, a block one of key, text and
chained block), `sha1` and hex, the syntax of HTTP headers and the text of XML
documents. The stop flag of the pollers is never set in the code, so there is
no orderly shutdown to model.

## Modules

| module | models | how it corresponds to the code |
|---|---|---|
| `Spool` | one `Spool` and its directory | variables are the files and the fields of `Inner`; `append` is one step per system call (`pc`), every other operation one step, as the mutex is held throughout. A file is a sequence of pieces, whole or torn; a line is its number in hand-over order and a length |
| `ReadingStream` | what a stream promises its consumer | abstract: readings are put, offered oldest first, stored, released once stored, discarded oldest first |
| `Delivery` | `Spool` (by EXTENDS) with the two HTTP handlers and a consumer | adds requests in flight, lost answers, timeouts. The consumer is external and follows `docs/integration.md`: store, then acknowledge. Refines `ReadingStream` (`StreamSpec`) |
| `DeliveryProofs` | | theorems and proofs about `Spool`, in its first half, and `Delivery`, the refinement included |
| `Ingest` | `SpoolSet`, `POST /ingest`, start-up | a spool is how often each body was appended to it; lookup, opening and appending are separate steps of a handler |
| `JsonValue` | the values of `json.rs` and `get` | what `JsonString`, `JsonText`, `Configuration` and the power values of `Klap` share: a value is a record with a tag |
| `Configuration` | `config.rs` | operators on the value of a parsed document: what a start makes of it |
| `ApiServer` | start-up, accept loop, connections, routes (by EXTENDS of `Ingest` and `Configuration`) | a request arrives in parts (line, token, length, body) and may be cut or fall silent anywhere; reading, handling and writing are steps of a thread. The handler of a push is `Ingest`'s; the other routes only answer here, what they change is in their own modules |
| `IngestProofs` | | theorems and proofs about `Ingest`, `Configuration` and `ApiServer` |
| `WiimInventory` | inventory and its file | scan thread and handlers step by step: merge, write of the temporary file, rename; the mutex is a variable |
| `WiimTransport` | discovery, probes and the proxy over `WiimInventory` (by EXTENDS) | an address is a number of a few bits, the CIDR a prefix of it; a description is its server address, type and control URLs. Renderers move. What a scan or a probe merges into the inventory is what validation leaves |
| `WiimProofs` | | theorems and proofs about `WiimInventory` and `WiimTransport` |
| `MediaLease` | the lease and both SSDP threads | reading the clock, using the reading and sending are separate steps; what `unix_seconds` returns is anything within `MaxOffset` of the time that passes, as the clock may be set at any moment. Airwave, control points and the advertiser's sleep go by the time that passes (`clock`, `until`), the service by its readings (`now`, `expires`). `cached` is what a control point was told |
| `LeaseProofs` | | theorems and proofs about `MediaLease` |
| `EnvPoller`, `KasaPoller` | the two poller threads | one step per device visited; a device list is a function from addresses; every reading carries the device it truly came from |
| `HttpAnswer` | the client in `http.rs` | operators: an answer is a sequence of items (status line, headers, blank line, body) that may be cut anywhere; what the client takes of it |
| `Klap` | the transport of `kasa.rs`, `crypto.rs` | operators: digests and encrypted blocks are terms, equal only if what they are of is; chaining, padding, signature and base64 are computed |
| `KlapSession` | the session with the plug at one address and what the poller's ticks do with it, over `HttpAnswer` and `Klap` (by EXTENDS) | one step per request: handshakes, name, energy, each with its sequence number. The plug's half is external: it accepts the next number only, or any, and ends sessions. What a decrypted text says is a parameter (`named`, `measured`) |
| `EnvProofs`, `KasaProofs` | | theorems and proofs about `EnvPoller`; about `KasaPoller`, `HttpAnswer`, `Klap`, `KlapSession` and `JsonString` |
| `JsonString` | the strings of `json.rs`: `parse_string`, `write_escaped` | operators over texts. A symbol is a character of the grammar or a word for a run of others. The loop of the parser is a function of the position, so that it can be proved about |
| `JsonText` | the rest of its parser and printer, over `JsonString` (by EXTENDS) | recursive operators over texts and values |
| `Envelope` | `envelope.rs`, what `sensors.rs` makes of an answer | operators: from an answer to a line for the spool or nothing |
| `ReadingPath` | a plug; a sensor; a pushed line: `KlapSession` and `Envelope` (by EXTENDS) | a behaviour follows one of the three. `named` and `measured` are what the parser makes of a text (`PathAssumption`); a `Plug` step is one of the session, and no other step touches it, so every behaviour is one of `SessionSpec`. A line is kept beside what the device meant |
| `Updater` | `collector-update` and the migration before it | one step per command that changes something; a failing command ends the script, as under `errexit` |
| `UpdaterProofs` | | theorems and proofs about `Updater` |
| `Enroll` | `ahara-enroll` | the five files; a key is a number, a certificate the key it is for and its age |
| `SharedCertificate` | `ahara-certificate`, nginx, over `Enroll` (by EXTENDS) | files and nginx hold the number of an issue; a fetch needs the identity as its files are at that moment, in the middle of a renewal too |
| `CertificateProofs` | | theorems and proofs about `Enroll` and `SharedCertificate` |

`MC*.tla` only instantiate these. Operators marked *Mutant* are not part of a
specification: each is a definition changed as a plausible bug would, and the
property named for it in `PROJECT.json` fails when it takes the place of the
original. They show that a property depends on the code.

Variables marked *history* exist for the properties; no guard reads them.
`Max...` constants are bounds, in the guards of environment actions only.

## Runs

Ten runs pass. Each covers the interleavings of its module within its bounds.
An invariant that names others is their conjunction with the type invariant;
it is the inductive invariant of the proofs, so that TLC has seen every conjunct
before TLAPS does; of `ReadingInv` this is `SessionInv`.

| run | shows | bounds, and why they are enough |
|---|---|---|
| `MCSpool` | `AcceptedNotLost`, `EvictedAreOldest`, `AppendEnforcesCap`, `OwnLinesKept`, `SegmentsImmutable`, `ServedInOrder`, and `SpoolInv`, the invariant of the proofs | cap of two segments of four bytes, lines of 0, 1 and 3 bytes: an append stays below, reaches or passes a segment and the cap. Five lines make three segments and an eviction. One crash, one error: a torn tail, bytes the program does not count, and lines behind them |
| `MCDelivery` | `DeliveryInv` (every acknowledged line was stored), `StreamSpec` (the code implements `ReadingStream`), `EveryLineDelivered` | three lines, appends of up to two, a crash, an error and a loss: a batch may be served twice, evicted while held, or have its ack repeated |
| `MCApiServer` | `IngestInv` (`OneSpoolPerModule`, `PendingIsServed`, `OkMeansStored`, `NoDuplicatePerPush`), `WholePushes`, `RequestsAnswered`, `ServesOnceFilesAreGood` | two modules, one with a poller; two handlers, so that two pushes meet at a new module; two connections, any of them cut or silent anywhere: pushes of one body for both modules, so twice at most, a push with the token of another route, and a request that needs none; one restart and one failing append; good and bad documents and uploads in any order |
| `MCWiim` | over `WiimTransport`: `FileNeverDamaged`, `ScannedStayOnFile`, `OutboundInv` (no request leaves the CIDR or misses its renderer), `WiimInv`, the invariant of the proofs (`SavedAgrees`: registry and file agree; reachable means seen) | two renderers and a device whose control URL is at another's address, which must never be listed; addresses of three bits of which half are the CIDR; a probe beside the scan thread, a crash, a failing save and a move: any two savers overlap. Replies carry their sender's LOCATION or any of `Claims`, one outside the CIDR and one at another's address; the file may name an address outside. Without the check of `valid_location`, of `valid_control` (as a whole or its host alone) or of `device`, `OutboundInv` fails |
| `MCMediaLease` | `LeaseInv` (nobody remembers a server beyond its lease, but for the time a message takes to leave and what the clock was set back), `StaysDiscoverable`, `RenewalNotUndone` | two requests, time up to six, and leases of four ticks, twice the cache time (too long a lease is asked for, or none): what a control point was told runs out several times within the run, so that a server which announces itself once does not pass, and the lease itself runs out if it is not renewed. Leases of other lengths, and requests that shorten one, multiply the states by ten; they are left to the proof, which is for every length. Announcements one tick apart, threads up to one tick late, readings up to one tick ahead of the time. The renewal margin is three, `Period + Delay + MaxOffset`; with a margin of two `StaysDiscoverable` fails |
| `MCEnvPoller` | `EnvInv` (a wrong label only after a move), `KeepsReading` | two devices, two addresses: they can swap. Two rounds between discoveries, two moves, two failures |
| `MCKasaPoller` | the same, `DeadSessionReplaced`, `NamesSettle` | the same with a plug that forgets, one failure |
| `MCReadingPath` | `ReadingInv` (a line is one line and says what the device meant), `OneTextPerIv`, `GoodSessionAnswers`, `KeepsReading` | answers cut at every item; documents with escapes, floats, numbers beyond the integers and keys given twice; six sequence numbers and sessions of three requests: every session start meets the wrap, and a number would return if a session were not ended; blocks of four bytes: texts that end within, at and beyond a block; two faults, one move |
| `MCUpdater` | `BootWasChecked`, `FactsKept`, `GoodReleaseDeployed`, `UpdaterInv` (what is recorded is what runs; at rest, the running system is the boot default) | a good release, a bad one, and one that changes documentation only and builds the same system; two machine values; three publications or edits, two reboots, two kills or failures, one flaky check |
| `MCCredentials` | over `SharedCertificate` with `Enroll`: `CertificateInv` (`InstalledPairMatches`; nginx serves the installed pair), `IdentityKept`, `RenewalRotatesKey`, `DeclaredGetsIdentity`, `LatestIsServed` | two issues, a failed request, a kill, a stop and a reboot, at any two commands of either script; identities that become due and expire as often as they like; six keys, one more than can be in files at a time |

Where the code has a gap that its documentation does not claim to close, the
property says so instead of the model leaving the case out:

- `RecordedIsSound`: an updater killed after the activation leaves the new
  system running; the next run sees nothing to do and records it unchecked
  (`deployment.nix:186`). The boot default is still a checked one
  (`BootWasChecked` has no such condition). And an edit of the machine values
  between hashing and building (`deployment.nix:165`, `:180`) is recorded under
  the old hash. Both are outside the property, through `failures` and `raced`.
- `AppendEnforcesCap` measures the files. `enforce_cap` goes by `current_len`,
  which misses what a failing write has left in the open segment
  (`spool.rs:88-98`), so after an error the files may be over the cap by the
  torn bytes of that one file (`Uncounted`).
- `WholePushes` lets a push whose stream ends before its length be answered 200:
  to `read_request` (`http.rs:110`, `:127`) it is a push of nothing, and it
  stores nothing.
- `GoodReleaseDeployed` is about behaviours without reboots, kills, unhandled
  failures and edits between hashing and building (`Undisturbed`), for the
  reason given above for `RecordedIsSound`.
- `ScannedStayOnFile` starts when the scan thread has published what it loaded:
  a probe served before merges into an empty registry and saves the result.
- `KasaPoller` has a session as a function of its address, so lists of devices
  and sessions that are out of step cannot be expressed; the code makes the
  second from the first (`kasa.rs:311`).
- The facts of the machine are one value in `Updater`: that the migration writes
  none of them twice is not stated.
- A failing append stores the lines of its module whole or not at all in
  `Ingest`; that it may store some of them is in `Spool` only.
- `SharedCertificate` installs a file in one step and reloads nginx in one.
  `install` may leave a piece, which the next run replaces (its `cmp` differs);
  the reload is queued (`enroll.nix:385`).
- `DeclaredGetsIdentity` excepts a first contact that broke off and left a
  piece of `authority.pem`: no later run replaces it (`enroll.nix:55`).
- `ServesOnceFilesAreGood` excepts a token unit that is stopped in the middle
  on the first boot: its piece of a token is never replaced
  (`hosts/collector/collector.nix:54`).
- `ReadingInv` compares with `Printed`: a float without decimals is printed as
  an integer, and one that is too large as null (`json.rs`).
- In `MCReadingPath` the keys of an energy reading and of a sensor are
  abbreviated to those a document of the instance has.
- `LatestIsServed` excepts runs stopped between installing and reloading:
  later runs see no difference and do not reload (`enroll.nix:364`).
- `Delivery` has one assumption about its environment, `QuickRestart = FALSE`:
  a restarted collector does not number segments from below the batch the
  consumer still holds. It would need every segment to be gone, a restart, and
  an ack repeated across it; the ack would then remove the new batch of that
  number. With `TRUE`, `DeliveryInv` fails.
- No property says that `/devices` shows the name of a Kasa plug: the list is
  published before names are learned (`kasa.rs:313`), so it never does.

Two runs find a violation, each of a sentence in the repository:

- `MCSpoolTorn`: `main.rs:189` says abrupt termination "loses at most one torn
  line". The torn line has no newline and the next append goes on behind it, so
  an accepted line shares a line with it and is lost to a reader as well.
- `MCWiimProbeLost`: `docs/architecture.md` says last-known entries persist. The
  scan thread stores its own vector over registry and file; a renderer that
  only a probe found is in neither afterwards. No crash is needed.

### Fairness

Safety runs need none. For liveness:

- `Delivery`: `Restart` is fair because systemd restarts the service
  (`Restart=on-failure`, two seconds; it has no start limit that one crash
  reaches); an append under way goes on, as its thread runs; a request is
  handled because each connection has a thread and the mutex is held for a
  finite append only; the consumer polls, stores and gives up on a request that
  nobody will answer. Producers, crashes, errors and losses are never obliged
  to happen. `EveryLineDelivered` lets the cap take a line first.
- `ApiServer`: units and service are started again by systemd; the thread of
  each connection goes on, one fairness condition per thread, because a read
  ends after fifteen seconds. A client that reads nothing is never obliged to:
  its thread may stay in `Write` for good.
- `EnvPoller`, `KasaPoller`, `ReadingPath`: the thread goes on. Every request it
  makes has a timeout. That a reply arrives is not fair; the fault bounds make
  failures finite, which is the condition under which hearing from a plug can
  be promised at all. In `ReadingPath` the condition is written out,
  `[]<><<Goes>>_vars`: a step of `Tick` is always possible for a plug, and only
  `Takeover` is none, so it is the weak fairness of `Tick`.
- `Updater`, `Enroll`, `SharedCertificate`: a timer starts each script again
  (`OnUnitActiveSec`) and a started script goes on: one weak fairness condition
  per script. nginx is started again every two seconds. `Fetch` is strongly
  fair: it is not possible between the two moves that renew the identity's
  files, and two timers do not meet there for ever. Publications, edits,
  uploads, kills and reboots are not fair.

## Proofs

Every theorem is for every value of the constants that the assumption of its
module admits: any number of lines, handlers, renderers, requests, releases, any
number of crashes, failures, moves. The steps follow the actions of `Next`, and
each module has one lemma per part of its invariant or per action.

| theorem | of | says |
|---|---|---|
| `TypeCorrect` | `Spool` | every variable keeps its type |
| `NextSeqFresh`, `ClosedSegmentsImmutable` | | `rotate` never renames over a segment; a closed segment never changes |
| `StreamInOrder`, `FirstServedInOrder` | | numbers of segments and places in files follow the order of the appends, and so do batches |
| `AcceptedAreKept`, `NewestDataWins`, `CapEnforced`, `OwnLinesStay` | | what append accepted is in the directory, was acknowledged or was evicted, oldest first; an append that returns Ok leaves the files within the cap, but after an error for the torn bytes of the open segment, and its own lines in them unless their segment alone is over the cap |
| `LengthExact` | | without errors the counted length of the open segment is that of its file; after one it is short by torn pieces only |
| `Inductive` | | `SpoolInv` |
| `DeliveryImplementsSpool` | `Delivery` | `DSpec => Spec`: the handlers drive the spool only as `spool.rs` allows, so all of the above holds under them, with any losses and crashes |
| `DeliverySafe` | | only what the consumer has stored is acknowledged |
| `ImplementsStream` | | `DSpec => StreamSpec`: spool, handlers and consumer implement `ReadingStream` |
| `IngestSafe` | `Ingest` | one spool per directory, every directory served, 200 only when all is stored, nothing stored more often than pushed |
| `IntervalsAreClamped` | `Configuration` | whatever document a start takes, no loop waits zero seconds, and a search between one and ten |
| `ServerSafe` | `ApiServer` | the same under connections that are cut anywhere and processes that start again; what is stored is the whole body of a push with the right password, and a 200 answers what its route's token allows and, if it is a push with a body, one that is stored (a push cut before its length stores nothing and gets a 200) |
| `InventorySafe`, `FileSound`, `ScannedKept` | `WiimInventory` | registry and file agree, the file is never damaged, what a scan saved or the thread loaded stays once the thread has published |
| `OutboundSafe` | `WiimTransport` | whatever replies, descriptions and the file say, no request leaves the CIDR or misses its renderer; answers come whole |
| `TransportImplementsInventory` | | `TSpec => Spec`: what is proved of the inventory holds under discovery, probes and proxy |
| `LeasesSafe`, `RenewalStays`, `Discoverable` | `MediaLease` | nobody remembers a server beyond its lease; overtaking requests do not undo a renewal; a server renewed in time is known without a gap: with the clock set at any moment, by no more than `MaxOffset` |
| `LabelsAreRight` | `EnvPoller` | a wrong label only after a move |
| `PlugLabelsAreRight`, `DeadSessionsReplaced` | `KasaPoller` | the same, and a session in one slot only; a dead session is not met twice in a row |
| `DecryptsWhatItEncrypted` | `Klap` | for every text, key and block size, decryption gives back what was encrypted |
| `Base64RoundTrip`, `Base64ComesBack` | | for every list of bytes, base64 gives back what was encoded, and does so with ASCII whitespace anywhere in the text |
| `StringIsOneLine` | `JsonString` | whatever is in a text, what the printer writes of it has no newline |
| `StringComesBack` | | wherever a written string stands in a line, the parser reads it back whole and goes on right behind it |
| `SessionSafe` | `KlapSession` | no two texts of a session are encrypted with one initialisation vector |
| `SessionAnswers` | | a session the plug still has fails only when a request or an answer is lost or useless, or the plug wants every number and missed one |
| `HostSound`, `BootsChecked`, `FactsStay` | `Updater` | the boot default passed its check, the record is true, the machine facts are never lost |
| `CertificatesSafe`, `IdentityStays`, `KeyRotates` | `SharedCertificate` over `Enroll` | key and certificate match and are served, a usable identity is kept, a renewal changes the key |

### Why the invariants are what they are

None of these properties is inductive by itself. What had to be added:

**Spool.** That evicted lines are older than stored ones is preserved by an
append only if the lines it *still has to write* are newer as well; that served
ones are in order, only if a closed segment was served as a whole or is newer
than all that was served; that accepted lines are kept, only if those this
append has written are kept before it returns. `SpoolInv` is `SeqFresh` (closed
segments are numbered below `next_seq`), `OrderInv` (order inside and between
files, and of both to `todo`), `EvictedInv`, `ServedInv`, `DurableInv` and
`CountsTheFile` (what the program counts is short of the file by torn bytes
only). `CapEnforced` is about the files (`SpoolBytes`), not the program's own
count (`TotalBytes`), and has it from `CountsTheFile`. It rests on the open segment being smaller than `segment_bytes` once
rotation has been decided, so that with nothing closed the total is below the
cap. This uses `SpoolAssumption`, which `lib/site-assertions.nix:544-548`
enforces: a positive segment size, a cap of at least two segments.
`OwnLinesStay` adds `OwnLines`: before the rotation the lines of the append that
runs are in no closed segment, which follows from the order between files and
`todo`; after it they are in the newest only, and nothing is left open. When
the cap comes to that segment it is the last one.

**Delivery.** `HeldIsOldest`: a number the consumer holds, or an acknowledgement
carries, is that of the oldest segment or of none, and numbers do not return.
The second half is what `QuickRestart = FALSE` is for, the one hypothesis of
both theorems. For the refinement, a line written to the file is `Put`, a batch
handed out `Offer`, the consumer's store `Store`, an unlink for an
acknowledgement `Release`, one for the cap `Discard`; all other steps stutter.
The old end of the stream is the oldest segment (`OldestEnd`), by `OrderInv`.

**Ingest.** A handler in its loop is at the smallest of the modules it has still
to do (`CurrentIsTodo`, which needs that a set of module numbers has a
smallest); whoever opens a spool holds the mutex of the set and its module has
none yet (`ThreadsAreSound`, `SpoolsAreOpened`). A body is never stored more
often than pushed because the handlers that still have to store it are counted
as well (`NoDuplicatePerPush`); hence the assumption that handlers are finitely
many.

**API server.** `ConnectionsAreSound`: a handler of `Ingest` has a body in its
hands exactly while its connection is ingesting, and a request is handled, or
answered 200, only when enough of it has arrived to be one (`Readable`). Without
the first part a handler that `Ingest` lets go could answer for another request.
That the body in its hands is all of the request's, which had the password
(`PushIsWhole`), is what makes the answer an earned one (`AnswerIsEarned`) when
`Ingest` has stored it. Connections end with their process, so that neither is
about the credentials of another one.
The steps of the server are steps of `Ingest` or leave its state alone, but for
the start, which also sets the modules that are polled. `IntervalsAreClamped` needs no
invariant: it is about every document a start can take. `ServerAssumption` says
that a request carries one body of `Ingest` at most.

**WiiM.** Whoever is between writing and renaming holds the mutex (`TypeOK`), and
the temporary file is whole and lists the vector in its hands (`ScanHolds`,
`ProbeHolds`); `BasesAgree` says that every save starts from a file and a
registry, or a vector just loaded, that agree.
For the transport, `CopiesAreSound`: the entry of a renderer that has not moved
is, in all copies of the inventory (file, temporary file, registry, the scan's
vector, the probes'), what the renderer advertises. The inventory only spreads
entries (`SpreadsSound`), and descriptions are validated before it is handed
any (`FetchedSound`): a reply may claim any LOCATION, so this rests on
`validated_location`, and that a control path belongs to the renderer's own
endpoint on `validated_control_path` (`JoinedStays`). `TransportAssumption` says where the file comes from: a
description saved by an earlier run, perhaps at another address.

**Lease.** A thread works with a clock reading it took earlier, and of a clock
that may have been set since the lease was granted: `ReadingsAreRecent` bounds
its age (by `Delay`), `TypeOK` how far `expires`, on the clock of the service, is
from `until`, in the time that passes. `MessagesEndWithLease` says that a message
under way ends, counted from its reading, with a lease that was granted, but for
`MaxOffset`; `LeaseIsGranted` that the lease in force is one of those. `Discoverable` adds `RememberedUntilDue`:
while nothing was late or lost, a control point that remembers the server does
so until the latest instant at which the next announcement can arrive. Its
hypothesis `RenewalsFit` is explicit: a renewal margin of at least one period,
one delay and what the clock may be set by, a cache time of at least the first
two, and one identity. In the code the period is 60
seconds and the cache time 1800 (`ssdp.rs:18`, `:293`); how early Airwave renews
is not in this repository.

**Pollers.** `ListsAreRight`: while a discovery is under way the list
in the making is right wherever no address changed hands since it began, and
there are no readings; at other times the list in force is. Which of the two is
right changes hands in `Publish`. Kasa names are learned later, but only over a
session that works, hence from whoever holds the address. For
`DeadSessionsReplaced`, `DeadAreReplaced`: the slot of an address found dead is
empty, or its poll is under way over a session that works.

**KLAP session.** That a sequence number does not come back before the session
ends cannot be said of the collector alone: it counts modulo `Words`, and it
is the plug that ends sessions. `PlugsCount` counts with it: only the plug at
the address knows a session; if that is the collector's, the distance of any
number used to the last one (`Since`) is at most the requests the plug has
served, hence at most `MaxRequests`, and an answer is what keeps a session
alive. `SessionAssumption` has `MaxRequests` below `Words`: a plug ends a session
after a day, and 2^32 requests take longer. The request for the name is counted
apart, as its failure is ignored, and at most one such request goes unheard.
While no request was lost, the plug knows the last number.
`SessionAnswers` needs in addition that an answer heard whole is read whole, with
a declared length or without (`WholeAnswerIsRead`), that it decrypts to the text
that went in (`AnswerIsDecrypted`, from `DecryptsWhatItEncrypted`), and that an
answer of refusal gives no text (`RefusalIsNoText`). The first two are proved
without induction: with the chained blocks of CBC as functions of their
position, each block is decrypted from itself and the one before it.

**base64 and strings.** Both directions put pieces together with `FlattenSeq`, and
the parser's loop is a recursive function. The induction theorems of the library
cannot be cited (they take an operator), but a set of numbers can be inducted
over: one that has 0, and n with n - 1, has every number up to a bound, because
the smallest number missing (`Smallest`, from the well-foundedness of the order)
would have its predecessor in it (`Upwards`, `Downwards`). The texts are given
outright instead of built: a text that is cut at a list of places is what its
pieces are together (`PiecesOfOne`), and sequences can always be cut apart again
(`Cut`). For base64 the rest is about one group: three bytes are four digits of
64 and back (`GroupComesBack`), the padding tells how many there were. For
strings: every character, as it is escaped, is read as itself (`EscapedReads`);
reading one advances and stays in the line (`Advances`), so the loop has one
result from each place on, determined from the end (`RestExists`, `RestIs`).
`StringComesBack` assumes that "end", what the model has behind a text, is no
character. Its characters are those of the model: two characters that need
`\u` stand for all control characters (`Control`).

**Updater.** `ScriptIsSound`: behind the check, the system in hand has passed it;
as long as no command failed, each command finds the running system, profile
and boot default it goes on from (`StepsAreSound`); without an edit at the wrong
moment, what is activated was built from what is recorded (`NextIsBuilt`); and
what was recorded is the boot default until the next record.

**Certificates.** `StepsHaveFiles`: at each command of the client the files it
works with are there, and between its two moves the key installed is the one of
the answer; `NextKeyIsNew`: the key in the making is not that of the certificate
held; `ReplacedByOnePair`: what the fetch puts in the place of the two files is
of one issue. `EnrollAssumption` says that openssl makes a key that is in none
of the files.

**Only model-checked.** Liveness under fairness, ENABLED and RECURSIVE operators
are beyond the installed provers: `EveryLineDelivered`, `KeepsReading`,
`NamesSettle`, `GoodReleaseDeployed`, `RequestsAnswered` and the other `~>` and
`<>[]` properties stay with TLC, and with them the fairness of `Delivery`, so
`ImplementsStream` is about `StreamSpec` as a safety property. Values of JSON
are read and printed by RECURSIVE operators (`JsonText`), so that what a line
says to its reader, beyond its strings, is checked by TLC only: of `ReadingInv`,
that lines and names are true (`LinesAreTrue`, `NamesAreTrue`). `OneTextPerIv`
and `GoodSessionAnswers` are proved of `KlapSession` and checked of
`ReadingPath`, which reaches the parser.

## Plan

Done, in this order: spool, delivery over it and its abstract stream, inventory,
lease, ingestion, pollers, updater, identity and shared certificate, the way of
a reading from an answer to a line, API server and start-up, the transport of
the WiiM commands, the settings of the wall clock in the lease; and the proofs
above. Every safety property that a run checks is proved but for the two
conjuncts of `ReadingInv` named above. Open, most important first:

1. Values of JSON as strings are done: with the depth of a document as the
   number to induct over and functions in the place of the RECURSIVE operators,
   that the parser reads back what the printer wrote, floats excepted.
2. The liveness properties, for a prover that has fairness and ENABLED.
