# openvpn-ui in TLA+

openvpn-ui is a web interface for an OpenVPN server, written in Go with Beego
and SQLite. It keeps records of the VPN sessions, exports traffic to InfluxDB,
runs the EasyRSA scripts that make and revoke certificates, decides which user
may use which certificate, and edits `server.conf`. This directory models the
parts in which several parties touch the same state, checks them with TLC on
small instances, and proves the most important properties with TLAPS for every
instance.

Paths below are relative to the repository.

## The system

| Component | State | Operations | Interacts with | Correct when |
|---|---|---|---|---|
| VPN sessions (`lib/monitor/scraper.go`, `statuslog.go`, `models/monitor.go`, webhook in `controllers/monitor.go`) | tables `vpn_session`, `traffic_sample` | scrape once a minute; disconnect webhook | OpenVPN's status file and `client-disconnect` script; InfluxDB writer | each connection has one open session, closed sessions stay closed, nothing stays open for ever, samples of a session never go down |
| InfluxDB writer (`lib/monitor/influx.go`) | buffer, depth counter, client, configuration | write a point, flush, reconfigure | scraper and webhooks write; the Monitor page reconfigures | no point vanishes uncounted, the newest are kept, the depth is right, everything is flushed |
| InfluxDB settings (`models/monitor.go`, `controllers/monitor.go`, `LoadConfig`) | one row, the writer's configuration | save, reload | writer | saved and running configuration agree |
| Traffic retention (`lib/monitor/retention.go`) | hourly and daily tables | aggregate, prune | samples | no traffic is counted twice or lost before it is aggregated |
| Certificates (`lib/certificates.go`, `controllers/certificates.go`, `build/assets/*.sh`) | `pki/index.txt`, certificate files, `crl.pem`, profiles | create, revoke, renew, remove, download | EasyRSA; assignments | revocations take effect and last, certificates can be told apart |
| Certificate assignments (`models/user_certificate.go`, `controllers/profile.go`) | table `user_certificate` | assign, remove, transfer, seed, clear a free name | certificates, users | nobody inherits a certificate, and who has one keeps it |
| Users (`controllers/profile.go`, `models/user.go`) | table `user` | create, edit, delete | assignments, sign-in | an id means one account |
| Sign-in and access (`controllers/base.go`, `login.go`, `csrf.go`, `lib/auth.go`) | sessions | log in, OAuth callback, log out, CSRF check | all pages | roles are those of the table |
| Server configuration (`controllers/ovconfig.go`, `lib/serverconf.go`, `lib/tlsmode.go`, `static/js/custom.js`) | settings row, `server.conf`, the pages in browsers | save the form, save the editor, render at start-up | OpenVPN | the file is the saved settings and the lines added by hand; it is never left empty; the mode does not change by accident |
| The rest | | UI settings, audit log, danger zone, Grafana proxy, signals, logs, translations | | reads, formatting, or one command per request |

What is hard here is mostly the same thing in several forms: two parties read
shared state, decide, and write it later, with no lock or transaction in
between (session rows, `index.txt`, assignments, the buffer); a request dies
between two stores (index and database, `revoke` and `gen-crl`); a file or a
page is older than the state it is compared with; a message (webhook, signal)
is lost or late; a buffer is full. `PROJECT.json` lists these hazards at their
lines, with the properties that cover them.

## Modules

| Module | Models |
|---|---|
| `SessionLedger` | abstract specification: what the table of sessions promises to its readers |
| `VpnSessions` | OpenVPN (external), status file, scraper, webhooks, the table, restarts and failing database calls; implements `SessionLedger` |
| `InfluxWriter` | buffer, depth counter, signal, flush goroutine, reconfiguration |
| `InfluxSettings` | the settings row, what it is laid over, saving, reloading, start-up |
| `Retention` | samples, hourly and daily rows, the passes that aggregate and prune them |
| `Pki` | index, certificate files, CRL, profiles under the four scripts and the download |
| `CertOwners` | assignments, with certificates and accounts being made and removed around them |
| `ServerConf` | `server.conf`, its settings row, the form and the editor in several browsers |
| `<Module>Proofs` | the theorems about a module; there is one for each of the seven components above |
| `SumTheorems` | sums over finite sets, for `RetentionProofs` |
| `MC<Module>` | values and symmetry for TLC |

### VpnSessions

`conn` is what OpenVPN knows, `file` the status file (rewritten by
`WriteStatus`, so it lags behind), `rows` the table. The scraper's program
counter and local variables are in `scraper`: `ReadStatus` (tick and parse),
`FindSession`/`InsertSession` (`upsertSession`), `UpdateCounters` (the rest of
the loop body), `ListActive`/`CloseMissing`/`FinishScrape`
(`closeMissingSessions`). A webhook is `HookMatch`, `HookFallback`, `HookWrite`;
it may be lost (`HookLost`) or never sent. A database call is one step, except
that inserting a sample and copying the counters after it are joined: nothing
reads one without the other. Each call may fail while `MaxDbErrors` allows;
what happens then is what the handler does with the error. `Restart` drops the
scrape and the requests under way.

A status file that is read while OpenVPN rewrites it is `ReadPart`: the parser
does not ask for the END marker, and takes a part of the clients for all of
them. It counts as one of the failures. A line that is cut in two is left out.

The byte counters are one counter, and times are seconds. The actions are those
of status-version 2, in which every client has a connect time. A row's `sample`
is the newest sample of the session.

### InfluxWriter

A step is a critical section: `buffer` under `mu`, `cfg` and client under
`cfgMu`, `buffered` atomic. `StartWrite` is the check of `enabled()`; `Enqueue`
and `Signal` are `enqueue` with and after the lock; `Wake*`, `TakeBatch`,
`Account`, `Clamp`, `WriteBatch` are the flush loop. `Reconfigure` replaces the
buffer without `mu`, so a concurrent `Enqueue` may put the old one back; that
is the one data race, and the model offers both outcomes (not a torn slice
header, nor the panic of an `enqueue` that cuts the first point off a buffer
that was emptied meanwhile). A configuration is `off`, `on`, or `broken`, one for which the client
library refuses to make a client.

### InfluxSettings

Where `InfluxWriter` has configurations that come from outside, this module has
where they come from. `row` is the one row of `influx_settings`, `app` what
`app.conf` and the environment gave the process. `LaidOver` is `LoadConfig`,
`Started` is `Start`, `Swapped` is `Reconfigure`; that start-up and reload treat
a configuration without a token differently is in the last two. A request is
`Save`, `ReadRow`, `Insert` or `Update` (`SaveInfluxSettings`), `Load`,
`Reconfigure` (`ReloadInfluxSettings`), and any number of them run at once. A
call may fail: `SaveFails` ends the request, `LoadFails` takes an unreadable row
for none, as `RestartMisreads` does at start-up. `Restart` may come with another
environment. History: `raced` says whether requests ran at once, and whether
anything came after them; `secret` is the token typed last; `misread` whether
the last loading failed.

### Retention

A pass of the loop is four statements (`AggregateSamplesToHourly`,
`AggregateHourlyToDaily`, `PruneOldSamples`, `PruneOldHourly`), each of which
reads the clock for itself, so that rows get old between them. Any of them may
fail (`StatementFails`: the next one runs), and the process may stop between any
two (`Restart`). `StartPass` may happen at any time, since every start of the
process begins a pass five minutes later. The clock and the scraper are `Tick`.

The `INSERT`s have no conflict clause, so a group is a new row in each pass;
`batch` keeps such rows apart, as the id does. The ORM deletes by a list of ids
with one bound variable each: `MaxDelete` is the limit of the database driver,
beyond which the deletion fails. `from` in a row (what it was computed from) and
`owed` (a deletion did not happen) are history. The two directions of
the traffic are one counter, and `session_count` is left out.

### Pki

`index` is the sequence of lines; a line has its serial, common name, the names
of its `/name=` suffixes, status, and the `/removed=1` mark. A script is a
sequence of steps, one per command that matters. `sed -i` is two steps, because
it reads the index and renames a copy over it (`Sed`, `Replace`); EasyRSA's
commands are external and one step each. `Fail` ends a script at any command,
as `set -e` or a kill does. `CreateCertificate` starts the script for a listed name
too when it could not read the index, which counts as a failure. `Overlap` says whether scripts run at once: nothing
in the code prevents it. Serials count upwards here; the properties use their
order as the order of issue. Not modelled: keys, expiry, static addresses, 2FA
secrets. The server's own certificate is left out of the index.

### CertOwners

The scripts of `Pki` are one step here: what they do to the listing of a name in
`cert`. `old` there is a name of which only the certificate that a renewal
replaced is still valid, after a revocation that was cut off. `Post` and `Burn`
clear a free name with `clearFreeCertName`, which reads the index (`ReadListing`)
and then deletes rows (`DeleteAssignments`). `AssignCert` asks and inserts in two
calls; `SeedCerts` does so for one account after another; `TransferCert` is a
transaction. `StalePages` allows forms that show accounts, certificates or
assignments of the past. Assignments to the administrator are left out.

Most errors end a request (`Fail`), but two are swallowed. `CreateCertificate`
logs that it could not read the index and goes on (`CreateUnread`): it makes a
certificate for a name whose revoked record is listed. Beego's `Exist()` answers
no when its query fails, so that `AssignCert` inserts (`CheckUnanswered`) and
`TransferCert` adds a row to one the target has.

History: `first` is the number of the first certificate since the name was last
free. In a row, `since` says which certificate of the name was the newest when it
was made, `asked` that the database answered that there was none for the name (a
transfer hands this on), and `copy` stands for the id.

### ServerConf

A text is the set of its lines; comments are left out, except for directives with
a `#` right before them (`Muted`). A setting that holds one, as a custom option
may, makes the directive the form's (`Owned`); one in the file is never kept. The
template's own `# ncp-ciphers` has a space in between and is a plain comment.
`Render` is the template, `HandLines` the function of that name, `Shown` what
`Get` puts into the form. A save of the form is `Post`, `ReadCurrent`,
`Truncate` and `WriteRendered` (`SaveToFile`), `FindHandLines`, which reads the
file back, `Truncate` and `WriteKept` if there are lines to keep, and
`UpdateRow`; the answer is the page again, with the form as it was sent
(`Answer`). A save of the editor is `Edit`, `Truncate`, `WriteEdited`: what is
written is the browser's own copy of the whole text
(`static/js/custom.js`, `createEditor`) with some lines changed. Pages are of
any age, because `Load` is a step of its own.

`WriteFails`, `UpdateFails` and `Restart` are what can go wrong; `Restart`
renders the stored settings into an empty file, as `CreateDefaultOVConfig` does.
History: `damage` (what failed), `typed` (lines added by hand that the form does
not set), `cut` (lines of the form removed by hand). `Overlap` as in `Pki`.

## Runs

| Run | Question | Bounds |
|---|---|---|
| `vpn_sessions` | is the table a ledger of sessions, every sweep exact, and do samples only grow, with duplicate-cn? | 2 connections of one name from 2 addresses, counters up to 1, 4 rows, 1 restart |
| `vpn_sessions_live` | do sessions of gone connections get closed, and live ones tracked, whatever fails? | 2 connections of one name and address one after the other, in the same second or the next; 1 failing call or partial read, 1 restart, 5 rows |
| `influx` | is every point accounted for, in order, and flushed? | 2 writers, buffer of 2, 4 points, 3 reconfigurations |
| `influx_settings` | is the running export the saved one, with the last typed token? | 2 administrators, 2 addresses and 2 tokens to type, 3 environments, 3 saves, 1 failing call, 1 restart |
| `influx_cleared` (violation) | does clearing the address turn the export off? | 2 saves, nothing fails |
| `retention` | is anything added up twice, lost, overstated, or kept for ever? | 2 sessions of one name, 6 steps of the clock, hours of 2, days of 4, 4 samples, 1 failing statement or restart; deletions are never cut off |
| `retention_backlog` (violation) | are counted samples recognised? | the same with deletions of 2 rows at most, nothing fails |
| `pki` | do records, revocations and names behave under failing scripts? | 2 names, 4 certificates, 2 failures (of scripts or of reading the index), no overlap |
| `pki_overlap` (violation) | the CRL, with two scripts at once | 2 names, 3 certificates |
| `cert_owners` | are assignments cleared when a name comes free, kept while it is listed, and is there one at most that the database stands behind? | 2 names made twice, 2 accounts, 3 logins, pages of any age, 1 failure (a request that ends, or an error that is swallowed), no overlap |
| `server_conf` | is the file the saved settings and the lines added by hand, and is it usable after failures? | 2 browsers, 7 lines, 3 requests, 2 lines changed in an edit, 1 failure or stop, no overlap |
| `conf_modes` (violation) | can the file get both TLS modes? | the same, nothing fails |

Two connections suffice for the races of a scrape with a webhook and for the
fallback that takes the wrong one; four or five rows leave room for the second
row of a connection and for a closed record. A buffer of two points overflows
and holds an order; four points overflow it while a batch is being written;
three reconfigurations go off, broken and on in any order. Three saves let one
with a token be overtaken by one without and repaired by a third; the three
environments have an address, an address and a token, or a token alone. In
`retention`, six steps of the clock hold three hours in two days, and the
retentions of one and three steps make samples and hours old within them; the
two sessions let a name's hour have two counters. Four certificates allow a name
to be renewed, both to be revoked, removed, and the name to be used again. Two
failures let a failed removal meet a failed revocation. Two certificates of a name
suffice for one to be inherited, and two accounts for a second owner; the one
failure of `cert_owners` meets each request at each step. Of the lines that
`HandLines` tells apart, `server_conf` has: one of the template, both TLS modes, a
custom option that repeats a directive and a hand-added line of the same
directive, and a hand-added line of a directive that is the form's only while the
other custom option holds it as a comment; three requests are an edit, a save, and
another one of either from an older page.

`pki`, `cert_owners` and `server_conf` serve one request at a time. Their
properties do not hold of overlapping requests, which the code allows;
`pki_overlap` shows the worst consequence. `FreeNameIsFree` is limited to one
failure: with two failed scripts, a profile can be left that blocks the name.

Deadlock is checked, except in `influx`, where the ticker is outside the
fairness, so that with the bounds exhausted a disabled writer without a
goroutine has nothing to do, and in the runs of `ServerConf` and
`InfluxSettings`, where the bounded requests run out and the system is idle.

### What the violations show

- **Overlapping scripts** (`pki_overlap`): a `sed -i` that began before a
  revocation renames its copy over the index after it; the record is valid
  again and the next CRL drops it.
- **Backlog** (`retention_backlog`): what was added up is recognised only by
  being deleted. If more samples are old than one deletion can bind (32766 with
  the driver used), the deletion fails in every pass, and every pass adds the
  same samples up again.
- **Two modes** (`conf_modes`): the page that `Edit` answers with holds the mode
  of the row, not of the file. Setting `tls-auth` in the editor and then saving
  the form on that page renders `tls-crypt` and keeps `tls-auth` as a line added
  by hand.
- **Clearing the address** (`influx_cleared`): an empty address in the row is
  skipped when it is laid over `app.conf`, which has one by default.

Behaviour that the models have and no run is spent on: a status file older than
a disconnect gives the connection a second row, which the next sweep closes; a
scrape that found a row before the webhook closed it writes older byte counts
over the webhook's; the depth the writer reports stays too high by the points of
a replaced buffer (`DepthAccounted` says by how much); seeding ends at the first
certificate that has an owner; deleting an account leaves its assignments, and
the next account can get its id. Three more are about assignments, and go against
what a comment or a page says:

- A name is revoked but not removed, and an administrator creates it again. The
  first reading of the index finds the name listed, so its assignment stays; the
  second one fails, which is only logged; the script makes the certificate, and the
  owner of the revoked one has it (`controllers/certificates.go:181`: "Its former
  owner must not get this certificate"). `FormerOwnersCleared` says that there is no
  other way to inherit one.
- The page offers every account as the source of every assigned certificate, and
  `TransferCert` does not ask whether the source has it. The target gets it, and the
  owner keeps it (`views/profile.html:335`: "Moves a cert from one user to another").
- A query that fails unnoticed gives a certificate a second owner, and two requests
  at once can both be told that it has none.

### Fairness

`VpnSessions!FairSpec`: OpenVPN keeps rewriting its file, and the scraper, which
a ticker drives, keeps going. Nothing is assumed of clients and webhooks.
`InfluxWriter!SignalSpec`: a goroutine that can run does; the flush loop that
finds a token in its channel wakes. The ticker is not in it, so that
`FullBufferFlushed` rests on the signal alone; `EveryPointLeaves` adds the
ticker as its hypothesis. `Retention!FairSpec`: the goroutine of the retention,
which a ticker and the start of the process drive, keeps going; statements fail
and the process restarts a bounded number of times.

## Proofs

The theorems hold for all sets of connections, names, lines, requests and for
all bounds.

VPN sessions:

- `TypeCorrect`: the type invariant. `TypeOK` is not inductive, since an id held
  by the scraper or a webhook must name a row; `HandlesOK` says so.
- `SessionsStayClosed`: `NeverReopened`. Lemma `RowsStep` says what any step can
  do to the table: nothing, one new row, or a change of one row that does not
  make it active.
- `OneActiveSession`: `ActiveKeysUnique`, if no database call fails. Between the
  scraper's query and its insert, webhooks and restarts happen; `InsertFresh`
  says that no row with the key appears meanwhile, because only the scraper
  makes active rows, and `ListedConnected` that the key of a listed client
  cannot change.
- `SweepExact`: `SweepIsExact`, under the same condition. The invariant says that
  the active rows of the clients the scrape is through with are among the rows it
  has seen, and that an active row it has seen is that of a listed client.
- `SamplesNeverShrink`: `SamplesMonotonic`, whatever calls fail and however
  incomplete the files are, as long as no client comes back from its address
  within the second (`KeysDistinct`), which would make two connections look like
  one. A sample is behind every reading that is still to come: the file is behind
  the connections, the parsed file behind both.
- `LedgerRefinement`: `ImplementsLedger`, with the same invariant as
  `OneActiveSession`. Each step maps to a step of `SessionLedger` or a stutter.

InfluxDB:

- `InfluxCounts`, `InfluxKeepsNewest`, `InfluxDepth`, `InfluxClampIdle`:
  `Conservation`, `KeepsNewest`, `DepthAccounted` and `NeverClamped` of
  `InfluxWriter`, for any number of writers and any buffer size. Their
  conjunction with the types is inductive. `PushKeeps` says what one more point
  does to a buffer of consecutive points, full or not; `ClampKeeps` that the
  clamp finds nothing to repair, since the counter is a sum of lengths. None of
  it needs fairness, and a reconfiguration may come between any two steps.
- `InfluxTypes`: `TypeOK`. A batch is not empty from `TakeBatch` to `WriteBatch`,
  and a writer between its check and the buffer finds a number left for its
  point: `TypeInv` counts those under way (`Underway`).
- `InfluxInOrder`: `DeliveredInOrder`. What is delivered, under way and waiting
  is one increasing sequence, because one goroutine delivers.
- `TypesHold`, `LiveIsSavedHolds`, `SavedIsExportedHolds` of `InfluxSettings`,
  with racing requests. The invariant says what a request that runs alone knows:
  that the row is still the one it read (for the token), and that no other
  request can put an older configuration in place after its own.

Retention (`Bytes` may be any counters that do not go down):

- `AddedUpOnceHolds`: `AddedUpOnce`, with `EachCountedOnce` and
  `EachRolledUpOnce` for its two levels. A counted row that is still in the table
  is one that the pass under way will delete (`CountedAreDue`), since its cutoff
  only moves forward; only a deletion that did not happen, which `owed`
  remembers, leaves one for the next pass.
- `NothingLost`: `PrunedWereAggregated`, from the converse (`DueAreCounted`).
- `RowsAreTyped`: `TypeOK`. The volume of a new row is a sum of differences of
  counters, and a natural number because a counter never goes down.
- `HistoryNeverOverstated`: `NeverOverstated`. That the history is right now is
  not inductive: the next hour may be of samples that are already in a row. The
  invariant is `SumInv`: as long as no deletion was skipped, there is a time such
  that every sample before it has been counted or is gone, and the rows of a name
  show at most what was transferred by then (TLC checked it on the instance of
  `retention` first). The statement that adds samples up moves that time forward,
  to its cutoff, since the table holds none that a row has; a day takes the place
  of hours with the same sum. It needs `AddedUpOnce` and the types.

  The proof needs laws of finite sums, which `SumTheorems` has. There a sum is of
  a function, as the choice of the function that is computed element by element;
  that it exists, splits over a partition, and grows with its summands, is shown
  not by induction but from a smallest subset for which it would fail
  (`SmallestSet`), since inclusion of finite sets is well-founded.

Certificates, one script at a time: `PkiTypes`, `RecordsAreKept`, `CrlOnlyGrows`,
`ValidCanBeRevoked`, `NewerStay`, `RevocationHolds`. They rest on one invariant,
`PkiInv`: the suffixes of a line repeat its own name (`OwnTags`), no line
has a serial that is still to be given (`Numbered`), a valid certificate is in one of the two files
that `revoke.sh` compares (`Filed`), each file has a line (`HasLine`), the
renewed certificate is the older one (`RenewedOlder`), and what a revocation
found out stays true while it runs (`Revoking`, with `Due` for the targets still
to come). Scripts may fail at any command and any number of times.

`FreeNamesAreFree` (`FreeNameIsFree`) and `CertificatesAreListed` add `FreeInv`
(TLC finds no state of `pki` that violates it): a serial has one line; a
certificate in a file is valid and a removed record is not, so the copy of a
`sed` may mark only lines of the removal's own serial, which is revoked
(`Sound`); and a profile is there because the name has a certificate, or because
the script that took it away has yet to remove the profile, or one script failed
and the record is still listed or is being removed with the profile, or two
failed (`Accounted`). That certificates are listed needs no bound on the failures;
that profiles are does. It follows that `sign-req` refuses no name that
`CreateCertificate` found free in an index it could read.

Assignments, one request at a time, from pages of any age: `OwnersTyped`, and
`NotInherited`, `ListedKeepsOwner`, `SingleOwner`: `FormerOwnersCleared`,
`OwnerKept` and `OneOwnerAsked`. The invariant says that what a request found out
holds until it acts on it: `FreeToDelete`, `FreeToCreate`, `FreeToAssign`. Since two
errors are swallowed and a transfer asks for no owner, the code promises less than
its pages: an assignment is no older than the time its name was last free, so that
a former owner can inherit only what is made, by a failed reading, while the
revoked record is listed; and of the assignments of a certificate one at most goes
back to an answer of the database, so that further owners come only from failed
queries and from transfers by accounts without such an assignment.

Server configuration: `TypesHold` with overlapping requests; one request at a
time, `FileIsFormAndHandHolds`, `SavedIsInFileHolds`, `ModeKeptHolds` and
`UsableConfigHolds`, for any lines and directives. The invariant gives the
content of the file at each step of a save as a function of what the request
holds.

Only model-checked: the liveness properties `OrphansClosed`,
`LiveConnectionsTracked`, `FullBufferFlushed`, `EveryPointLeaves` and
`OldSamplesGo` (the prover has no fairness and no `ENABLED`). Every invariant and
every action property of the passing runs is proved.

What the proofs assume of the constants is in the `ASSUME`s of the modules, and
TLC evaluates it in the runs. That sessions and writers are finitely many
(`SessionsAssumption`, `WriterAssumption`) is there for sums and cardinalities:
a table has finitely many rows and a process finitely many goroutines.

## Not modelled, and the plan

Worth a module, in this order: the 24-hour rings of the writer (`Stats`), as
operators checked against a definition; sign-in (session cookie, OAuth state,
roles read per request); the static address files and 2FA secrets that a
certificate leaves behind; overlapping requests in `server_conf`, for a property
that survives them.

Left out for good: the pages that only read, the audit log (append-only, never
read back), UI settings, client and EasyRSA settings (one row and one form each),
danger zone, Grafana proxy, translations, system information, signals and logs,
which do one external command or format what they read.

The program is Go and shell. The JavaScript of the repository is almost all
third-party code that comes with it (`swagger/`: Swagger UI, Handlebars,
es5-shim, marked, and the OAuth helper; `static/plugins/iCheck`;
`static/js/ace`, the editor with a highlighting mode for its syntax). It holds no
state of the system and decides nothing about it, and is not modelled. The one
script of the program's own, `static/js/custom.js`, is modelled where it matters
to the server: the editor's copy of a whole file that it sends back.
