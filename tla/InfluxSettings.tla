---------------------------- MODULE InfluxSettings ----------------------------
(***************************************************************************)
(* The InfluxDB form of the Monitor page (controllers/monitor.go,          *)
(* models/monitor.go): an administrator stores address and token in one    *)
(* row, the row is laid over the values of app.conf, and the running       *)
(* writer is given the result (lib/monitor/scraper.go).  The row, the      *)
(* loading and the writer are three steps of a request, any of which may   *)
(* fail, and a restart goes the same way with other code: Start.           *)
(*                                                                         *)
(* The name of the database is treated as the address is, and left out.    *)
(***************************************************************************)
EXTENDS Naturals

CONSTANTS
  Admins,       \* administrators with the page open
  Urls,         \* addresses
  Tokens,       \* tokens
  Blank,        \* an empty field
  NoRow,        \* nothing was saved yet
  AppConfs,     \* values of app.conf and the environment
  MaxSaves,     \* bound on the requests
  MaxFailures,  \* bound on failing calls of the database
  MaxRestarts   \* bound on restarts

Url   == Urls \cup {Blank}
Token == Tokens \cup {Blank}

\* InfluxConfig.
Config == [enabled : BOOLEAN, url : Url, token : Token]

ASSUME SettingsAssumption ==
  /\ Blank \notin Urls
  /\ Blank \notin Tokens
  /\ NoRow \notin [url : Url, token : Token]
  /\ AppConfs \subseteq Config
  /\ MaxSaves \in Nat
  /\ MaxFailures \in Nat
  /\ MaxRestarts \in Nat

VARIABLES
  app,       \* the values of app.conf the process started with
  row,       \* the row of influx_settings, or NoRow
  live,      \* configuration of the writer, and whether it has a client
  req,       \* the request of each administrator
  misread,   \* did the last loading fail to read the row?
  raced,     \* history: were two requests served at once; "now": and no restart or
             \* request on its own came after it
  secret,    \* history: the last token that was typed into the form and stored
  saves,     \* requests so far
  failures,  \* failed calls so far
  restarts   \* restarts so far

vars == <<app, row, live, req, misread, raced, secret, saves, failures, restarts>>

Row    == [url : Url, token : Token]
Writer == [cfg : Config, client : BOOLEAN]

\* Local variables of SaveInfluxSettings and ReloadInfluxSettings.
Request ==
  [pc : {"idle", "read", "insert", "update", "load", "swap"},
   url : Url, token : Token, existing : Row, fresh : Config]

-----------------------------------------------------------------------------
(* Loading.                                                                *)

Over(value, below) == IF value = Blank THEN below ELSE value

\* LoadConfig: a row's values win over app.conf, and an address enables the export.
LaidOver(r, conf) ==
  IF r = NoRow THEN conf
  ELSE [enabled |-> Over(r.url, conf.url) # Blank, url |-> Over(r.url, conf.url),
        token |-> Over(r.token, conf.token)]

\* influxdb3.New needs an address and a token.
HasClient(c) == c.enabled /\ c.url # Blank /\ c.token # Blank

\* Start: a writer without a client is replaced by a disabled one.
Started(c) ==
  IF c.enabled /\ ~HasClient(c)
  THEN [cfg |-> [enabled |-> FALSE, url |-> Blank, token |-> Blank], client |-> FALSE]
  ELSE [cfg |-> c, client |-> HasClient(c)]

\* Mutant of the next definition: a client that is there is kept.
SwappedLate(c) == [cfg |-> c, client |-> live.client \/ HasClient(c)]

\* Reconfigure.
Swapped(c) == [cfg |-> c, client |-> HasClient(c)]

NoRequest == [pc |-> "idle", url |-> Blank, token |-> Blank,
              existing |-> [url |-> Blank, token |-> Blank],
              fresh |-> [enabled |-> FALSE, url |-> Blank, token |-> Blank]]

Quiet == \A a \in Admins : req[a].pc = "idle"

Init ==
  /\ app \in AppConfs
  /\ row = NoRow
  /\ live = Started(app)
  /\ req = [a \in Admins |-> NoRequest]
  /\ misread = FALSE
  /\ raced = "never"
  /\ secret = Blank
  /\ saves = 0
  /\ failures = 0
  /\ restarts = 0

DbFails == /\ failures < MaxFailures
           /\ failures' = failures + 1

-----------------------------------------------------------------------------
(* SaveInflux.                                                             *)

Save(a, url, token) ==
  /\ req[a].pc = "idle"
  /\ saves < MaxSaves
  /\ saves' = saves + 1
  /\ req' = [req EXCEPT ![a] = [NoRequest EXCEPT !.pc = "read", !.url = url, !.token = token]]
  /\ raced' = IF Quiet THEN raced ELSE "now"
  /\ UNCHANGED <<app, row, live, misread, secret, failures, restarts>>

\* Mutant of the next definition: a missing row is not told from a stored one.
ReadRowAlways(a) ==
  /\ req[a].pc = "read"
  /\ req' = [req EXCEPT ![a].pc = "update", ![a].existing = row]
  /\ UNCHANGED <<app, row, live, misread, raced, secret, saves, failures, restarts>>

\* SaveInfluxSettings reads the row first.
ReadRow(a) ==
  /\ req[a].pc = "read"
  /\ IF row = NoRow
     THEN req' = [req EXCEPT ![a].pc = "insert"]
     ELSE req' = [req EXCEPT ![a].pc = "update", ![a].existing = row]
  /\ UNCHANGED <<app, row, live, misread, raced, secret, saves, failures, restarts>>

Remember(token) == secret' = IF token = Blank THEN secret ELSE token

Insert(a) ==
  LET r == req[a]
  IN  /\ r.pc = "insert"
      /\ row = NoRow
      /\ row' = [url |-> r.url, token |-> r.token]
      /\ Remember(r.token)
      /\ req' = [req EXCEPT ![a].pc = "load"]
      /\ UNCHANGED <<app, live, misread, raced, saves, failures, restarts>>

\* There can be one row with the id 1: the request ends with an error.
InsertRefused(a) ==
  /\ req[a].pc = "insert"
  /\ row # NoRow
  /\ req' = [req EXCEPT ![a] = NoRequest]
  /\ UNCHANGED <<app, row, live, misread, raced, secret, saves, failures, restarts>>

\* Mutant of the next definition: a blank token is stored like any other.
UpdateAll(a) ==
  LET r == req[a]
  IN  /\ r.pc = "update"
      /\ row' = [url |-> r.url, token |-> r.token]
      /\ Remember(r.token)
      /\ req' = [req EXCEPT ![a].pc = "load"]
      /\ UNCHANGED <<app, live, misread, raced, saves, failures, restarts>>

\* All columns are written, the token that was read if none was typed.
Update(a) ==
  LET r == req[a]
  IN  /\ r.pc = "update"
      /\ row' = [url |-> r.url, token |-> Over(r.token, r.existing.token)]
      /\ Remember(r.token)
      /\ req' = [req EXCEPT ![a].pc = "load"]
      /\ UNCHANGED <<app, live, misread, raced, saves, failures, restarts>>

\* A read or a write fails: nothing is saved and nothing reloaded.
SaveFails(a) ==
  /\ req[a].pc \in {"read", "insert", "update"}
  /\ DbFails
  /\ req' = [req EXCEPT ![a] = NoRequest]
  /\ UNCHANGED <<app, row, live, misread, raced, secret, saves, restarts>>

-----------------------------------------------------------------------------
(* ReloadInfluxSettings.                                                   *)
RaceIsOver == raced' = IF raced = "now" THEN "before" ELSE raced

Load(a) ==
  /\ req[a].pc = "load"
  /\ req' = [req EXCEPT ![a].pc = "swap", ![a].fresh = LaidOver(row, app)]
  /\ misread' = FALSE
  /\ IF \A b \in Admins \ {a} : req[b].pc = "idle" THEN RaceIsOver ELSE UNCHANGED raced
  /\ UNCHANGED <<app, row, live, secret, saves, failures, restarts>>

\* LoadConfig takes a row it cannot read for none.
LoadFails(a) ==
  /\ req[a].pc = "load"
  /\ DbFails
  /\ req' = [req EXCEPT ![a].pc = "swap", ![a].fresh = app]
  /\ misread' = TRUE
  /\ UNCHANGED <<app, row, live, raced, secret, saves, restarts>>

Reconfigure(a) ==
  /\ req[a].pc = "swap"
  /\ live' = Swapped(req[a].fresh)
  /\ req' = [req EXCEPT ![a] = NoRequest]
  /\ UNCHANGED <<app, row, misread, raced, secret, saves, failures, restarts>>

-----------------------------------------------------------------------------
(* The process is stopped at any time and started again, perhaps with      *)
(* another environment.                                                    *)

Stop(conf) ==
  /\ restarts < MaxRestarts
  /\ restarts' = restarts + 1
  /\ app' = conf
  /\ req' = [a \in Admins |-> NoRequest]
  /\ RaceIsOver
  /\ UNCHANGED <<row, secret, saves>>

Restart(conf) ==
  /\ Stop(conf)
  /\ live' = Started(LaidOver(row, conf))
  /\ misread' = FALSE
  /\ UNCHANGED failures

RestartMisreads(conf) ==
  /\ Stop(conf)
  /\ DbFails
  /\ live' = Started(conf)
  /\ misread' = TRUE

Step(a) ==
  \/ ReadRow(a)
  \/ Insert(a)
  \/ InsertRefused(a)
  \/ Update(a)
  \/ SaveFails(a)
  \/ Load(a)
  \/ LoadFails(a)
  \/ Reconfigure(a)

Next ==
  \/ \E a \in Admins :
       \/ \E url \in Url, token \in Token : Save(a, url, token)
       \/ Step(a)
  \/ \E conf \in AppConfs : Restart(conf) \/ RestartMisreads(conf)

Spec == Init /\ [][Next]_vars

-----------------------------------------------------------------------------
(* Properties.                                                             *)

TypeOK ==
  /\ app \in AppConfs
  /\ row \in Row \cup {NoRow}
  /\ live \in Writer
  /\ req \in [Admins -> Request]
  /\ misread \in BOOLEAN
  /\ raced \in {"never", "before", "now"}
  /\ secret \in Token
  /\ saves \in 0 .. MaxSaves
  /\ failures \in 0 .. MaxFailures
  /\ restarts \in 0 .. MaxRestarts

\* What leaves the process: where to and with which token, or nothing.
Exports(w) == IF w.client THEN {<<w.cfg.url, w.cfg.token>>} ELSE {}

Settled == Quiet /\ ~misread

\* README.md:925: the writer is reconfigured without a restart.  When no request is
\* under way, it exports what it would after a restart, whichever saves failed and
\* wherever a request was cut off, unless the row could not be read.  A race can
\* leave it behind the row, until a request on its own or a restart repairs it.
LiveIsSaved ==
  Settled /\ raced # "now" => Exports(live) = Exports(Started(LaidOver(row, app)))

\* README.md:926 and README.md:930: a blank token keeps the stored one, which wins
\* over that of the environment.  Without a race, what is exported goes to the
\* stored address with the token that was typed last, however many saves were
\* without one.
SavedIsExported ==
  (Settled /\ raced = "never" /\ row # NoRow) =>
    /\ row.token = secret
    /\ (row.url # Blank /\ secret # Blank) => Exports(live) = {<<row.url, secret>>}

\* README.md:927: clearing the address turns the export off until it is set again.
ClearedUrlIsOff ==
  (Settled /\ row # NoRow) => (row.url = Blank => Exports(live) = {})
===============================================================================
