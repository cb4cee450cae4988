----------------------------- MODULE VpnSessions -----------------------------
(***************************************************************************)
(* The life of the vpn_session rows.  Three parties act on them without a  *)
(* lock between them:                                                      *)
(*   - OpenVPN accepts and drops connections and rewrites its status file  *)
(*     about once a minute, so the file lags behind the connections;       *)
(*   - the scraper goroutine (lib/monitor/scraper.go) reads the file, adds *)
(*     a row for a connection it cannot match, copies the counters, and    *)
(*     closes the active rows it did not meet;                             *)
(*   - one HTTP handler per disconnect webhook (controllers/monitor.go)    *)
(*     looks for the row of its connection and closes it.                  *)
(* Every database call is one atomic step (the insert of a sample and the  *)
(* copy of the counters after it are joined); what a party read before a   *)
(* call is kept in its own state, as the Go variables keep it.             *)
(***************************************************************************)
EXTENDS Naturals, Sequences, FiniteSets

CONSTANTS
  Conns,        \* the client connections of a behaviour
  Names,        \* certificate common names
  Addrs,        \* client addresses, without the port
  Name,         \* Name[c]: the common name of connection c
  Addr,         \* Addr[c]: its address
  NoConn,       \* the scraper is at no connection
  DuplicateCn,  \* does server.conf say duplicate-cn?
  MaxTime,      \* bound on the clock, in seconds
  MaxBytes,     \* bound on the byte counter of a connection
  MaxRows,      \* bound on the rows of vpn_session
  MaxRestarts,  \* how often the UI process may die and start again
  MaxDbErrors   \* how many calls of the database may fail, or files be read in part

ASSUME ConnsAssumption ==
  /\ Name \in [Conns -> Names]
  /\ Addr \in [Conns -> Addrs]
  /\ NoConn \notin Conns
  /\ DuplicateCn \in BOOLEAN

ASSUME BoundsAssumption ==
  /\ MaxTime \in Nat
  /\ MaxBytes \in Nat
  /\ MaxRows \in Nat
  /\ MaxRestarts \in Nat
  /\ MaxDbErrors \in Nat

VARIABLES
  now,       \* the clock, in seconds
  conn,      \* the connections, as OpenVPN knows them
  file,      \* openvpn-status.log: the listed connections and their counters
  rows,      \* table vpn_session: the row with id i is rows[i]
  scraper,   \* the scraper goroutine
  hook,      \* the disconnect webhook of each connection
  restarts,  \* restarts of the UI so far
  dbErrors   \* failed database calls and partial reads so far

vars == <<now, conn, file, rows, scraper, hook, restarts, dbErrors>>

Counter == 0 .. MaxBytes
Listing == [clients : SUBSET Conns, bytes : [Conns -> Counter]]
Key     == Names \X Addrs \X (0 .. MaxTime)

\* BytesIn and BytesOut are one counter, `sample' is the counter of the newest
\* traffic_sample row of the session.
Row == [cn : Names, ip : Addrs, at : 0 .. MaxTime, bytes : Counter,
        status : {"active", "closed"}, sample : Counter]

\* The control state of scrapeOnce and its local variables.
Scraper == [pc : {"idle", "scan", "insert", "update", "close"},
            snap : Listing,               \* the parsed file
            todo : SUBSET Conns,          \* clients the loop has not reached
            cur : Conns \cup {NoConn},    \* the client at hand
            row : Nat,                    \* its session
            seen : SUBSET Nat,            \* ids met in this scrape
            missing : SUBSET Nat]         \* rows listed for closing

Hook == [pc : {"none", "sent", "fallback", "write", "done"}, row : Nat]

NoListing == [clients |-> {}, bytes |-> [c \in Conns |-> 0]]
Idle == [pc |-> "idle", snap |-> NoListing, todo |-> {}, cur |-> NoConn,
         row |-> 0, seen |-> {}, missing |-> {}]

-----------------------------------------------------------------------------
(* Queries.                                                                *)

KeyOf(c) == <<Name[c], Addr[c], conn[c].at>>
RowKey(r) == <<r.cn, r.ip, r.at>>

Up     == {c \in Conns : conn[c].state = "up"}
Active == {i \in DOMAIN rows : rows[i].status = "active"}

\* Mutants of the next definition: the time compared in the query, where the
\* stored format never matches; the match by name alone.
SessionsByStoredTime(k) == {}
SessionsByName(k)       == {i \in Active : rows[i].cn = k[1]}

\* FindActiveSession: the active rows of one connection.
ActiveSessions(k) == {i \in Active : RowKey(rows[i]) = k}

\* FindActiveSessionsByCN, and what the webhook takes from its result.
ActiveByCN(cn) == {i \in Active : rows[i].cn = cn}
NewestOf(S)    == {i \in S : \A j \in S : rows[j].at <= rows[i].at}

DbOk    == UNCHANGED dbErrors
DbFails == /\ dbErrors < MaxDbErrors
           /\ dbErrors' = dbErrors + 1

Init ==
  /\ now = 0
  /\ conn = [c \in Conns |-> [state |-> "idle", at |-> 0, bytes |-> 0]]
  /\ file = NoListing      \* no file yet reads as one that lists nobody: no rows
  /\ rows = <<>>
  /\ scraper = Idle
  /\ hook = [c \in Conns |-> [pc |-> "none", row |-> 0]]
  /\ restarts = 0
  /\ dbErrors = 0

-----------------------------------------------------------------------------
(* OpenVPN (external).                                                     *)

\* A client connects, in this second or a later one.  Without duplicate-cn a
\* name has one connection at a time.
Connect(c) ==
  /\ conn[c].state = "idle"
  /\ DuplicateCn \/ \A d \in Up : Name[d] # Name[c]
  /\ now' \in {now, now + 1} \cap (0 .. MaxTime)
  /\ conn' = [conn EXCEPT ![c] = [state |-> "up", at |-> now', bytes |-> 0]]
  /\ UNCHANGED <<file, rows, scraper, hook, restarts, dbErrors>>

Transfer(c) ==
  /\ conn[c].state = "up"
  /\ conn[c].bytes < MaxBytes
  /\ conn' = [conn EXCEPT ![c].bytes = @ + 1]
  /\ UNCHANGED <<now, file, rows, scraper, hook, restarts, dbErrors>>

\* A client goes.  The hook script runs, unless it is not configured or the
\* server itself was killed.
Disconnect(c) ==
  /\ conn[c].state = "up"
  /\ conn' = [conn EXCEPT ![c].state = "down"]
  /\ \E pc \in {"sent", "done"} : hook' = [hook EXCEPT ![c].pc = pc]
  /\ UNCHANGED <<now, file, rows, scraper, restarts, dbErrors>>

\* The periodic rewrite of the status file.
WriteStatus ==
  /\ file' = [clients |-> Up,
              bytes |-> [c \in Conns |-> IF c \in Up THEN conn[c].bytes ELSE 0]]
  /\ UNCHANGED <<now, conn, rows, scraper, hook, restarts, dbErrors>>

\* The script calls once with a limit of five seconds and does not try again.
HookLost(c) ==
  /\ hook[c].pc = "sent"
  /\ hook' = [hook EXCEPT ![c].pc = "done"]
  /\ UNCHANGED <<now, conn, file, rows, scraper, restarts, dbErrors>>

-----------------------------------------------------------------------------
(* The scraper.                                                            *)

ScraperUnchanged == UNCHANGED <<now, conn, file, hook, restarts>>

\* A tick: parse the file as it is now.
ReadStatus ==
  /\ scraper.pc = "idle"
  /\ scraper' = [Idle EXCEPT !.pc = "scan", !.snap = file, !.todo = file.clients]
  /\ UNCHANGED rows
  /\ DbOk
  /\ ScraperUnchanged

\* A tick while OpenVPN rewrites the file: the END marker is not required, so what
\* is there of the list is taken for all of it.
ReadPart ==
  /\ scraper.pc = "idle"
  /\ \E part \in SUBSET file.clients :
       /\ part # file.clients
       /\ scraper' = [Idle EXCEPT !.pc = "scan", !.snap = [file EXCEPT !.clients = part],
                                  !.todo = part]
  /\ UNCHANGED rows
  /\ DbFails
  /\ ScraperUnchanged

\* upsertSession, its query.  A failed query counts as no match.
FindSession(c) ==
  /\ scraper.pc = "scan"
  /\ c \in scraper.todo
  /\ \/ /\ \E i \in ActiveSessions(KeyOf(c)) :
             scraper' = [scraper EXCEPT !.pc = "update", !.todo = @ \ {c},
                                        !.cur = c, !.row = i]
        /\ DbOk
     \/ /\ \/ ActiveSessions(KeyOf(c)) = {} /\ DbOk
           \/ DbFails
        /\ scraper' = [scraper EXCEPT !.pc = "insert", !.todo = @ \ {c}, !.cur = c]
  /\ UNCHANGED rows
  /\ ScraperUnchanged

\* upsertSession, its insert.  If that fails the loop goes on to the next client.
InsertSession ==
  LET c == scraper.cur IN
  /\ scraper.pc = "insert"
  /\ \/ /\ Len(rows) < MaxRows
        /\ rows' = Append(rows, [cn |-> Name[c], ip |-> Addr[c], at |-> conn[c].at,
                                 bytes |-> scraper.snap.bytes[c], status |-> "active",
                                 sample |-> 0])
        /\ scraper' = [scraper EXCEPT !.pc = "update", !.row = Len(rows) + 1]
        /\ DbOk
     \/ /\ DbFails
        /\ scraper' = [scraper EXCEPT !.pc = "scan", !.cur = NoConn]
        /\ UNCHANGED rows
  /\ ScraperUnchanged

\* Mutant: Update() without field names writes the row as it was read.
WholeRow(r, b) == [r EXCEPT !.bytes = b, !.status = "active"]

\* The columns Update("BytesIn", "BytesOut") writes.
WithCounters(r, b) == [r EXCEPT !.bytes = b]

\* The sample is inserted, then the counters are copied; either call may fail,
\* and the client counts as seen all the same.
UpdateCounters ==
  LET i == scraper.row
      b == scraper.snap.bytes[scraper.cur] IN
  /\ scraper.pc = "update"
  /\ \/ /\ rows' = [rows EXCEPT ![i] = WithCounters([@ EXCEPT !.sample = b], b)]
        /\ DbOk
     \/ /\ DbFails
        /\ rows' \in {rows, [rows EXCEPT ![i].sample = b],
                      [rows EXCEPT ![i] = WithCounters(@, b)]}
  /\ scraper' = [scraper EXCEPT !.pc = "scan", !.seen = @ \cup {i},
                                !.cur = NoConn, !.row = 0]
  /\ ScraperUnchanged

\* Mutants of the next definition: the test of `seen' forgotten; nothing done
\* when the file lists nobody.
MissingUnfiltered(seen)  == Active
MissingUnlessEmpty(seen) == IF seen = {} THEN {} ELSE Active \ seen

\* The active sessions the scrape did not meet.
Missing(seen) == Active \ seen

\* closeMissingSessions, its query; a failure ends the scrape.
ListActive ==
  /\ scraper.pc = "scan"
  /\ scraper.todo = {}
  /\ \/ /\ scraper' = [scraper EXCEPT !.pc = "close", !.seen = {},
                                      !.missing = Missing(scraper.seen)]
        /\ DbOk
     \/ /\ DbFails
        /\ scraper' = Idle
  /\ UNCHANGED rows
  /\ ScraperUnchanged

\* Mutant: "Status" missing among the columns.
StatusNotWritten(r) == r

\* The columns Update("Status", "DisconnectedAt", "DurationS") writes.
ClosedByScraper(r) == [r EXCEPT !.status = "closed"]

\* closeMissingSessions, one row of the list it read.
CloseMissing(i) ==
  /\ scraper.pc = "close"
  /\ i \in scraper.missing
  /\ \/ rows' = [rows EXCEPT ![i] = ClosedByScraper(@)] /\ DbOk
     \/ UNCHANGED rows /\ DbFails
  /\ scraper' = [scraper EXCEPT !.missing = @ \ {i}]
  /\ ScraperUnchanged

FinishScrape ==
  /\ scraper.pc = "close"
  /\ scraper.missing = {}
  /\ scraper' = Idle
  /\ UNCHANGED rows
  /\ DbOk
  /\ ScraperUnchanged

-----------------------------------------------------------------------------
(* The webhook handler.                                                    *)

HookUnchanged == UNCHANGED <<now, conn, file, scraper, restarts>>

\* FindActiveSession with the payload's name, address and connect time.  Its
\* error is dropped: a failed query, too, leads to the fallback.
HookMatch(c) ==
  /\ hook[c].pc = "sent"
  /\ \/ /\ \E i \in ActiveSessions(KeyOf(c)) :
             hook' = [hook EXCEPT ![c] = [pc |-> "write", row |-> i]]
        /\ DbOk
     \/ /\ \/ ActiveSessions(KeyOf(c)) = {} /\ DbOk
           \/ DbFails
        /\ hook' = [hook EXCEPT ![c] = [pc |-> "fallback", row |-> 0]]
  /\ UNCHANGED rows
  /\ HookUnchanged

\* The newest active session of the name, or none (row 0).
HookFallback(c) ==
  /\ hook[c].pc = "fallback"
  /\ \/ /\ \E i \in NewestOf(ActiveByCN(Name[c])) :
             hook' = [hook EXCEPT ![c] = [pc |-> "write", row |-> i]]
        /\ DbOk
     \/ /\ \/ ActiveByCN(Name[c]) = {} /\ DbOk
           \/ DbFails
        /\ hook' = [hook EXCEPT ![c] = [pc |-> "write", row |-> 0]]
  /\ UNCHANGED rows
  /\ HookUnchanged

\* Mutant: the payload added to the counters the scraper mirrored.
AddedByHook(r, c) ==
  [r EXCEPT !.bytes = @ + conn[c].bytes, !.ip = Addr[c], !.status = "closed"]

\* The row the webhook leaves behind: the payload's values, closed.
ClosedByHook(r, c) ==
  [r EXCEPT !.bytes = conn[c].bytes, !.ip = Addr[c], !.status = "closed"]

\* Close the session found, or record a closed one; an error ends the request.
HookWrite(c) ==
  LET i == hook[c].row IN
  /\ hook[c].pc = "write"
  /\ \/ /\ i # 0
        /\ rows' = [rows EXCEPT ![i] = ClosedByHook(@, c)]
        /\ DbOk
     \/ /\ i = 0
        /\ Len(rows) < MaxRows
        /\ rows' = Append(rows, [cn |-> Name[c], ip |-> Addr[c], at |-> conn[c].at,
                                 bytes |-> conn[c].bytes, status |-> "closed",
                                 sample |-> 0])
        /\ DbOk
     \/ UNCHANGED rows /\ DbFails
  /\ hook' = [hook EXCEPT ![c] = [pc |-> "done", row |-> 0]]
  /\ HookUnchanged

-----------------------------------------------------------------------------
\* The UI process dies, with the scrape and the requests it was serving, and
\* starts again; the table and OpenVPN go on.
Restart ==
  /\ restarts < MaxRestarts
  /\ restarts' = restarts + 1
  /\ scraper' = Idle
  /\ hook' = [c \in Conns |-> IF hook[c].pc \in {"fallback", "write"}
                              THEN [pc |-> "done", row |-> 0] ELSE hook[c]]
  /\ UNCHANGED <<now, conn, file, rows, dbErrors>>

ScraperStep ==
  \/ ReadStatus
  \/ ReadPart
  \/ \E c \in Conns : FindSession(c)
  \/ InsertSession
  \/ UpdateCounters
  \/ ListActive
  \/ \E i \in DOMAIN rows : CloseMissing(i)
  \/ FinishScrape

HookStep(c) == HookMatch(c) \/ HookFallback(c) \/ HookWrite(c)

Next ==
  \/ \E c \in Conns : \/ Connect(c) \/ Transfer(c) \/ Disconnect(c)
                      \/ HookLost(c) \/ HookStep(c)
  \/ WriteStatus
  \/ ScraperStep
  \/ Restart

Spec == Init /\ [][Next]_vars

\* OpenVPN keeps rewriting its file and the ticker keeps firing.  Nothing is
\* assumed of clients or of webhooks.
FairSpec == Spec /\ WF_vars(WriteStatus) /\ WF_vars(ScraperStep)
-----------------------------------------------------------------------------
(* Properties.                                                             *)

TypeOK ==
  /\ now \in 0 .. MaxTime
  /\ conn \in [Conns -> [state : {"idle", "up", "down"}, at : 0 .. MaxTime,
                          bytes : Counter]]
  /\ file \in Listing
  /\ rows \in Seq(Row)
  /\ scraper \in Scraper
  /\ hook \in [Conns -> Hook]
  /\ restarts \in 0 .. MaxRestarts
  /\ dbErrors \in 0 .. MaxDbErrors

\* Sessions end for good: whatever the scraper read before a webhook closed a
\* row, no later write of it makes the row active again.
NeverReopened ==
  [][\A i \in DOMAIN rows : rows[i].status = "closed" => rows'[i].status = "closed"]_vars

\* No connection has two active rows, so the dashboard lists it once and
\* FindActiveSession has one answer.
ActiveKeysUnique ==
  \A i, j \in Active : RowKey(rows[i]) = RowKey(rows[j]) => i = j

\* A finished sweep leaves no active row behind whose connection the status file
\* did not list.
SweepIsComplete ==
  scraper.pc = "close" /\ scraper.missing = {} =>
    \A i \in Active : \E c \in scraper.snap.clients : RowKey(rows[i]) = KeyOf(c)

\* A sweep never picks the active row of a connection the status file listed.
SweepSparesListed ==
  scraper.pc = "close" =>
    \A i \in scraper.missing \cap Active : \A c \in scraper.snap.clients :
      RowKey(rows[i]) # KeyOf(c)

\* "the safety net": a sweep closes the sessions the status file does not list and
\* those alone, though webhooks close rows, and record others, between the scrape's
\* two readings of the table.
SweepIsExact == SweepIsComplete /\ SweepSparesListed

\* The samples of one session never go down, which the hourly MAX - MIN relies on.
SamplesMonotonic ==
  [][\A i \in DOMAIN rows : rows[i].sample <= rows'[i].sample]_vars

\* Is there an active session for c?
Tracked(c) == \E i \in Active : RowKey(rows[i]) = KeyOf(c)

\* A session whose connection is gone does not stay active, even if every
\* webhook is lost and the UI restarts in the middle of a scrape.
OrphansClosed ==
  \A c \in Conns :
    conn[c].state = "down"
      ~> \/ ~ Tracked(c)
         \/ \E d \in Up : KeyOf(d) = KeyOf(c)

\* A connection that stays up gets its active session, also after a webhook of
\* another one of its name closed it.
LiveConnectionsTracked ==
  \A c \in Conns :
    conn[c].state = "up" ~> Tracked(c) \/ conn[c].state = "down"

\* The refinement mapping: the open entries are the active rows.
Ledger == INSTANCE SessionLedger WITH
  last <- Len(rows),
  open <- {[id |-> i, key |-> RowKey(rows[i])] : i \in Active}

\* The table behaves as the ledger of sessions its readers take it for.
ImplementsLedger == Ledger!Spec
=============================================================================
