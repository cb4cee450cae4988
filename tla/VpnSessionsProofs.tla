-------------------------- MODULE VpnSessionsProofs --------------------------
(***************************************************************************)
(* Theorems about VpnSessions, for every set of connections and every      *)
(* bound.                                                                  *)
(***************************************************************************)
EXTENDS VpnSessions, TLAPS, SequenceTheorems

-----------------------------------------------------------------------------
(* The shape of a state.  TypeOK is not inductive: the ids and the client  *)
(* the scraper and the webhooks hold must exist.                           *)

HandlesOK ==
  /\ scraper.pc \in {"insert", "update"} => scraper.cur \in Conns
  /\ scraper.pc = "update" => scraper.row \in DOMAIN rows
  /\ scraper.missing \subseteq DOMAIN rows
  /\ \A c \in Conns : hook[c].row \in {0} \cup DOMAIN rows

TypeInv == TypeOK /\ HandlesOK

\* A new row keeps the table a table, and the ids already handed out.
LEMMA AppendRow ==
  ASSUME rows \in Seq(Row), NEW r \in Row, rows' = Append(rows, r)
  PROVE  /\ rows' \in Seq(Row)
         /\ DOMAIN rows = 1 .. Len(rows)
         /\ DOMAIN rows' = 1 .. (Len(rows) + 1)
         /\ Len(rows) \in Nat
         /\ DOMAIN rows \subseteq DOMAIN rows'
         /\ Len(rows') = Len(rows) + 1
         /\ \A i \in DOMAIN rows : rows'[i] = rows[i]
         /\ rows'[Len(rows) + 1] = r
<1>1. Len(rows) \in Nat /\ DOMAIN rows = 1 .. Len(rows)
  BY LenProperties
<1>2. /\ rows' \in Seq(Row) /\ Len(rows') = Len(rows) + 1
      /\ \A i \in 1 .. Len(rows) : rows'[i] = rows[i]
      /\ rows'[Len(rows) + 1] = r
  BY AppendProperties
<1>3. DOMAIN rows' = 1 .. (Len(rows) + 1)
  BY <1>2, LenProperties
<1>. QED  BY <1>1, <1>2, <1>3

\* So does the update of one row.
LEMMA UpdateRow ==
  ASSUME rows \in Seq(Row), NEW i \in DOMAIN rows, NEW r \in Row,
         rows' = [rows EXCEPT ![i] = r]
  PROVE  /\ rows' \in Seq(Row)
         /\ DOMAIN rows = 1 .. Len(rows)
         /\ DOMAIN rows' = DOMAIN rows
         /\ Len(rows') = Len(rows)
         /\ \A j \in DOMAIN rows : rows'[j] = IF j = i THEN r ELSE rows[j]
<1>1. DOMAIN rows = 1 .. Len(rows)
  BY LenProperties
<1>2. /\ rows' \in Seq(Row) /\ Len(rows') = Len(rows)
      /\ \A j \in 1 .. Len(rows) : rows'[j] = IF j = i THEN r ELSE rows[j]
  BY <1>1, ExceptSeq
<1>. QED  BY <1>1, <1>2

\* The rows the code writes are rows.
LEMMA RowTypes ==
  ASSUME NEW r \in Row, NEW b \in Counter
  PROVE  /\ WithCounters(r, b) \in Row
         /\ [r EXCEPT !.sample = b] \in Row
         /\ WithCounters([r EXCEPT !.sample = b], b) \in Row
         /\ ClosedByScraper(r) \in Row
BY DEF Row, WithCounters, ClosedByScraper

\* The moves of the scraper between the states of its control, field by field.
LEMMA MoveFound ==
  ASSUME scraper \in Scraper, NEW c \in Conns, NEW i \in Nat,
         scraper' = [scraper EXCEPT !.pc = "update", !.todo = @ \ {c}, !.cur = c, !.row = i]
  PROVE  /\ scraper' \in Scraper
         /\ scraper'.pc = "update" /\ scraper'.cur = c /\ scraper'.row = i
         /\ scraper'.todo = scraper.todo \ {c}
         /\ scraper'.missing = scraper.missing /\ scraper'.seen = scraper.seen
         /\ scraper'.snap = scraper.snap
<1>1. scraper' \in Scraper
  BY DEF Scraper
<1>. QED  BY <1>1 DEF Scraper

\* upsertSession, its query, without a match: the insert comes next.
LEMMA MoveNotFound ==
  ASSUME scraper \in Scraper, NEW c \in Conns,
         scraper' = [scraper EXCEPT !.pc = "insert", !.todo = @ \ {c}, !.cur = c]
  PROVE  /\ scraper' \in Scraper
         /\ scraper'.pc = "insert" /\ scraper'.cur = c
         /\ scraper'.todo = scraper.todo \ {c}
         /\ scraper'.missing = scraper.missing /\ scraper'.seen = scraper.seen
         /\ scraper'.snap = scraper.snap
<1>1. scraper' \in Scraper
  BY DEF Scraper
<1>. QED  BY <1>1 DEF Scraper

\* upsertSession, its insert: the new row is the session at hand.
LEMMA MoveInserted ==
  ASSUME scraper \in Scraper, NEW i \in Nat,
         scraper' = [scraper EXCEPT !.pc = "update", !.row = i]
  PROVE  /\ scraper' \in Scraper
         /\ scraper'.pc = "update" /\ scraper'.row = i /\ scraper'.cur = scraper.cur
         /\ scraper'.todo = scraper.todo
         /\ scraper'.missing = scraper.missing /\ scraper'.seen = scraper.seen
         /\ scraper'.snap = scraper.snap
<1>1. scraper' \in Scraper
  BY DEF Scraper
<1>. QED  BY <1>1 DEF Scraper

\* upsertSession fails: the client is skipped, and not among the seen.
LEMMA MoveSkipped ==
  ASSUME scraper \in Scraper,
         scraper' = [scraper EXCEPT !.pc = "scan", !.cur = NoConn]
  PROVE  /\ scraper' \in Scraper
         /\ scraper'.pc = "scan" /\ scraper'.cur = NoConn
         /\ scraper'.todo = scraper.todo
         /\ scraper'.missing = scraper.missing /\ scraper'.seen = scraper.seen
         /\ scraper'.snap = scraper.snap
<1>1. scraper' \in Scraper
  BY DEF Scraper
<1>. QED  BY <1>1 DEF Scraper

\* The end of the loop body: the session counts as seen.
LEMMA MoveUpdated ==
  ASSUME scraper \in Scraper, NEW i \in Nat,
         scraper' = [scraper EXCEPT !.pc = "scan", !.seen = @ \cup {i}, !.cur = NoConn, !.row = 0]
  PROVE  /\ scraper' \in Scraper
         /\ scraper'.pc = "scan" /\ scraper'.cur = NoConn
         /\ scraper'.seen = scraper.seen \cup {i} /\ scraper'.todo = scraper.todo
         /\ scraper'.missing = scraper.missing /\ scraper'.snap = scraper.snap
<1>1. scraper' \in Scraper
  BY DEF Scraper
<1>. QED  BY <1>1 DEF Scraper

\* closeMissingSessions has its list.
LEMMA MoveListed ==
  ASSUME scraper \in Scraper, NEW S \in SUBSET Nat,
         scraper' = [scraper EXCEPT !.pc = "close", !.seen = {}, !.missing = S]
  PROVE  /\ scraper' \in Scraper
         /\ scraper'.pc = "close" /\ scraper'.missing = S
         /\ scraper'.todo = scraper.todo
         /\ scraper'.cur = scraper.cur /\ scraper'.snap = scraper.snap
<1>1. scraper' \in Scraper
  BY DEF Scraper
<1>. QED  BY <1>1 DEF Scraper

\* One row of the list is dealt with.
LEMMA MoveClosed ==
  ASSUME scraper \in Scraper, NEW i \in Nat,
         scraper' = [scraper EXCEPT !.missing = @ \ {i}]
  PROVE  /\ scraper' \in Scraper
         /\ scraper'.pc = scraper.pc /\ scraper'.missing = scraper.missing \ {i}
         /\ scraper'.todo = scraper.todo
         /\ scraper'.cur = scraper.cur /\ scraper'.snap = scraper.snap
<1>1. scraper' \in Scraper
  BY DEF Scraper
<1>. QED  BY <1>1 DEF Scraper

\* Init, and the values the scraper and the hooks are reset to.
LEMMA InitTypes == Init => TypeInv
<1>1. NoListing \in Listing /\ Idle \in Scraper
  BY BoundsAssumption DEF NoListing, Idle, Listing, Scraper, Counter
<1>2. <<>> \in Seq(Row)
  BY EmptySeq
<1>. QED
  BY <1>1, <1>2, BoundsAssumption
  DEF Init, TypeInv, TypeOK, HandlesOK, Idle, Counter, Hook

\* What OpenVPN does touches neither the table nor the scraper.
LEMMA OpenVpnTypes ==
  ASSUME TypeInv
  PROVE  /\ \A c \in Conns : Connect(c) \/ Transfer(c) \/ Disconnect(c) \/ HookLost(c)
                                => TypeInv'
         /\ WriteStatus => TypeInv'
<1>. USE DEF TypeInv, TypeOK, HandlesOK
<1>1. ASSUME NEW c \in Conns, Connect(c) PROVE TypeInv'
  BY <1>1, BoundsAssumption DEF Connect, Counter
<1>2. ASSUME NEW c \in Conns, Transfer(c) PROVE TypeInv'
  <2>1. conn[c].bytes + 1 \in Counter
    BY <1>2, BoundsAssumption DEF Transfer, Counter
  <2>2. conn' \in [Conns -> [state : {"idle", "up", "down"}, at : 0 .. MaxTime,
                             bytes : Counter]]
    BY <1>2, <2>1 DEF Transfer
  <2>. QED  BY <1>2, <2>2 DEF Transfer
<1>3. ASSUME NEW c \in Conns, Disconnect(c) PROVE TypeInv'
  <2>1. conn' \in [Conns -> [state : {"idle", "up", "down"}, at : 0 .. MaxTime,
                             bytes : Counter]]
    BY <1>3 DEF Disconnect
  <2>2. PICK pc \in {"sent", "done"} : hook' = [hook EXCEPT ![c].pc = pc]
    BY <1>3 DEF Disconnect
  <2>3. hook' \in [Conns -> Hook] /\ \A d \in Conns : hook'[d].row = hook[d].row
    BY <2>2 DEF Hook
  <2>. QED  BY <1>3, <2>1, <2>3 DEF Disconnect
<1>4. ASSUME NEW c \in Conns, HookLost(c) PROVE TypeInv'
  <2>1. hook' \in [Conns -> Hook] /\ \A d \in Conns : hook'[d].row = hook[d].row
    BY <1>4 DEF HookLost, Hook
  <2>. QED  BY <1>4, <2>1 DEF HookLost
<1>5. ASSUME WriteStatus PROVE TypeInv'
  <2>1. file' \in Listing
    BY <1>5, BoundsAssumption DEF WriteStatus, Listing, Up, Counter
  <2>. QED  BY <1>5, <2>1 DEF WriteStatus
<1>. QED  BY <1>1, <1>2, <1>3, <1>4, <1>5

\* The scraper keeps its ids and clients valid.
LEMMA ScraperTypes ==
  ASSUME TypeInv, ScraperStep
  PROVE  TypeInv'
<1>. USE DEF TypeInv, TypeOK, HandlesOK, ScraperUnchanged, DbOk, DbFails
<1>0. /\ DOMAIN rows = 1 .. Len(rows) /\ Len(rows) \in Nat
      /\ NoListing \in Listing /\ Idle \in Scraper
  <2>1. DOMAIN rows = 1 .. Len(rows) /\ Len(rows) \in Nat
    BY LenProperties
  <2>. QED
    BY <2>1, BoundsAssumption DEF NoListing, Idle, Listing, Scraper, Counter
<1>1. ASSUME DbOk \/ DbFails PROVE dbErrors' \in 0 .. MaxDbErrors
  BY <1>1, BoundsAssumption
<1>2. CASE ReadStatus
  <2>1. scraper' \in Scraper /\ scraper'.pc = "scan" /\ scraper'.missing = {}
    BY <1>2, <1>0 DEF ReadStatus, Scraper, Listing, Idle
  <2>. QED  BY <1>2, <1>1, <2>1 DEF ReadStatus
<1>2a. CASE ReadPart
  <2>1. PICK part \in SUBSET file.clients :
          scraper' = [Idle EXCEPT !.pc = "scan", !.snap = [file EXCEPT !.clients = part],
                                  !.todo = part]
    BY <1>2a DEF ReadPart
  <2>2. [file EXCEPT !.clients = part] \in Listing /\ part \in SUBSET Conns
    BY <2>1 DEF Listing
  <2>3. scraper' \in Scraper /\ scraper'.pc = "scan" /\ scraper'.missing = {}
    BY <2>1, <2>2, <1>0 DEF Scraper, Idle
  <2>. QED  BY <1>2a, <1>1, <2>3 DEF ReadPart
<1>3. ASSUME NEW c \in Conns, FindSession(c) PROVE TypeInv'
  <2>1. ActiveSessions(KeyOf(c)) \subseteq DOMAIN rows
    BY DEF ActiveSessions, Active
  <2>2. CASE \E i \in ActiveSessions(KeyOf(c)) :
               scraper' = [scraper EXCEPT !.pc = "update", !.todo = @ \ {c},
                                          !.cur = c, !.row = i]
    <3>1. PICK i \in ActiveSessions(KeyOf(c)) :
               scraper' = [scraper EXCEPT !.pc = "update", !.todo = @ \ {c},
                                          !.cur = c, !.row = i]
      BY <2>2
    <3>2. i \in Nat /\ i \in DOMAIN rows
      BY <1>0, <2>1
    <3>3. /\ scraper' \in Scraper /\ scraper'.missing = scraper.missing
          /\ scraper'.cur = c /\ scraper'.row = i
      BY <3>1, <3>2, MoveFound
    <3>. QED  BY <1>3, <1>1, <3>2, <3>3 DEF FindSession
  <2>3. CASE scraper' = [scraper EXCEPT !.pc = "insert", !.todo = @ \ {c}, !.cur = c]
    <3>1. /\ scraper' \in Scraper /\ scraper'.missing = scraper.missing
          /\ scraper'.cur = c /\ scraper'.pc = "insert"
      BY <2>3, MoveNotFound
    <3>. QED  BY <1>3, <1>1, <3>1 DEF FindSession
  <2>. QED  BY <1>3, <2>2, <2>3 DEF FindSession
<1>4. CASE InsertSession
  <2>. DEFINE c == scraper.cur
              r == [cn |-> Name[c], ip |-> Addr[c], at |-> conn[c].at,
                    bytes |-> scraper.snap.bytes[c], status |-> "active",
                    sample |-> 0]
  <2>1. c \in Conns
    BY <1>4 DEF InsertSession
  <2>2. CASE DbFails /\ scraper' = [scraper EXCEPT !.pc = "scan", !.cur = NoConn]
             /\ UNCHANGED rows
    BY <1>4, <1>1, <2>2 DEF InsertSession, Scraper
  <2>3. CASE /\ rows' = Append(rows, r) /\ DbOk
             /\ scraper' = [scraper EXCEPT !.pc = "update", !.row = Len(rows) + 1]
    <3>1. r \in Row
      BY <2>1, ConnsAssumption, BoundsAssumption DEF Row, Scraper, Listing, Counter
    <3>. HIDE DEF r
    <3>2. /\ rows' \in Seq(Row) /\ DOMAIN rows \subseteq DOMAIN rows'
          /\ Len(rows) + 1 \in DOMAIN rows'
      BY <2>3, <3>1, <1>0, AppendRow
    <3>3. scraper' \in Scraper /\ scraper'.cur = c /\ scraper'.missing = scraper.missing
          /\ scraper'.row = Len(rows) + 1
      <4>1. Len(rows) + 1 \in Nat
        BY <1>0
      <4>. QED  BY <2>3, <4>1, MoveInserted
    <3>. QED  BY <1>4, <1>1, <2>1, <2>3, <3>2, <3>3 DEF InsertSession
  <2>. QED  BY <1>4, <2>2, <2>3 DEF InsertSession
<1>5. CASE UpdateCounters
  <2>. DEFINE i == scraper.row
              b == scraper.snap.bytes[scraper.cur]
  <2>1. i \in DOMAIN rows /\ i \in Nat /\ b \in Counter /\ rows[i] \in Row
    BY <1>5, <1>0, ElementOfSeq DEF UpdateCounters, Scraper, Listing
  <2>2. /\ scraper' \in Scraper /\ scraper'.pc = "scan"
        /\ scraper'.missing = scraper.missing
    BY <1>5, <2>1, MoveUpdated DEF UpdateCounters
  <2>3. \/ rows' = rows
        \/ \E r \in Row : rows' = [rows EXCEPT ![i] = r]
    <3>1. /\ WithCounters([rows[i] EXCEPT !.sample = b], b) \in Row
          /\ [rows[i] EXCEPT !.sample = b] \in Row
          /\ WithCounters(rows[i], b) \in Row
      BY <2>1, RowTypes
    <3>. QED  BY <1>5, <3>1 DEF UpdateCounters
  <2>4. rows' \in Seq(Row) /\ DOMAIN rows' = DOMAIN rows
    BY <2>1, <2>3, UpdateRow
  <2>. QED  BY <1>5, <1>1, <2>2, <2>4 DEF UpdateCounters
<1>6. CASE ListActive
  <2>1. CASE scraper' = [scraper EXCEPT !.pc = "close", !.seen = {},
                                        !.missing = Missing(scraper.seen)]
    <3>1. Missing(scraper.seen) \subseteq DOMAIN rows /\ Missing(scraper.seen) \in SUBSET Nat
      BY <1>0 DEF Missing, Active
    <3>2. /\ scraper' \in Scraper /\ scraper'.pc = "close"
          /\ scraper'.missing = Missing(scraper.seen)
      BY <2>1, <3>1, MoveListed
    <3>. QED  BY <1>6, <1>1, <3>1, <3>2 DEF ListActive
  <2>2. CASE scraper' = Idle
    BY <1>6, <1>1, <1>0, <2>2 DEF ListActive, Idle
  <2>. QED  BY <1>6, <2>1, <2>2 DEF ListActive
<1>7. ASSUME NEW i \in DOMAIN rows, CloseMissing(i) PROVE TypeInv'
  <2>1. i \in Nat /\ rows[i] \in Row
    BY <1>0, ElementOfSeq
  <2>2. /\ scraper' \in Scraper /\ scraper'.pc = "close"
        /\ scraper'.missing = scraper.missing \ {i}
    BY <1>7, <2>1, MoveClosed DEF CloseMissing
  <2>3. rows' \in Seq(Row) /\ DOMAIN rows' = DOMAIN rows
    <3>1. ClosedByScraper(rows[i]) \in Row
      BY <2>1 DEF ClosedByScraper, Row
    <3>. QED  BY <1>7, <3>1, UpdateRow DEF CloseMissing
  <2>. QED  BY <1>7, <1>1, <2>2, <2>3 DEF CloseMissing
<1>8. CASE FinishScrape
  BY <1>8, <1>1, <1>0 DEF FinishScrape, Idle
<1>. QED
  BY <1>2, <1>2a, <1>3, <1>4, <1>5, <1>6, <1>7, <1>8 DEF ScraperStep

\* So do the webhook handlers.
LEMMA HookTypes ==
  ASSUME TypeInv, NEW c \in Conns, HookStep(c)
  PROVE  TypeInv'
<1>. USE DEF TypeInv, TypeOK, HandlesOK, HookUnchanged, DbOk, DbFails
<1>0. DOMAIN rows = 1 .. Len(rows) /\ Len(rows) \in Nat
  BY LenProperties
<1>1. ASSUME DbOk \/ DbFails PROVE dbErrors' \in 0 .. MaxDbErrors
  BY <1>1, BoundsAssumption
<1>2. ASSUME NEW pc \in {"fallback", "write"}, NEW i \in {0} \cup DOMAIN rows,
             hook' = [hook EXCEPT ![c] = [pc |-> pc, row |-> i]],
             UNCHANGED rows, HookUnchanged, DbOk \/ DbFails
      PROVE  TypeInv'
  <2>1. [pc |-> pc, row |-> i] \in Hook
    BY <1>0 DEF Hook
  <2>2. /\ hook' \in [Conns -> Hook]
        /\ \A d \in Conns : hook'[d] = IF d = c THEN [pc |-> pc, row |-> i] ELSE hook[d]
    BY <1>2, <2>1
  <2>. QED  BY <1>1, <1>2, <2>2
<1>3. CASE HookMatch(c)
  <2>1. ActiveSessions(KeyOf(c)) \subseteq DOMAIN rows
    BY DEF ActiveSessions, Active
  <2>. QED  BY <1>2, <1>3, <2>1 DEF HookMatch
<1>4. CASE HookFallback(c)
  <2>1. NewestOf(ActiveByCN(Name[c])) \subseteq DOMAIN rows
    BY DEF NewestOf, ActiveByCN, Active
  <2>. QED  BY <1>2, <1>4, <2>1 DEF HookFallback
<1>5. CASE HookWrite(c)
  <2>. DEFINE i == hook[c].row
              r == [cn |-> Name[c], ip |-> Addr[c], at |-> conn[c].at,
                    bytes |-> conn[c].bytes, status |-> "closed",
                    sample |-> 0]
  <2>1. rows' \in Seq(Row) /\ DOMAIN rows \subseteq DOMAIN rows'
    <3>1. CASE i # 0 /\ rows' = [rows EXCEPT ![i] = ClosedByHook(@, c)]
      <4>1. i \in DOMAIN rows /\ rows[i] \in Row
        BY <1>0, <3>1, ElementOfSeq
      <4>2. ClosedByHook(rows[i], c) \in Row
        BY <4>1, ConnsAssumption DEF ClosedByHook, Row
      <4>. QED  BY <3>1, <4>1, <4>2, UpdateRow
    <3>2. CASE rows' = Append(rows, r)
      <4>1. r \in Row
        BY ConnsAssumption, BoundsAssumption DEF Row, Counter
      <4>. HIDE DEF r
      <4>. QED  BY <3>2, <4>1, AppendRow
    <3>3. CASE UNCHANGED rows
      BY <3>3
    <3>. QED  BY <1>5, <3>1, <3>2, <3>3 DEF HookWrite
  <2>2. [pc |-> "done", row |-> 0] \in Hook
    BY DEF Hook
  <2>3. /\ hook' \in [Conns -> Hook]
        /\ \A d \in Conns : hook'[d] = IF d = c THEN [pc |-> "done", row |-> 0] ELSE hook[d]
    BY <1>5, <2>2 DEF HookWrite
  <2>4. DbOk \/ DbFails
    BY <1>5 DEF HookWrite
  <2>. QED  BY <1>1, <1>5, <2>1, <2>3, <2>4 DEF HookWrite
<1>. QED
  BY <1>3, <1>4, <1>5 DEF HookStep

\* A restart drops the state of the scraper and of the requests being served.
LEMMA RestartTypes == TypeInv /\ Restart => TypeInv'
<1>. SUFFICES ASSUME TypeInv, Restart PROVE TypeInv'
  OBVIOUS
<1>. USE DEF TypeInv, TypeOK, HandlesOK
<1>1. Idle \in Scraper
  BY BoundsAssumption DEF NoListing, Idle, Listing, Scraper, Counter
<1>2. hook' \in [Conns -> Hook] /\ \A c \in Conns : hook'[c].row \in {0, hook[c].row}
  BY DEF Restart, Hook
<1>. QED
  BY <1>1, <1>2, BoundsAssumption DEF Restart, Idle

\* Each step of the system, and each step that changes nothing, keeps the types.
LEMMA StepTypes == TypeInv /\ [Next]_vars => TypeInv'
<1>1. TypeInv /\ UNCHANGED vars => TypeInv'
  BY DEF TypeInv, TypeOK, HandlesOK, vars
<1>. QED
  BY <1>1, OpenVpnTypes, ScraperTypes, HookTypes, RestartTypes DEF Next

\* The state always has its type: the ids and clients that the scraper and the
\* webhooks carry from one database call to the next stay valid.
THEOREM TypeCorrect == Spec => []TypeOK
<1>1. TypeInv => TypeOK
  BY DEF TypeInv
<1>. QED
  BY <1>1, InitTypes, StepTypes, PTL DEF Spec

-----------------------------------------------------------------------------
(* What a step does to the table.  Every step leaves the rows alone, adds  *)
(* one, or updates one; an update does not make a row active, and does not *)
(* change what identifies an active one.                                   *)

Kept(i, r) ==
  r.status = "active" => rows[i].status = "active" /\ RowKey(r) = RowKey(rows[i])

Updated == \E i \in DOMAIN rows : \E r \in Row :
             Kept(i, r) /\ rows' = [rows EXCEPT ![i] = r]

Added == \E r \in Row :
           /\ r.status = "active" =>
                InsertSession /\ scraper.cur \in Conns /\ RowKey(r) = KeyOf(scraper.cur)
           /\ rows' = Append(rows, r)

\* What a step can do to the table: nothing, a new row, or a change of one row that
\* does not make it active.
LEMMA RowsStep ==
  ASSUME TypeInv, [Next]_vars
  PROVE  UNCHANGED rows \/ Updated \/ Added
<1>0. DOMAIN rows = 1 .. Len(rows) /\ rows \in Seq(Row) /\ \A i \in DOMAIN rows : rows[i] \in Row
  BY LenProperties, ElementOfSeq DEF TypeInv, TypeOK
<1>1. CASE UpdateCounters
  <2>. DEFINE i == scraper.row
              b == scraper.snap.bytes[scraper.cur]
  <2>1. i \in DOMAIN rows /\ b \in Counter /\ rows[i] \in Row
    BY <1>0, <1>1 DEF UpdateCounters, TypeInv, TypeOK, HandlesOK, Scraper, Listing
  <2>2. ASSUME NEW r \in {WithCounters([rows[i] EXCEPT !.sample = b], b),
                          [rows[i] EXCEPT !.sample = b], WithCounters(rows[i], b)}
        PROVE  r \in Row /\ Kept(i, r)
    BY <2>1 DEF Row, WithCounters, Kept, RowKey
  <2>3. UNCHANGED rows \/ \E r \in {WithCounters([rows[i] EXCEPT !.sample = b], b),
                          [rows[i] EXCEPT !.sample = b], WithCounters(rows[i], b)} :
                              rows' = [rows EXCEPT ![i] = r]
    BY <1>1 DEF UpdateCounters
  <2>. QED  BY <2>1, <2>2, <2>3 DEF Updated
<1>2. ASSUME NEW i \in DOMAIN rows, CloseMissing(i) PROVE UNCHANGED rows \/ Updated
  <2>1. ClosedByScraper(rows[i]) \in Row /\ Kept(i, ClosedByScraper(rows[i]))
    BY <1>0 DEF ClosedByScraper, Row, Kept
  <2>. QED  BY <1>2, <2>1 DEF CloseMissing, Updated
<1>3. ASSUME NEW c \in Conns, HookWrite(c) PROVE UNCHANGED rows \/ Updated \/ Added
  <2>. DEFINE i == hook[c].row
              r == [cn |-> Name[c], ip |-> Addr[c], at |-> conn[c].at,
                    bytes |-> conn[c].bytes, status |-> "closed",
                    sample |-> 0]
  <2>1. r \in Row /\ r.status = "closed"
    BY ConnsAssumption, BoundsAssumption DEF TypeInv, TypeOK, Row, Counter
  <2>2. ASSUME i # 0 PROVE /\ i \in DOMAIN rows /\ ClosedByHook(rows[i], c) \in Row
                           /\ Kept(i, ClosedByHook(rows[i], c))
    <3>1. i \in DOMAIN rows /\ rows[i] \in Row /\ conn[c].bytes \in Counter
      BY <1>0, <2>2 DEF TypeInv, TypeOK, HandlesOK
    <3>. QED  BY <3>1, ConnsAssumption DEF ClosedByHook, Row, Kept
  <2>3. \/ UNCHANGED rows
        \/ i # 0 /\ rows' = [rows EXCEPT ![i] = ClosedByHook(rows[i], c)]
        \/ rows' = Append(rows, r)
    BY <1>3 DEF HookWrite
  <2>. HIDE DEF r
  <2>. QED  BY <2>1, <2>2, <2>3 DEF Updated, Added
<1>4. CASE InsertSession
  <2>. DEFINE c == scraper.cur
              r == [cn |-> Name[c], ip |-> Addr[c], at |-> conn[c].at,
                    bytes |-> scraper.snap.bytes[c], status |-> "active",
                    sample |-> 0]
  <2>1. c \in Conns /\ scraper.pc = "insert"
    BY <1>4 DEF InsertSession, TypeInv, HandlesOK
  <2>2. r \in Row /\ RowKey(r) = KeyOf(c)
    BY <2>1, ConnsAssumption, BoundsAssumption
    DEF TypeInv, TypeOK, Row, Scraper, Listing, Counter, RowKey, KeyOf
  <2>3. UNCHANGED rows \/ rows' = Append(rows, r)
    BY <1>4 DEF InsertSession
  <2>. HIDE DEF r
  <2>. QED  BY <1>4, <2>1, <2>2, <2>3 DEF Added
<1>. QED
  BY <1>1, <1>2, <1>3, <1>4
  DEF Next, ScraperStep, HookStep, vars, Connect, Transfer, Disconnect, HookLost, WriteStatus,
      ReadStatus, ReadPart, FindSession, ListActive, FinishScrape, HookMatch, HookFallback, Restart

\* Sessions end for good: no write that follows a stale read reopens a row, whatever
\* the interleaving of scrapes, webhooks, restarts and failing database calls.
THEOREM SessionsStayClosed == Spec => NeverReopened
<1>1. TypeInv /\ [Next]_vars =>
        [\A i \in DOMAIN rows : rows[i].status = "closed" => rows'[i].status = "closed"]_vars
  <2>. SUFFICES ASSUME TypeInv, [Next]_vars, NEW i \in DOMAIN rows, rows[i].status = "closed"
                PROVE  rows'[i].status = "closed"
    OBVIOUS
  <2>1. rows \in Seq(Row)
    BY DEF TypeInv, TypeOK
  <2>2. CASE Updated
    <3>1. PICK j \in DOMAIN rows, r \in Row : Kept(j, r) /\ rows' = [rows EXCEPT ![j] = r]
      BY <2>2 DEF Updated
    <3>2. rows'[i] = IF i = j THEN r ELSE rows[i]
      BY <2>1, <3>1, UpdateRow
    <3>. QED  BY <3>1, <3>2 DEF Kept, Row
  <2>3. CASE Added
    BY <2>1, <2>3, AppendRow DEF Added
  <2>. QED  BY <2>2, <2>3, RowsStep
<1>. QED
  BY <1>1, InitTypes, StepTypes, PTL DEF Spec, NeverReopened

-----------------------------------------------------------------------------
(* One active row per connection, when no database call fails.  Between the *)
(* scraper's query and its insert no other party adds an active row, so    *)
(* what the query found stays true; and the connect time of a client the   *)
(* status file listed does not change any more.                            *)

Connected(c) == conn[c].state # "idle"

ListedConnected ==
  /\ \A c \in file.clients \cup scraper.snap.clients \cup scraper.todo : Connected(c)
  /\ scraper.cur \in Conns => Connected(scraper.cur)

InsertFresh ==
  scraper.pc = "insert" => \A i \in Active : RowKey(rows[i]) # KeyOf(scraper.cur)

UniqueInv == TypeInv /\ ListedConnected /\ InsertFresh /\ ActiveKeysUnique

\* A client the scraper may be told of has connected before.
LEMMA ConnectedStep ==
  ASSUME TypeInv, ListedConnected, [Next]_vars
  PROVE  ListedConnected'
<1>. USE DEF ListedConnected, Connected
<1>0. /\ scraper \in Scraper /\ file \in Listing
      /\ DOMAIN rows \subseteq Nat
  BY LenProperties DEF TypeInv, TypeOK
<1>1. ASSUME NEW c \in Conns, Connect(c) \/ Transfer(c) \/ Disconnect(c) PROVE ListedConnected'
  <2>1. \A d \in Conns : conn[d].state # "idle" => conn'[d].state # "idle"
    BY <1>1 DEF Connect, Transfer, Disconnect, TypeInv, TypeOK
  <2>2. UNCHANGED <<file, scraper>>
    BY <1>1 DEF Connect, Transfer, Disconnect
  <2>. QED  BY <1>0, <2>1, <2>2 DEF Listing, Scraper
<1>2. CASE WriteStatus
  BY <1>2 DEF WriteStatus, Up
<1>3. CASE ReadStatus
  BY <1>3, <1>0, ConnsAssumption DEF ReadStatus, ScraperUnchanged, Idle
<1>3a. CASE ReadPart
  <2>1. PICK part \in SUBSET file.clients :
          scraper' = [Idle EXCEPT !.pc = "scan", !.snap = [file EXCEPT !.clients = part],
                                  !.todo = part]
    BY <1>3a DEF ReadPart
  <2>2. scraper'.snap.clients = part /\ scraper'.todo = part /\ scraper'.cur = NoConn
    BY <2>1, <1>0 DEF Idle, Listing
  <2>3. part \subseteq file.clients /\ UNCHANGED <<conn, file>>
    BY <2>1, <1>3a DEF ReadPart, ScraperUnchanged
  <2>. QED  BY <2>2, <2>3, ConnsAssumption
<1>4. ASSUME NEW c \in Conns, FindSession(c) PROVE ListedConnected'
  <2>1. c \in scraper.todo /\ UNCHANGED <<conn, file>>
    BY <1>4 DEF FindSession, ScraperUnchanged
  <2>2. scraper'.snap = scraper.snap /\ scraper'.todo \subseteq scraper.todo /\ scraper'.cur = c
    BY <1>4, <1>0 DEF FindSession, Scraper
  <2>. QED  BY <2>1, <2>2
<1>5. CASE InsertSession
  BY <1>5, <1>0, ConnsAssumption DEF InsertSession, ScraperUnchanged, Scraper
<1>6. CASE UpdateCounters
  <2>1. /\ scraper'.snap = scraper.snap /\ scraper'.todo = scraper.todo
        /\ scraper'.cur = NoConn
    BY <1>6, <1>0 DEF UpdateCounters, Scraper
  <2>. QED  BY <1>6, <2>1, ConnsAssumption DEF UpdateCounters, ScraperUnchanged
<1>7. CASE ListActive
  <2>1. \/ /\ scraper'.snap = scraper.snap /\ scraper'.todo = scraper.todo
           /\ scraper'.cur = scraper.cur
        \/ scraper' = Idle
    BY <1>7, <1>0 DEF ListActive, Scraper
  <2>. QED  BY <1>7, <2>1, ConnsAssumption DEF ListActive, ScraperUnchanged, Idle, NoListing
<1>8. ASSUME NEW i \in DOMAIN rows, CloseMissing(i) PROVE ListedConnected'
  BY <1>8, <1>0 DEF CloseMissing, ScraperUnchanged, Scraper
<1>9. CASE FinishScrape \/ Restart
  BY <1>9, ConnsAssumption DEF FinishScrape, Restart, ScraperUnchanged, Idle, NoListing
<1>10. ASSUME NEW c \in Conns, HookLost(c) \/ HookStep(c) PROVE ListedConnected'
  BY <1>10 DEF HookLost, HookStep, HookMatch, HookFallback, HookWrite, HookUnchanged
<1>11. CASE UNCHANGED vars
  BY <1>11 DEF vars
<1>. QED
  BY <1>1, <1>2, <1>3, <1>3a, <1>4, <1>5, <1>6, <1>7, <1>8, <1>9, <1>10, <1>11
  DEF Next, ScraperStep

\* The active rows after a step, and what identifies them.
LEMMA ActiveStep ==
  ASSUME TypeInv, [Next]_vars
  PROVE  \A i \in Active' :
           \/ i \in Active /\ RowKey(rows'[i]) = RowKey(rows[i])
           \/ /\ i = Len(rows) + 1
              /\ InsertSession /\ scraper.cur \in Conns
              /\ RowKey(rows'[i]) = KeyOf(scraper.cur)
<1>1. rows \in Seq(Row)
  BY DEF TypeInv, TypeOK
<1>2. CASE UNCHANGED rows
  BY <1>2 DEF Active
<1>3. CASE Updated
  <2>1. PICK j \in DOMAIN rows, r \in Row : Kept(j, r) /\ rows' = [rows EXCEPT ![j] = r]
    BY <1>3 DEF Updated
  <2>2. DOMAIN rows' = DOMAIN rows /\ \A i \in DOMAIN rows : rows'[i] = IF i = j THEN r ELSE rows[i]
    BY <1>1, <2>1, UpdateRow
  <2>. QED  BY <2>1, <2>2 DEF Active, Kept
<1>4. CASE Added
  <2>1. PICK r \in Row : /\ r.status = "active" =>
                              InsertSession /\ scraper.cur \in Conns
                                /\ RowKey(r) = KeyOf(scraper.cur)
                         /\ rows' = Append(rows, r)
    BY <1>4 DEF Added
  <2>2. /\ DOMAIN rows = 1 .. Len(rows) /\ DOMAIN rows' = 1 .. (Len(rows) + 1)
        /\ Len(rows) \in Nat
        /\ \A i \in DOMAIN rows : rows'[i] = rows[i]
        /\ rows'[Len(rows) + 1] = r
    BY <1>1, <2>1, AppendRow
  <2>. QED  BY <1>4, <2>1, <2>2 DEF Active
<1>. QED
  BY <1>2, <1>3, <1>4, RowsStep

\* While the scraper is about to insert, what its query found stays true.
LEMMA FreshStep ==
  ASSUME UniqueInv, MaxDbErrors = 0, [Next]_vars
  PROVE  InsertFresh'
<1>. USE DEF UniqueInv, TypeInv, TypeOK
<1>0. scraper \in Scraper /\ dbErrors = 0
  BY BoundsAssumption
<1>1. ASSUME NEW c \in Conns, FindSession(c) PROVE InsertFresh'
  <2>0. ~ DbFails
    BY <1>0 DEF DbFails
  <2>1. UNCHANGED <<rows, conn>>
    BY <1>1 DEF FindSession, ScraperUnchanged
  <2>2. CASE /\ ActiveSessions(KeyOf(c)) = {}
             /\ scraper' = [scraper EXCEPT !.pc = "insert", !.todo = @ \ {c}, !.cur = c]
    <3>1. scraper'.cur = c
      BY <1>0, <2>2 DEF Scraper
    <3>. QED  BY <2>1, <2>2, <3>1 DEF InsertFresh, ActiveSessions, Active, KeyOf
  <2>3. CASE \E i \in ActiveSessions(KeyOf(c)) :
               scraper' = [scraper EXCEPT !.pc = "update", !.todo = @ \ {c},
                                          !.cur = c, !.row = i]
    BY <1>0, <2>3 DEF InsertFresh, Scraper
  <2>. QED  BY <1>1, <2>0, <2>2, <2>3 DEF FindSession
<1>2. ASSUME UNCHANGED scraper, scraper.pc = "insert" => UNCHANGED KeyOf(scraper.cur),
             ~ InsertSession
      PROVE  InsertFresh'
  <2>. SUFFICES ASSUME scraper.pc = "insert", NEW i \in Active'
                PROVE  RowKey(rows'[i]) # KeyOf(scraper.cur)'
    BY <1>2 DEF InsertFresh
  <2>2. i \in Active /\ RowKey(rows'[i]) = RowKey(rows[i])
    BY <1>2, ActiveStep
  <2>. QED  BY <1>2, <2>2 DEF InsertFresh
<1>3. CASE scraper'.pc # "insert"
  BY <1>3 DEF InsertFresh
<1>4. ASSUME NEW c \in Conns, Connect(c) \/ Transfer(c) \/ Disconnect(c) PROVE InsertFresh'
  <2>1. UNCHANGED scraper /\ ~ InsertSession
    BY <1>4, <1>0 DEF Connect, Transfer, Disconnect, InsertSession, Scraper
  <2>2. scraper.pc = "insert" => UNCHANGED KeyOf(scraper.cur)
    <3>. SUFFICES ASSUME scraper.pc = "insert" PROVE conn'[scraper.cur].at = conn[scraper.cur].at
      BY <2>1 DEF KeyOf
    <3>1. scraper.cur \in Conns /\ conn[scraper.cur].state # "idle"
      BY DEF HandlesOK, ListedConnected, Connected
    <3>2. ASSUME NEW d \in Conns, conn[d].state # "idle" PROVE conn'[d].at = conn[d].at
      <4>1. CASE Connect(c)
        BY <3>2, <4>1 DEF Connect
      <4>2. CASE Transfer(c)
        BY <3>2, <4>2 DEF Transfer
      <4>3. CASE Disconnect(c)
        BY <3>2, <4>3 DEF Disconnect
      <4>. QED  BY <1>4, <4>1, <4>2, <4>3
    <3>. QED  BY <3>1, <3>2
  <2>. QED  BY <1>2, <2>1, <2>2
<1>5. CASE WriteStatus \/ UNCHANGED vars \/ \E c \in Conns : HookLost(c) \/ HookStep(c)
  <2>1. UNCHANGED <<scraper, conn>>
    BY <1>5 DEF WriteStatus, vars, HookLost, HookStep, HookMatch, HookFallback, HookWrite,
                HookUnchanged
  <2>2. ~ InsertSession
    BY <2>1, <1>0 DEF InsertSession, Scraper
  <2>. QED  BY <1>2, <2>1, <2>2 DEF KeyOf
<1>6. CASE ReadStatus \/ ReadPart \/ InsertSession \/ UpdateCounters \/ ListActive \/ FinishScrape \/ Restart
  <2>0. CASE ReadPart
    <3>1. PICK part \in SUBSET file.clients :
            scraper' = [Idle EXCEPT !.pc = "scan", !.snap = [file EXCEPT !.clients = part],
                                    !.todo = part]
      BY <2>0 DEF ReadPart
    <3>2. scraper'.pc = "scan"
      BY <3>1 DEF Idle
    <3>. QED  BY <3>2, <1>3
  <2>1. CASE ReadStatus \/ FinishScrape \/ Restart
    <3>1. Idle.pc = "idle" /\ [Idle EXCEPT !.pc = "scan", !.snap = file, !.todo = file.clients].pc = "scan"
      BY DEF Idle
    <3>2. scraper'.pc \in {"scan", "idle"}
      BY <2>1, <3>1 DEF ReadStatus, FinishScrape, Restart
    <3>. QED  BY <3>2, <1>3
  <2>2. CASE InsertSession
    <3>1. scraper'.pc \in {"update", "scan"}
      BY <2>2, <1>0 DEF InsertSession, Scraper
    <3>. QED  BY <3>1, <1>3
  <2>3. CASE UpdateCounters
    <3>1. scraper'.pc = "scan"
      BY <2>3, <1>0 DEF UpdateCounters, Scraper
    <3>. QED  BY <3>1, <1>3
  <2>4. CASE ListActive
    <3>1. scraper'.pc = "close" \/ scraper' = Idle
      BY <2>4, <1>0 DEF ListActive, Scraper
    <3>. QED  BY <3>1, <1>3 DEF Idle
  <2>. QED  BY <1>6, <2>0, <2>1, <2>2, <2>3, <2>4
<1>7. ASSUME NEW i \in DOMAIN rows, CloseMissing(i) PROVE InsertFresh'
  BY <1>0, <1>3, <1>7 DEF CloseMissing, Scraper
<1>. QED
  BY <1>1, <1>4, <1>5, <1>6, <1>7 DEF Next, ScraperStep

\* A step keeps the keys of the active rows apart.
LEMMA UniqueStep ==
  ASSUME MaxDbErrors = 0
  PROVE  /\ Init => UniqueInv
         /\ UniqueInv /\ [Next]_vars => UniqueInv'
<1>1. Init => UniqueInv
  <2>. SUFFICES ASSUME Init PROVE UniqueInv
    OBVIOUS
  <2>1. TypeInv
    BY InitTypes
  <2>2. Active = {}
    BY DEF Init, Active
  <2>3. ListedConnected
    BY ConnsAssumption DEF Init, ListedConnected, Idle, NoListing
  <2>. QED  BY <2>1, <2>2, <2>3 DEF UniqueInv, InsertFresh, ActiveKeysUnique
<1>2. UniqueInv /\ [Next]_vars => UniqueInv'
  <2>. SUFFICES ASSUME UniqueInv, [Next]_vars PROVE UniqueInv'
    OBVIOUS
  <2>1. TypeInv' /\ ListedConnected' /\ InsertFresh'
    BY StepTypes, ConnectedStep, FreshStep DEF UniqueInv
  <2>2. ActiveKeysUnique'
    <3>. SUFFICES ASSUME NEW i \in Active', NEW j \in Active', RowKey(rows'[i]) = RowKey(rows'[j])
                  PROVE  i = j
      BY DEF ActiveKeysUnique, RowKey
    <3>1. InsertSession => \A k \in Active : RowKey(rows[k]) # KeyOf(scraper.cur)
      BY DEF UniqueInv, InsertFresh, InsertSession
    <3>. QED  BY <3>1, ActiveStep DEF UniqueInv, ActiveKeysUnique
  <2>. QED  BY <2>1, <2>2 DEF UniqueInv
<1>. QED  BY <1>1, <1>2

\* One active session for each connection: with a database that answers, the
\* scraper's query and its insert act as one, although webhooks and restarts
\* fall between them.
THEOREM OneActiveSession ==
  ASSUME MaxDbErrors = 0
  PROVE  Spec => []ActiveKeysUnique
<1>1. UniqueInv => ActiveKeysUnique
  BY DEF UniqueInv
<1>. QED
  BY <1>1, UniqueStep, PTL DEF Spec

-----------------------------------------------------------------------------
(* The sweep, when no database call fails: while the scrape goes through    *)
(* the listed clients, the active rows of those it is through with are      *)
(* among the rows it has seen, and an active row it has seen is that of a   *)
(* listed client.  Rows closed meanwhile leave both statements true.        *)

Pending == scraper.todo \cup (IF scraper.pc = "scan" THEN {} ELSE {scraper.cur})
Met     == scraper.seen \cup (IF scraper.pc = "update" THEN {scraper.row} ELSE {})

IsListed(i) == \E c \in scraper.snap.clients : RowKey(rows[i]) = KeyOf(c)

ScanInv ==
  scraper.pc \in {"scan", "insert", "update"} =>
    /\ Pending \subseteq scraper.snap.clients
    /\ \A i \in scraper.seen \cap Active : IsListed(i)
    /\ \A c \in scraper.snap.clients \ Pending : \A i \in Active :
         RowKey(rows[i]) = KeyOf(c) => i \in Met
    /\ scraper.pc = "update" =>
         \A i \in Active : RowKey(rows[i]) = KeyOf(scraper.cur) <=> i = scraper.row

CloseInv ==
  scraper.pc = "close" =>
    \A i \in Active : i \in scraper.missing <=> ~ IsListed(i)

SweepInv == UniqueInv /\ ScanInv /\ CloseInv

\* The connect time of a client that has connected stays.
LEMMA KeyStable ==
  ASSUME TypeInv, [Next]_vars, NEW c \in Conns, Connected(c)
  PROVE  KeyOf(c)' = KeyOf(c)
<1>. SUFFICES conn'[c].at = conn[c].at
  BY DEF KeyOf
<1>1. ASSUME NEW d \in Conns, Connect(d) \/ Transfer(d) \/ Disconnect(d)
      PROVE  conn'[c].at = conn[c].at
  <2>0. conn \in [Conns -> [state : {"idle", "up", "down"}, at : 0 .. MaxTime,
                            bytes : Counter]]
    BY DEF TypeInv, TypeOK
  <2>1. CASE Connect(d)
    BY <2>0, <2>1 DEF Connect, Connected
  <2>2. CASE Transfer(d)
    BY <2>0, <2>2 DEF Transfer
  <2>3. CASE Disconnect(d)
    BY <2>0, <2>3 DEF Disconnect
  <2>. QED  BY <1>1, <2>1, <2>2, <2>3
<1>2. CASE UNCHANGED conn
  BY <1>2
<1>3. CASE WriteStatus \/ ScraperStep \/ Restart
  BY <1>3, <1>2 DEF WriteStatus, ScraperStep, Restart, ReadStatus, ReadPart, FindSession,
     InsertSession, UpdateCounters, ListActive, CloseMissing, FinishScrape, ScraperUnchanged
<1>4. ASSUME NEW d \in Conns, HookLost(d) \/ HookStep(d) PROVE conn'[c].at = conn[c].at
  BY <1>4, <1>2 DEF HookLost, HookStep, HookMatch, HookFallback, HookWrite, HookUnchanged
<1>. QED
  BY <1>1, <1>2, <1>3, <1>4 DEF Next, vars

\* What the scraper was told stays what it was.
LEMMA ListedStable ==
  ASSUME TypeInv, ListedConnected, [Next]_vars, NEW c \in scraper.snap.clients
  PROVE  KeyOf(c)' = KeyOf(c)
<1>1. c \in Conns
  BY DEF TypeInv, TypeOK, Scraper, Listing
<1>2. Connected(c)
  BY DEF ListedConnected
<1>. QED
  BY <1>1, <1>2, KeyStable

\* Steps of the other parties close rows and record closed ones.
LEMMA SweepFrame ==
  ASSUME SweepInv, [Next]_vars, UNCHANGED scraper, ~ InsertSession
  PROVE  ScanInv' /\ CloseInv'
<1>1. \A i \in Active' : i \in Active /\ RowKey(rows'[i]) = RowKey(rows[i])
  BY ActiveStep DEF SweepInv, UniqueInv
<1>2. \A c \in scraper.snap.clients : KeyOf(c)' = KeyOf(c)
  BY ListedStable DEF SweepInv, UniqueInv
<1>3. \A i \in Active' : IsListed(i)' <=> IsListed(i)
  BY <1>1, <1>2 DEF IsListed, RowKey
<1>4. Pending' = Pending /\ Met' = Met
  BY DEF Pending, Met
<1>5. CloseInv'
  BY <1>1, <1>3 DEF CloseInv, SweepInv
<1>6. ScanInv'
  <2>. SUFFICES ASSUME scraper.pc \in {"scan", "insert", "update"} PROVE ScanInv'
    BY DEF ScanInv
  <2>1. Pending' \subseteq scraper'.snap.clients
    BY <1>4 DEF ScanInv, SweepInv
  <2>2. \A i \in scraper'.seen \cap Active' : IsListed(i)'
    BY <1>1, <1>3 DEF ScanInv, SweepInv
  <2>3. \A c \in scraper.snap.clients \ Pending : \A i \in Active' :
          RowKey(rows'[i]) = KeyOf(c)' => i \in Met
    BY <1>1, <1>2 DEF ScanInv, SweepInv
  <2>4. scraper.pc = "update" =>
          \A i \in Active' : RowKey(rows'[i]) = KeyOf(scraper.cur)' <=> i = scraper.row
    <3>. SUFFICES ASSUME scraper.pc = "update", NEW i \in Active'
                  PROVE  RowKey(rows'[i]) = KeyOf(scraper.cur)' <=> i = scraper.row
      OBVIOUS
    <3>1. scraper.cur \in scraper.snap.clients
      BY DEF ScanInv, SweepInv, Pending
    <3>2. KeyOf(scraper.cur)' = KeyOf(scraper.cur)
      BY <3>1, <1>2
    <3>. QED  BY <1>1, <3>2 DEF ScanInv, SweepInv
  <2>. QED  BY <1>4, <2>1, <2>2, <2>3, <2>4 DEF ScanInv, RowKey
<1>. QED  BY <1>5, <1>6

\* The query of a listed client: what it finds is its only active row.
LEMMA SweepFind ==
  ASSUME SweepInv, MaxDbErrors = 0, [Next]_vars, NEW c \in Conns, FindSession(c)
  PROVE  ScanInv' /\ CloseInv'
<1>0. scraper \in Scraper /\ ~ DbFails
  BY BoundsAssumption DEF SweepInv, UniqueInv, TypeInv, TypeOK, DbFails
<1>1. UNCHANGED <<rows, conn>> /\ scraper.pc = "scan" /\ c \in scraper.todo
  BY DEF FindSession, ScraperUnchanged
<1>2. /\ scraper'.snap = scraper.snap /\ scraper'.seen = scraper.seen
      /\ scraper'.todo = scraper.todo \ {c} /\ scraper'.cur = c
      /\ \/ /\ scraper'.pc = "update"
            /\ scraper'.row \in ActiveSessions(KeyOf(c))
         \/ scraper'.pc = "insert" /\ ActiveSessions(KeyOf(c)) = {}
  BY <1>0 DEF FindSession, Scraper
<1>3. Pending' = scraper.todo /\ Pending = scraper.todo /\ scraper.seen \subseteq Met'
  BY <1>1, <1>2 DEF Pending, Met
<1>4. Met = scraper.seen
  BY <1>1 DEF Met
<1>5. /\ Active' = Active
      /\ \A i : RowKey(rows'[i]) = RowKey(rows[i]) /\ (IsListed(i)' <=> IsListed(i))
      /\ \A d : KeyOf(d)' = KeyOf(d)
  BY <1>1, <1>2 DEF Active, RowKey, KeyOf, IsListed
<1>6. scraper'.pc = "update" =>
        \A i \in Active' : RowKey(rows'[i]) = KeyOf(scraper.cur)' <=> i = scraper'.row
  <2>1. KeyOf(scraper.cur)' = KeyOf(c)
    BY <1>1, <1>2 DEF KeyOf
  <2>. QED  BY <1>2, <1>5, <2>1 DEF SweepInv, UniqueInv, ActiveKeysUnique, ActiveSessions
<1>7. ScanInv'
  <2>1. /\ Pending' \subseteq scraper'.snap.clients
        /\ \A i \in scraper'.seen \cap Active' : IsListed(i)'
    BY <1>1, <1>2, <1>3, <1>5 DEF SweepInv, ScanInv
  <2>2. \A d \in scraper'.snap.clients \ Pending' : \A i \in Active' :
          RowKey(rows'[i]) = KeyOf(d)' => i \in Met'
    BY <1>1, <1>2, <1>3, <1>4, <1>5 DEF SweepInv, ScanInv
  <2>. QED  BY <1>6, <2>1, <2>2 DEF ScanInv, RowKey
<1>. QED  BY <1>2, <1>7 DEF CloseInv

\* The insert adds the one active row of the client at hand.
LEMMA SweepInsert ==
  ASSUME SweepInv, MaxDbErrors = 0, [Next]_vars, InsertSession
  PROVE  ScanInv' /\ CloseInv'
<1>0. scraper \in Scraper /\ ~ DbFails /\ Len(rows) \in Nat /\ DOMAIN rows = 1 .. Len(rows)
  BY LenProperties, BoundsAssumption DEF SweepInv, UniqueInv, TypeInv, TypeOK, DbFails
<1>1. UNCHANGED conn /\ scraper.pc = "insert"
  BY DEF InsertSession, ScraperUnchanged
<1>2. /\ scraper'.snap = scraper.snap /\ scraper'.seen = scraper.seen
      /\ scraper'.todo = scraper.todo /\ scraper'.cur = scraper.cur
      /\ scraper'.pc = "update" /\ scraper'.row = Len(rows) + 1
  BY <1>0 DEF InsertSession, Scraper
<1>3. /\ Pending' = Pending /\ Met = scraper.seen
      /\ Met' = scraper.seen \cup {Len(rows) + 1}
      /\ scraper.cur \in scraper.snap.clients
  BY <1>1, <1>2 DEF Pending, Met, SweepInv, ScanInv
<1>4. \A d : KeyOf(d)' = KeyOf(d)
  BY <1>1 DEF KeyOf
<1>5. \A i \in Active' :
        \/ i \in Active /\ i # Len(rows) + 1 /\ RowKey(rows'[i]) = RowKey(rows[i])
        \/ i = Len(rows) + 1 /\ RowKey(rows'[i]) = KeyOf(scraper.cur)
  <2>1. \A i \in Active : i # Len(rows) + 1
    BY <1>0 DEF Active
  <2>. QED  BY <2>1, ActiveStep DEF SweepInv, UniqueInv
<1>6. \A i \in Active : RowKey(rows[i]) # KeyOf(scraper.cur)
  BY <1>1 DEF SweepInv, UniqueInv, InsertFresh
<1>7. ScanInv'
  <2>1. Pending' \subseteq scraper'.snap.clients
    BY <1>1, <1>2, <1>3 DEF SweepInv, ScanInv
  <2>2. \A i \in scraper'.seen \cap Active' : IsListed(i)'
    <3>. SUFFICES ASSUME NEW i \in scraper.seen \cap Active'
                  PROVE  \E d \in scraper.snap.clients : RowKey(rows'[i]) = KeyOf(d)
      BY <1>2, <1>4 DEF IsListed, RowKey
    <3>. QED  BY <1>1, <1>3, <1>5 DEF SweepInv, ScanInv, IsListed
  <2>3. \A d \in scraper'.snap.clients \ Pending' : \A i \in Active' :
          RowKey(rows'[i]) = KeyOf(d)' => i \in Met'
    BY <1>1, <1>2, <1>3, <1>4, <1>5 DEF SweepInv, ScanInv
  <2>4. \A i \in Active' : RowKey(rows'[i]) = KeyOf(scraper.cur)' <=> i = scraper'.row
    <3>1. KeyOf(scraper.cur)' = KeyOf(scraper.cur)
      BY <1>1, <1>2 DEF KeyOf
    <3>. QED  BY <1>2, <1>5, <1>6, <3>1
  <2>. QED  BY <2>1, <2>2, <2>3, <2>4 DEF ScanInv, RowKey
<1>. QED  BY <1>2, <1>7 DEF CloseInv

\* The client at hand is through, and its row has been seen.
LEMMA SweepUpdate ==
  ASSUME SweepInv, MaxDbErrors = 0, [Next]_vars, UpdateCounters
  PROVE  ScanInv' /\ CloseInv'
<1>0. scraper \in Scraper
  BY DEF SweepInv, UniqueInv, TypeInv, TypeOK
<1>1. UNCHANGED conn /\ scraper.pc = "update"
  BY DEF UpdateCounters, ScraperUnchanged
<1>2. /\ scraper'.snap = scraper.snap /\ scraper'.todo = scraper.todo
      /\ scraper'.seen = scraper.seen \cup {scraper.row} /\ scraper'.pc = "scan"
  BY <1>0 DEF UpdateCounters, Scraper
<1>3. /\ Pending = scraper.todo \cup {scraper.cur} /\ Pending' = scraper.todo
      /\ Met = scraper.seen \cup {scraper.row} /\ Met' = Met
      /\ scraper.cur \in scraper.snap.clients
  BY <1>1, <1>2 DEF Pending, Met, SweepInv, ScanInv
<1>4. \A d : KeyOf(d)' = KeyOf(d)
  BY <1>1 DEF KeyOf
<1>5. \A i \in Active' : i \in Active /\ RowKey(rows'[i]) = RowKey(rows[i])
  <2>1. ~ InsertSession
    BY <1>1 DEF InsertSession
  <2>. QED  BY <2>1, ActiveStep DEF SweepInv, UniqueInv
<1>6. \A i \in Active : RowKey(rows[i]) = KeyOf(scraper.cur) <=> i = scraper.row
  BY <1>1 DEF SweepInv, ScanInv
<1>7. ScanInv'
  <2>1. Pending' \subseteq scraper'.snap.clients
    BY <1>1, <1>2, <1>3 DEF SweepInv, ScanInv
  <2>2. \A i \in scraper'.seen \cap Active' : IsListed(i)'
    <3>. SUFFICES ASSUME NEW i \in (scraper.seen \cup {scraper.row}) \cap Active'
                  PROVE  \E d \in scraper.snap.clients : RowKey(rows'[i]) = KeyOf(d)
      BY <1>2, <1>4 DEF IsListed, RowKey
    <3>1. CASE i = scraper.row
      BY <3>1, <1>3, <1>5, <1>6
    <3>2. CASE i \in scraper.seen
      BY <3>2, <1>1, <1>5 DEF SweepInv, ScanInv, IsListed
    <3>. QED  BY <3>1, <3>2
  <2>3. \A d \in scraper'.snap.clients \ Pending' : \A i \in Active' :
          RowKey(rows'[i]) = KeyOf(d)' => i \in Met'
    <3>. SUFFICES ASSUME NEW d \in scraper.snap.clients \ scraper.todo, NEW i \in Active',
                         RowKey(rows[i]) = KeyOf(d)
                  PROVE  i \in Met
      BY <1>2, <1>3, <1>4, <1>5
    <3>1. CASE d = scraper.cur
      BY <3>1, <1>3, <1>5, <1>6
    <3>2. CASE d # scraper.cur
      BY <3>2, <1>1, <1>3, <1>5 DEF SweepInv, ScanInv
    <3>. QED  BY <3>1, <3>2
  <2>. QED  BY <1>2, <2>1, <2>2, <2>3 DEF ScanInv, RowKey
<1>. QED  BY <1>2, <1>7 DEF CloseInv

\* The query of the sweep picks the active rows that were not seen.
LEMMA SweepList ==
  ASSUME SweepInv, MaxDbErrors = 0, ListActive
  PROVE  ScanInv' /\ CloseInv'
<1>0. scraper \in Scraper /\ ~ DbFails
  BY BoundsAssumption DEF SweepInv, UniqueInv, TypeInv, TypeOK, DbFails
<1>1. UNCHANGED <<rows, conn>> /\ scraper.pc = "scan" /\ scraper.todo = {}
  BY DEF ListActive, ScraperUnchanged
<1>2. /\ scraper'.snap = scraper.snap /\ scraper'.pc = "close"
      /\ scraper'.missing = Active \ scraper.seen
  BY <1>0 DEF ListActive, Scraper, Missing
<1>3. /\ Active' = Active
      /\ \A i : IsListed(i)' <=> IsListed(i)
  BY <1>1, <1>2 DEF Active, RowKey, KeyOf, IsListed
<1>4. \A i \in Active : i \in scraper.seen <=> IsListed(i)
  BY <1>1 DEF SweepInv, ScanInv, Pending, Met, IsListed
<1>. QED  BY <1>2, <1>3, <1>4 DEF ScanInv, CloseInv

\* A row of the list is closed.
LEMMA SweepClose ==
  ASSUME SweepInv, MaxDbErrors = 0, [Next]_vars, NEW i \in DOMAIN rows, CloseMissing(i)
  PROVE  ScanInv' /\ CloseInv'
<1>0. scraper \in Scraper /\ ~ DbFails /\ rows \in Seq(Row)
  BY BoundsAssumption DEF SweepInv, UniqueInv, TypeInv, TypeOK, DbFails
<1>1. UNCHANGED conn /\ scraper.pc = "close"
  BY DEF CloseMissing, ScraperUnchanged
<1>2. /\ scraper'.snap = scraper.snap /\ scraper'.pc = "close"
      /\ scraper'.missing = scraper.missing \ {i}
  BY <1>0 DEF CloseMissing, Scraper
<1>3. rows'[i].status = "closed"
  <2>1. rows[i] \in Row
    BY <1>0
  <2>2. ClosedByScraper(rows[i]).status = "closed"
    BY <2>1 DEF ClosedByScraper, Row
  <2>3. rows' = [rows EXCEPT ![i] = ClosedByScraper(rows[i])]
    BY <1>0 DEF CloseMissing
  <2>. QED  BY <1>0, <2>2, <2>3
<1>4. \A j \in Active' : j # i /\ j \in Active /\ RowKey(rows'[j]) = RowKey(rows[j])
  <2>1. ~ InsertSession
    BY <1>1 DEF InsertSession
  <2>2. i \notin Active'
    BY <1>3 DEF Active
  <2>. QED  BY <2>1, <2>2, ActiveStep DEF SweepInv, UniqueInv
<1>5. \A j \in Active' : IsListed(j)' <=> IsListed(j)
  BY <1>1, <1>2, <1>4 DEF IsListed, RowKey, KeyOf
<1>. QED  BY <1>1, <1>2, <1>4, <1>5 DEF ScanInv, CloseInv, SweepInv

LEMMA SweepStep ==
  ASSUME MaxDbErrors = 0
  PROVE  /\ Init => SweepInv
         /\ SweepInv /\ [Next]_vars => SweepInv'
<1>1. Init => SweepInv
  <2>. SUFFICES ASSUME Init PROVE SweepInv
    OBVIOUS
  <2>1. UniqueInv
    BY UniqueStep
  <2>2. scraper.pc = "idle"
    BY DEF Init, Idle
  <2>. QED  BY <2>1, <2>2 DEF SweepInv, ScanInv, CloseInv
<1>2. SweepInv /\ [Next]_vars => SweepInv'
  <2>. SUFFICES ASSUME SweepInv, [Next]_vars PROVE ScanInv' /\ CloseInv'
    BY UniqueStep DEF SweepInv
  <2>0. ~ DbFails /\ scraper \in Scraper
    BY BoundsAssumption DEF SweepInv, UniqueInv, TypeInv, TypeOK, DbFails
  <2>1. CASE ReadStatus
    <3>1. /\ scraper'.pc = "scan" /\ scraper'.todo = file.clients
          /\ scraper'.snap = file /\ scraper'.seen = {}
      BY <2>1 DEF ReadStatus, Idle
    <3>2. Pending' = scraper'.snap.clients
      BY <3>1 DEF Pending
    <3>. QED  BY <3>1, <3>2 DEF ScanInv, CloseInv
  <2>2. CASE FinishScrape \/ Restart
    <3>1. scraper'.pc = "idle"
      BY <2>2 DEF FinishScrape, Restart, Idle
    <3>. QED  BY <3>1 DEF ScanInv, CloseInv
  <2>3. ~ ReadPart
    BY <2>0 DEF ReadPart
  <2>4. CASE WriteStatus \/ UNCHANGED vars
             \/ \E c \in Conns : \/ Connect(c) \/ Transfer(c) \/ Disconnect(c)
                                 \/ HookLost(c) \/ HookStep(c)
    <3>1. UNCHANGED scraper
      BY <2>4 DEF WriteStatus, vars, Connect, Transfer, Disconnect, HookLost, HookStep,
                  HookMatch, HookFallback, HookWrite, HookUnchanged
    <3>2. ~ InsertSession
      BY <3>1, <2>0 DEF InsertSession, Scraper
    <3>. QED  BY <3>1, <3>2, SweepFrame
  <2>. QED
    BY <2>1, <2>2, <2>3, <2>4, SweepFind, SweepInsert, SweepUpdate, SweepList, SweepClose
    DEF Next, ScraperStep
<1>. QED  BY <1>1, <1>2

\* The sweep closes what the status file does not list and nothing it does, whatever
\* the webhooks did to the table since the scrape began, as long as the database
\* answers.
THEOREM SweepExact ==
  ASSUME MaxDbErrors = 0
  PROVE  Spec => []SweepIsExact
<1>1. SweepInv => SweepIsExact
  <2>. SUFFICES ASSUME SweepInv, scraper.pc = "close"
                PROVE  /\ scraper.missing = {} => \A i \in Active : IsListed(i)
                       /\ \A i \in scraper.missing \cap Active : ~ IsListed(i)
    BY DEF SweepIsExact, SweepIsComplete, SweepSparesListed, IsListed
  <2>. QED  BY DEF SweepInv, CloseInv
<1>. QED
  BY <1>1, SweepStep, PTL DEF Spec

-----------------------------------------------------------------------------
(* Samples.  What the scraper still has to write was read after the samples *)
(* that are there: the file is behind the connections, what was parsed is   *)
(* behind the file, and a sample is behind both.                            *)

\* Two connections that the scraper could take for one have the same name, the same
\* address, and were made in the same second.
KeysDistinct ==
  \A c, d \in Conns : Connected(c) /\ Connected(d) /\ KeyOf(c) = KeyOf(d) => c = d

\* The clients of the file whose counters are still to be written.
Ahead == scraper.todo \cup
         (IF scraper.pc \in {"insert", "update"} THEN {scraper.cur} ELSE {})

Is(i, c) == Connected(c) /\ RowKey(rows[i]) = KeyOf(c)

\* What is read is behind what it was read from.
FileBehind == \A c \in file.clients : file.bytes[c] <= conn[c].bytes
SnapBehind == \A c \in scraper.snap.clients :
                /\ scraper.snap.bytes[c] <= conn[c].bytes
                /\ c \in file.clients => scraper.snap.bytes[c] <= file.bytes[c]

\* A sample is behind every reading that is still to come.
SampleBehind ==
  \A i \in Active : \A c \in Conns :
    Is(i, c) => /\ rows[i].sample <= conn[c].bytes
                /\ c \in file.clients => rows[i].sample <= file.bytes[c]
                /\ c \in Ahead => rows[i].sample <= scraper.snap.bytes[c]

\* The row at hand, which a webhook may have closed.
HandBehind ==
  scraper.pc = "update" =>
    /\ rows[scraper.row].sample <= scraper.snap.bytes[scraper.cur]
    /\ scraper.row \in Active => Is(scraper.row, scraper.cur)

Readings ==
  /\ Ahead \subseteq scraper.snap.clients
  /\ FileBehind
  /\ SnapBehind

Sampled ==
  /\ \A i \in Active : \E c \in Conns : Is(i, c)
  /\ SampleBehind
  /\ HandBehind

SampleInv == TypeInv /\ ListedConnected /\ Readings /\ Sampled

\* Counters are numbers, so they can be compared.
LEMMA SampleTypes ==
  ASSUME TypeInv
  PROVE  /\ scraper \in Scraper /\ file \in Listing /\ rows \in Seq(Row)
         /\ DOMAIN rows = 1 .. Len(rows) /\ Len(rows) \in Nat
         /\ \A i \in DOMAIN rows : rows[i] \in Row /\ rows[i].sample \in Nat
         /\ \A c \in Conns : /\ conn[c].bytes \in Nat
                             /\ file.bytes[c] \in Nat
                             /\ scraper.snap.bytes[c] \in Nat
<1>1. /\ scraper \in Scraper /\ file \in Listing /\ rows \in Seq(Row)
      /\ \A c \in Conns : conn[c].bytes \in Counter
  BY DEF TypeInv, TypeOK
<1>2. /\ DOMAIN rows = 1 .. Len(rows) /\ Len(rows) \in Nat
      /\ \A i \in DOMAIN rows : rows[i] \in Row
  BY <1>1, LenProperties, ElementOfSeq
<1>3. Counter \subseteq Nat
  BY BoundsAssumption DEF Counter
<1>4. \A c \in Conns : file.bytes[c] \in Counter /\ scraper.snap.bytes[c] \in Counter
  BY <1>1 DEF Listing, Scraper
<1>5. \A i \in DOMAIN rows : rows[i].sample \in Counter
  BY <1>2 DEF Row
<1>. QED  BY <1>1, <1>2, <1>3, <1>4, <1>5

\* Nothing is read, and rows are only closed, or recorded as closed.
LEMMA SampleFrame ==
  ASSUME SampleInv, UNCHANGED <<conn, file>>,
         \A i \in Active' : i \in Active /\ rows'[i] = rows[i],
         \A i \in DOMAIN rows : rows'[i].sample = rows[i].sample,
         Ahead' \subseteq Ahead,
         scraper'.snap = scraper.snap \/ (Ahead' = {} /\ scraper'.snap.clients = {}),
         scraper'.pc = "update" =>
           /\ scraper.pc = "update" /\ scraper'.snap = scraper.snap
           /\ scraper'.cur = scraper.cur /\ scraper'.row = scraper.row
  PROVE  Readings' /\ Sampled'
<1>1. \A c : Connected(c)' = Connected(c) /\ KeyOf(c)' = KeyOf(c)
  BY DEF Connected, KeyOf
<1>2. \A i \in Active' : \A c : Is(i, c)' <=> Is(i, c)
  BY <1>1 DEF Is, RowKey
<1>3. Readings'
  BY DEF SampleInv, Readings, FileBehind, SnapBehind
<1>4. (\A i \in Active : \E c \in Conns : Is(i, c))'
  BY <1>2 DEF SampleInv, Sampled
<1>5. SampleBehind'
  <2>. SUFFICES ASSUME NEW i \in Active', NEW c \in Conns, Is(i, c)
                PROVE  /\ rows'[i].sample <= conn'[c].bytes
                       /\ c \in file'.clients => rows'[i].sample <= file'.bytes[c]
                       /\ c \in Ahead' => rows'[i].sample <= scraper'.snap.bytes[c]
    BY <1>2 DEF SampleBehind
  <2>. QED  BY DEF SampleInv, Sampled, SampleBehind
<1>6. HandBehind'
  <2>. SUFFICES ASSUME scraper'.pc = "update"
                PROVE  /\ rows'[scraper.row].sample <= scraper.snap.bytes[scraper.cur]
                       /\ scraper.row \in Active' => Is(scraper.row, scraper.cur)'
    BY DEF HandBehind, Is
  <2>1. scraper.row \in DOMAIN rows
    BY DEF SampleInv, TypeInv, HandlesOK
  <2>. QED  BY <2>1, <1>2 DEF SampleInv, Sampled, HandBehind
<1>. QED  BY <1>3, <1>4, <1>5, <1>6 DEF Sampled

\* OpenVPN: counters grow, and a new connection is not taken for an old one.
LEMMA SampleOpenVpn ==
  ASSUME SampleInv, KeysDistinct', NEW d \in Conns,
         Connect(d) \/ Transfer(d) \/ Disconnect(d)
  PROVE  Readings' /\ Sampled'
<1>0. UNCHANGED <<file, rows, scraper>>
  BY DEF Connect, Transfer, Disconnect
<1>1. \A c \in Conns : Connected(c) =>
        /\ Connected(c)' /\ KeyOf(c)' = KeyOf(c) /\ conn[c].bytes <= conn'[c].bytes
  <2>0. /\ conn \in [Conns -> [state : {"idle", "up", "down"}, at : 0 .. MaxTime,
                            bytes : Counter]]
        /\ \A c \in Conns : conn[c].bytes \in Nat
    BY SampleTypes DEF SampleInv, TypeInv, TypeOK
  <2>. USE <2>0 DEF Connected, KeyOf
  <2>1. CASE Connect(d)
    BY <2>1 DEF Connect
  <2>2. CASE Transfer(d)
    BY <2>2 DEF Transfer
  <2>3. CASE Disconnect(d)
    BY <2>3 DEF Disconnect
  <2>. QED  BY <2>1, <2>2, <2>3
<1>2. Active' = Active /\ Ahead' = Ahead
  BY <1>0 DEF Active, Ahead
<1>3. \A i \in Active : \A c \in Conns : Is(i, c) => Is(i, c)'
  BY <1>0, <1>1 DEF Is, RowKey
<1>4. \A i \in Active : \A c \in Conns : Is(i, c)' => Is(i, c)
  <2>. SUFFICES ASSUME NEW i \in Active, NEW c \in Conns, Is(i, c)' PROVE Is(i, c)
    OBVIOUS
  <2>1. PICK e \in Conns : Is(i, e)
    BY DEF SampleInv, Sampled
  <2>2. Connected(c)' /\ Connected(e)' /\ KeyOf(c)' = KeyOf(e)'
    BY <2>1, <1>3 DEF Is
  <2>3. c = e
    BY <2>2 DEF KeysDistinct
  <2>. QED  BY <2>1, <2>3
<1>5. /\ \A c \in Conns : conn'[c].bytes \in Nat /\ conn[c].bytes \in Nat
      /\ \A c \in Conns : file.bytes[c] \in Nat /\ scraper.snap.bytes[c] \in Nat
      /\ \A i \in Active : rows[i].sample \in Nat
      /\ file.clients \subseteq Conns /\ scraper.snap.clients \subseteq Conns
  <2>1. TypeInv'
    BY StepTypes DEF SampleInv, Next
  <2>2. \A c \in Conns : conn'[c].bytes \in Counter
    BY <2>1 DEF TypeInv, TypeOK
  <2>3. \A c \in Conns : conn'[c].bytes \in Nat
    BY <2>2, BoundsAssumption DEF Counter
  <2>4. file.clients \subseteq Conns /\ scraper.snap.clients \subseteq Conns
    BY SampleTypes DEF SampleInv, Listing, Scraper
  <2>. QED  BY <2>3, <2>4, SampleTypes DEF SampleInv, Active
<1>6. Readings'
  BY <1>0, <1>1, <1>2, <1>5
  DEF SampleInv, ListedConnected, Readings, FileBehind, SnapBehind
<1>7. SampleBehind'
  <2>. SUFFICES ASSUME NEW i \in Active, NEW c \in Conns, Is(i, c)
                PROVE  /\ rows[i].sample <= conn'[c].bytes
                       /\ c \in file.clients => rows[i].sample <= file.bytes[c]
                       /\ c \in Ahead => rows[i].sample <= scraper.snap.bytes[c]
    BY <1>0, <1>2, <1>4 DEF SampleBehind
  <2>1. conn[c].bytes <= conn'[c].bytes
    BY <1>1 DEF Is
  <2>. QED  BY <2>1, <1>5 DEF SampleInv, Sampled, SampleBehind
<1>8. HandBehind'
  <2>1. scraper.pc = "update" => scraper.cur \in Conns
    BY DEF SampleInv, TypeInv, HandlesOK
  <2>. QED  BY <2>1, <1>0, <1>2, <1>3 DEF SampleInv, Sampled, HandBehind, Is
<1>. QED  BY <1>2, <1>3, <1>6, <1>7, <1>8 DEF SampleInv, Sampled

\* The file catches up with the connections.
LEMMA SampleWrite ==
  ASSUME SampleInv, WriteStatus
  PROVE  Readings' /\ Sampled'
<1>0. UNCHANGED <<conn, rows, scraper>>
  BY DEF WriteStatus
<1>1. /\ file'.clients \subseteq Conns
      /\ \A c \in file'.clients : file'.bytes[c] = conn[c].bytes
  BY DEF WriteStatus, Up
<1>2. /\ \A c : Connected(c)' = Connected(c) /\ KeyOf(c)' = KeyOf(c)
      /\ Active' = Active /\ Ahead' = Ahead
  BY <1>0 DEF Connected, KeyOf, Active, Ahead
<1>3. \A i, c : Is(i, c)' <=> Is(i, c)
  BY <1>0, <1>2 DEF Is, RowKey
<1>4. \A c \in Conns : conn[c].bytes \in Nat
  BY SampleTypes DEF SampleInv
<1>5. Readings'
  BY <1>0, <1>1, <1>2, <1>4 DEF SampleInv, Readings, FileBehind, SnapBehind
<1>6. SampleBehind'
  BY <1>0, <1>1, <1>2, <1>3 DEF SampleInv, Sampled, SampleBehind
<1>7. HandBehind'
  BY <1>0, <1>2, <1>3 DEF SampleInv, Sampled, HandBehind
<1>. QED  BY <1>2, <1>3, <1>5, <1>6, <1>7 DEF SampleInv, Sampled

\* A scrape begins with what the file says, or with a part of it.
LEMMA SampleRead ==
  ASSUME SampleInv, ReadStatus \/ ReadPart
  PROVE  Readings' /\ Sampled'
<1>0. UNCHANGED <<conn, file, rows>>
  BY DEF ReadStatus, ReadPart, ScraperUnchanged
<1>1. /\ scraper'.pc = "scan" /\ scraper'.todo = scraper'.snap.clients
      /\ scraper'.snap.clients \subseteq file.clients /\ scraper'.snap.bytes = file.bytes
  <2>0. file \in Listing
    BY SampleTypes DEF SampleInv
  <2>1. CASE ReadStatus
    BY <2>0, <2>1 DEF ReadStatus, Idle, Listing
  <2>2. CASE ReadPart
    <3>1. PICK part \in SUBSET file.clients :
            scraper' = [Idle EXCEPT !.pc = "scan", !.snap = [file EXCEPT !.clients = part],
                                    !.todo = part]
      BY <2>2 DEF ReadPart
    <3>2. scraper'.pc = "scan" /\ scraper'.todo = part
          /\ scraper'.snap = [file EXCEPT !.clients = part]
      BY <3>1 DEF Idle
    <3>. QED  BY <2>0, <3>2 DEF Listing
  <2>. QED  BY <2>1, <2>2
<1>2. Ahead' = scraper'.snap.clients
  BY <1>1 DEF Ahead
<1>3. /\ \A c : Connected(c)' = Connected(c) /\ KeyOf(c)' = KeyOf(c)
      /\ Active' = Active
  BY <1>0 DEF Connected, KeyOf, Active
<1>4. \A i, c : Is(i, c)' <=> Is(i, c)
  BY <1>0, <1>3 DEF Is, RowKey
<1>5. \A c \in file.clients : file.bytes[c] \in Nat
  BY SampleTypes DEF SampleInv, Listing
<1>6. Readings'
  BY <1>0, <1>1, <1>2, <1>5 DEF SampleInv, Readings, FileBehind, SnapBehind
<1>7. SampleBehind'
  BY <1>0, <1>1, <1>2, <1>3, <1>4 DEF SampleInv, Sampled, SampleBehind
<1>8. HandBehind'
  BY <1>1 DEF HandBehind
<1>. QED  BY <1>3, <1>4, <1>6, <1>7, <1>8 DEF SampleInv, Sampled

\* The row that is found for a listed client has a sample no newer than the file.
LEMMA SampleFind ==
  ASSUME SampleInv, NEW c \in Conns, FindSession(c)
  PROVE  Readings' /\ Sampled'
<1>0. UNCHANGED <<conn, file, rows>> /\ scraper.pc = "scan" /\ c \in scraper.todo
  BY DEF FindSession, ScraperUnchanged
<1>1. /\ scraper'.snap = scraper.snap /\ scraper'.todo = scraper.todo \ {c}
      /\ scraper'.cur = c
      /\ \/ scraper'.pc = "update" /\ scraper'.row \in ActiveSessions(KeyOf(c))
         \/ scraper'.pc = "insert"
  BY SampleTypes DEF SampleInv, FindSession, Scraper
<1>2. Ahead' = scraper.todo /\ Ahead = scraper.todo
  BY <1>0, <1>1 DEF Ahead
<1>3. /\ \A d : Connected(d)' = Connected(d) /\ KeyOf(d)' = KeyOf(d)
      /\ Active' = Active
  BY <1>0 DEF Connected, KeyOf, Active
<1>4. \A i, d : Is(i, d)' <=> Is(i, d)
  BY <1>0, <1>3 DEF Is, RowKey
<1>5. Readings'
  BY <1>0, <1>1, <1>2 DEF SampleInv, Readings, FileBehind, SnapBehind
<1>6. SampleBehind'
  BY <1>0, <1>1, <1>2, <1>3, <1>4 DEF SampleInv, Sampled, SampleBehind
<1>7. HandBehind'
  <2>. SUFFICES ASSUME scraper'.pc = "update"
                PROVE  /\ rows[scraper'.row].sample <= scraper.snap.bytes[c]
                       /\ Is(scraper'.row, c)
    BY <1>0, <1>1, <1>4 DEF HandBehind, Is, RowKey, Connected, KeyOf
  <2>1. scraper'.row \in Active /\ RowKey(rows[scraper'.row]) = KeyOf(c)
    BY <1>1 DEF ActiveSessions
  <2>2. Is(scraper'.row, c)
    BY <2>1, <1>0 DEF Is, SampleInv, ListedConnected
  <2>. QED  BY <2>1, <2>2, <1>0, <1>2 DEF SampleInv, Sampled, SampleBehind
<1>. QED  BY <1>3, <1>4, <1>5, <1>6, <1>7 DEF SampleInv, Sampled

\* A new row has no sample yet.
LEMMA SampleInsert ==
  ASSUME SampleInv, InsertSession, rows' # rows
  PROVE  Readings' /\ Sampled'
<1>0. PICK c \in Conns :
        /\ UNCHANGED <<conn, file>> /\ scraper.pc = "insert" /\ scraper.cur = c /\ Connected(c)
        /\ rows' = Append(rows, [cn |-> Name[c], ip |-> Addr[c], at |-> conn[c].at,
                                 bytes |-> scraper.snap.bytes[c], status |-> "active",
                                 sample |-> 0])
  BY DEF InsertSession, ScraperUnchanged, SampleInv, TypeInv, HandlesOK, ListedConnected
<1>. DEFINE new == [cn |-> Name[c], ip |-> Addr[c], at |-> conn[c].at,
                    bytes |-> scraper.snap.bytes[c], status |-> "active",
                    sample |-> 0]
<1>1. /\ scraper'.snap = scraper.snap /\ scraper'.todo = scraper.todo
      /\ scraper'.cur = c /\ scraper'.pc = "update" /\ scraper'.row = Len(rows) + 1
  BY <1>0, SampleTypes DEF SampleInv, InsertSession, Scraper
<1>2. Ahead' = Ahead
  BY <1>0, <1>1 DEF Ahead
<1>3. /\ DOMAIN rows = 1 .. Len(rows) /\ DOMAIN rows' = 1 .. (Len(rows) + 1)
      /\ Len(rows) \in Nat
      /\ \A i \in DOMAIN rows : rows'[i] = rows[i]
      /\ rows'[Len(rows) + 1] = new
  <2>1. new \in Row
    BY <1>0, ConnsAssumption, BoundsAssumption
    DEF SampleInv, TypeInv, TypeOK, Row, Scraper, Listing, Counter
  <2>2. rows' = Append(rows, new)
    BY <1>0
  <2>. HIDE DEF new
  <2>. QED  BY <2>1, <2>2, SampleTypes, AppendRow DEF SampleInv
<1>4. /\ Len(rows) + 1 \notin Active /\ RowKey(new) = KeyOf(c)
      /\ Active' = Active \cup {Len(rows) + 1}
  BY <1>3 DEF Active, RowKey, KeyOf
<1>5. \A d : Connected(d)' = Connected(d) /\ KeyOf(d)' = KeyOf(d)
  BY <1>0 DEF Connected, KeyOf
<1>6. /\ \A i \in Active : \A d : rows'[i] = rows[i] /\ (Is(i, d)' <=> Is(i, d))
      /\ RowKey(rows'[Len(rows) + 1]) = KeyOf(c)
      /\ rows'[Len(rows) + 1].sample = 0
  <2>1. \A i \in Active : rows'[i] = rows[i]
    BY <1>3 DEF Active
  <2>2. \A i \in Active : \A d : Is(i, d)' <=> Is(i, d)
    BY <2>1, <1>5 DEF Is, RowKey
  <2>. QED  BY <2>1, <2>2, <1>3, <1>4
<1>7. Readings'
  BY <1>0, <1>1, <1>2 DEF SampleInv, Readings, FileBehind, SnapBehind
<1>8. SampleBehind'
  <2>. SUFFICES ASSUME NEW i \in Active', NEW d \in Conns, Is(i, d)'
                PROVE  /\ rows'[i].sample <= conn[d].bytes
                       /\ d \in file.clients => rows'[i].sample <= file.bytes[d]
                       /\ d \in Ahead => rows'[i].sample <= scraper.snap.bytes[d]
    BY <1>0, <1>1, <1>2 DEF SampleBehind
  <2>1. CASE i \in Active
    BY <2>1, <1>6 DEF SampleInv, Sampled, SampleBehind
  <2>2. CASE i = Len(rows) + 1
    BY <2>2, <1>6, SampleTypes DEF SampleInv
  <2>. QED  BY <2>1, <2>2, <1>4
<1>9. Is(scraper.row, scraper.cur)'
  BY <1>0, <1>1, <1>5, <1>6 DEF Is, RowKey, KeyOf
<1>10. HandBehind'
  <2>1. 0 <= scraper.snap.bytes[c]
    BY SampleTypes DEF SampleInv
  <2>. QED  BY <2>1, <1>1, <1>6, <1>9 DEF HandBehind
<1>11. (\A i \in Active : \E d \in Conns : Is(i, d))'
  <2>. SUFFICES ASSUME NEW i \in Active' PROVE \E d \in Conns : Is(i, d)'
    OBVIOUS
  <2>1. CASE i \in Active
    BY <2>1, <1>6 DEF SampleInv, Sampled
  <2>2. CASE i = Len(rows) + 1
    BY <2>2, <1>1, <1>9 DEF Is
  <2>. QED  BY <2>1, <2>2, <1>4
<1>. QED  BY <1>7, <1>8, <1>10, <1>11 DEF Sampled

\* The next sample is no smaller than the one before, and no reading is behind it.
LEMMA SampleUpdate ==
  ASSUME SampleInv, KeysDistinct, UpdateCounters
  PROVE  /\ Readings' /\ Sampled'
         /\ \A i \in DOMAIN rows : rows[i].sample <= rows'[i].sample
<1>. DEFINE c == scraper.cur
            h == scraper.row
            b == scraper.snap.bytes[c]
<1>0. /\ UNCHANGED <<conn, file>> /\ scraper.pc = "update"
      /\ c \in Conns /\ h \in DOMAIN rows
  BY DEF UpdateCounters, ScraperUnchanged, SampleInv, TypeInv, HandlesOK
<1>1. /\ scraper'.snap = scraper.snap /\ scraper'.todo = scraper.todo
      /\ scraper'.pc = "scan"
  BY SampleTypes DEF SampleInv, UpdateCounters, Scraper
<1>2. /\ Ahead' \subseteq Ahead /\ c \in Ahead /\ c \in scraper.snap.clients
  BY <1>0, <1>1 DEF Ahead, SampleInv, Readings
<1>3. PICK r \in Row :
        /\ rows' = [rows EXCEPT ![h] = r]
        /\ r.sample \in {rows[h].sample, b}
        /\ r.status = rows[h].status /\ RowKey(r) = RowKey(rows[h])
  <2>1. rows \in Seq(Row) /\ rows[h] \in Row /\ b \in Counter
    BY <1>0, SampleTypes DEF SampleInv, Listing, Scraper
  <2>2. ASSUME NEW r \in {rows[h], WithCounters([rows[h] EXCEPT !.sample = b], b),
                          [rows[h] EXCEPT !.sample = b], WithCounters(rows[h], b)}
        PROVE  /\ r \in Row /\ r.sample \in {rows[h].sample, b}
               /\ r.status = rows[h].status /\ RowKey(r) = RowKey(rows[h])
    BY <2>1 DEF Row, WithCounters, RowKey
  <2>3. rows = [rows EXCEPT ![h] = rows[h]]
    BY <2>1, <1>0
  <2>4. \E r \in {rows[h], WithCounters([rows[h] EXCEPT !.sample = b], b),
                  [rows[h] EXCEPT !.sample = b], WithCounters(rows[h], b)} :
          rows' = [rows EXCEPT ![h] = r]
    BY <2>3 DEF UpdateCounters
  <2>. QED  BY <2>2, <2>4
<1>4. /\ DOMAIN rows' = DOMAIN rows
      /\ \A i \in DOMAIN rows : rows'[i] = IF i = h THEN r ELSE rows[i]
  BY <1>0, <1>3, SampleTypes, UpdateRow DEF SampleInv
<1>5. /\ \A d : Connected(d)' = Connected(d) /\ KeyOf(d)' = KeyOf(d)
      /\ Active' = Active
  <2>1. \A i \in DOMAIN rows : rows'[i].status = rows[i].status
    BY <1>3, <1>4
  <2>. QED  BY <1>0, <1>4, <2>1 DEF Connected, KeyOf, Active
<1>6. \A i \in Active : \A d : Is(i, d)' <=> Is(i, d)
  <2>1. \A i \in Active : RowKey(rows'[i]) = RowKey(rows[i])
    BY <1>3, <1>4 DEF Active
  <2>. QED  BY <2>1, <1>5 DEF Is, RowKey
<1>7. rows[h].sample <= b
  BY <1>0 DEF SampleInv, Sampled, HandBehind
<1>8. \A i \in DOMAIN rows : rows[i].sample <= rows'[i].sample
  <2>1. \A i \in DOMAIN rows : rows[i].sample \in Nat
    BY SampleTypes DEF SampleInv
  <2>. QED  BY <2>1, <1>0, <1>3, <1>4, <1>7
<1>9. Readings'
  BY <1>0, <1>1, <1>2 DEF SampleInv, Readings, FileBehind, SnapBehind
<1>10. SampleBehind'
  <2>. SUFFICES ASSUME NEW i \in Active, NEW d \in Conns, Is(i, d)
                PROVE  /\ rows'[i].sample <= conn[d].bytes
                       /\ d \in file.clients => rows'[i].sample <= file.bytes[d]
                       /\ d \in Ahead => rows'[i].sample <= scraper.snap.bytes[d]
    BY <1>0, <1>1, <1>2, <1>5, <1>6 DEF SampleBehind
  <2>1. /\ rows[i].sample <= conn[d].bytes
        /\ d \in file.clients => rows[i].sample <= file.bytes[d]
        /\ d \in Ahead => rows[i].sample <= scraper.snap.bytes[d]
    BY DEF SampleInv, Sampled, SampleBehind
  <2>2. CASE rows'[i].sample = rows[i].sample
    BY <2>1, <2>2
  <2>3. CASE i = h /\ rows'[i].sample = b
    <3>1. Is(h, c)
      BY <2>3, <1>0 DEF SampleInv, Sampled, HandBehind
    <3>2. d = c
      BY <2>3, <3>1, <1>0 DEF KeysDistinct, Is
    <3>3. b <= conn[c].bytes /\ (c \in file.clients => b <= file.bytes[c])
      BY <1>2 DEF SampleInv, Readings, SnapBehind
    <3>4. b \in Nat
      BY <1>0, SampleTypes DEF SampleInv
    <3>. QED  BY <2>3, <3>2, <3>3, <3>4
  <2>. QED  BY <2>2, <2>3, <1>3, <1>4 DEF Active
<1>11. HandBehind'
  BY <1>1 DEF HandBehind
<1>. QED
  BY <1>5, <1>6, <1>8, <1>9, <1>10, <1>11 DEF SampleInv, Sampled

\* The steps of the scraper and of a webhook that close rows, record closed ones, or
\* touch none.
LEMMA SampleRest ==
  ASSUME SampleInv, [Next]_vars, UNCHANGED <<conn, file>>,
         ~ ReadStatus, ~ ReadPart, ~ UpdateCounters,
         \A c \in Conns : ~ FindSession(c),
         InsertSession => rows' = rows
  PROVE  /\ Readings' /\ Sampled'
         /\ \A i \in DOMAIN rows : rows[i].sample <= rows'[i].sample
<1>0. /\ scraper \in Scraper /\ rows \in Seq(Row)
      /\ DOMAIN rows = 1 .. Len(rows) /\ Len(rows) \in Nat
      /\ \A i \in DOMAIN rows : rows[i] \in Row /\ rows[i].sample \in Nat
  BY SampleTypes DEF SampleInv
<1>. DEFINE Faded == /\ \A i \in Active' : i \in Active /\ rows'[i] = rows[i]
                     /\ \A i \in DOMAIN rows : rows'[i].sample = rows[i].sample
<1>1. ASSUME UNCHANGED rows PROVE Faded
  BY <1>1 DEF Active
<1>2. ASSUME NEW i \in DOMAIN rows, NEW r \in Row, rows' = [rows EXCEPT ![i] = r],
             r.status = "closed", r.sample = rows[i].sample
      PROVE  Faded
  <2>1. /\ DOMAIN rows' = DOMAIN rows
        /\ \A j \in DOMAIN rows : rows'[j] = IF j = i THEN r ELSE rows[j]
    BY <1>0, <1>2, UpdateRow
  <2>. QED  BY <1>2, <2>1 DEF Active
<1>3. ASSUME NEW r \in Row, rows' = Append(rows, r), r.status = "closed"
      PROVE  Faded
  <2>1. /\ DOMAIN rows' = 1 .. (Len(rows) + 1)
        /\ \A i \in DOMAIN rows : rows'[i] = rows[i]
        /\ rows'[Len(rows) + 1] = r
    BY <1>0, <1>3, AppendRow
  <2>2. \A i \in DOMAIN rows' : i \in DOMAIN rows \/ i = Len(rows) + 1
    BY <1>0, <2>1
  <2>. QED  BY <1>3, <2>1, <2>2 DEF Active
<1>4. Faded
  <2>1. ASSUME NEW i \in DOMAIN rows, CloseMissing(i) PROVE Faded
    <3>1. ClosedByScraper(rows[i]) \in Row /\ ClosedByScraper(rows[i]).status = "closed"
          /\ ClosedByScraper(rows[i]).sample = rows[i].sample
      BY <1>0 DEF ClosedByScraper, Row
    <3>2. rows' = [rows EXCEPT ![i] = ClosedByScraper(rows[i])] \/ UNCHANGED rows
      BY <2>1 DEF CloseMissing
    <3>. QED  BY <3>1, <3>2, <1>1, <1>2
  <2>2. ASSUME NEW c \in Conns, HookWrite(c) PROVE Faded
    <3>. DEFINE i == hook[c].row
                r == [cn |-> Name[c], ip |-> Addr[c], at |-> conn[c].at,
                      bytes |-> conn[c].bytes, status |-> "closed",
                      sample |-> 0]
    <3>1. r \in Row /\ r.status = "closed"
      BY ConnsAssumption, BoundsAssumption DEF SampleInv, TypeInv, TypeOK, Row, Counter
    <3>2. ASSUME i # 0
          PROVE  /\ i \in DOMAIN rows /\ ClosedByHook(rows[i], c) \in Row
                 /\ ClosedByHook(rows[i], c).status = "closed"
                 /\ ClosedByHook(rows[i], c).sample = rows[i].sample
      <4>1. i \in DOMAIN rows /\ rows[i] \in Row /\ conn[c].bytes \in Counter
        BY <1>0, <3>2 DEF SampleInv, TypeInv, TypeOK, HandlesOK
      <4>. QED  BY <4>1, ConnsAssumption DEF ClosedByHook, Row
    <3>3. \/ UNCHANGED rows
          \/ i # 0 /\ rows' = [rows EXCEPT ![i] = ClosedByHook(rows[i], c)]
          \/ rows' = Append(rows, r)
      BY <2>2 DEF HookWrite
    <3>. HIDE DEF r
    <3>. QED  BY <3>1, <3>2, <3>3, <1>1, <1>2, <1>3
  <2>3. ASSUME UNCHANGED rows PROVE Faded
    BY <2>3, <1>1
  <2>. HIDE DEF Faded
  <2>. QED
    BY <2>1, <2>2, <2>3
    DEF Next, ScraperStep, HookStep, vars, Connect, Transfer, Disconnect, HookLost,
        WriteStatus, ListActive, FinishScrape, HookMatch, HookFallback, Restart
<1>5. \/ UNCHANGED scraper
      \/ /\ scraper'.pc \in {"idle", "scan", "close"} /\ scraper'.todo \subseteq scraper.todo
         /\ scraper'.snap = scraper.snap \/ (scraper'.todo = {} /\ scraper'.snap.clients = {})
  <2>1. ASSUME NEW i \in DOMAIN rows, CloseMissing(i)
        PROVE  /\ scraper'.pc = "close" /\ scraper'.todo = scraper.todo
               /\ scraper'.snap = scraper.snap
    BY <1>0, <2>1 DEF CloseMissing, Scraper
  <2>2. CASE InsertSession
    <3>1. rows' # Append(rows, [cn |-> Name[scraper.cur], ip |-> Addr[scraper.cur],
                                at |-> conn[scraper.cur].at,
                                bytes |-> scraper.snap.bytes[scraper.cur],
                                status |-> "active", sample |-> 0])
      <4>. SUFFICES ASSUME NEW r, rows = Append(rows, r) PROVE FALSE
        BY <2>2
      <4>1. Len(Append(rows, r)) = Len(rows) + 1
        BY <1>0
      <4>. QED  BY <4>1, <1>0
    <3>2. scraper' = [scraper EXCEPT !.pc = "scan", !.cur = NoConn]
      BY <2>2, <3>1 DEF InsertSession
    <3>. QED  BY <1>0, <3>2 DEF Scraper
  <2>3. ASSUME scraper' = Idle
        PROVE  scraper'.pc = "idle" /\ scraper'.todo = {} /\ scraper'.snap.clients = {}
    BY <2>3 DEF Idle, NoListing
  <2>4. CASE ListActive
    <3>1. \/ /\ scraper'.pc = "close" /\ scraper'.todo = scraper.todo
             /\ scraper'.snap = scraper.snap
          \/ scraper' = Idle
      BY <1>0, <2>4 DEF ListActive, Scraper
    <3>. QED  BY <3>1, <2>3
  <2>. QED
    BY <2>1, <2>2, <2>3, <2>4
    DEF Next, ScraperStep, HookStep, vars, Connect, Transfer, Disconnect, HookLost,
        WriteStatus, FinishScrape, HookMatch, HookFallback, HookWrite, HookUnchanged, Restart
<1>6. /\ Ahead' \subseteq Ahead
      /\ scraper'.snap = scraper.snap \/ (Ahead' = {} /\ scraper'.snap.clients = {})
      /\ scraper'.pc = "update" =>
           /\ scraper.pc = "update" /\ scraper'.snap = scraper.snap
           /\ scraper'.cur = scraper.cur /\ scraper'.row = scraper.row
  <2>1. CASE UNCHANGED scraper
    <3>1. Ahead' = Ahead
      BY <2>1 DEF Ahead
    <3>. QED  BY <3>1, <2>1
  <2>2. CASE /\ scraper'.pc \in {"idle", "scan", "close"} /\ scraper'.todo \subseteq scraper.todo
             /\ scraper'.snap = scraper.snap \/ (scraper'.todo = {} /\ scraper'.snap.clients = {})
    <3>1. Ahead' = scraper'.todo /\ scraper.todo \subseteq Ahead /\ scraper'.pc # "update"
      BY <2>2 DEF Ahead
    <3>. QED  BY <3>1, <2>2
  <2>. QED  BY <2>1, <2>2, <1>5
<1>7. Readings' /\ Sampled'
  BY <1>4, <1>6, SampleFrame
<1>8. \A i \in DOMAIN rows : rows[i].sample <= rows'[i].sample
  BY <1>0, <1>4
<1>. QED  BY <1>7, <1>8

LEMMA SampleStep ==
  /\ Init => SampleInv
  /\ SampleInv /\ KeysDistinct /\ KeysDistinct' /\ [Next]_vars =>
       /\ SampleInv'
       /\ \A i \in DOMAIN rows : rows[i].sample <= rows'[i].sample
<1>1. Init => SampleInv
  <2>. SUFFICES ASSUME Init PROVE SampleInv
    OBVIOUS
  <2>1. /\ Active = {} /\ Ahead = {} /\ scraper.pc = "idle" /\ scraper.cur = NoConn
        /\ scraper.snap.clients = {} /\ scraper.todo = {} /\ file.clients = {}
    BY DEF Init, Active, Ahead, Idle, NoListing
  <2>2. TypeInv /\ ListedConnected
    BY <2>1, InitTypes, ConnsAssumption DEF ListedConnected
  <2>. QED
    BY <2>1, <2>2
    DEF SampleInv, Readings, Sampled, FileBehind, SnapBehind, SampleBehind, HandBehind
<1>2. ASSUME SampleInv, KeysDistinct, KeysDistinct', [Next]_vars
      PROVE  SampleInv' /\ \A i \in DOMAIN rows : rows[i].sample <= rows'[i].sample
  <2>1. TypeInv' /\ ListedConnected'
    BY <1>2, StepTypes, ConnectedStep DEF SampleInv
  <2>2. \A i \in DOMAIN rows : rows[i].sample \in Nat
    BY <1>2, SampleTypes DEF SampleInv
  <2>. DEFINE Grown == \A i \in DOMAIN rows : rows[i].sample <= rows'[i].sample
              Goal  == Readings' /\ Sampled' /\ Grown
  <2>. SUFFICES Goal
    BY <2>1 DEF SampleInv
  <2>3. ASSUME UNCHANGED rows, Readings' /\ Sampled' PROVE Goal
    BY <2>2, <2>3
  <2>4. ASSUME NEW c \in Conns, Connect(c) \/ Transfer(c) \/ Disconnect(c) PROVE Goal
    <3>1. UNCHANGED rows
      BY <2>4 DEF Connect, Transfer, Disconnect
    <3>. QED  BY <1>2, <2>3, <2>4, <3>1, SampleOpenVpn
  <2>5. CASE WriteStatus
    <3>1. UNCHANGED rows
      BY <2>5 DEF WriteStatus
    <3>. QED  BY <1>2, <2>3, <2>5, <3>1, SampleWrite
  <2>6. CASE ReadStatus \/ ReadPart
    <3>1. UNCHANGED rows
      BY <2>6 DEF ReadStatus, ReadPart
    <3>. QED  BY <1>2, <2>3, <2>6, <3>1, SampleRead
  <2>7. ASSUME NEW c \in Conns, FindSession(c) PROVE Goal
    <3>1. UNCHANGED rows
      BY <2>7 DEF FindSession
    <3>. QED  BY <1>2, <2>3, <2>7, <3>1, SampleFind
  <2>8. CASE InsertSession /\ rows' # rows
    <3>1. PICK r : rows' = Append(rows, r)
      BY <2>8 DEF InsertSession
    <3>2. \A i \in DOMAIN rows : rows'[i] = rows[i]
      BY <1>2, <3>1, SampleTypes DEF SampleInv
    <3>. QED  BY <1>2, <2>2, <2>8, <3>2, SampleInsert
  <2>9. CASE UpdateCounters
    BY <1>2, <2>9, SampleUpdate
  <2>10. CASE UNCHANGED <<conn, file>> /\ ~ (ReadStatus \/ ReadPart \/ UpdateCounters)
              /\ ~ (InsertSession /\ rows' # rows) /\ \A c \in Conns : ~ FindSession(c)
    BY <1>2, <2>10, SampleRest
  <2>11. \/ UNCHANGED <<conn, file>> \/ WriteStatus
         \/ \E c \in Conns : Connect(c) \/ Transfer(c) \/ Disconnect(c)
    BY <1>2 DEF Next, ScraperStep, HookStep, vars, HookLost, HookMatch, HookFallback,
       HookWrite, HookUnchanged, ScraperUnchanged, ReadStatus, ReadPart, FindSession,
       InsertSession, UpdateCounters, ListActive, CloseMissing, FinishScrape, Restart
  <2>. HIDE DEF Goal
  <2>. QED  BY <2>4, <2>5, <2>6, <2>7, <2>8, <2>9, <2>10, <2>11
<1>. QED  BY <1>1, <1>2

\* The samples of a session never go down, whatever database calls fail and however
\* old or incomplete the files are that the scraper reads, unless a client comes back
\* from the same address within the second, so that the two connections look alike.
THEOREM SamplesNeverShrink == Spec /\ []KeysDistinct => SamplesMonotonic
<1>1. SampleInv /\ KeysDistinct /\ KeysDistinct' /\ [Next]_vars =>
        [\A i \in DOMAIN rows : rows[i].sample <= rows'[i].sample]_vars
  BY SampleStep
<1>. QED
  BY <1>1, SampleStep, PTL DEF Spec, SamplesMonotonic

-----------------------------------------------------------------------------
\* Refinement: with a database that answers, the table of sessions behaves as the
\* ledger of SessionLedger, whatever OpenVPN, the scraper, the webhooks and the
\* restarts of the UI do.
THEOREM LedgerRefinement ==
  ASSUME MaxDbErrors = 0
  PROVE  Spec => ImplementsLedger
<1>. DEFINE open == {[id |-> i, key |-> RowKey(rows[i])] : i \in Active}
            last == Len(rows)
<1>1. Init => Ledger!Init
  <2>. SUFFICES ASSUME Init PROVE Ledger!Init
    OBVIOUS
  <2>1. Active = {} /\ Len(rows) = 0
    BY DEF Init, Active
  <2>. QED  BY <2>1 DEF Ledger!Init
<1>2. UniqueInv /\ [Next]_vars => [Ledger!Next]_<<last, open>>
  <2>. SUFFICES ASSUME UniqueInv, [Next]_vars
                PROVE  Ledger!Next \/ UNCHANGED <<last, open>>
    OBVIOUS
  <2>. DEFINE entry(i) == [id |-> i, key |-> RowKey(rows[i])]
  <2>0. rows \in Seq(Row) /\ TypeInv
    BY DEF UniqueInv, TypeInv, TypeOK
  <2>1. CASE UNCHANGED rows
    BY <2>1 DEF Active
  <2>2. CASE Updated
    <3>1. PICK j \in DOMAIN rows, r \in Row : Kept(j, r) /\ rows' = [rows EXCEPT ![j] = r]
      BY <2>2 DEF Updated
    <3>2. /\ DOMAIN rows' = DOMAIN rows /\ Len(rows') = Len(rows)
          /\ \A i \in DOMAIN rows : rows'[i] = IF i = j THEN r ELSE rows[i]
      BY <2>0, <3>1, UpdateRow
    <3>3. CASE r.status = "active" \/ j \notin Active
      <4>1. Active' = Active /\ \A i \in Active : RowKey(rows'[i]) = RowKey(rows[i])
        BY <3>1, <3>2, <3>3 DEF Active, Kept
      <4>2. open' = open
        BY <4>1
      <4>. QED  BY <3>2, <4>2
    <3>4. CASE r.status # "active" /\ j \in Active
      <4>1. Active' = Active \ {j} /\ \A i \in Active' : RowKey(rows'[i]) = RowKey(rows[i])
        BY <3>2, <3>4 DEF Active
      <4>2. open' = open \ {entry(j)}
        BY <4>1
      <4>3. entry(j) \in open
        BY <3>4
      <4>. QED  BY <3>2, <4>2, <4>3 DEF Ledger!Next, Ledger!Close
    <3>. QED  BY <3>3, <3>4
  <2>3. CASE Added
    <3>1. PICK r \in Row : /\ r.status = "active" =>
                                InsertSession /\ scraper.cur \in Conns
                                  /\ RowKey(r) = KeyOf(scraper.cur)
                           /\ rows' = Append(rows, r)
      BY <2>3 DEF Added
    <3>2. /\ DOMAIN rows = 1 .. Len(rows) /\ DOMAIN rows' = 1 .. (Len(rows) + 1)
          /\ Len(rows) \in Nat /\ Len(rows') = Len(rows) + 1
          /\ \A i \in DOMAIN rows : rows'[i] = rows[i]
          /\ rows'[Len(rows) + 1] = r
      BY <2>0, <3>1, AppendRow
    <3>3. CASE r.status # "active"
      <4>1. Active' = Active /\ \A i \in Active : RowKey(rows'[i]) = RowKey(rows[i])
        BY <3>2, <3>3 DEF Active
      <4>2. open' = open
        BY <4>1
      <4>. QED  BY <3>2, <4>2 DEF Ledger!Next, Ledger!Record
    <3>4. CASE r.status = "active"
      <4>. DEFINE k == RowKey(r)
      <4>1. /\ Active' = Active \cup {Len(rows) + 1}
            /\ \A i \in Active : RowKey(rows'[i]) = RowKey(rows[i])
            /\ RowKey(rows'[Len(rows) + 1]) = k
        BY <3>2, <3>4 DEF Active
      <4>2. open' = open \cup {[id |-> last + 1, key |-> k]}
        BY <4>1
      <4>3. k \in Key
        BY DEF RowKey, Key, Row
      <4>4. \A e \in open : e.key # k
        BY <3>1, <3>4 DEF UniqueInv, InsertFresh, InsertSession
      <4>5. Ledger!Open(k)
        BY <3>2, <4>2, <4>4 DEF Ledger!Open
      <4>. QED  BY <4>3, <4>5 DEF Ledger!Next
    <3>. QED  BY <3>3, <3>4
  <2>. QED  BY <2>0, <2>1, <2>2, <2>3, RowsStep
<1>. QED
  BY <1>1, <1>2, UniqueStep, PTL DEF Spec, ImplementsLedger, Ledger!Spec
=============================================================================
