------------------------- MODULE InfluxSettingsProofs -------------------------
(* Proofs about InfluxSettings, for any administrators, addresses, tokens,    *)
(* environments and bounds, and with requests that race.                      *)
EXTENDS InfluxSettings, TLAPS

-----------------------------------------------------------------------------
(* Types.                                                                     *)

LEMMA OverType ==
  ASSUME NEW S, NEW value \in S, NEW below \in S
  PROVE  Over(value, below) \in S
  BY DEF Over

LEMMA LaidOverType ==
  ASSUME NEW r \in Row \cup {NoRow}, NEW c \in Config
  PROVE  LaidOver(r, c) \in Config
<1>1. CASE r = NoRow
  BY <1>1 DEF LaidOver
<1>2. CASE r # NoRow
  <2>1. r.url \in Url /\ r.token \in Token /\ c.url \in Url /\ c.token \in Token
    BY <1>2 DEF Row, Config
  <2>2. Over(r.url, c.url) \in Url /\ Over(r.token, c.token) \in Token
    BY <2>1, OverType
  <2> QED
    BY <1>2, <2>2 DEF LaidOver, Config
<1> QED
  BY <1>1, <1>2

LEMMA WriterType ==
  ASSUME NEW c \in Config
  PROVE  Started(c) \in Writer /\ Swapped(c) \in Writer
<1>1. HasClient(c) \in BOOLEAN
  BY DEF HasClient, Config
<1>2. [enabled |-> FALSE, url |-> Blank, token |-> Blank] \in Config
  BY DEF Config, Url, Token
<1> QED
  BY <1>1, <1>2 DEF Started, Swapped, Writer

LEMMA NoRequestType == NoRequest \in Request
  BY DEF NoRequest, Request, Row, Config, Url, Token

LEMMA InitTypeOK == Init => TypeOK
<1> SUFFICES ASSUME Init PROVE TypeOK
  OBVIOUS
<1>1. app \in Config
  BY SettingsAssumption DEF Init
<1>2. live \in Writer
  BY <1>1, WriterType DEF Init
<1>3. req \in [Admins -> Request]
  BY NoRequestType DEF Init
<1>4. saves \in 0 .. MaxSaves /\ failures \in 0 .. MaxFailures /\ restarts \in 0 .. MaxRestarts
  BY SettingsAssumption DEF Init
<1>5. /\ app \in AppConfs /\ row \in Row \cup {NoRow} /\ misread \in BOOLEAN
      /\ raced \in {"never", "before", "now"} /\ secret \in Token
  BY DEF Init, Token
<1> QED
  BY <1>2, <1>3, <1>4, <1>5 DEF TypeOK

LEMMA SaveType ==
  ASSUME TypeOK, NEW a \in Admins, NEW url \in Url, NEW token \in Token, Save(a, url, token)
  PROVE  TypeOK'
<1>1. [NoRequest EXCEPT !.pc = "read", !.url = url, !.token = token] \in Request
  BY NoRequestType DEF Request
<1>2. req' \in [Admins -> Request]
  BY <1>1 DEF Save, TypeOK
<1>3. saves' \in 0 .. MaxSaves
  BY SettingsAssumption DEF Save, TypeOK
<1>4. raced' \in {"never", "before", "now"}
  BY DEF Save, TypeOK
<1> QED
  BY <1>2, <1>3, <1>4 DEF Save, TypeOK

LEMMA DbFailsType == ASSUME TypeOK, DbFails PROVE failures' \in 0 .. MaxFailures
  BY SettingsAssumption DEF DbFails, TypeOK

LEMMA StepType == ASSUME TypeOK, NEW a \in Admins, Step(a) PROVE TypeOK'
<1>1. /\ req \in [Admins -> Request] /\ req[a] \in Request /\ app \in Config
      /\ row \in Row \cup {NoRow}
  BY SettingsAssumption DEF TypeOK
<1>2. /\ req[a].url \in Url /\ req[a].token \in Token
      /\ req[a].existing.token \in Token /\ req[a].fresh \in Config
  BY <1>1 DEF Request, Row
<1>3. Over(req[a].token, req[a].existing.token) \in Token
  BY <1>2, OverType
<1>4. [req EXCEPT ![a] = NoRequest] \in [Admins -> Request]
  BY <1>1, NoRequestType
<1>5. \A pc \in {"insert", "load"} : [req EXCEPT ![a].pc = pc] \in [Admins -> Request]
  <2>1. \A pc \in {"insert", "load"} : [req[a] EXCEPT !.pc = pc] \in Request
    BY <1>1 DEF Request
  <2> QED
    BY <1>1, <2>1
<1>6. CASE ReadRow(a)
  <2>1. CASE row = NoRow
    BY <1>5, <1>6, <2>1 DEF ReadRow, TypeOK
  <2>2. CASE row # NoRow
    <3>1. [req[a] EXCEPT !.pc = "update", !.existing = row] \in Request
      BY <1>1, <2>2 DEF Request
    <3>2. req' \in [Admins -> Request]
      BY <1>1, <1>6, <2>2, <3>1 DEF ReadRow
    <3> QED
      BY <1>6, <3>2 DEF ReadRow, TypeOK
  <2> QED
    BY <2>1, <2>2
<1>7. CASE Insert(a)
  <2>1. row' \in Row /\ secret' \in Token
    BY <1>2, <1>7 DEF Insert, Remember, Row, TypeOK
  <2> QED
    BY <1>5, <1>7, <2>1 DEF Insert, TypeOK
<1>8. CASE InsertRefused(a)
  BY <1>4, <1>8 DEF InsertRefused, TypeOK
<1>9. CASE Update(a)
  <2>1. row' \in Row /\ secret' \in Token
    BY <1>2, <1>3, <1>9 DEF Update, Remember, Row, TypeOK
  <2> QED
    BY <1>5, <1>9, <2>1 DEF Update, TypeOK
<1>10. CASE SaveFails(a)
  BY <1>4, <1>10, DbFailsType DEF SaveFails, TypeOK
<1>11. CASE Load(a)
  <2>1. [req[a] EXCEPT !.pc = "swap", !.fresh = LaidOver(row, app)] \in Request
    BY <1>1, LaidOverType DEF Request
  <2>2. req' \in [Admins -> Request]
    BY <1>1, <1>11, <2>1 DEF Load
  <2>3. raced' \in {"never", "before", "now"}
    BY <1>11 DEF Load, RaceIsOver, TypeOK
  <2> QED
    BY <1>11, <2>2, <2>3 DEF Load, TypeOK
<1>12. CASE LoadFails(a)
  <2>1. [req[a] EXCEPT !.pc = "swap", !.fresh = app] \in Request
    BY <1>1 DEF Request
  <2>2. req' \in [Admins -> Request]
    BY <1>1, <1>12, <2>1 DEF LoadFails
  <2> QED
    BY <1>12, <2>2, DbFailsType DEF LoadFails, TypeOK
<1>13. CASE Reconfigure(a)
  <2>1. live' \in Writer
    BY <1>2, <1>13, WriterType DEF Reconfigure
  <2> QED
    BY <1>4, <1>13, <2>1 DEF Reconfigure, TypeOK
<1> QED
  BY <1>6, <1>7, <1>8, <1>9, <1>10, <1>11, <1>12, <1>13 DEF Step

LEMMA RestartType ==
  ASSUME TypeOK, NEW conf \in AppConfs, Restart(conf) \/ RestartMisreads(conf)
  PROVE  TypeOK'
<1>1. conf \in Config
  BY SettingsAssumption
<1>2. Stop(conf)
  BY DEF Restart, RestartMisreads
<1>3. restarts' \in 0 .. MaxRestarts
  BY <1>2, SettingsAssumption DEF Stop, TypeOK
<1>4. req' \in [Admins -> Request]
  BY <1>2, NoRequestType DEF Stop
<1>5. raced' \in {"never", "before", "now"}
  BY <1>2 DEF Stop, RaceIsOver, TypeOK
<1>6. live' \in Writer
  BY <1>1, LaidOverType, WriterType DEF Restart, RestartMisreads, TypeOK
<1>7. failures' \in 0 .. MaxFailures /\ misread' \in BOOLEAN
  BY DbFailsType DEF Restart, RestartMisreads, TypeOK
<1> QED
  BY <1>2, <1>3, <1>4, <1>5, <1>6, <1>7 DEF Stop, TypeOK

LEMMA NextTypeOK == TypeOK /\ [Next]_vars => TypeOK'
<1> SUFFICES ASSUME TypeOK, [Next]_vars PROVE TypeOK'
  OBVIOUS
<1>1. ASSUME NEW a \in Admins, NEW url \in Url, NEW token \in Token, Save(a, url, token)
      PROVE  TypeOK'
  BY <1>1, SaveType
<1>2. ASSUME NEW a \in Admins, Step(a) PROVE TypeOK'
  BY <1>2, StepType
<1>3. ASSUME NEW conf \in AppConfs, Restart(conf) \/ RestartMisreads(conf) PROVE TypeOK'
  BY <1>3, RestartType
<1>4. CASE UNCHANGED vars
  BY <1>4 DEF vars, TypeOK
<1> QED
  BY <1>1, <1>2, <1>3, <1>4 DEF Next

\* Row, writer and requests stay what they are declared to be; above all, no request
\* works on a row that does not exist.
THEOREM TypesHold == Spec => []TypeOK
<1>1. QED
  BY InitTypeOK, NextTypeOK, PTL DEF Spec

-----------------------------------------------------------------------------
(* The writer follows the row.                                                *)

\* Once a race is over, one request is under way at most.
Alone ==
  raced # "now" => \A a, b \in Admins : req[a].pc # "idle" /\ req[b].pc # "idle" => a = b

\* What a request that does not race knows of the row.
Knows(r) ==
  /\ r.pc = "insert" => row = NoRow
  /\ r.pc = "update" => row # NoRow /\ r.existing = row
  /\ r.pc = "swap" /\ ~misread => r.fresh = LaidOver(row, app)

NoReload == \A a \in Admins : req[a].pc \notin {"load", "swap"}

Follows == Exports(live) = Exports(Started(LaidOver(row, app)))

SecretKept == IF row = NoRow THEN secret = Blank ELSE row.token = secret

Inv ==
  /\ TypeOK
  /\ Alone
  /\ raced # "now" => \A a \in Admins : Knows(req[a])
  /\ raced # "now" /\ ~misread /\ NoReload => Follows
  /\ raced = "never" => SecretKept

\* Reconfigure and Start differ in the configuration they leave in a writer without a
\* client, not in what it exports.
LEMMA SameExports == ASSUME NEW c \in Config PROVE Exports(Swapped(c)) = Exports(Started(c))
<1>1. CASE HasClient(c)
  BY <1>1 DEF Swapped, Started
<1>2. CASE ~HasClient(c)
  BY <1>2 DEF Swapped, Started, Exports
<1> QED
  BY <1>1, <1>2

LEMMA InitInv == Init => Inv
<1> SUFFICES ASSUME Init PROVE Inv
  OBVIOUS
<1>1. TypeOK
  BY InitTypeOK
<1>2. \A a \in Admins : req[a].pc = "idle"
  BY DEF Init, NoRequest
<1>3. Alone /\ \A a \in Admins : Knows(req[a])
  BY <1>2 DEF Alone, Knows
<1>4. Follows
  BY DEF Init, Follows, LaidOver
<1>5. SecretKept
  BY DEF Init, SecretKept
<1> QED
  BY <1>1, <1>3, <1>4, <1>5 DEF Inv

LEMMA SaveInv ==
  ASSUME Inv, NEW a \in Admins, NEW url \in Url, NEW token \in Token, Save(a, url, token)
  PROVE  Inv'
<1> DEFINE r == [NoRequest EXCEPT !.pc = "read", !.url = url, !.token = token]
<1>1. TypeOK'
  BY SaveType DEF Inv
<1>2. req' = [req EXCEPT ![a] = r] /\ r.pc = "read"
  BY DEF Save, NoRequest
<1> HIDE DEF r
<1>3. req'[a].pc = "read" /\ \A b \in Admins \ {a} : req'[b] = req[b]
  BY <1>2 DEF Inv, TypeOK
<1>4. UNCHANGED <<app, row, live, misread, secret>> /\ raced' = IF Quiet THEN raced ELSE "now"
  BY DEF Save
<1>5. raced' # "now" => raced' = raced /\ \A b \in Admins \ {a} : req'[b].pc = "idle"
  BY <1>3, <1>4 DEF Quiet
<1>6. Alone'
  BY <1>5 DEF Alone
<1>7. raced' # "now" => \A b \in Admins : Knows(req[b])'
  BY <1>3, <1>5 DEF Knows
<1>8. raced' # "now" /\ ~misread' /\ NoReload' => Follows'
  <2>1. ASSUME raced' # "now" PROVE NoReload
    BY <1>4, <2>1 DEF Quiet, NoReload
  <2>2. Follows' = Follows
    BY <1>4 DEF Follows, LaidOver
  <2> QED
    BY <1>4, <1>5, <2>1, <2>2 DEF Inv
<1>9. raced' = "never" => SecretKept'
  BY <1>4 DEF Inv, SecretKept
<1> QED
  BY <1>1, <1>6, <1>7, <1>8, <1>9 DEF Inv

\* What a step of a request leaves to the others: nobody else is under way, unless a
\* race is on.
LEMMA OthersIdle ==
  ASSUME Inv, NEW a \in Admins, req[a].pc # "idle", raced # "now",
         \A b \in Admins \ {a} : req'[b] = req[b]
  PROVE  \A b \in Admins \ {a} : req[b].pc = "idle" /\ req'[b].pc = "idle"
  BY DEF Inv, Alone

LEMMA StepFacts ==
  ASSUME TypeOK, NEW a \in Admins, Step(a)
  PROVE  /\ req[a].pc # "idle"
         /\ \A b \in Admins \ {a} : req'[b] = req[b]
         /\ app' = app
         /\ raced' = raced \/ Load(a)
  BY DEF TypeOK, Step, ReadRow, Insert, InsertRefused, Update, SaveFails, Load, LoadFails,
     Reconfigure

\* The common end of the cases: what is left to show is the request itself, the writer
\* and the token.
LEMMA StepDone ==
  ASSUME Inv, TypeOK', NEW a \in Admins, req[a].pc # "idle", raced' = raced,
         \A b \in Admins \ {a} : req'[b] = req[b],
         raced # "now" => Knows(req[a])',
         raced # "now" /\ ~misread' /\ NoReload' => Follows',
         raced = "never" => SecretKept'
  PROVE  Inv'
<1>1. raced # "now" => \A b \in Admins \ {a} : req'[b].pc = "idle"
  BY OthersIdle
<1>2. Alone'
  BY <1>1 DEF Alone
<1>3. raced' # "now" => \A b \in Admins : Knows(req[b])'
  BY <1>1 DEF Knows
<1> QED
  BY <1>2, <1>3 DEF Inv

\* Before the reload, nothing but the row and the request changes.
LEMMA WriterWaits ==
  ASSUME Inv, NEW a \in Admins, req[a].pc \in {"read", "insert", "update"},
         \A b \in Admins \ {a} : req'[b] = req[b],
         UNCHANGED <<app, row, live, misread>>
  PROVE  raced # "now" /\ ~misread' => Follows'
<1> SUFFICES ASSUME raced # "now", ~misread PROVE Follows'
  OBVIOUS
<1>1. NoReload
  BY OthersIdle DEF NoReload
<1>2. Follows
  BY <1>1 DEF Inv
<1> QED
  BY <1>2 DEF Follows, LaidOver

LEMMA StepInv == ASSUME Inv, NEW a \in Admins, Step(a) PROVE Inv'
<1>1. TypeOK' /\ req[a] \in Request /\ req \in [Admins -> Request]
  BY StepType DEF Inv, TypeOK
<1>2. /\ req[a].pc # "idle"
      /\ \A b \in Admins \ {a} : req'[b] = req[b]
      /\ app' = app
      /\ raced' = raced \/ Load(a)
  BY StepFacts DEF Inv
<1>3. CASE ReadRow(a)
  <2>1. req[a].pc = "read" /\ UNCHANGED <<app, row, live, misread, raced, secret>>
    BY <1>3 DEF ReadRow
  <2>2. \/ row = NoRow /\ req'[a].pc = "insert"
        \/ row # NoRow /\ req'[a].pc = "update" /\ req'[a].existing = row
    BY <1>1, <1>3 DEF ReadRow, Request
  <2>3. Knows(req[a])'
    BY <2>1, <2>2 DEF Knows
  <2>4. raced = "never" => SecretKept'
    BY <2>1 DEF Inv, SecretKept
  <2> QED
    BY <1>1, <1>2, <2>1, <2>3, <2>4, WriterWaits, StepDone
<1>4. CASE Insert(a)
  <2>1. /\ row = NoRow /\ row' = [url |-> req[a].url, token |-> req[a].token]
        /\ req'[a].pc = "load" /\ raced' = raced
        /\ secret' = IF req[a].token = Blank THEN secret ELSE req[a].token
    BY <1>1, <1>4 DEF Insert, Remember
  <2>2. row' # NoRow
    BY <1>1, <2>1, SettingsAssumption DEF Request
  <2>3. Knows(req[a])'
    BY <2>1 DEF Knows
  <2>4. ~NoReload'
    BY <2>1 DEF NoReload
  <2>5. raced = "never" => SecretKept'
    BY <2>1, <2>2 DEF Inv, SecretKept
  <2> QED
    BY <1>1, <1>2, <2>1, <2>3, <2>4, <2>5, StepDone
<1>5. CASE Update(a)
  <2>1. /\ req[a].pc = "update" /\ req'[a].pc = "load" /\ raced' = raced
        /\ row' = [url |-> req[a].url, token |-> Over(req[a].token, req[a].existing.token)]
        /\ secret' = IF req[a].token = Blank THEN secret ELSE req[a].token
    BY <1>1, <1>5 DEF Update, Remember
  <2>2. row' # NoRow
    <3>1. Over(req[a].token, req[a].existing.token) \in Token
      BY <1>1, OverType DEF Request, Row
    <3> QED
      BY <1>1, <2>1, <3>1, SettingsAssumption DEF Request
  <2>3. Knows(req[a])'
    BY <2>1 DEF Knows
  <2>4. ~NoReload'
    BY <2>1 DEF NoReload
  <2>5. ASSUME raced = "never" PROVE SecretKept'
    <3>1. row # NoRow /\ req[a].existing = row
      BY <2>1, <2>5 DEF Inv, Knows
    <3>2. row.token = secret
      BY <2>5, <3>1 DEF Inv, SecretKept
    <3> QED
      BY <2>1, <2>2, <3>1, <3>2 DEF SecretKept, Over
  <2> QED
    BY <1>1, <1>2, <2>1, <2>3, <2>4, <2>5, StepDone
<1>6. CASE InsertRefused(a) \/ SaveFails(a)
  <2>1. /\ req[a].pc \in {"read", "insert", "update"}
        /\ req' = [req EXCEPT ![a] = NoRequest]
        /\ UNCHANGED <<app, row, live, misread, raced, secret>>
    BY <1>6 DEF InsertRefused, SaveFails
  <2>2. req'[a].pc = "idle"
    BY <1>1, <2>1 DEF NoRequest
  <2>3. Knows(req[a])'
    BY <2>2 DEF Knows
  <2>4. raced = "never" => SecretKept'
    BY <2>1 DEF Inv, SecretKept
  <2> QED
    BY <1>1, <1>2, <2>1, <2>3, <2>4, WriterWaits, StepDone
<1>7. CASE Load(a)
  <2>1. /\ UNCHANGED <<app, row, live, secret>> /\ misread' = FALSE
        /\ req'[a].pc = "swap" /\ req'[a].fresh = LaidOver(row, app)
    BY <1>1, <1>7 DEF Load, Request
  <2>2. Knows(req[a])'
    BY <2>1 DEF Knows, LaidOver
  <2>3. raced' # "now" => \A b \in Admins \ {a} : req'[b].pc = "idle"
    <3>1. CASE \A b \in Admins \ {a} : req[b].pc = "idle"
      BY <1>2, <3>1
    <3>2. CASE ~ \A b \in Admins \ {a} : req[b].pc = "idle"
      <4>1. raced' = raced
        BY <1>7, <3>2 DEF Load
      <4> QED
        BY <1>2, <4>1, OthersIdle
    <3> QED
      BY <3>1, <3>2
  <2>4. Alone'
    BY <2>3 DEF Alone
  <2>5. raced' # "now" => \A b \in Admins : Knows(req[b])'
    BY <2>2, <2>3 DEF Knows
  <2>6. ~NoReload'
    BY <2>1 DEF NoReload
  <2>7. raced' = "never" => raced = "never"
    BY <1>7 DEF Load, RaceIsOver
  <2>8. raced' = "never" => SecretKept'
    BY <2>1, <2>7 DEF Inv, SecretKept
  <2> QED
    BY <1>1, <2>4, <2>5, <2>6, <2>8 DEF Inv
<1>8. CASE LoadFails(a)
  <2>1. /\ UNCHANGED <<app, row, live, raced, secret>> /\ misread' = TRUE
    BY <1>8 DEF LoadFails
  <2>2. req'[a].pc = "swap"
    BY <1>1, <1>8 DEF LoadFails, Request
  <2>3. Knows(req[a])'
    BY <2>1, <2>2 DEF Knows
  <2>4. raced = "never" => SecretKept'
    BY <2>1 DEF Inv, SecretKept
  <2> QED
    BY <1>1, <1>2, <2>1, <2>3, <2>4, StepDone
<1>9. CASE Reconfigure(a)
  <2>1. /\ UNCHANGED <<app, row, misread, raced, secret>>
        /\ live' = Swapped(req[a].fresh)
        /\ req[a].pc = "swap" /\ req' = [req EXCEPT ![a] = NoRequest]
    BY <1>9 DEF Reconfigure
  <2>2. req'[a].pc = "idle"
    BY <1>1, <2>1 DEF NoRequest
  <2>3. Knows(req[a])'
    BY <2>2 DEF Knows
  <2>4. ASSUME raced # "now", ~misread PROVE Follows'
    <3>1. req[a].fresh = LaidOver(row, app) /\ req[a].fresh \in Config
      BY <1>1, <2>1, <2>4 DEF Inv, Knows, Request
    <3>2. Exports(live') = Exports(Started(LaidOver(row, app)))
      BY <2>1, <3>1, SameExports
    <3> QED
      BY <2>1, <3>2 DEF Follows, LaidOver, Exports
  <2>5. raced = "never" => SecretKept'
    BY <2>1 DEF Inv, SecretKept
  <2> QED
    BY <1>1, <1>2, <2>1, <2>3, <2>4, <2>5, StepDone
<1> QED
  BY <1>3, <1>4, <1>5, <1>6, <1>7, <1>8, <1>9 DEF Step

LEMMA RestartInv ==
  ASSUME Inv, NEW conf \in AppConfs, Restart(conf) \/ RestartMisreads(conf)
  PROVE  Inv'
<1>1. TypeOK'
  BY RestartType DEF Inv
<1>2. Stop(conf)
  BY DEF Restart, RestartMisreads
<1>3. \A a \in Admins : req'[a].pc = "idle"
  BY <1>2 DEF Stop, NoRequest
<1>4. Alone' /\ \A a \in Admins : Knows(req[a])'
  BY <1>3 DEF Alone, Knows
<1>5. ~misread' => Follows'
  <2>1. SUFFICES ASSUME Restart(conf) PROVE Follows'
    BY DEF Restart, RestartMisreads
  <2>2. live' = Started(LaidOver(row, conf)) /\ row' = row /\ app' = conf
    BY <2>1 DEF Restart, Stop
  <2>3. Started(LaidOver(row, app))' = Started(LaidOver(row, conf))
    BY <2>2 DEF LaidOver
  <2> QED
    BY <2>2, <2>3 DEF Follows, Exports
<1>6. raced' = "never" => SecretKept'
  BY <1>2 DEF Inv, Stop, RaceIsOver, SecretKept
<1> QED
  BY <1>1, <1>4, <1>5, <1>6 DEF Inv

LEMMA NextInv == Inv /\ [Next]_vars => Inv'
<1> SUFFICES ASSUME Inv, [Next]_vars PROVE Inv'
  OBVIOUS
<1>1. ASSUME NEW a \in Admins, NEW url \in Url, NEW token \in Token, Save(a, url, token)
      PROVE  Inv'
  BY <1>1, SaveInv
<1>2. ASSUME NEW a \in Admins, Step(a) PROVE Inv'
  BY <1>2, StepInv
<1>3. ASSUME NEW conf \in AppConfs, Restart(conf) \/ RestartMisreads(conf) PROVE Inv'
  BY <1>3, RestartInv
<1>4. CASE UNCHANGED vars
  <2>1. TypeOK'
    BY <1>4 DEF Inv, TypeOK, vars
  <2>2. UNCHANGED <<app, row, live, req, misread, raced, secret>>
    BY <1>4 DEF vars
  <2> QED
    BY <2>1, <2>2 DEF Inv, Alone, Knows, NoReload, Follows, SecretKept, LaidOver, Exports
<1> QED
  BY <1>1, <1>2, <1>3, <1>4 DEF Next

THEOREM InvHolds == Spec => []Inv
<1>1. QED
  BY InitInv, NextInv, PTL DEF Spec

\* The running writer exports what it would after a restart, wherever requests were
\* cut off; after a race, from the next request on its own or the next restart on.
THEOREM LiveIsSavedHolds == Spec => []LiveIsSaved
<1>1. Inv => LiveIsSaved
  BY DEF Inv, LiveIsSaved, Settled, Quiet, NoReload, Follows
<1> QED
  BY <1>1, InvHolds, PTL

\* Without a race the token that was typed last stays stored through every save
\* without one, and what is exported goes out with it, whatever the environment says.
THEOREM SavedIsExportedHolds == Spec => []SavedIsExported
<1>1. Inv => SavedIsExported
  <2> SUFFICES ASSUME Inv, Settled, raced = "never", row # NoRow
               PROVE  /\ row.token = secret
                      /\ row.url # Blank /\ secret # Blank
                           => Exports(live) = {<<row.url, secret>>}
    BY DEF SavedIsExported
  <2>1. row.token = secret
    BY DEF Inv, SecretKept
  <2>2. ASSUME row.url # Blank, secret # Blank PROVE Exports(live) = {<<row.url, secret>>}
    <3> DEFINE c == LaidOver(row, app)
    <3>1. Exports(live) = Exports(Started(c))
      BY DEF Inv, Settled, Quiet, NoReload, Follows
    <3>2. c = [enabled |-> TRUE, url |-> row.url, token |-> secret]
      BY <2>1, <2>2 DEF LaidOver, Over
    <3> HIDE DEF c
    <3>3. HasClient(c)
      BY <2>2, <3>2 DEF HasClient
    <3> QED
      BY <3>1, <3>2, <3>3 DEF Started, Exports
  <2> QED
    BY <2>1, <2>2
<1> QED
  BY <1>1, InvHolds, PTL
==============================================================================
