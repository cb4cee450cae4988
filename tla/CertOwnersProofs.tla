--------------------------- MODULE CertOwnersProofs ---------------------------
(***************************************************************************)
(* Theorems about CertOwners, for every set of names, accounts, requests   *)
(* and every bound, while one request is served at a time.                 *)
(***************************************************************************)
EXTENDS CertOwners, FiniteSetTheorems, TLAPS

\* What is needed of the types.
Row == [user : Ids, cert : Names, since : Nat, asked : BOOLEAN, copy : Nat]

Types ==
  /\ cert \in [Names -> {"none", "valid", "old", "revoked"}]
  /\ issue \in [Names -> Nat]
  /\ first \in [Names -> Nat]
  /\ rows \subseteq Row
  /\ IsFiniteSet(rows)
  /\ account \in [Ids -> Logins \cup {NoLogin}]
  /\ req \in [Reqs -> Steps \cup {Idle}]

\* One request at a time.
Single == \A r, q \in Reqs : req[r] # Idle /\ req[q] # Idle => r = q

\* The first certificate of a name since it was free is one that was made.
FirstMade == \A n \in Names : first[n] <= issue[n]

\* What a request found out holds until it acts on it.
FreeToCreate ==
  \A r \in Reqs : req[r].pc = "create" =>
    cert[req[r].name] # "none" \/ ~ Assigned(req[r].name)
FreeToDelete == \A r \in Reqs : req[r].pc = "delete" => cert[req[r].name] = "none"
FreeToAssign == \A r \in Reqs : req[r].pc = "insert" => ~ Assigned(req[r].name)

OwnersInv ==
  /\ Types
  /\ Single
  /\ FirstMade
  /\ FreeToCreate
  /\ FreeToDelete
  /\ FreeToAssign
  /\ FormerOwnersCleared

\* The fields of a step.
LEMMA StepFields ==
  ASSUME NEW q \in Steps \cup {Idle}
  PROVE  /\ q # Idle => q.pc # "idle" /\ q.name \in Names
         /\ q.pc \in {"idle", "clear", "delete", "create", "exist", "insert", "guess"}
         /\ q.pc = "clear" \/ q.pc = "delete" => q.then \in {"idle", "create"}
         /\ q.pc \in {"exist", "insert", "guess"} =>
              q.user \in Ids /\ q.todo \subseteq (Ids \X Names)
         /\ Idle.pc = "idle"
BY DEF Steps, Idle

\* A request moves to a later step of its own.
LEMMA MoveTo ==
  ASSUME NEW q \in Steps, NEW pc,
         \/ q.pc \in {"clear", "delete", "create"} /\ pc \in {"clear", "delete", "create"}
         \/ q.pc \in {"exist", "insert", "guess"} /\ pc \in {"exist", "insert", "guess"}
  PROVE  LET p == [q EXCEPT !.pc = pc] IN
           p \in Steps /\ p.pc = pc /\ p.name = q.name
BY DEF Steps

\* What seeding goes on with: the check of one more account, or nothing.
LEMMA SeedRequests ==
  ASSUME NEW todo \in SUBSET (Ids \X Names), NEW next \in NextSeed(todo)
  PROVE  next \in Steps \cup {Idle} /\ next.pc \in {"idle", "exist"}
<1>1. CASE todo = {}
  BY <1>1 DEF NextSeed, Idle
<1>2. CASE todo # {}
  <2>1. PICK v \in FirstOf(todo) :
          next = [pc |-> "exist", name |-> v[2], user |-> v[1], todo |-> todo \ {v}]
    BY <1>2 DEF NextSeed
  <2>2. v \in Ids \X Names
    BY <2>1 DEF FirstOf
  <2>. QED  BY <2>1, <2>2 DEF Steps
<1>. QED  BY <1>1, <1>2

\* A table with another row.
LEMMA WithRow ==
  ASSUME Types, NEW table \in SUBSET rows, NEW u \in Ids, NEW n \in Names, NEW asked \in BOOLEAN
  PROVE  /\ With(table, u, n, asked) \subseteq Row
         /\ IsFiniteSet(With(table, u, n, asked))
         /\ table \subseteq With(table, u, n, asked)
         /\ \A row \in With(table, u, n, asked) \ table :
              row.cert = n /\ row.since = issue[n] /\ row.asked = asked
<1>. DEFINE copy == Cardinality({row \in table : row.user = u /\ row.cert = n})
            new  == [user |-> u, cert |-> n, since |-> issue[n], asked |-> asked, copy |-> copy]
<1>1. IsFiniteSet(table) /\ IsFiniteSet({row \in table : row.user = u /\ row.cert = n})
  BY FS_Subset DEF Types
<1>2. copy \in Nat
  BY <1>1, FS_CardinalityType
<1>3. With(table, u, n, asked) = table \cup {new}
  BY DEF With
<1>. HIDE DEF copy
<1>4. new \in Row /\ new.cert = n /\ new.since = issue[n] /\ new.asked = asked
  BY <1>2 DEF Types, Row
<1>5. IsFiniteSet(table \cup {new})
  BY <1>1, FS_AddElement
<1>. QED  BY <1>3, <1>4, <1>5 DEF Types

LEMMA OwnersInit == Init => OwnersInv
<1>1. IsFiniteSet({})
  BY FS_EmptySet
<1>. QED
  BY <1>1 DEF Init, OwnersInv, Types, Single, FirstMade, FreeToCreate, FreeToDelete,
              FreeToAssign, FormerOwnersCleared, Idle

-----------------------------------------------------------------------------
(* Each operation keeps the invariant.                                     *)

\* A request changes only its own state, and nothing but that.
LEMMA OwnStep ==
  ASSUME OwnersInv, NEW r \in Reqs, NEW next \in Steps \cup {Idle},
         req' = [req EXCEPT ![r] = next], TablesUnchanged,
         \A q \in Reqs : req[q] # Idle => q = r,
         next.pc = "create" => cert[next.name] # "none" \/ ~ Assigned(next.name),
         next.pc = "delete" => cert[next.name] = "none",
         next.pc = "insert" => ~ Assigned(next.name)
  PROVE  OwnersInv'
<1>1. /\ req' \in [Reqs -> Steps \cup {Idle}]
      /\ req'[r] = next
      /\ \A q \in Reqs \ {r} : req'[q] = Idle
  BY DEF OwnersInv, Types
<1>2. Types'
  BY <1>1 DEF OwnersInv, Types, TablesUnchanged, CertsUnchanged
<1>3. Single' /\ FirstMade'
  BY <1>1 DEF Single, OwnersInv, FirstMade, TablesUnchanged, CertsUnchanged
<1>4. Idle.pc = "idle"
  BY DEF Idle
<1>5. FreeToCreate' /\ FreeToDelete' /\ FreeToAssign'
  BY <1>1, <1>4 DEF FreeToCreate, FreeToDelete, FreeToAssign, Assigned, TablesUnchanged,
                   CertsUnchanged
<1>6. FormerOwnersCleared'
  BY DEF OwnersInv, FormerOwnersCleared, TablesUnchanged, CertsUnchanged
<1>. QED  BY <1>2, <1>3, <1>5, <1>6 DEF OwnersInv

\* The table changes, in a way that leaves its rows those of listed certificates,
\* while no request but the one at hand is under way, and that one ends or goes on.
LEMMA TableStep ==
  ASSUME OwnersInv, NEW r \in Reqs, NEW next \in Steps \cup {Idle},
         req' = [req EXCEPT ![r] = next], CertsUnchanged, UNCHANGED account,
         \A q \in Reqs : req[q] # Idle => q = r,
         rows' \subseteq Row, IsFiniteSet(rows'),
         \A row \in rows' \ rows : row.since = issue[row.cert],
         next.pc \notin {"delete", "insert"},
         next.pc = "create" => \A row \in rows' : row.cert # next.name
  PROVE  OwnersInv'
<1>1. /\ req' \in [Reqs -> Steps \cup {Idle}]
      /\ req'[r] = next
      /\ \A q \in Reqs \ {r} : req'[q] = Idle
  BY DEF OwnersInv, Types
<1>2. Types'
  BY <1>1 DEF OwnersInv, Types, CertsUnchanged
<1>3. Single' /\ FirstMade'
  BY <1>1 DEF Single, OwnersInv, FirstMade, CertsUnchanged
<1>4. Idle.pc = "idle"
  BY DEF Idle
<1>5. FreeToCreate' /\ FreeToDelete' /\ FreeToAssign'
  BY <1>1, <1>4 DEF FreeToCreate, FreeToDelete, FreeToAssign, Assigned, CertsUnchanged
<1>6. FormerOwnersCleared'
  <2>. SUFFICES ASSUME NEW row \in rows', cert[row.cert] # "none"
                PROVE  row.since >= first[row.cert]
    BY DEF FormerOwnersCleared, CertsUnchanged
  <2>1. row \in Row /\ row.cert \in Names
    BY DEF Row
  <2>2. issue[row.cert] \in Nat /\ first[row.cert] \in Nat /\ first[row.cert] <= issue[row.cert]
    BY <2>1 DEF OwnersInv, Types, FirstMade
  <2>. QED  BY <2>2 DEF OwnersInv, FormerOwnersCleared
<1>. QED  BY <1>2, <1>3, <1>5, <1>6 DEF OwnersInv

\* While requests do not overlap, a request that starts or ends or goes on is alone.
LEMMA Alone ==
  ASSUME OwnersInv, Overlap = FALSE, NEW r \in Reqs, Free(r) \/ req[r] # Idle
  PROVE  \A q \in Reqs : req[q] # Idle => q = r
BY DEF OwnersInv, Single, Free, Quiet


\* Requests that start: each of them is alone, and has found out nothing yet.
LEMMA StartSteps ==
  ASSUME OwnersInv, Overlap = FALSE, NEW r \in Reqs
  PROVE  /\ \A n \in Names : Post(r, n) => OwnersInv'
         /\ \A u \in Ids, n \in Names : Assign(r, u, n) => OwnersInv'
         /\ SeedCerts(r) => OwnersInv'
<1>1. ASSUME NEW next \in Steps \cup {Idle}, next.pc \in {"idle", "clear", "exist"},
             Start(r, next)
      PROVE  OwnersInv'
  <2>1. \A q \in Reqs : req[q] # Idle => q = r
    BY <1>1, Alone DEF Start
  <2>. QED  BY <1>1, <2>1, OwnStep DEF Start
<1>2. ASSUME NEW n \in Names, Post(r, n) PROVE OwnersInv'
  BY <1>1, <1>2 DEF Post, Steps
<1>3. ASSUME NEW u \in Ids, NEW n \in Names, Assign(r, u, n) PROVE OwnersInv'
  BY <1>1, <1>3 DEF Assign, Steps
<1>4. ASSUME SeedCerts(r) PROVE OwnersInv'
  <2>1. Seedable \in SUBSET (Ids \X Names)
    BY DEF Seedable
  <2>2. PICK next \in NextSeed(Seedable) : Start(r, next)
    BY <1>4 DEF SeedCerts
  <2>. QED  BY <1>1, <2>1, <2>2, SeedRequests
<1>. QED  BY <1>2, <1>3, <1>4

\* Requests that find something out, or end early.
LEMMA ReadSteps ==
  ASSUME OwnersInv, Overlap = FALSE, NEW r \in Reqs,
         ReadListing(r) \/ CheckAssigned(r) \/ CheckUnanswered(r) \/ Fail(r)
  PROVE  OwnersInv'
<1>1. req[r] \in Steps \cup {Idle} /\ Idle.pc = "idle"
  BY DEF OwnersInv, Types, Idle
<1>2. req[r] # Idle /\ req[r] \in Steps
  BY <1>1 DEF ReadListing, CheckAssigned, CheckUnanswered, Fail
<1>3. \A q \in Reqs : req[q] # Idle => q = r
  BY <1>2, Alone
<1>4. CASE ReadListing(r)
  <2>1. /\ req[r].then \in {"idle", "create"}
        /\ req[r].pc = "clear" /\ TablesUnchanged
    BY <1>2, <1>4, StepFields DEF ReadListing
  <2>2. CASE cert[req[r].name] = "none"
    <3>. DEFINE next == [req[r] EXCEPT !.pc = "delete"]
    <3>1. next \in Steps /\ next.pc = "delete" /\ next.name = req[r].name
      BY <1>2, <2>1, MoveTo
    <3>2. req' = [req EXCEPT ![r] = next]
      BY <1>4, <2>2 DEF ReadListing, GoTo
    <3>. QED  BY <1>3, <2>1, <2>2, <3>1, <3>2, OwnStep
  <2>3. CASE cert[req[r].name] # "none" /\ req[r].then = "idle"
    <3>1. req' = [req EXCEPT ![r] = Idle]
      BY <1>4, <2>3 DEF ReadListing, GoTo
    <3>. QED  BY <1>1, <1>3, <2>1, <3>1, OwnStep
  <2>4. CASE cert[req[r].name] # "none" /\ req[r].then = "create"
    <3>. DEFINE next == [req[r] EXCEPT !.pc = "create"]
    <3>1. next \in Steps /\ next.pc = "create" /\ next.name = req[r].name
      BY <1>2, <2>1, MoveTo
    <3>2. req' = [req EXCEPT ![r] = next]
      BY <1>4, <2>4 DEF ReadListing, GoTo
    <3>. QED  BY <1>3, <2>1, <2>4, <3>1, <3>2, OwnStep
  <2>. QED  BY <2>1, <2>2, <2>3, <2>4
<1>5. CASE CheckAssigned(r)
  <2>1. req[r].pc = "exist" /\ TablesUnchanged
    BY <1>5 DEF CheckAssigned
  <2>2. CASE Assigned(req[r].name)
    <3>1. req' = [req EXCEPT ![r] = Idle]
      BY <1>5, <2>2 DEF CheckAssigned, GoTo
    <3>. QED  BY <1>1, <1>3, <2>1, <3>1, OwnStep
  <2>3. CASE ~ Assigned(req[r].name)
    <3>. DEFINE next == [req[r] EXCEPT !.pc = "insert"]
    <3>1. next \in Steps /\ next.pc = "insert" /\ next.name = req[r].name
      BY <1>2, <2>1, MoveTo
    <3>2. req' = [req EXCEPT ![r] = next]
      BY <1>5, <2>3 DEF CheckAssigned, GoTo
    <3>. QED  BY <1>3, <2>1, <2>3, <3>1, <3>2, OwnStep
  <2>. QED  BY <2>2, <2>3
<1>6. CASE Fail(r)
  <2>1. req' = [req EXCEPT ![r] = Idle] /\ CertsUnchanged /\ UNCHANGED <<rows, account>>
    BY <1>6 DEF Fail, GoTo
  <2>2. rows' \subseteq Row /\ IsFiniteSet(rows')
    BY <2>1 DEF OwnersInv, Types
  <2>. QED  BY <1>1, <1>3, <2>1, <2>2, TableStep
<1>7. CASE CheckUnanswered(r)
  <2>. DEFINE next == [req[r] EXCEPT !.pc = "guess"]
  <2>1. req[r].pc = "exist" /\ CertsUnchanged /\ UNCHANGED <<rows, account>>
    BY <1>7 DEF CheckUnanswered
  <2>2. rows' \subseteq Row /\ IsFiniteSet(rows')
    BY <2>1 DEF OwnersInv, Types
  <2>3. next \in Steps /\ next.pc = "guess" /\ next.name = req[r].name
    BY <1>2, <2>1, MoveTo
  <2>4. req' = [req EXCEPT ![r] = next]
    BY <1>7 DEF CheckUnanswered, GoTo
  <2>. HIDE DEF next
  <2>. QED  BY <1>3, <2>1, <2>2, <2>3, <2>4, TableStep
<1>. QED  BY <1>4, <1>5, <1>6, <1>7


\* Requests that change the assignments.
LEMMA AssignmentSteps ==
  ASSUME OwnersInv, Overlap = FALSE, NEW r \in Reqs
  PROVE  /\ DeleteAssignments(r) => OwnersInv'
         /\ InsertAssignment(r) => OwnersInv'
         /\ \A u \in Ids, n \in Names : RemoveCert(r, u, n) => OwnersInv'
         /\ \A u, v \in Ids, n \in Names : TransferCert(r, u, v, n) => OwnersInv'
<1>1. /\ req \in [Reqs -> Steps \cup {Idle}] /\ req[r] \in Steps \cup {Idle}
      /\ rows \subseteq Row /\ IsFiniteSet(rows) /\ Types
      /\ Idle.pc = "idle"
  BY DEF OwnersInv, Types, Idle
<1>2. ASSUME NEW kept \in SUBSET rows PROVE IsFiniteSet(kept)
  BY <1>1, FS_Subset
<1>3. ASSUME DeleteAssignments(r) PROVE OwnersInv'
  <2>1. req[r] # Idle /\ req[r] \in Steps /\ req[r].pc = "delete"
    BY <1>1, <1>3 DEF DeleteAssignments
  <2>2. \A q \in Reqs : req[q] # Idle => q = r
    BY <2>1, Alone
  <2>3. /\ req[r].then \in {"idle", "create"}
        /\ CertsUnchanged /\ UNCHANGED account
        /\ rows' \subseteq rows /\ IsFiniteSet(rows')
        /\ \A row \in rows' : row.cert # req[r].name
    BY <1>2, <1>3, <2>1, StepFields DEF DeleteAssignments
  <2>4. CASE req[r].then = "idle"
    <3>1. req' = [req EXCEPT ![r] = Idle]
      BY <1>3, <2>4 DEF DeleteAssignments, GoTo
    <3>. QED  BY <1>1, <2>2, <2>3, <3>1, TableStep
  <2>5. CASE req[r].then = "create"
    <3>. DEFINE next == [req[r] EXCEPT !.pc = "create"]
    <3>1. next \in Steps /\ next.pc = "create" /\ next.name = req[r].name
      BY <2>1, MoveTo
    <3>2. req' = [req EXCEPT ![r] = next]
      BY <1>3, <2>5 DEF DeleteAssignments, GoTo
    <3>3. \A row \in rows' : row.cert # next.name
      BY <2>3, <3>1
    <3>. QED  BY <1>1, <2>2, <2>3, <3>1, <3>2, <3>3, TableStep
  <2>. QED  BY <2>3, <2>4, <2>5
<1>4. ASSUME InsertAssignment(r) PROVE OwnersInv'
  <2>1. req[r] # Idle /\ req[r] \in Steps /\ req[r].pc \in {"insert", "guess"}
    BY <1>1, <1>4 DEF InsertAssignment
  <2>2. \A q \in Reqs : req[q] # Idle => q = r
    BY <2>1, Alone
  <2>3. /\ req[r].user \in Ids /\ req[r].name \in Names
        /\ req[r].todo \in SUBSET (Ids \X Names)
    BY <2>1, StepFields
  <2>4. PICK next \in NextSeed(req[r].todo) : req' = [req EXCEPT ![r] = next]
    BY <1>4 DEF InsertAssignment
  <2>5. next \in Steps \cup {Idle} /\ next.pc \in {"idle", "exist"}
    BY <2>3, SeedRequests
  <2>6. /\ rows' = With(rows, req[r].user, req[r].name, req[r].pc = "insert")
        /\ CertsUnchanged /\ UNCHANGED account
    BY <1>4 DEF InsertAssignment
  <2>7. /\ rows' \subseteq Row /\ IsFiniteSet(rows')
        /\ \A row \in rows' \ rows : row.since = issue[row.cert]
    <3>1. PICK asked \in BOOLEAN : rows' = With(rows, req[r].user, req[r].name, asked)
      BY <2>6
    <3>2. rows \in SUBSET rows
      OBVIOUS
    <3>3. /\ rows' \subseteq Row /\ IsFiniteSet(rows')
          /\ \A row \in rows' \ rows : row.cert = req[r].name /\ row.since = issue[req[r].name]
      BY <1>1, <2>3, <3>1, <3>2, WithRow
    <3>. QED  BY <3>3
  <2>. QED  BY <2>2, <2>4, <2>5, <2>6, <2>7, TableStep
<1>5. ASSUME NEW u \in Ids, NEW n \in Names, RemoveCert(r, u, n) PROVE OwnersInv'
  <2>1. /\ \A q \in Reqs : req[q] # Idle => q = r
        /\ req[r] = Idle
    BY <1>5, Alone DEF RemoveCert, Free
  <2>2. /\ req' = [req EXCEPT ![r] = Idle] /\ rows' \subseteq rows /\ IsFiniteSet(rows')
        /\ CertsUnchanged /\ UNCHANGED account
    BY <1>1, <1>2, <1>5, <2>1 DEF RemoveCert
  <2>. QED  BY <1>1, <2>1, <2>2, TableStep
<1>6. ASSUME NEW u \in Ids, NEW v \in Ids, NEW n \in Names, TransferCert(r, u, v, n)
      PROVE  OwnersInv'
  <2>1. /\ \A q \in Reqs : req[q] # Idle => q = r
        /\ req[r] = Idle
    BY <1>6, Alone DEF TransferCert, Free
  <2>2. /\ req' = [req EXCEPT ![r] = Idle]
        /\ CertsUnchanged /\ UNCHANGED account
    BY <1>1, <1>6, <2>1 DEF TransferCert
  <2>3. /\ rows' \subseteq Row /\ IsFiniteSet(rows')
        /\ \A row \in rows' \ rows : row.since = issue[row.cert]
    <3>. DEFINE others == rows \ Owned(u, n)
    <3>1. PICK answered \in BOOLEAN :
            rows' = others \/ rows' = With(others, v, n, Vouched(u, n, answered))
      BY <1>6 DEF TransferCert, Transferred
    <3>2. others \in SUBSET rows /\ Vouched(u, n, answered) \in BOOLEAN
      BY DEF Vouched
    <3>. HIDE DEF others
    <3>. QED  BY <1>1, <1>2, <3>1, <3>2, WithRow
  <2>. QED  BY <1>1, <2>1, <2>2, <2>3, TableStep
<1>. QED  BY <1>3, <1>4, <1>5, <1>6

\* Revoking and hiding certificates lists none anew.
LEMMA NoneListed ==
  ASSUME OwnersInv, UNCHANGED <<issue, first, rows, account>>,
         req' \in [Reqs -> Steps \cup {Idle}],
         cert' \in [Names -> {"none", "valid", "old", "revoked"}],
         \A n \in Names : cert[n] = "none" => cert'[n] = "none"
  PROVE  Types' /\ FirstMade' /\ FormerOwnersCleared'
<1>1. Types' /\ FirstMade'
  BY DEF OwnersInv, Types, FirstMade
<1>2. \A row \in rows : row.cert \in Names
  BY DEF OwnersInv, Types, Row
<1>3. FormerOwnersCleared'
  BY <1>2 DEF OwnersInv, FormerOwnersCleared
<1>. QED  BY <1>1, <1>3

\* Requests that change the certificates.  A new one meets no assignment.
LEMMA CertificateSteps ==
  ASSUME OwnersInv, Overlap = FALSE, NEW r \in Reqs
  PROVE  /\ CreateCertificate(r) \/ CreateUnread(r) => OwnersInv'
         /\ \A n \in Names : Revoke(r, n) \/ Burn(r, n) => OwnersInv'
<1>1. /\ req \in [Reqs -> Steps \cup {Idle}] /\ req[r] \in Steps \cup {Idle}
      /\ Idle.pc = "idle"
  BY DEF OwnersInv, Types, Idle
<1>2. ASSUME NEW next \in {q \in Steps \cup {Idle} : q.pc \in {"idle", "clear"}},
             req' = [req EXCEPT ![r] = next],
             \A q \in Reqs : req[q] # Idle => q = r
      PROVE  Single' /\ FreeToCreate' /\ FreeToDelete' /\ FreeToAssign'
             /\ req' \in [Reqs -> Steps \cup {Idle}]
  <2>1. req'[r] = next /\ \A q \in Reqs \ {r} : req'[q] = Idle
    BY <1>1, <1>2
  <2>. QED
    BY <1>1, <1>2, <2>1 DEF Single, FreeToCreate, FreeToDelete, FreeToAssign
<1>3. ASSUME CreateCertificate(r) \/ CreateUnread(r) PROVE OwnersInv'
  <2>1. req[r] # Idle /\ req[r].pc = "create" /\ req[r].name \in Names
    BY <1>1, <1>3, StepFields DEF CreateCertificate, CreateUnread
  <2>2. \A q \in Reqs : req[q] # Idle => q = r
    BY <2>1, Alone
  <2>3. req' = [req EXCEPT ![r] = Idle] /\ UNCHANGED <<rows, account>>
    BY <1>3 DEF CreateCertificate, CreateUnread, GoTo
  <2>. DEFINE n == req[r].name
  <2>4. \/ cert[n] = "none" /\ Issue(n)
        \/ cert[n] # "none" /\ Issue(n)
        \/ CertsUnchanged
    BY <1>3 DEF CreateCertificate, CreateUnread
  <2>5. CASE cert[n] = "none" /\ Issue(n)
    <3>1. /\ cert' = [cert EXCEPT ![n] = "valid"]
          /\ issue' = [issue EXCEPT ![n] = @ + 1]
          /\ first' = [first EXCEPT ![n] = issue[n] + 1]
      BY <2>5 DEF Issue
    <3>2. \A row \in rows : row.cert # n
      BY <2>1, <2>5 DEF OwnersInv, FreeToCreate, Assigned
    <3>3. Types' /\ FirstMade'
      BY <1>2, <1>1, <2>1, <2>2, <2>3, <3>1 DEF OwnersInv, Types, FirstMade
    <3>4. FormerOwnersCleared'
      BY <2>3, <3>1, <3>2 DEF OwnersInv, Types, FormerOwnersCleared
    <3>. QED  BY <1>1, <1>2, <2>2, <2>3, <3>3, <3>4 DEF OwnersInv
  <2>6. CASE cert[n] # "none" /\ Issue(n)
    <3>1. /\ cert' = [cert EXCEPT ![n] = "valid"]
          /\ issue' = [issue EXCEPT ![n] = @ + 1]
          /\ first' = first
      BY <2>6 DEF Issue, OwnersInv, Types
    <3>2. Types' /\ FirstMade'
      BY <1>2, <1>1, <2>1, <2>2, <2>3, <3>1 DEF OwnersInv, Types, FirstMade
    <3>3. FormerOwnersCleared'
      BY <2>3, <2>6, <3>1 DEF OwnersInv, Types, FormerOwnersCleared
    <3>. QED  BY <1>1, <1>2, <2>2, <2>3, <3>2, <3>3 DEF OwnersInv
  <2>7. CASE CertsUnchanged
    <3>1. Types' /\ FirstMade' /\ FormerOwnersCleared'
      BY <1>1, <1>2, <2>2, <2>3, <2>7
         DEF CertsUnchanged, OwnersInv, Types, FirstMade, FormerOwnersCleared
    <3>. QED  BY <1>1, <1>2, <2>2, <2>3, <3>1 DEF OwnersInv
  <2>. QED  BY <2>4, <2>5, <2>6, <2>7
<1>4. ASSUME NEW n \in Names, Revoke(r, n) PROVE OwnersInv'
  <2>1. /\ req[r] = Idle
        /\ \A q \in Reqs : req[q] # Idle => q = r
    BY <1>4, Alone DEF Revoke, Free
  <2>2. req' = [req EXCEPT ![r] = Idle]
    BY <1>1, <1>4, <2>1 DEF Revoke
  <2>3. /\ cert' \in [Names -> {"none", "valid", "old", "revoked"}]
        /\ \A m \in Names : cert[m] = "none" => cert'[m] = "none"
        /\ UNCHANGED <<issue, first, rows, account, req>>
    BY <1>4 DEF Revoke, Valid, OwnersInv, Types
  <2>4. Types' /\ FirstMade' /\ FormerOwnersCleared'
    BY <1>1, <2>3, NoneListed
  <2>. QED  BY <1>1, <1>2, <2>1, <2>2, <2>4 DEF OwnersInv
<1>5. ASSUME NEW n \in Names, Burn(r, n) PROVE OwnersInv'
  <2>. DEFINE next == [pc |-> "clear", name |-> n, then |-> "idle"]
  <2>1. \A q \in Reqs : req[q] # Idle => q = r
    BY <1>5, Alone DEF Burn
  <2>2. next \in Steps /\ next.pc = "clear" /\ req' = [req EXCEPT ![r] = next]
    BY <1>5 DEF Burn, Steps
  <2>3. /\ Single' /\ FreeToCreate' /\ FreeToDelete' /\ FreeToAssign'
        /\ req' \in [Reqs -> Steps \cup {Idle}]
    BY <1>2, <2>1, <2>2
  <2>4. cert' = cert \/ cert' = [cert EXCEPT ![n] = "none"]
    BY <1>5 DEF Burn
  <2>5. /\ cert' \in [Names -> {"none", "valid", "old", "revoked"}]
        /\ \A m \in Names : cert[m] = "none" => cert'[m] = "none"
    BY <2>4 DEF OwnersInv, Types
  <2>6. UNCHANGED <<issue, first, rows, account>>
    BY <1>5 DEF Burn
  <2>7. Types' /\ FirstMade' /\ FormerOwnersCleared'
    BY <2>3, <2>5, <2>6, NoneListed
  <2>. QED  BY <2>3, <2>7 DEF OwnersInv
<1>. QED  BY <1>3, <1>4, <1>5

\* Accounts come and go without a look at the assignments.
LEMMA AccountSteps ==
  ASSUME OwnersInv, NEW r \in Reqs,
         \/ \E login \in Logins : CreateUser(r, login)
         \/ \E u \in Ids : DeleteUser(r, u)
  PROVE  OwnersInv'
<1>1. UNCHANGED <<cert, issue, first, rows, req>> /\ account' \in [Ids -> Logins \cup {NoLogin}]
  BY DEF CreateUser, DeleteUser, CertsUnchanged, OwnersInv, Types
<1>. QED
  BY <1>1 DEF OwnersInv, Types, Single, FirstMade, FreeToCreate, FreeToDelete, FreeToAssign,
              Assigned, FormerOwnersCleared

\* Each step of the system, and each step that changes nothing, keeps the invariant.
LEMMA OwnersStep ==
  ASSUME Overlap = FALSE
  PROVE  OwnersInv /\ [Next]_vars => OwnersInv'
<1>. SUFFICES ASSUME OwnersInv, [Next]_vars PROVE OwnersInv'
  OBVIOUS
<1>1. CASE UNCHANGED vars
  BY <1>1 DEF vars, OwnersInv, Types, Single, FirstMade, FreeToCreate, FreeToDelete,
              FreeToAssign, Assigned, FormerOwnersCleared
<1>2. CASE Next
  BY <1>2, StartSteps, ReadSteps, AssignmentSteps, CertificateSteps, AccountSteps DEF Next
<1>. QED  BY <1>1, <1>2

\* While requests do not overlap, every assignment of a listed certificate is younger than
\* the last time its name was free, though each request may die between the index and the
\* database and each reading of the index may fail: a former owner can only get a
\* certificate made for a name that was still listed.
THEOREM NotInherited ==
  ASSUME Overlap = FALSE
  PROVE  Spec => []FormerOwnersCleared
<1>1. OwnersInv => FormerOwnersCleared
  BY DEF OwnersInv
<1>. QED  BY <1>1, OwnersInit, OwnersStep, PTL DEF Spec

\* One more row, which is not asked for unless no other row of the certificate is.
LEMMA OneMoreRow ==
  ASSUME Types, OneOwnerAsked, NEW table \in SUBSET rows, NEW u \in Ids, NEW n \in Names,
         NEW asked \in BOOLEAN, rows' = With(table, u, n, asked),
         asked => \A row \in table : row.cert = n => ~ row.asked
  PROVE  OneOwnerAsked'
<1>1. \A row \in rows' \ table : row.cert = n /\ row.asked = asked
  BY WithRow
<1>2. \A a, b \in rows' \ table : a = b
  BY DEF With
<1>. QED  BY <1>1, <1>2 DEF OneOwnerAsked

\* What AssignCert was told still holds when it inserts, and a transfer takes the row it
\* refers to: among the rows of a certificate there is one such row at most.
LEMMA OneOwnerStep ==
  ASSUME Overlap = FALSE
  PROVE  OwnersInv /\ OneOwnerAsked /\ [Next]_vars => OneOwnerAsked'
<1>. SUFFICES ASSUME OwnersInv, OneOwnerAsked, [Next]_vars PROVE OneOwnerAsked'
  OBVIOUS
<1>1. CASE rows' \subseteq rows
  BY <1>1 DEF OneOwnerAsked
<1>2. ASSUME NEW r \in Reqs, InsertAssignment(r) PROVE OneOwnerAsked'
  <2>1. req[r].user \in Ids /\ req[r].name \in Names /\ req[r].pc \in {"insert", "guess"}
    BY <1>2, StepFields DEF InsertAssignment, OwnersInv, Types
  <2>2. rows' = With(rows, req[r].user, req[r].name, req[r].pc = "insert")
    BY <1>2 DEF InsertAssignment
  <2>3. req[r].pc = "insert" => \A row \in rows : row.cert # req[r].name
    BY <1>2 DEF OwnersInv, FreeToAssign, Assigned
  <2>. QED  BY <2>1, <2>2, <2>3, OneMoreRow DEF OwnersInv
<1>3. ASSUME NEW r \in Reqs, NEW u \in Ids, NEW v \in Ids, NEW n \in Names,
             TransferCert(r, u, v, n)
      PROVE  OneOwnerAsked'
  <2>. DEFINE others == rows \ Owned(u, n)
  <2>1. PICK answered \in BOOLEAN : rows' = Transferred(u, v, n, answered)
    BY <1>3 DEF TransferCert
  <2>2. CASE rows' = others
    BY <1>1, <2>2
  <2>3. CASE rows' = With(others, v, n, Vouched(u, n, answered))
    <3>1. others \in SUBSET rows /\ Vouched(u, n, answered) \in BOOLEAN
      BY DEF Vouched
    <3>2. ASSUME Vouched(u, n, answered), NEW row \in others, row.cert = n PROVE ~ row.asked
      <4>1. PICK moved \in Owned(u, n) : moved.asked
        BY <3>2 DEF Vouched
      <4>2. moved \in rows /\ moved.cert = n /\ moved # row
        BY <3>2 DEF Owned
      <4>. QED  BY <3>2, <4>1, <4>2 DEF OneOwnerAsked
    <3>. HIDE DEF others
    <3>. QED  BY <2>3, <3>1, <3>2, OneMoreRow DEF OwnersInv
  <2>. QED  BY <2>1, <2>2, <2>3 DEF Transferred
<1>4. CASE Next
  <2>1. PICK r \in Reqs :
          \/ rows' \subseteq rows
          \/ InsertAssignment(r)
          \/ \E u, v \in Ids : \E n \in Names : TransferCert(r, u, v, n)
    BY <1>4 DEF Next, Post, Revoke, Burn, Assign, RemoveCert, ReadListing, DeleteAssignments,
                CreateCertificate, CreateUnread, CheckAssigned, CheckUnanswered, SeedCerts,
                CreateUser, DeleteUser, Fail, Start, TablesUnchanged
  <2>. QED  BY <1>1, <1>2, <1>3, <2>1
<1>. QED  BY <1>1, <1>4 DEF vars

\* While requests do not overlap, and whatever queries fail and pages are out of date: of
\* the rows of a certificate, one at most rests on an answer of the database.
THEOREM SingleOwner ==
  ASSUME Overlap = FALSE
  PROVE  Spec => []OneOwnerAsked
<1>1. Init => OneOwnerAsked
  BY DEF Init, OneOwnerAsked
<1>. QED  BY <1>1, OwnersInit, OwnersStep, OneOwnerStep, PTL DEF Spec


\* While requests do not overlap, the owner of a listed certificate loses it by an
\* unassignment or a transfer only: what clearFreeCertName read in the index still holds
\* when it deletes the assignments of the name.
THEOREM ListedKeepsOwner ==
  ASSUME Overlap = FALSE
  PROVE  Spec => OwnerKept
<1>1. ASSUME OwnersInv, [Next]_vars
      PROVE  [\A row \in rows \ rows' : cert[row.cert] # "none" => UNCHANGED req]_vars
  <2>1. ASSUME NEW r \in Reqs, DeleteAssignments(r), NEW row \in rows \ rows'
        PROVE  cert[row.cert] = "none"
    BY <1>1, <2>1 DEF DeleteAssignments, OwnersInv, FreeToDelete
  <2>2. CASE UNCHANGED vars
    BY <2>2
  <2>3. CASE Next
    <3>1. PICK r \in Reqs :
            \/ rows \subseteq rows'
            \/ UNCHANGED req
            \/ DeleteAssignments(r)
      BY <2>3 DEF Next, Post, Revoke, Burn, Assign, RemoveCert, TransferCert, ReadListing,
                  CreateCertificate, CreateUnread, CheckAssigned, CheckUnanswered,
                  InsertAssignment, With, SeedCerts, CreateUser, DeleteUser, Fail, Start,
                  TablesUnchanged
    <3>. QED  BY <2>1, <3>1
  <2>. QED  BY <1>1, <2>2, <2>3
<1>. QED  BY <1>1, OwnersInit, OwnersStep, PTL DEF Spec, OwnerKept

-----------------------------------------------------------------------------
(* The bounds, of which the properties above need nothing.                 *)

\* A request that may still make a certificate of its name.
Creates(q) == q.pc = "create" \/ (q.pc \in {"clear", "delete"} /\ q.then = "create")

\* A name has room for the certificate of a request under way.
Bounded ==
  /\ \A n \in Names : issue[n] <= MaxIssues
  /\ \A row \in rows : row.since <= MaxIssues
  /\ failures \in 0 .. MaxFailures
  /\ \A r \in Reqs : Creates(req[r]) => issue[req[r].name] < MaxIssues

\* The request r of a step goes on towards a certificate it was to make, or to none.
LEMMA BoundedRequest ==
  ASSUME OwnersInv, Bounded, NEW r \in Reqs, NEW next \in Steps \cup {Idle},
         req' = [req EXCEPT ![r] = next], UNCHANGED issue,
         Creates(next) => issue[next.name] < MaxIssues,
         \A row \in rows' \ rows : row.since <= MaxIssues,
         failures' \in 0 .. MaxFailures
  PROVE  Bounded'
<1>1. \A q \in Reqs : req'[q] = IF q = r THEN next ELSE req[q]
  BY DEF OwnersInv, Types
<1>2. ASSUME NEW q \in Reqs, Creates(req'[q])
      PROVE  issue[req'[q].name] < MaxIssues
  <2>1. CASE q = r
    BY <1>1, <1>2, <2>1
  <2>2. CASE q # r
    BY <1>1, <1>2, <2>2 DEF Bounded
  <2>. QED  BY <2>1, <2>2
<1>. QED  BY <1>2 DEF Bounded

LEMMA OneMore == ASSUME Bounded, OneFails PROVE failures' \in 0 .. MaxFailures
BY OwnersAssumption DEF Bounded, OneFails

LEMMA BoundedStep ==
  ASSUME Overlap = FALSE
  PROVE  OwnersInv /\ Bounded /\ [Next]_vars => Bounded'
<1>. SUFFICES ASSUME OwnersInv, Bounded, [Next]_vars PROVE Bounded'
  OBVIOUS
<1>1. CASE UNCHANGED vars
  BY <1>1 DEF vars, Bounded
<1>2. ASSUME NEW r \in Reqs, NEW n \in Names, Post(r, n) PROVE Bounded'
  <2>. DEFINE next == [pc |-> "clear", name |-> n, then |-> "create"]
  <2>1. next \in Steps /\ issue[next.name] < MaxIssues /\ req' = [req EXCEPT ![r] = next]
        /\ UNCHANGED <<issue, rows, failures>>
    BY <1>2 DEF Post, Start, TablesUnchanged, CertsUnchanged, Steps
  <2>. QED  BY <2>1, BoundedRequest DEF Bounded
<1>3. ASSUME NEW r \in Reqs, NEW n \in Names, Burn(r, n) PROVE Bounded'
  <2>. DEFINE next == [pc |-> "clear", name |-> n, then |-> "idle"]
  <2>1. next \in Steps /\ ~ Creates(next) /\ req' = [req EXCEPT ![r] = next]
        /\ UNCHANGED <<issue, rows, failures>>
    BY <1>3 DEF Burn, Steps, Creates
  <2>. QED  BY <2>1, BoundedRequest DEF Bounded
<1>4. ASSUME NEW r \in Reqs, NEW u \in Ids, NEW n \in Names, Assign(r, u, n) PROVE Bounded'
  <2>. DEFINE next == [pc |-> "exist", name |-> n, user |-> u, todo |-> {}]
  <2>1. next \in Steps /\ ~ Creates(next) /\ req' = [req EXCEPT ![r] = next]
        /\ UNCHANGED <<issue, rows, failures>>
    BY <1>4 DEF Assign, Start, TablesUnchanged, CertsUnchanged, Steps, Creates
  <2>. QED  BY <2>1, BoundedRequest DEF Bounded
<1>5. ASSUME NEW r \in Reqs, SeedCerts(r) PROVE Bounded'
  <2>1. Seedable \in SUBSET (Ids \X Names)
    BY DEF Seedable
  <2>2. PICK next \in NextSeed(Seedable) : Start(r, next)
    BY <1>5 DEF SeedCerts
  <2>3. next \in Steps \cup {Idle} /\ ~ Creates(next)
    BY <2>1, SeedRequests DEF Creates
  <2>. QED  BY <2>2, <2>3, BoundedRequest DEF Start, TablesUnchanged, CertsUnchanged, Bounded
<1>6. ASSUME NEW r \in Reqs, NEW pc \in {"delete", "create", "insert", "guess", "idle"},
             GoTo(r, pc),
             req[r] # Idle, UNCHANGED issue, rows' \subseteq rows, failures' \in 0 .. MaxFailures,
             pc = "create" => req[r].pc \in {"clear", "delete"} /\ req[r].then = "create",
             pc = "delete" => req[r].pc = "clear",
             pc \in {"insert", "guess"} => req[r].pc = "exist"
      PROVE  Bounded'
  <2>1. req[r] \in Steps
    BY <1>6 DEF OwnersInv, Types
  <2>2. CASE pc = "idle"
    <3>1. req' = [req EXCEPT ![r] = Idle] /\ ~ Creates(Idle)
      BY <1>6, <2>2 DEF GoTo, Creates, Idle
    <3>. QED  BY <1>6, <3>1, BoundedRequest
  <2>3. CASE pc # "idle"
    <3>. DEFINE next == [req[r] EXCEPT !.pc = pc]
    <3>1. req' = [req EXCEPT ![r] = next]
      BY <1>6, <2>3 DEF GoTo
    <3>2. next \in Steps /\ next.pc = pc /\ next.name = req[r].name
      BY <1>6, <2>1, <2>3, MoveTo
    <3>3. pc = "delete" => next.then = req[r].then
      BY <1>6, <2>1 DEF Steps
    <3>. HIDE DEF next
    <3>4. Creates(next) => Creates(req[r])
      BY <1>6, <3>2, <3>3 DEF Creates
    <3>. QED  BY <1>6, <3>1, <3>2, <3>4, BoundedRequest DEF Bounded
  <2>. QED  BY <2>2, <2>3
<1>7. ASSUME NEW r \in Reqs, \/ ReadListing(r) \/ CheckAssigned(r) \/ CheckUnanswered(r)
                             \/ DeleteAssignments(r) \/ Fail(r)
      PROVE  Bounded'
  <2>1. req[r] \in Steps /\ req[r] # Idle
    BY <1>7 DEF ReadListing, CheckAssigned, CheckUnanswered, DeleteAssignments, Fail, OwnersInv,
                Types, Idle
  <2>2. CASE ReadListing(r)
    BY <1>6, <2>1, <2>2, StepFields DEF ReadListing, TablesUnchanged, CertsUnchanged, Bounded
  <2>3. CASE CheckAssigned(r)
    BY <1>6, <2>1, <2>3 DEF CheckAssigned, TablesUnchanged, CertsUnchanged, Bounded
  <2>4. CASE DeleteAssignments(r)
    BY <1>6, <2>1, <2>4, StepFields DEF DeleteAssignments, CertsUnchanged, Bounded
  <2>5. CASE Fail(r)
    <3>1. failures' \in 0 .. MaxFailures
      BY <2>5, OneMore DEF Fail
    <3>. QED  BY <1>6, <2>1, <2>5, <3>1 DEF Fail, CertsUnchanged
  <2>6. CASE CheckUnanswered(r)
    <3>1. failures' \in 0 .. MaxFailures
      BY <2>6, OneMore DEF CheckUnanswered
    <3>. QED  BY <1>6, <2>1, <2>6, <3>1 DEF CheckUnanswered, CertsUnchanged
  <2>. QED  BY <1>7, <2>2, <2>3, <2>4, <2>5, <2>6
<1>8. ASSUME NEW r \in Reqs, CreateCertificate(r) \/ CreateUnread(r) PROVE Bounded'
  <2>. DEFINE n == req[r].name
  <2>1. req[r] \in Steps /\ req[r] # Idle /\ n \in Names /\ req[r].pc = "create"
    BY <1>8, StepFields DEF CreateCertificate, CreateUnread, OwnersInv, Types, Idle
  <2>2. /\ req'[r] = Idle /\ \A q \in Reqs \ {r} : req'[q] = Idle
        /\ rows' = rows /\ failures' \in 0 .. MaxFailures
    BY <1>8, <2>1, OneMore
       DEF CreateCertificate, CreateUnread, GoTo, OwnersInv, Types, Single, Bounded
  <2>3. ~ Creates(Idle)
    BY DEF Creates, Idle
  <2>4. issue[n] < MaxIssues /\ issue[n] \in Nat
    BY <2>1 DEF Bounded, Creates, OwnersInv, Types
  <2>5. \A x \in Names : issue'[x] <= MaxIssues
    <3>1. issue' = issue \/ issue' = [issue EXCEPT ![n] = @ + 1]
      BY <1>8 DEF CreateCertificate, CreateUnread, Issue, CertsUnchanged
    <3>2. issue[n] + 1 <= MaxIssues
      BY <2>4, OwnersAssumption
    <3>. QED  BY <3>1, <3>2 DEF Bounded, OwnersInv, Types
  <2>. QED  BY <2>2, <2>3, <2>5 DEF Bounded
<1>9. ASSUME NEW r \in Reqs, InsertAssignment(r) PROVE Bounded'
  <2>1. /\ req[r] \in Steps /\ req[r].name \in Names /\ req[r].user \in Ids
        /\ req[r].todo \in SUBSET (Ids \X Names)
    BY <1>9, StepFields DEF InsertAssignment, OwnersInv, Types, Idle
  <2>2. PICK next \in NextSeed(req[r].todo) : req' = [req EXCEPT ![r] = next]
    BY <1>9 DEF InsertAssignment
  <2>3. next \in Steps \cup {Idle} /\ ~ Creates(next)
    BY <2>1, SeedRequests DEF Creates
  <2>4. \A row \in rows' \ rows : row.since <= MaxIssues
    BY <1>9, <2>1 DEF InsertAssignment, With, Bounded
  <2>. QED  BY <1>9, <2>2, <2>3, <2>4, BoundedRequest DEF InsertAssignment, CertsUnchanged, Bounded
<1>10. ASSUME NEW r \in Reqs, NEW n \in Names, Revoke(r, n) PROVE Bounded'
  <2>1. UNCHANGED <<issue, req, rows>> /\ failures' \in 0 .. MaxFailures
    BY <1>10, OneMore DEF Revoke, Bounded
  <2>. QED  BY <2>1 DEF Bounded
<1>11. ASSUME NEW r \in Reqs, NEW n \in Names, NEW u \in Ids, NEW v \in Ids,
              RemoveCert(r, u, n) \/ TransferCert(r, u, v, n)
       PROVE  Bounded'
  <2>1. UNCHANGED <<issue, req>> /\ failures' \in 0 .. MaxFailures
    BY <1>11, OneMore DEF RemoveCert, TransferCert, CertsUnchanged, Bounded
  <2>2. \A row \in rows' \ rows : row.since = issue[n]
    <3>. DEFINE others == rows \ Owned(u, n)
    <3>1. CASE RemoveCert(r, u, n)
      BY <3>1 DEF RemoveCert
    <3>2. CASE TransferCert(r, u, v, n)
      <4>1. PICK answered \in BOOLEAN :
              rows' = others \/ rows' = With(others, v, n, Vouched(u, n, answered))
        BY <3>2 DEF TransferCert, Transferred
      <4>2. others \in SUBSET rows
        OBVIOUS
      <4>3. Types /\ Vouched(u, n, answered) \in BOOLEAN
        BY DEF OwnersInv, Vouched
      <4>. HIDE DEF others
      <4>. QED  BY <4>1, <4>2, <4>3, WithRow
    <3>. QED  BY <1>11, <3>1, <3>2
  <2>. QED  BY <2>1, <2>2 DEF Bounded
<1>12. ASSUME NEW r \in Reqs,
              (\E login \in Logins : CreateUser(r, login)) \/ \E u \in Ids : DeleteUser(r, u)
       PROVE  Bounded'
  BY <1>12 DEF CreateUser, DeleteUser, CertsUnchanged, Bounded
<1>. QED
  BY <1>1, <1>2, <1>3, <1>4, <1>5, <1>7, <1>8, <1>9, <1>10, <1>11, <1>12 DEF Next

\* The type invariant, with its bounds: the guard on a form holds until its request makes
\* the certificate, since no other request comes in between.
THEOREM OwnersTyped ==
  ASSUME Overlap = FALSE
  PROVE  Spec => []TypeOK
<1>1. Init => Bounded
  <2>. SUFFICES ASSUME Init PROVE Bounded
    OBVIOUS
  <2>1. \A r \in Reqs : ~ Creates(req[r])
    BY DEF Init, Idle, Creates
  <2>. QED  BY <2>1, OwnersAssumption DEF Init, Bounded
<1>2. OwnersInv /\ Bounded => TypeOK
  <2>. SUFFICES ASSUME OwnersInv, Bounded PROVE TypeOK
    OBVIOUS
  <2>1. issue \in [Names -> 0 .. MaxIssues] /\ first \in [Names -> 0 .. MaxIssues]
    BY OwnersAssumption DEF OwnersInv, Types, FirstMade, Bounded
  <2>2. ASSUME NEW row \in rows
        PROVE  row \in [user : Ids, cert : Names, since : 0 .. MaxIssues, asked : BOOLEAN,
                        copy : Nat]
    <3>1. row \in Row /\ row.since <= MaxIssues
      BY DEF OwnersInv, Types, Bounded
    <3>2. row.since \in 0 .. MaxIssues
      BY <3>1, OwnersAssumption DEF Row
    <3>. QED  BY <3>1, <3>2 DEF Row
  <2>. QED  BY <2>1, <2>2 DEF OwnersInv, Types, Bounded, TypeOK
<1>. QED  BY <1>1, <1>2, OwnersInit, OwnersStep, BoundedStep, PTL DEF Spec
===============================================================================
