----------------------------- MODULE CertOwners ------------------------------
(***************************************************************************)
(* Which user may use which certificate: table user_certificate            *)
(* (models/user_certificate.go), the accounts, and the pages that change   *)
(* them (controllers/profile.go), beside the certificates themselves       *)
(* (controllers/certificates.go).  An assignment names a certificate and   *)
(* outlives it, so creating and removing certificates clears assignments.  *)
(* The index and the database are two stores: a request reads one, writes  *)
(* the other, and may die in between.  The scripts of module Pki are one   *)
(* step here: what they do to the listing of a name.                       *)
(***************************************************************************)
EXTENDS Naturals, Sequences, FiniteSets

CONSTANTS
  Names,        \* certificate names
  Ids,          \* ids of the non-admin accounts; the administrator has id 1
  Logins,       \* login names; one that is also in Names can be seeded
  Reqs,         \* requests that may be served at a time
  Overlap,      \* may a request run while another one does?
  StalePages,   \* may a form come from a page of the past?
  MaxIssues,    \* bound on the certificates made for a name
  MaxFailures   \* how many calls may fail, and requests die midway

ASSUME OwnersAssumption ==
  /\ Ids \subseteq Nat \ {0, 1}
  /\ {Overlap, StalePages} \subseteq BOOLEAN
  /\ MaxIssues \in Nat
  /\ MaxFailures \in Nat

VARIABLES
  cert,      \* the listing of each name in the index; "old": only the certificate that
             \* a renewal replaced is still valid
  issue,     \* how many certificates each name had
  first,     \* the first of them since the name was last free (no column)
  rows,      \* user_certificate
  account,   \* the login of each account, or NoLogin
  req,       \* the requests being served
  failures   \* calls that failed, and requests that died midway

vars == <<cert, issue, first, rows, account, req, failures>>

NoLogin == ""

\* The table with another row.  `copy' stands for the id: it tells the rows of a user and
\* a certificate apart.  No columns: `since' is the number of the name's certificate at
\* the time; `asked' says that the database answered that nobody else has it.
With(table, u, n, asked) ==
  table \cup {[user |-> u, cert |-> n, since |-> issue[n], asked |-> asked,
               copy |-> Cardinality({row \in table : row.user = u /\ row.cert = n})]}

Assigned(n) == \E row \in rows : row.cert = n
Exists(u)   == account[u] # NoLogin
Valid(n)    == cert[n] \in {"valid", "old"}
Idle        == [pc |-> "idle"]
Quiet       == \A r \in Reqs : req[r] = Idle
Free(r)     == req[r] = Idle /\ (Overlap \/ Quiet)

Init ==
  /\ cert = [n \in Names |-> "none"]
  /\ issue = [n \in Names |-> 0]
  /\ first = [n \in Names |-> 0]
  /\ rows = {}
  /\ account = [u \in Ids |-> NoLogin]
  /\ req = [r \in Reqs |-> Idle]
  /\ failures = 0

CertsUnchanged  == UNCHANGED <<cert, issue, first>>
TablesUnchanged == CertsUnchanged /\ UNCHANGED <<rows, account, failures>>

Start(r, request) == Free(r) /\ req' = [req EXCEPT ![r] = request] /\ TablesUnchanged
GoTo(r, pc) == req' = [req EXCEPT ![r] = IF pc = "idle" THEN Idle ELSE [@ EXCEPT !.pc = pc]]

OneFails == failures < MaxFailures /\ failures' = failures + 1

\* An error or the end of the process stops a request between two of its steps.
Fail(r) ==
  /\ req[r] # Idle
  /\ OneFails
  /\ GoTo(r, "idle")
  /\ CertsUnchanged
  /\ UNCHANGED <<rows, account>>

-----------------------------------------------------------------------------
(* Certificates: Post, Revoke, Burn, and clearFreeCertName.                *)

\* Mutant: the name is cleared after a removal only.
CreateAtOnce(r, n) == issue[n] < MaxIssues /\ Start(r, [pc |-> "create", name |-> n, then |-> "idle"])

\* Post: clear the name, then create the certificate.
Post(r, n) == issue[n] < MaxIssues /\ Start(r, [pc |-> "clear", name |-> n, then |-> "create"])

\* Mutant: the name cleared without a look at the index.
SkipListing(r) ==
  /\ req[r].pc = "clear"
  /\ GoTo(r, "delete")
  /\ TablesUnchanged

\* clearFreeCertName, its reading of the index: a listed name keeps its owners.
ReadListing(r) ==
  /\ req[r].pc = "clear"
  /\ GoTo(r, IF cert[req[r].name] = "none" THEN "delete" ELSE req[r].then)
  /\ TablesUnchanged

\* RemoveCertAssignments
DeleteAssignments(r) ==
  /\ req[r].pc = "delete"
  /\ rows' = {row \in rows : row.cert # req[r].name}
  /\ GoTo(r, req[r].then)
  /\ CertsUnchanged
  /\ UNCHANGED <<account, failures>>

\* The script makes a certificate.
Issue(n) ==
  /\ cert' = [cert EXCEPT ![n] = "valid"]
  /\ issue' = [issue EXCEPT ![n] = @ + 1]
  /\ first' = [first EXCEPT ![n] = IF cert[n] = "none" THEN issue[n] + 1 ELSE @]

\* CreateCertificate refuses a name that is listed.
CreateCertificate(r) ==
  LET n == req[r].name IN
  /\ req[r].pc = "create"
  /\ IF cert[n] = "none" THEN Issue(n) ELSE CertsUnchanged
  /\ GoTo(r, "idle")
  /\ UNCHANGED <<rows, account, failures>>

\* An error of its ReadCerts is logged, and the script run for a listed name too.  It
\* refuses one that has a profile or a certificate file (as a Fail): a valid name, and an
\* old one whose profile was not removed yet with the revoked record.
CreateUnread(r) ==
  LET n == req[r].name IN
  /\ req[r].pc = "create"
  /\ cert[n] \in {"old", "revoked"}
  /\ OneFails
  /\ Issue(n)
  /\ GoTo(r, "idle")
  /\ UNCHANGED <<rows, account>>

\* revoke.sh.  Of a renewed name it revokes two certificates, and may end between them.
Revoke(r, n) ==
  /\ Free(r)
  /\ Valid(n)
  /\ \/ cert' = [cert EXCEPT ![n] = "revoked"] /\ UNCHANGED failures
     \/ cert[n] = "valid" /\ cert' = [cert EXCEPT ![n] = "old"] /\ OneFails
  /\ UNCHANGED <<issue, first, rows, account, req>>

\* Burn: rmcert.sh hides a revoked certificate, then the name is cleared.  After a
\* renewal another certificate of the name can still be listed.
Burn(r, n) ==
  /\ Free(r)
  /\ cert[n] # "none"
  /\ cert' \in {cert} \cup (IF cert[n] = "revoked" THEN {[cert EXCEPT ![n] = "none"]} ELSE {})
  /\ req' = [req EXCEPT ![r] = [pc |-> "clear", name |-> n, then |-> "idle"]]
  /\ UNCHANGED <<issue, first, rows, account, failures>>

-----------------------------------------------------------------------------
(* Assignments: AssignCert, RemoveCert, TransferCert, SeedCerts.           *)

\* User and name come from a page, which offers the names nobody has; nothing checks
\* that it is of today.
Assign(r, u, n) ==
  /\ StalePages \/ (Exists(u) /\ Valid(n) /\ ~ Assigned(n))
  /\ Start(r, [pc |-> "exist", name |-> n, user |-> u, todo |-> {}])

\* AssignCert asks whether the name has an owner.  One that has ends the request, also
\* that of SeedCerts.
CheckAssigned(r) ==
  /\ req[r].pc = "exist"
  /\ GoTo(r, IF Assigned(req[r].name) THEN "idle" ELSE "insert")
  /\ TablesUnchanged

\* Exist() drops an error of its query and says no.
CheckUnanswered(r) ==
  /\ req[r].pc = "exist"
  /\ OneFails
  /\ GoTo(r, "guess")
  /\ CertsUnchanged
  /\ UNCHANGED <<rows, account>>

\* SeedCerts serves the accounts it listed, as <<id, login>>, in the order of ids:
\* what its request can be while `todo' is left.
FirstOf(todo) == {v \in todo : \A w \in todo : v[1] <= w[1]}
NextSeed(todo) ==
  IF todo = {} THEN {Idle}
  ELSE {[pc |-> "exist", name |-> v[2], user |-> v[1], todo |-> todo \ {v}] :
          v \in FirstOf(todo)}

InsertAssignment(r) ==
  /\ req[r].pc \in {"insert", "guess"}
  /\ rows' = With(rows, req[r].user, req[r].name, req[r].pc = "insert")
  /\ \E next \in NextSeed(req[r].todo) : req' = [req EXCEPT ![r] = next]
  /\ CertsUnchanged
  /\ UNCHANGED <<account, failures>>

Owned(u, n) == {row \in rows : row.user = u /\ row.cert = n}

RemoveCert(r, u, n) ==
  /\ Free(r)
  /\ rows' = rows \ Owned(u, n)
  /\ CertsUnchanged
  /\ UNCHANGED <<account, req, failures>>

\* Whether the database stands behind the row a transfer from u makes: it answered, and
\* u had such a row.
Vouched(u, n, answered) == answered /\ \E row \in Owned(u, n) : row.asked

\* Mutant: the row added, and the one of the former owner kept.
CopiedTo(u, v, n, answered) == With(rows, v, n, Vouched(u, n, answered))

\* The table after a transfer of n from u to v, who gets no second row if the database
\* answers.
Transferred(u, v, n, answered) ==
  LET others == rows \ Owned(u, n) IN
    IF answered /\ \E row \in others : row.user = v /\ row.cert = n THEN others
    ELSE With(others, v, n, Vouched(u, n, answered))

\* One transaction; Exist() as above.  Neither the handler nor the page, which offers
\* each assigned name with each account, asks whether u has the certificate.
TransferCert(r, u, v, n) ==
  /\ Free(r)
  /\ StalePages \/ (Exists(u) /\ Exists(v) /\ Valid(n) /\ Assigned(n))
  /\ \/ rows' = Transferred(u, v, n, TRUE) /\ UNCHANGED failures
     \/ rows' = Transferred(u, v, n, FALSE) /\ OneFails
  /\ CertsUnchanged
  /\ UNCHANGED <<account, req>>

\* Mutant: every account, not only those with a certificate.
SeedableAll == {<<u, account[u]>> : u \in {v \in Ids : Exists(v)}}

\* The accounts whose login is the name of a valid certificate.
Seedable == {<<u, account[u]>> : u \in
               {v \in Ids : account[v] \in Names /\ Valid(account[v])}}

SeedCerts(r) == \E next \in NextSeed(Seedable) : Start(r, next)

-----------------------------------------------------------------------------
(* Accounts: Create and DeleteUser.                                        *)

\* The next id is one more than the largest in use.
NextId == 1 + (CHOOSE m \in {1} \cup {u \in Ids : Exists(u)} :
                 \A u \in Ids : Exists(u) => u <= m)

CreateUser(r, login) ==
  /\ Free(r)
  /\ \A u \in Ids : account[u] # login
  /\ NextId \in Ids
  /\ account' = [account EXCEPT ![NextId] = login]
  /\ CertsUnchanged
  /\ UNCHANGED <<rows, req, failures>>

DeleteUser(r, u) ==
  /\ Free(r)
  /\ Exists(u)
  /\ account' = [account EXCEPT ![u] = NoLogin]
  /\ CertsUnchanged
  /\ UNCHANGED <<rows, req, failures>>

-----------------------------------------------------------------------------
Next ==
  \E r \in Reqs :
    \/ \E n \in Names :
         \/ Post(r, n) \/ Revoke(r, n) \/ Burn(r, n)
         \/ \E u \in Ids : Assign(r, u, n) \/ RemoveCert(r, u, n)
         \/ \E u, v \in Ids : TransferCert(r, u, v, n)
    \/ ReadListing(r) \/ DeleteAssignments(r) \/ CreateCertificate(r) \/ CreateUnread(r)
    \/ CheckAssigned(r) \/ CheckUnanswered(r) \/ InsertAssignment(r) \/ SeedCerts(r)
    \/ \E login \in Logins : CreateUser(r, login)
    \/ \E u \in Ids : DeleteUser(r, u)
    \/ Fail(r)

Spec == Init /\ [][Next]_vars
-----------------------------------------------------------------------------
(* Properties.                                                             *)

Steps ==
  [pc : {"clear", "delete", "create"}, name : Names, then : {"idle", "create"}]
    \cup [pc : {"exist", "insert", "guess"}, name : Names, user : Ids,
          todo : SUBSET (Ids \X Names)]

TypeOK ==
  /\ cert \in [Names -> {"none", "valid", "old", "revoked"}]
  /\ issue \in [Names -> 0 .. MaxIssues]
  /\ first \in [Names -> 0 .. MaxIssues]
  /\ rows \subseteq [user : Ids, cert : Names, since : 0 .. MaxIssues, asked : BOOLEAN,
                     copy : Nat]
  /\ account \in [Ids -> Logins \cup {NoLogin}]
  /\ req \in [Reqs -> Steps \cup {Idle}]
  /\ failures \in 0 .. MaxFailures

\* "A reused certificate name loses its old assignment": a listed certificate has no
\* assignment from before the name was last free, whichever request died midway and
\* whichever reading of the index failed.  Only a certificate that CreateUnread made for a
\* listed name can be inherited; without one, `first' is the one certificate of the name.
FormerOwnersCleared ==
  \A row \in rows : cert[row.cert] # "none" => row.since >= first[row.cert]

\* "a duplicate name keeps its assignment": while a certificate is listed, its owner
\* loses it by an unassignment or a transfer only, not by a removal of an older
\* certificate of the name nor by an attempt to create the name again.
OwnerKept ==
  [][\A row \in rows \ rows' : cert[row.cert] # "none" => UNCHANGED req]_vars

\* "already assigned to a user": of the rows of a certificate, one at most was inserted
\* because the database said that nobody else has it, or goes back to such a row by
\* transfers.  All others come from queries that failed unnoticed, and from transfers
\* from an account that had no such row.
OneOwnerAsked ==
  \A a, b \in rows : a.cert = b.cert /\ a.asked /\ b.asked => a = b

=============================================================================
