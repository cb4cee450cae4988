--------------------------------- MODULE Pki ---------------------------------
(***************************************************************************)
(* The certificates of the VPN: EasyRSA's index.txt and certificate files, *)
(* changed by the scripts genclient.sh, revoke.sh, renew.sh and rmcert.sh  *)
(* that lib/certificates.go runs, one per request of an administrator.     *)
(* Nothing locks them.  A command of EasyRSA (external) is one step; a     *)
(* `sed -i' is two, because it reads the index and later renames a copy    *)
(* over it.  Any step may be the last one of its script, which `set -e'    *)
(* ends at the first error.                                                *)
(***************************************************************************)
EXTENDS Naturals, Sequences, FiniteSets

CONSTANTS
  Names,        \* certificate names; the common name is the same
  Reqs,         \* requests that may be served at a time
  Overlap,      \* may a script run while another one does?
  MaxSerial,    \* bound on the certificates ever signed
  MaxFailures   \* how many scripts may fail or be killed, and reads of the index fail

ASSUME PkiAssumption ==
  /\ Overlap \in BOOLEAN
  /\ MaxSerial \in Nat
  /\ MaxFailures \in Nat

VARIABLES
  index,     \* pki/index.txt
  issued,    \* pki/issued/<name>.crt: its serial, or None
  renewed,   \* pki/renewed/issued/<name>.crt: its serial, or None
  crl,       \* the serials on crl.pem
  profile,   \* clients/<name>.ovpn: the serial of the certificate in it, or None
  req,       \* the requests being served
  signed,    \* serials used so far, in the order of signing
  failures   \* scripts, and reads of the index, that failed

vars == <<index, issued, renewed, crl, profile, req, signed, failures>>

None   == 0
Serial == 1 .. MaxSerial

\* A line of the index.  `tags' are the names of its "/name=..." suffixes.
Line == [serial : Serial, cn : Names, tags : Seq(Names), status : {"V", "R"},
         removed : BOOLEAN]

\* A certificate revoke.sh still has to revoke, and the file that holds it.
Target == [file : {"issued", "renewed"}, serial : Serial]

\* A request: where its script is, and its variables.  In "replace" sed has read
\* the index and made `copy'; `then' is the step after it.
Request == [pc : {"script", "sign", "tag", "render", "strip", "revoke", "retag",
                  "mark", "remove", "crl", "download", "replace"},
            then : {"none", "render", "done", "revoke", "strip", "remove"},
            op : {"create", "revoke", "renew", "burn", "download"},
            name : Names, serial : Serial \cup {None},
            targets : Seq(Target), copy : Seq(Line)]
Idle == [pc |-> "idle"]

-----------------------------------------------------------------------------
(* The index.                                                              *)

\* ReadCerts: the name a line is listed under, and the names in use.
NameOf(line) == IF line.tags = <<>> THEN line.cn ELSE line.tags[Len(line.tags)]
Listed       == {i \in DOMAIN index : ~ index[i].removed}
ListedNames  == {NameOf(index[i]) : i \in Listed}

SignedLine(n, s) ==
  [serial |-> s, cn |-> n, tags |-> <<>>, status |-> "V", removed |-> FALSE]

\* The sed commands.  Those with a serial change every line that has it: `edited' is
\* the index with all its lines changed.  `$' is the last line, whatever it is by then.
OnLines(s, edited) ==
  [i \in DOMAIN index |-> IF index[i].serial = s THEN edited[i] ELSE index[i]]

Tagged(line, n) == [line EXCEPT !.tags = Append(@, n)]

\* The suffix from the first /name=n on.
Stripped(line, n) ==
  LET hits == {k \in DOMAIN line.tags : line.tags[k] = n} IN
    [line EXCEPT !.tags = IF hits = {} THEN @
       ELSE SubSeq(@, 1, (CHOOSE k \in hits : \A j \in hits : k <= j) - 1)]

LastTagged(n) == [index EXCEPT ![Len(index)] = Tagged(@, n)]

\* gen-crl lists what the index says is revoked.
RevokedSerials == {index[i].serial : i \in {j \in DOMAIN index : index[j].status = "R"}}

-----------------------------------------------------------------------------
Init ==
  /\ index = <<>>
  /\ issued = [n \in Names |-> None]
  /\ renewed = [n \in Names |-> None]
  /\ crl = {}
  /\ profile = [n \in Names |-> None]
  /\ req = [r \in Reqs |-> Idle]
  /\ signed = 0
  /\ failures = 0

Quiet   == \A r \in Reqs : req[r] = Idle
Free(r) == req[r] = Idle /\ (Overlap \/ Quiet)

\* The bound on serials counts the scripts about to sign, so that it stops none.
CanSign ==
  signed + Cardinality({r \in Reqs : req[r].pc \in {"script", "sign"}}) < MaxSerial

\* The request r runs a script that begins at pc.
Begin(r, op, pc, n, s, targets) ==
  req' = [req EXCEPT ![r] = [op |-> op, pc |-> pc, name |-> n, serial |-> s,
                             targets |-> targets, then |-> "none", copy |-> <<>>]]
GoTo(r, pc) == req' = [req EXCEPT ![r] = IF pc = "done" THEN Idle ELSE [@ EXCEPT !.pc = pc]]

\* sed -i: read the index now, replace it later.
Sed(r, copy, then) ==
  req' = [req EXCEPT ![r] = [@ EXCEPT !.pc = "replace", !.copy = copy, !.then = then]]

Replace(r) ==
  /\ req[r].pc = "replace"
  /\ index' = req[r].copy
  /\ req' = [req EXCEPT ![r] =
               IF @.then = "done" THEN Idle
               ELSE [@ EXCEPT !.pc = req[r].then, !.then = "none", !.copy = <<>>]]
  /\ UNCHANGED <<issued, renewed, crl, profile, signed, failures>>

FilesUnchanged == UNCHANGED <<index, issued, renewed, crl, profile, signed, failures>>

\* The script is killed, or its next command fails.
Fail(r) ==
  /\ req[r] # Idle
  /\ failures < MaxFailures
  /\ failures' = failures + 1
  /\ req' = [req EXCEPT ![r] = Idle]
  /\ UNCHANGED <<index, issued, renewed, crl, profile, signed>>

-----------------------------------------------------------------------------
(* CreateCertificate and genclient.sh.                                     *)

\* The name is not in the index, as far as it could be read: an error is logged, and
\* the script started all the same.
CreateCertificate(r, n) ==
  /\ Free(r)
  /\ CanSign
  /\ \/ n \notin ListedNames /\ UNCHANGED failures
     \/ n \in ListedNames /\ failures < MaxFailures /\ failures' = failures + 1
  /\ Begin(r, "create", "script", n, None, <<>>)
  /\ UNCHANGED <<index, issued, renewed, crl, profile, signed>>

\* The script refuses a name that has a profile.
CheckProfile(r) ==
  /\ req[r].pc = "script"
  /\ GoTo(r, IF profile[req[r].name] # None THEN "done" ELSE "sign")
  /\ FilesUnchanged

\* easyrsa gen-req and sign-req; the latter refuses to replace a certificate.
Sign(r) ==
  LET n == req[r].name IN
  /\ req[r].pc = "sign"
  /\ IF issued[n] = None
     THEN /\ signed' = signed + 1
          /\ index' = Append(index, SignedLine(n, signed + 1))
          /\ issued' = [issued EXCEPT ![n] = signed + 1]
          /\ GoTo(r, "tag")
     ELSE /\ GoTo(r, "done")
          /\ UNCHANGED <<index, issued, signed>>
  /\ UNCHANGED <<renewed, crl, profile, failures>>

\* Mutant: renew.sh goes on to write a profile.
TagThenRender(r) ==
  /\ req[r].pc = "tag"
  /\ Sed(r, LastTagged(req[r].name), "render")
  /\ FilesUnchanged

\* "Fixing Database...": the name goes to the last line, here and in renew.sh.
Tag(r) ==
  /\ req[r].pc = "tag"
  /\ Sed(r, LastTagged(req[r].name), IF req[r].op = "create" THEN "render" ELSE "done")
  /\ FilesUnchanged

\* The profile, from the certificate file of the moment.
WriteProfile(r) ==
  /\ req[r].pc = "render"
  /\ profile' = [profile EXCEPT ![req[r].name] = issued[req[r].name]]
  /\ GoTo(r, "done")
  /\ UNCHANGED <<index, issued, renewed, crl, signed, failures>>

-----------------------------------------------------------------------------
(* RevokeCertificate and revoke.sh.                                        *)

\* Mutant: the renewed certificate left alone when the current one is revoked.
CurrentOnly(n, s) ==
  IF s = renewed[n] THEN <<[file |-> "renewed", serial |-> s]>>
  ELSE <<[file |-> "issued", serial |-> s]>>

\* Mutant: the two certificates of a renewal taken for each other.
BothAlways(n, s) ==
  IF renewed[n] # None /\ issued[n] # None
  THEN <<[file |-> "issued", serial |-> issued[n]], [file |-> "renewed", serial |-> renewed[n]]>>
  ELSE <<[file |-> IF s = renewed[n] THEN "renewed" ELSE "issued", serial |-> s]>>

\* What revoke.sh will revoke: the old certificate of a renewal alone, or the
\* current one and then the old one.
Targets(n, s) ==
  IF s = renewed[n] THEN <<[file |-> "renewed", serial |-> s]>>
  ELSE <<[file |-> "issued", serial |-> s]>>
         \o (IF renewed[n] = None THEN <<>> ELSE <<[file |-> "renewed", serial |-> renewed[n]]>>)

\* Name and serial come from a page, so from a line that is or was in the index.
\* A serial that is in neither file ends the script.
RevokeCertificate(r, n, s) ==
  /\ Free(r)
  /\ s \in {issued[n], renewed[n]} \ {None}
  /\ Begin(r, "revoke", "strip", n, s, Targets(n, s))
  /\ FilesUnchanged

\* easyrsa compares the subject, so the suffix goes first.
StripTag(r) ==
  LET n == req[r].name
      stripped == [i \in DOMAIN index |-> Stripped(index[i], n)] IN
  /\ req[r].pc = "strip"
  /\ Sed(r, OnLines(Head(req[r].targets).serial, stripped), "revoke")
  /\ FilesUnchanged

\* easyrsa revoke, or revoke-renewed: the certificate in the file is looked up by
\* its serial; a line with a suffix or one that is revoked is an error, and a
\* missing line is added.  The file moves away.
EasyRsaRevoke(r) ==
  LET n     == req[r].name
      file  == Head(req[r].targets).file
      found == IF file = "issued" THEN issued[n] ELSE renewed[n]
      lines == {i \in DOMAIN index : index[i].serial = found}
      revoked == [i \in DOMAIN index |-> [index[i] EXCEPT !.status = "R"]] IN
  /\ req[r].pc = "revoke"
  /\ IF found # None /\ \A i \in lines : index[i].tags = <<>> /\ index[i].status = "V"
     THEN /\ index' = IF lines # {} THEN OnLines(found, revoked)
                      ELSE Append(index, [SignedLine(n, found) EXCEPT !.status = "R"])
          /\ IF file = "issued"
             THEN issued' = [issued EXCEPT ![n] = None] /\ UNCHANGED renewed
             ELSE renewed' = [renewed EXCEPT ![n] = None] /\ UNCHANGED issued
          /\ GoTo(r, "retag")
     ELSE GoTo(r, "done") /\ UNCHANGED <<index, issued, renewed>>
  /\ UNCHANGED <<crl, profile, signed, failures>>

\* The suffix comes back; then the next certificate, or the end of the script.
RestoreTag(r) ==
  LET n == req[r].name
      rest == Tail(req[r].targets)
      tagged == [i \in DOMAIN index |-> Tagged(index[i], n)] IN
  /\ req[r].pc = "retag"
  /\ req' = [req EXCEPT ![r] =
               [@ EXCEPT !.pc = "replace", !.targets = rest,
                         !.copy = OnLines(Head(req[r].targets).serial, tagged),
                         !.then = IF rest = <<>> THEN "remove" ELSE "strip"]]
  /\ FilesUnchanged

\* Mutant: the profile stays.
KeepProfile(r) ==
  /\ req[r].pc = "remove"
  /\ GoTo(r, IF req[r].op = "revoke" THEN "crl" ELSE "done")
  /\ FilesUnchanged

\* rm -f of the profile, here and in rmcert.sh.
RemoveProfile(r) ==
  /\ req[r].pc = "remove"
  /\ profile' = [profile EXCEPT ![req[r].name] = None]
  /\ GoTo(r, IF req[r].op = "revoke" THEN "crl" ELSE "done")
  /\ UNCHANGED <<index, issued, renewed, crl, signed, failures>>

GenCrl(r) ==
  /\ req[r].pc = "crl"
  /\ crl' = RevokedSerials
  /\ GoTo(r, "done")
  /\ UNCHANGED <<index, issued, renewed, profile, signed, failures>>

-----------------------------------------------------------------------------
(* RenewCertificate and renew.sh; BurnCertificate and rmcert.sh; Download. *)

\* Mutant: a second renewal overwrites the old certificate of the first.
RenewAgain(r, n) ==
  /\ Free(r)
  /\ issued[n] # None
  /\ CanSign
  /\ signed' = signed + 1
  /\ renewed' = [renewed EXCEPT ![n] = issued[n]]
  /\ issued' = [issued EXCEPT ![n] = signed + 1]
  /\ index' = Append(index, SignedLine(n, signed + 1))
  /\ Begin(r, "renew", "tag", n, None, <<>>)
  /\ UNCHANGED <<crl, profile, failures>>

\* easyrsa renew moves the current certificate away and signs another one; it
\* refuses to overwrite the one of an earlier renewal.
RenewCertificate(r, n) ==
  /\ Free(r)
  /\ issued[n] # None /\ renewed[n] = None
  /\ CanSign
  /\ signed' = signed + 1
  /\ renewed' = [renewed EXCEPT ![n] = issued[n]]
  /\ issued' = [issued EXCEPT ![n] = signed + 1]
  /\ index' = Append(index, SignedLine(n, signed + 1))
  /\ Begin(r, "renew", "tag", n, None, <<>>)
  /\ UNCHANGED <<crl, profile, failures>>

\* rmcert.sh goes on with a record that is not valid.
BurnCertificate(r, n, s) ==
  /\ Free(r)
  /\ \E i \in DOMAIN index : index[i].serial = s /\ index[i].cn = n /\ index[i].status # "V"
  /\ Begin(r, "burn", "mark", n, s, <<>>)
  /\ FilesUnchanged

\* Mutant: the record deleted, as in earlier versions.
DeleteRecord(r) ==
  LET others(line) == line.serial # req[r].serial IN
  /\ req[r].pc = "mark"
  /\ Sed(r, SelectSeq(index, others), "remove")
  /\ FilesUnchanged

\* The record stays in the index, marked.
MarkRemoved(r) ==
  LET marked == [i \in DOMAIN index |-> [index[i] EXCEPT !.removed = TRUE]] IN
  /\ req[r].pc = "mark"
  /\ Sed(r, OnLines(req[r].serial, marked), "remove")
  /\ FilesUnchanged

\* saveClientConfig reads the certificate, and writes the profile.
Download(r, n) ==
  /\ Free(r)
  /\ issued[n] # None
  /\ Begin(r, "download", "download", n, issued[n], <<>>)
  /\ FilesUnchanged

SaveProfile(r) ==
  /\ req[r].pc = "download"
  /\ profile' = [profile EXCEPT ![req[r].name] = req[r].serial]
  /\ GoTo(r, "done")
  /\ UNCHANGED <<index, issued, renewed, crl, signed, failures>>

-----------------------------------------------------------------------------
ScriptStep(r) ==
  \/ CheckProfile(r) \/ Sign(r) \/ Tag(r) \/ WriteProfile(r)
  \/ StripTag(r) \/ EasyRsaRevoke(r) \/ RestoreTag(r) \/ RemoveProfile(r) \/ GenCrl(r)
  \/ MarkRemoved(r) \/ SaveProfile(r)

Next ==
  \E r \in Reqs :
    \/ \E n \in Names : \/ CreateCertificate(r, n) \/ RenewCertificate(r, n) \/ Download(r, n)
                        \/ \E s \in Serial : RevokeCertificate(r, n, s) \/ BurnCertificate(r, n, s)
    \/ ScriptStep(r)
    \/ Replace(r)
    \/ Fail(r)

Spec == Init /\ [][Next]_vars
-----------------------------------------------------------------------------
(* Properties.                                                             *)

\* The steps each script is made of.
StepsOf(op) ==
  CASE op = "create"   -> {"script", "sign", "tag", "render"}
    [] op = "revoke"   -> {"strip", "revoke", "retag", "remove", "crl"}
    [] op = "renew"    -> {"tag"}
    [] op = "burn"     -> {"mark", "remove"}
    [] op = "download" -> {"download"}

TypeOK ==
  /\ index \in Seq(Line)
  /\ issued \in [Names -> Serial \cup {None}]
  /\ renewed \in [Names -> Serial \cup {None}]
  /\ crl \subseteq Serial
  /\ profile \in [Names -> Serial \cup {None}]
  /\ req \in [Reqs -> Request \cup {Idle}]
  /\ \A r \in Reqs : req[r] # Idle =>
       (IF req[r].pc = "replace" THEN req[r].then ELSE req[r].pc)
         \in StepsOf(req[r].op) \cup {"done"}
  /\ signed \in 0 .. MaxSerial
  /\ failures \in 0 .. MaxFailures

\* "keeps its record in index.txt": no line is lost, no revocation and no removal is
\* undone, whatever script runs or fails.
RecordsKept ==
  [][\A i \in DOMAIN index :
       /\ i \in DOMAIN index'
       /\ index'[i].serial = index[i].serial
       /\ index[i].status = "R" => index'[i].status = "R"
       /\ index[i].removed => index'[i].removed]_vars

\* A revoked certificate does not become valid again with the next CRL.
CrlGrows == [][crl \subseteq crl']_vars

\* Every valid certificate can be revoked from its page: it is listed under its own
\* name, and it is in the file that revoke.sh looks for.
ValidIsRevocable ==
  \A i \in DOMAIN index : index[i].status = "V" =>
    /\ NameOf(index[i]) = index[i].cn
    /\ index[i].serial \in {issued[index[i].cn], renewed[index[i].cn]}

\* A revocation that ends well puts the certificate on the CRL, and with the current
\* one also the old one of a renewal, "otherwise it would keep working".
RevocationTakesEffect ==
  [][\A r \in Reqs : GenCrl(r) =>
       \A i \in DOMAIN index :
         index[i].cn = req[r].name /\ index[i].serial <= req[r].serial
           => index[i].serial \in crl']_vars

\* Revoking the old certificate of a renewal leaves the new one valid.
NewerStaysValid ==
  [][\A i \in DOMAIN index \cap DOMAIN index' :
       index[i].status = "V" /\ index'[i].status = "R" =>
         \E r \in Reqs : /\ req[r].pc = "revoke"
                         /\ req[r].name = index[i].cn
                         /\ index[i].serial <= req[r].serial]_vars

\* A name without a listed certificate can be used again: neither the script nor
\* EasyRSA will refuse it.  It takes more than one failure to break this.
FreeNameIsFree ==
  Quiet /\ failures < 2 => \A n \in Names \ ListedNames : profile[n] = None /\ issued[n] = None
=============================================================================
