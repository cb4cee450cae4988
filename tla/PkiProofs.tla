------------------------------ MODULE PkiProofs -------------------------------
(***************************************************************************)
(* Theorems about Pki while one script runs at a time, for every set of    *)
(* names, every number of certificates and of failing scripts.             *)
(***************************************************************************)
EXTENDS Pki, TLAPS, SequenceTheorems, FiniteSetTheorems, NaturalsInduction,
        WellFoundedInduction

\* The step a request is at; one that replaces the index is at the step after it.
At(q) == IF q.pc = "replace" THEN q.then ELSE q.pc

FileOf(f, iss, ren) == IF f = "issued" THEN iss ELSE ren

\* No record is lost, and no revocation or removal undone, from old to new.
Kept(old, new) ==
  \A i \in DOMAIN old :
    /\ i \in DOMAIN new
    /\ new[i].serial = old[i].serial /\ new[i].cn = old[i].cn
    /\ old[i].status = "R" => new[i].status = "R"
    /\ old[i].removed => new[i].removed

\* The suffixes of a line repeat its own name.
OwnTags(idx) ==
  \A i \in DOMAIN idx : \A k \in DOMAIN idx[i].tags : idx[i].tags[k] = idx[i].cn

\* What a sed makes of the index.
Edited(old, new) ==
  /\ new \in Seq(Line) /\ DOMAIN new = DOMAIN old
  /\ OwnTags(new) /\ Kept(old, new)
  /\ \A i \in DOMAIN old : new[i].status = old[i].status

\* The targets still to be revoked.
Due(q) == IF At(q) \in {"strip", "revoke"} THEN DOMAIN q.targets
          ELSE IF At(q) = "retag" THEN DOMAIN q.targets \ {1} ELSE {}

\* What the request of a revocation found out holds while it runs: no newer
\* certificate and no other name is among its targets, and no certificate up to the
\* one to revoke is in a file but as a target.
Revoking(q, idx, iss, ren) ==
  /\ \A k \in DOMAIN q.targets :
       /\ FileOf(q.targets[k].file, iss, ren)[q.name] <= q.serial
       /\ \A i \in DOMAIN idx : idx[i].serial = q.targets[k].serial => idx[i].cn = q.name
  /\ \A f \in {"issued", "renewed"} :
       FileOf(f, iss, ren)[q.name] \in 1 .. q.serial =>
         \E k \in Due(q) : q.targets[k].file = f

Good(q, idx, iss, ren, sg) ==
  q # Idle =>
    /\ At(q) \in StepsOf(q.op) \cup {"done"}
    /\ At(q) \in {"strip", "revoke", "retag"} => q.targets # <<>>
    /\ q.pc \in {"script", "sign"} => sg < MaxSerial
    /\ q.pc = "tag" => idx # <<>> /\ idx[Len(idx)].cn = q.name
    /\ q.pc = "replace" => Edited(idx, q.copy)
    /\ q.op = "revoke" => Revoking(q, idx, iss, ren)

Single == \A r, q \in Reqs : req[r] # Idle /\ req[q] # Idle => r = q

Requests ==
  /\ req \in [Reqs -> Request \cup {Idle}]
  /\ Single
  /\ \A r \in Reqs : Good(req[r], index, issued, renewed, signed)

Files ==
  /\ index \in Seq(Line)
  /\ issued \in [Names -> Serial \cup {None}]
  /\ renewed \in [Names -> Serial \cup {None}]
  /\ crl \subseteq Serial
  /\ profile \in [Names -> Serial \cup {None}]
  /\ signed \in 0 .. MaxSerial
  /\ failures \in 0 .. MaxFailures

\* Serials are not used twice, and each certificate in a file has its lines.
Numbered     == \A i \in DOMAIN index : index[i].serial <= signed
Filed        == \A i \in DOMAIN index : index[i].status = "V" =>
                  index[i].serial \in {issued[index[i].cn], renewed[index[i].cn]}
HasLine      == \A n \in Names : \A s \in {issued[n], renewed[n]} \ {None} :
                  /\ \E i \in DOMAIN index : index[i].serial = s
                  /\ \A i \in DOMAIN index : index[i].serial = s => index[i].cn = n
RenewedOlder == \A n \in Names : issued[n] # None => renewed[n] < issued[n]

Records == OwnTags(index) /\ Numbered /\ Filed /\ HasLine /\ RenewedOlder

PkiInv == Files /\ Requests /\ Records /\ crl \subseteq RevokedSerials

-----------------------------------------------------------------------------
(* Lines, and what the scripts make of them.                               *)

LEMMA MaxSerialNat == MaxSerial \in Nat /\ MaxFailures \in Nat
BY PkiAssumption

\* Every set of numbers has a least one.
LEMMA LeastExists ==
  ASSUME NEW T \in SUBSET Nat, T # {}
  PROVE  \E m \in T : \A k \in T : m <= k
<1>1. IsWellFoundedOn(OpToRel(<, Nat), Nat)
  BY NatLessThanWellFounded
<1>2. PICK m \in T : \A k \in T : ~ (<<k, m>> \in OpToRel(<, Nat))
  BY <1>1, WFMin
<1>3. \A k \in T : ~ (k < m)
  BY <1>2 DEF OpToRel
<1>. QED  BY <1>3

LEMMA LineFields ==
  ASSUME NEW l \in Line
  PROVE  /\ l.serial \in Serial /\ l.cn \in Names /\ l.tags \in Seq(Names)
         /\ l.status \in {"V", "R"} /\ l.removed \in BOOLEAN
BY DEF Line

LEMMA SignedLineType ==
  ASSUME NEW n \in Names, NEW s \in Serial
  PROVE  /\ SignedLine(n, s) \in Line
         /\ SignedLine(n, s).serial = s /\ SignedLine(n, s).cn = n
         /\ SignedLine(n, s).tags = <<>> /\ SignedLine(n, s).status = "V"
BY EmptySeq DEF SignedLine, Line

\* A change of a line that the index survives.
SameLine(l, m) ==
  /\ m \in Line
  /\ m.serial = l.serial /\ m.cn = l.cn /\ m.status = l.status
  /\ l.removed => m.removed
  /\ (\A k \in DOMAIN l.tags : l.tags[k] = l.cn) => \A k \in DOMAIN m.tags : m.tags[k] = l.cn

LEMMA SameLineRefl == ASSUME NEW l \in Line PROVE SameLine(l, l)
BY DEF SameLine

LEMMA TaggedLine ==
  ASSUME NEW l \in Line
  PROVE  SameLine(l, Tagged(l, l.cn))
<1>1. l.tags \in Seq(Names) /\ l.cn \in Names
  BY LineFields
<1>. DEFINE t == Append(l.tags, l.cn)
<1>2. /\ t \in Seq(Names) /\ Len(t) = Len(l.tags) + 1
      /\ \A i \in 1 .. Len(l.tags) : t[i] = l.tags[i]
      /\ t[Len(l.tags) + 1] = l.cn
  BY <1>1, AppendProperties
<1>3. Tagged(l, l.cn) = [l EXCEPT !.tags = t]
  BY DEF Tagged
<1>4. DOMAIN t = 1 .. Len(t) /\ DOMAIN l.tags = 1 .. Len(l.tags) /\ Len(l.tags) \in Nat
  BY <1>1, <1>2, LenProperties
<1>5. (\A k \in DOMAIN l.tags : l.tags[k] = l.cn) => \A k \in DOMAIN t : t[k] = l.cn
  BY <1>2, <1>4
<1>. HIDE DEF t
<1>6. [l EXCEPT !.tags = t] \in Line /\ [l EXCEPT !.tags = t].tags = t
  BY <1>2 DEF Line
<1>7. LET m == [l EXCEPT !.tags = t] IN
        m.serial = l.serial /\ m.cn = l.cn /\ m.status = l.status /\ m.removed = l.removed
  BY DEF Line
<1>. QED  BY <1>3, <1>5, <1>6, <1>7 DEF SameLine

LEMMA StrippedLine ==
  ASSUME NEW l \in Line, NEW n
  PROVE  SameLine(l, Stripped(l, n))
<1>. DEFINE hits == {k \in DOMAIN l.tags : l.tags[k] = n}
            c    == CHOOSE k \in hits : \A j \in hits : k <= j
            t    == IF hits = {} THEN l.tags ELSE SubSeq(l.tags, 1, c - 1)
<1>1. l.tags \in Seq(Names) /\ DOMAIN l.tags = 1 .. Len(l.tags) /\ Len(l.tags) \in Nat
  BY LineFields, LenProperties
<1>2. ASSUME hits # {}
      PROVE  c \in 1 .. Len(l.tags)
  <2>1. hits \in SUBSET Nat
    BY <1>1
  <2>2. \E k \in hits : \A j \in hits : k <= j
    BY <1>2, <2>1, LeastExists
  <2>. QED  BY <1>1, <2>2
<1>3. /\ t \in Seq(Names)
      /\ \A k \in DOMAIN t : k \in DOMAIN l.tags /\ t[k] = l.tags[k]
  <2>1. CASE hits = {}
    BY <1>1, <2>1
  <2>2. CASE hits # {}
    <3>. DEFINE e == c - 1
    <3>1. c \in 1 .. Len(l.tags) /\ e \in Int /\ e <= Len(l.tags) /\ e >= 0
      BY <1>1, <1>2, <2>2
    <3>2. t = SubSeq(l.tags, 1, e)
      BY <2>2
    <3>. HIDE DEF c, hits, e, t
    <3>3. \A i \in 1 .. e : i \in DOMAIN l.tags /\ l.tags[i] \in Names
      BY <1>1, <3>1, ElementOfSeq
    <3>4. /\ SubSeq(l.tags, 1, e) \in Seq(Names)
          /\ Len(SubSeq(l.tags, 1, e)) = IF 1 <= e THEN e - 1 + 1 ELSE 0
          /\ \A i \in 1 .. e - 1 + 1 : SubSeq(l.tags, 1, e)[i] = l.tags[1 + i - 1]
      BY <3>1, <3>3, SubSeqProperties
    <3>5. Len(t) = e /\ t \in Seq(Names) /\ \A i \in 1 .. e : t[i] = l.tags[i]
      BY <3>1, <3>2, <3>4
    <3>6. DOMAIN t = 1 .. e
      BY <3>5, LenProperties
    <3>. QED  BY <3>3, <3>5, <3>6
  <2>. QED  BY <2>1, <2>2
<1>4. Stripped(l, n) = [l EXCEPT !.tags = t]
  BY DEF Stripped
<1>5. (\A k \in DOMAIN l.tags : l.tags[k] = l.cn) => \A k \in DOMAIN t : t[k] = l.cn
  BY <1>3
<1>. HIDE DEF t
<1>6. [l EXCEPT !.tags = t] \in Line /\ [l EXCEPT !.tags = t].tags = t
  BY <1>3 DEF Line
<1>7. LET m == [l EXCEPT !.tags = t] IN
        m.serial = l.serial /\ m.cn = l.cn /\ m.status = l.status /\ m.removed = l.removed
  BY DEF Line
<1>. QED  BY <1>4, <1>5, <1>6, <1>7 DEF SameLine

LEMMA MarkedLine ==
  ASSUME NEW l \in Line
  PROVE  SameLine(l, [l EXCEPT !.removed = TRUE])
BY DEF SameLine, Line

\* A sequence made line by line.
LEMMA SeqOfLines ==
  ASSUME index \in Seq(Line), NEW f, f = [i \in DOMAIN index |-> f[i]],
         \A i \in DOMAIN index : f[i] \in Line
  PROVE  f \in Seq(Line) /\ DOMAIN f = DOMAIN index /\ Len(f) = Len(index)
<1>1. Len(index) \in Nat /\ DOMAIN index = 1 .. Len(index)
  BY LenProperties
<1>2. f \in [1 .. Len(index) -> Line]
  BY <1>1
<1>3. f \in Seq(Line)
  BY <1>1, <1>2, SeqDef
<1>4. DOMAIN f = 1 .. Len(f) /\ Len(f) \in Nat
  BY <1>3, LenProperties
<1>5. DOMAIN f = 1 .. Len(index)
  BY <1>2
<1>. QED  BY <1>1, <1>3, <1>4, <1>5

\* sed keeps the records when it changes lines in the ways above.
LEMMA EditedBy ==
  ASSUME index \in Seq(Line), OwnTags(index), NEW f, f = [i \in DOMAIN index |-> f[i]],
         \A i \in DOMAIN index : SameLine(index[i], f[i])
  PROVE  Edited(index, f)
<1>1. f \in Seq(Line) /\ DOMAIN f = DOMAIN index
  BY SeqOfLines DEF SameLine
<1>2. OwnTags(f)
  BY <1>1 DEF OwnTags, SameLine
<1>3. Kept(index, f)
  BY <1>1 DEF Kept, SameLine
<1>. QED  BY <1>1, <1>2, <1>3 DEF Edited, SameLine

LEMMA KeptRefl == \A idx : Kept(idx, idx)
BY DEF Kept

-----------------------------------------------------------------------------
(* Requests.                                                               *)

LEMMA IdleFacts == Idle.pc = "idle" /\ Idle \notin Request
<1>1. \A q \in Request : q.pc # "idle"
  BY DEF Request
<1>. QED  BY <1>1 DEF Idle

\* Which script a step belongs to.
LEMMA StepsOfOp ==
  ASSUME NEW op \in {"create", "revoke", "renew", "burn", "download"}
  PROVE  /\ {"script", "sign", "render"} \cap StepsOf(op) # {} => op = "create"
         /\ {"strip", "revoke", "retag", "crl"} \cap StepsOf(op) # {} => op = "revoke"
         /\ "tag" \in StepsOf(op) => op \in {"create", "renew"}
         /\ "remove" \in StepsOf(op) => op \in {"revoke", "burn"}
         /\ "mark" \in StepsOf(op) => op = "burn"
         /\ "none" \notin StepsOf(op) /\ "done" \notin StepsOf(op)
         /\ "replace" \notin StepsOf(op) /\ "idle" \notin StepsOf(op)
         /\ {"script", "sign", "tag", "render"} \subseteq StepsOf("create")
         /\ {"strip", "revoke", "retag", "remove", "crl"} \subseteq StepsOf("revoke")
         /\ "tag" \in StepsOf("renew")
         /\ {"mark", "remove"} \subseteq StepsOf("burn")
         /\ "download" \in StepsOf("download")
<1>1. /\ StepsOf("create") = {"script", "sign", "tag", "render"}
      /\ StepsOf("revoke") = {"strip", "revoke", "retag", "remove", "crl"}
      /\ StepsOf("renew") = {"tag"}
      /\ StepsOf("burn") = {"mark", "remove"}
      /\ StepsOf("download") = {"download"}
  BY DEF StepsOf
<1>2. CASE op = "create"
  BY <1>1, <1>2
<1>3. CASE op = "revoke"
  BY <1>1, <1>3
<1>4. CASE op = "renew"
  BY <1>1, <1>4
<1>5. CASE op = "burn"
  BY <1>1, <1>5
<1>6. CASE op = "download"
  BY <1>1, <1>6
<1>. QED  BY <1>2, <1>3, <1>4, <1>5, <1>6

Pcs == {"script", "sign", "tag", "render", "strip", "revoke", "retag",
        "mark", "remove", "crl", "download", "replace"}
Thens == {"none", "render", "done", "revoke", "strip", "remove"}

LEMMA RequestFields ==
  ASSUME NEW q \in Request
  PROVE  /\ q.pc \in Pcs
         /\ q.then \in Thens
         /\ q.op \in {"create", "revoke", "renew", "burn", "download"}
         /\ q.name \in Names /\ q.serial \in Serial \cup {None}
         /\ q.targets \in Seq(Target) /\ q.copy \in Seq(Line)
BY DEF Request, Pcs, Thens

LEMMA MoveTo ==
  ASSUME NEW q \in Request, NEW pc \in Pcs
  PROVE  LET m == [q EXCEPT !.pc = pc] IN
           /\ m \in Request
           /\ m.pc = pc /\ m.then = q.then /\ m.op = q.op /\ m.name = q.name
           /\ m.serial = q.serial /\ m.targets = q.targets /\ m.copy = q.copy
BY DEF Request, Pcs, Thens

\* The other fields that change, one at a time.
LEMMA SetField ==
  ASSUME NEW q \in Request
  PROVE  /\ \A x \in Seq(Target) : LET m == [q EXCEPT !.targets = x] IN
              /\ m \in Request
              /\ m.pc = q.pc /\ m.then = q.then /\ m.op = q.op /\ m.name = q.name
              /\ m.serial = q.serial /\ m.targets = x /\ m.copy = q.copy
         /\ \A x \in Seq(Line) : LET m == [q EXCEPT !.copy = x] IN
              /\ m \in Request
              /\ m.pc = q.pc /\ m.then = q.then /\ m.op = q.op /\ m.name = q.name
              /\ m.serial = q.serial /\ m.targets = q.targets /\ m.copy = x
         /\ \A x \in Thens :
              LET m == [q EXCEPT !.then = x] IN
              /\ m \in Request
              /\ m.pc = q.pc /\ m.then = x /\ m.op = q.op /\ m.name = q.name
              /\ m.serial = q.serial /\ m.targets = q.targets /\ m.copy = q.copy
BY DEF Request, Thens

\* A request whose sed has read the index, one that goes on with its next target
\* too, and one whose sed is done.
Sedded(q, copy, then) == [q EXCEPT !.pc = "replace", !.copy = copy, !.then = then]
SeddedTo(q, targets, copy, then) ==
  [q EXCEPT !.pc = "replace", !.targets = targets, !.copy = copy, !.then = then]
Resumed(q, pc) == [q EXCEPT !.pc = pc, !.then = "none", !.copy = <<>>]

LEMMA SeddedFields ==
  ASSUME NEW q \in Request, NEW copy \in Seq(Line),
         NEW then \in Thens
  PROVE  /\ Sedded(q, copy, then) \in Request
         /\ Sedded(q, copy, then).pc = "replace" /\ Sedded(q, copy, then).op = q.op /\ Sedded(q, copy, then).name = q.name
         /\ Sedded(q, copy, then).serial = q.serial /\ Sedded(q, copy, then).then = then
         /\ Sedded(q, copy, then).targets = q.targets /\ Sedded(q, copy, then).copy = copy
<1>. DEFINE a == [q EXCEPT !.pc = "replace"]
            b == [a EXCEPT !.copy = copy]
            c == [b EXCEPT !.then = then]
<1>0. c = Sedded(q, copy, then)
  BY DEF Sedded
<1>1. /\ a \in Request
      /\ a.pc = "replace" /\ a.then = q.then /\ a.op = q.op /\ a.name = q.name
      /\ a.serial = q.serial /\ a.targets = q.targets /\ a.copy = q.copy
  BY MoveTo DEF Pcs
<1>. HIDE DEF a
<1>2. /\ b \in Request
      /\ b.pc = a.pc /\ b.then = a.then /\ b.op = a.op /\ b.name = a.name
      /\ b.serial = a.serial /\ b.targets = a.targets /\ b.copy = copy
  BY <1>1, SetField
<1>. HIDE DEF b
<1>3. /\ c \in Request
      /\ c.pc = b.pc /\ c.then = then /\ c.op = b.op /\ c.name = b.name
      /\ c.serial = b.serial /\ c.targets = b.targets /\ c.copy = b.copy
  BY <1>2, SetField
<1>. HIDE DEF c
<1>. QED  BY <1>0, <1>1, <1>2, <1>3

LEMMA SeddedToFields ==
  ASSUME NEW q \in Request, NEW copy \in Seq(Line), NEW targets \in Seq(Target),
         NEW then \in Thens
  PROVE  /\ SeddedTo(q, targets, copy, then) \in Request
         /\ SeddedTo(q, targets, copy, then).pc = "replace" /\ SeddedTo(q, targets, copy, then).op = q.op /\ SeddedTo(q, targets, copy, then).name = q.name
         /\ SeddedTo(q, targets, copy, then).serial = q.serial /\ SeddedTo(q, targets, copy, then).then = then
         /\ SeddedTo(q, targets, copy, then).targets = targets /\ SeddedTo(q, targets, copy, then).copy = copy
<1>. DEFINE a == [q EXCEPT !.pc = "replace"]
            b == [a EXCEPT !.targets = targets]
            c == [b EXCEPT !.copy = copy]
            d == [c EXCEPT !.then = then]
<1>0. d = SeddedTo(q, targets, copy, then)
  BY DEF SeddedTo
<1>1. /\ a \in Request
      /\ a.pc = "replace" /\ a.then = q.then /\ a.op = q.op /\ a.name = q.name
      /\ a.serial = q.serial /\ a.targets = q.targets /\ a.copy = q.copy
  BY MoveTo DEF Pcs
<1>. HIDE DEF a
<1>2. /\ b \in Request
      /\ b.pc = a.pc /\ b.then = a.then /\ b.op = a.op /\ b.name = a.name
      /\ b.serial = a.serial /\ b.targets = targets /\ b.copy = a.copy
  BY <1>1, SetField
<1>. HIDE DEF b
<1>3. /\ c \in Request
      /\ c.pc = b.pc /\ c.then = b.then /\ c.op = b.op /\ c.name = b.name
      /\ c.serial = b.serial /\ c.targets = b.targets /\ c.copy = copy
  BY <1>2, SetField
<1>. HIDE DEF c
<1>4. /\ d \in Request
      /\ d.pc = c.pc /\ d.then = then /\ d.op = c.op /\ d.name = c.name
      /\ d.serial = c.serial /\ d.targets = c.targets /\ d.copy = c.copy
  BY <1>3, SetField
<1>. HIDE DEF d
<1>. QED  BY <1>0, <1>1, <1>2, <1>3, <1>4

LEMMA ResumedFields ==
  ASSUME NEW q \in Request, NEW pc \in Pcs
  PROVE  /\ Resumed(q, pc) \in Request
         /\ Resumed(q, pc).pc = pc /\ Resumed(q, pc).op = q.op /\ Resumed(q, pc).name = q.name
         /\ Resumed(q, pc).serial = q.serial /\ Resumed(q, pc).then = "none"
         /\ Resumed(q, pc).targets = q.targets /\ Resumed(q, pc).copy = <<>>
<1>. DEFINE a == [q EXCEPT !.pc = pc]
            b == [a EXCEPT !.then = "none"]
            c == [b EXCEPT !.copy = <<>>]
<1>0. c = Resumed(q, pc)
  BY DEF Resumed
<1>1. /\ a \in Request
      /\ a.pc = pc /\ a.then = q.then /\ a.op = q.op /\ a.name = q.name
      /\ a.serial = q.serial /\ a.targets = q.targets /\ a.copy = q.copy
  BY MoveTo
<1>. HIDE DEF a
<1>2. /\ b \in Request
      /\ b.pc = a.pc /\ b.then = "none" /\ b.op = a.op /\ b.name = a.name
      /\ b.serial = a.serial /\ b.targets = a.targets /\ b.copy = a.copy
  BY <1>1, SetField DEF Thens
<1>. HIDE DEF b
<1>e. <<>> \in Seq(Line)
  BY EmptySeq
<1>3. /\ c \in Request
      /\ c.pc = b.pc /\ c.then = b.then /\ c.op = b.op /\ c.name = b.name
      /\ c.serial = b.serial /\ c.targets = b.targets /\ c.copy = <<>>
  BY <1>2, <1>e, SetField
<1>. HIDE DEF c
<1>. QED  BY <1>0, <1>1, <1>2, <1>3

\* Only r changes, while it is the only one under way.
LEMMA ReqStep ==
  ASSUME Requests, NEW r \in Reqs, NEW next \in Request \cup {Idle},
         req' = [req EXCEPT ![r] = next],
         \A q \in Reqs : req[q] # Idle => q = r,
         Good(next, index', issued', renewed', signed')
  PROVE  Requests'
<1>1. /\ req' \in [Reqs -> Request \cup {Idle}]
      /\ req'[r] = next
      /\ \A q \in Reqs \ {r} : req'[q] = Idle
  BY DEF Requests
<1>2. Single'
  BY <1>1 DEF Single
<1>3. ASSUME NEW q \in Reqs PROVE Good(req'[q], index', issued', renewed', signed')
  <2>1. CASE q = r
    BY <1>1, <2>1
  <2>2. CASE q # r
    BY <1>1, <2>2 DEF Good
  <2>. QED  BY <2>1, <2>2
<1>. QED  BY <1>1, <1>2, <1>3 DEF Requests

\* What every step comes to.
Outcome == PkiInv' /\ Kept(index, index') /\ crl \subseteq crl'

LEMMA OutcomeOf ==
  ASSUME PkiInv, Files', Requests', Records', Kept(index, index'),
         crl' = crl \/ (crl' = RevokedSerials /\ index' = index)
  PROVE  Outcome
<1>1. RevokedSerials \subseteq RevokedSerials'
  BY DEF RevokedSerials, Kept
<1>. QED  BY <1>1 DEF Outcome, PkiInv, RevokedSerials

\* Steps that leave the index and the certificate files alone.
LEMMA Plain ==
  ASSUME PkiInv, UNCHANGED <<index, issued, renewed, signed>>,
         NEW r \in Reqs, NEW next \in Request \cup {Idle},
         req' = [req EXCEPT ![r] = next],
         \A q \in Reqs : req[q] # Idle => q = r,
         Good(next, index, issued, renewed, signed),
         crl' = crl \/ crl' = RevokedSerials,
         profile' \in [Names -> Serial \cup {None}], failures' \in 0 .. MaxFailures
  PROVE  Outcome
<1>1. Requests'
  BY ReqStep DEF PkiInv
<1>2. Records'
  BY DEF PkiInv, Records, OwnTags, Numbered, Filed, HasLine, RenewedOlder
<1>3. RevokedSerials \subseteq Serial
  <2>1. \A i \in DOMAIN index : index[i] \in Line
    BY LenProperties, ElementOfSeq DEF PkiInv, Files
  <2>. QED  BY <2>1, LineFields DEF RevokedSerials
<1>4. Files'
  BY <1>3 DEF PkiInv, Files
<1>5. Kept(index, index')
  BY KeptRefl
<1>. QED  BY <1>1, <1>2, <1>4, <1>5, OutcomeOf

\* What the invariant says of the request of a step.
LEMMA Running ==
  ASSUME PkiInv, NEW r \in Reqs, req[r].pc # "idle"
  PROVE  /\ req[r] \in Request /\ req[r] # Idle
         /\ \A q \in Reqs : req[q] # Idle => q = r
         /\ Good(req[r], index, issued, renewed, signed)
         /\ req[r].name \in Names
         /\ issued[req[r].name] \in Serial \cup {None}
         /\ renewed[req[r].name] \in Serial \cup {None}
<1>1. req[r] \in Request \cup {Idle} /\ req[r] # Idle
  BY IdleFacts DEF PkiInv, Requests
<1>2. req[r] \in Request /\ req[r].name \in Names
  BY <1>1, RequestFields
<1>. QED  BY <1>1, <1>2 DEF PkiInv, Requests, Single, Files

LEMMA Alone ==
  ASSUME PkiInv, Overlap = FALSE, NEW r \in Reqs, Free(r)
  PROVE  \A q \in Reqs : req[q] # Idle => q = r
BY DEF Free, Quiet

LEMMA Unchanged == PkiInv /\ UNCHANGED vars => Outcome
BY KeptRefl
   DEF vars, Outcome, PkiInv, Files, Requests, Single, Records, OwnTags, Numbered, Filed,
       HasLine, RenewedOlder, RevokedSerials

LEMMA FailOutcome == ASSUME PkiInv, NEW r \in Reqs, Fail(r) PROVE Outcome
<1>1. req[r].pc # "idle"
  <2>1. req[r] \in Request
    BY DEF PkiInv, Requests, Fail
  <2>. QED  BY <2>1, RequestFields DEF Pcs
<1>2. Good(Idle, index, issued, renewed, signed)
  BY DEF Good
<1>3. failures' \in 0 .. MaxFailures
  BY MaxSerialNat DEF PkiInv, Files, Fail
<1>4. profile' \in [Names -> Serial \cup {None}]
  BY DEF PkiInv, Files, Fail
<1>. QED  BY <1>1, <1>2, <1>3, <1>4, Running, Plain DEF Fail

\* A script goes on, or ends, and touches no file but a profile or the CRL.
LEMMA GoOutcome ==
  ASSUME PkiInv, NEW r \in Reqs, req[r].pc \in Pcs \ {"replace"},
         NEW pc \in (Pcs \ {"script", "replace", "tag", "strip", "revoke"}) \cup {"done"},
         GoTo(r, pc), UNCHANGED <<index, issued, renewed, signed, failures>>,
         pc # "done" => pc \in StepsOf(req[r].op),
         pc = "retag" => req[r].targets # <<>>,
         pc = "sign" => signed < MaxSerial,
         req[r].op = "revoke" /\ pc # "done" => Due([req[r] EXCEPT !.pc = pc]) = Due(req[r]),
         crl' = crl \/ crl' = RevokedSerials,
         profile' \in [Names -> Serial \cup {None}]
  PROVE  Outcome
<1>1. /\ req[r] \in Request /\ req[r] # Idle
      /\ \A q \in Reqs : req[q] # Idle => q = r
      /\ Good(req[r], index, issued, renewed, signed)
  BY Running DEF Pcs
<1>2. failures' \in 0 .. MaxFailures
  BY DEF PkiInv, Files
<1>3. CASE pc = "done"
  <2>1. req' = [req EXCEPT ![r] = Idle]
    BY <1>3 DEF GoTo
  <2>2. Good(Idle, index, issued, renewed, signed)
    BY DEF Good
  <2>. QED  BY <1>1, <1>2, <2>1, <2>2, Plain
<1>4. CASE pc # "done"
  <2>. DEFINE m == [req[r] EXCEPT !.pc = pc]
  <2>1. req' = [req EXCEPT ![r] = m]
    BY <1>4 DEF GoTo
  <2>2. /\ m \in Request
        /\ m.pc = pc /\ m.op = req[r].op /\ m.name = req[r].name
        /\ m.serial = req[r].serial /\ m.targets = req[r].targets
    BY <1>1, <1>4, MoveTo
  <2>3. Due(m) = Due(req[r]) \/ req[r].op # "revoke"
    BY <1>4
  <2>. HIDE DEF m
  <2>4. m.op = "revoke" => Revoking(m, index, issued, renewed)
    BY <1>1, <2>2, <2>3 DEF Good, Revoking
  <2>5. At(m) = pc
    BY <1>4, <2>2 DEF At
  <2>6. Good(m, index, issued, renewed, signed)
    BY <1>4, <2>2, <2>4, <2>5 DEF Good
  <2>. QED  BY <1>1, <1>2, <2>1, <2>2, <2>6, Plain
<1>. QED  BY <1>3, <1>4

-----------------------------------------------------------------------------
(* Scripts that begin.                                                     *)

\* The request of Begin.
NewRequest(op, pc, n, s, targets) ==
  [op |-> op, pc |-> pc, name |-> n, serial |-> s, targets |-> targets,
   then |-> "none", copy |-> <<>>]

LEMMA NewRequestType ==
  ASSUME NEW op \in {"create", "revoke", "renew", "burn", "download"},
         NEW pc \in Pcs, NEW n \in Names, NEW s \in Serial \cup {None},
         NEW targets \in Seq(Target)
  PROVE  NewRequest(op, pc, n, s, targets) \in Request
<1>1. <<>> \in Seq(Line)
  BY EmptySeq
<1>. QED  BY <1>1 DEF NewRequest, Request, Pcs

LEMMA NoTargets == <<>> \in Seq(Target) /\ DOMAIN <<>> = {}
<1>1. <<>> \in Seq(Target) /\ Len(<<>>) = 0
  BY EmptySeq
<1>. QED  BY <1>1, LenProperties

\* A script begins, after a failed reading of the index or without one.
LEMMA StartOutcome ==
  ASSUME PkiInv, Overlap = FALSE, NEW r \in Reqs, Free(r),
         UNCHANGED <<index, issued, renewed, crl, profile, signed>>,
         failures' \in 0 .. MaxFailures,
         NEW op \in {"create", "revoke", "renew", "burn", "download"},
         NEW pc \in StepsOf(op), pc \in Pcs \ {"replace", "tag"},
         NEW n \in Names, NEW s \in Serial \cup {None}, NEW targets \in Seq(Target),
         Begin(r, op, pc, n, s, targets),
         pc \in {"strip", "revoke", "retag"} => targets # <<>>,
         pc \in {"script", "sign"} => signed < MaxSerial,
         op = "revoke" => Revoking(NewRequest(op, pc, n, s, targets), index, issued, renewed)
  PROVE  Outcome
<1>. DEFINE m == NewRequest(op, pc, n, s, targets)
<1>1. m \in Request
  BY NewRequestType
<1>2. m.pc = pc /\ m.op = op /\ m.targets = targets
  BY DEF NewRequest
<1>3. req' = [req EXCEPT ![r] = m]
  BY DEF Begin, NewRequest
<1>4. op = "revoke" => Revoking(m, index, issued, renewed)
  OBVIOUS
<1>. HIDE DEF m
<1>5. Good(m, index, issued, renewed, signed)
  BY <1>2, <1>4 DEF Good, At
<1>6. /\ \A q \in Reqs : req[q] # Idle => q = r
      /\ profile' \in [Names -> Serial \cup {None}] /\ failures' \in 0 .. MaxFailures
      /\ crl' = crl /\ UNCHANGED <<index, issued, renewed, signed>>
  BY Alone DEF PkiInv, Files
<1>. QED  BY <1>1, <1>3, <1>5, <1>6, Plain

LEMMA BeginOutcome ==
  ASSUME PkiInv, Overlap = FALSE, NEW r \in Reqs, Free(r), FilesUnchanged,
         NEW op \in {"create", "revoke", "renew", "burn", "download"},
         NEW pc \in StepsOf(op), pc \in Pcs \ {"replace", "tag"},
         NEW n \in Names, NEW s \in Serial \cup {None}, NEW targets \in Seq(Target),
         Begin(r, op, pc, n, s, targets),
         pc \in {"strip", "revoke", "retag"} => targets # <<>>,
         pc \in {"script", "sign"} => signed < MaxSerial,
         op = "revoke" => Revoking(NewRequest(op, pc, n, s, targets), index, issued, renewed)
  PROVE  Outcome
<1>1. failures' \in 0 .. MaxFailures
  BY DEF FilesUnchanged, PkiInv, Files
<1>2. UNCHANGED <<index, issued, renewed, crl, profile, signed>>
  BY DEF FilesUnchanged
<1>. QED  BY <1>1, <1>2, StartOutcome

\* While nothing else runs, the bound on serials is about those that are used.
LEMMA CanSignAlone ==
  ASSUME PkiInv, Overlap = FALSE, NEW r \in Reqs, Free(r), CanSign
  PROVE  signed < MaxSerial
<1>1. {q \in Reqs : req[q].pc \in {"script", "sign"}} = {}
  BY IdleFacts DEF Free, Quiet
<1>2. Cardinality({q \in Reqs : req[q].pc \in {"script", "sign"}}) = 0
  BY <1>1, FS_EmptySet
<1>3. signed + 0 < MaxSerial
  BY <1>2 DEF CanSign
<1>. QED  BY <1>3, MaxSerialNat DEF PkiInv, Files

LEMMA CreateOutcome ==
  ASSUME PkiInv, Overlap = FALSE, NEW r \in Reqs, NEW n \in Names, CreateCertificate(r, n)
  PROVE  Outcome
<1>1. signed < MaxSerial
  BY CanSignAlone DEF CreateCertificate
<1>2. "script" \in StepsOf("create") /\ "script" \in Pcs \ {"replace", "tag"}
  BY StepsOfOp DEF Pcs
<1>3. failures' \in 0 .. MaxFailures
  BY MaxSerialNat DEF CreateCertificate, PkiInv, Files
<1>. QED  BY <1>1, <1>2, <1>3, StartOutcome, NoTargets DEF CreateCertificate

LEMMA BurnOutcome ==
  ASSUME PkiInv, Overlap = FALSE, NEW r \in Reqs, NEW n \in Names, NEW s \in Serial,
         BurnCertificate(r, n, s)
  PROVE  Outcome
<1>1. "mark" \in StepsOf("burn") /\ "mark" \in Pcs \ {"replace", "tag"}
  BY StepsOfOp DEF Pcs
<1>. QED  BY <1>1, BeginOutcome, NoTargets DEF BurnCertificate

LEMMA DownloadOutcome ==
  ASSUME PkiInv, Overlap = FALSE, NEW r \in Reqs, NEW n \in Names, Download(r, n)
  PROVE  Outcome
<1>1. "download" \in StepsOf("download") /\ "download" \in Pcs \ {"replace", "tag"}
  BY StepsOfOp DEF Pcs
<1>2. issued[n] \in Serial \cup {None}
  BY DEF PkiInv, Files
<1>. QED  BY <1>1, <1>2, BeginOutcome, NoTargets DEF Download

LEMMA PairConcat == \A a, b : <<a>> \o <<b>> = <<a, b>>
<1>. SUFFICES ASSUME NEW a, NEW b PROVE <<a>> \o <<b>> = <<a, b>>
  OBVIOUS
<1>. DEFINE x == <<a>>
            y == <<b>>
            z == <<a, b>>
<1>1. /\ x \in Seq({a, b}) /\ y \in Seq({a, b}) /\ z \in Seq({a, b})
      /\ Len(x) = 1 /\ Len(y) = 1 /\ Len(z) = 2
      /\ x[1] = a /\ y[1] = b /\ z[1] = a /\ z[2] = b
  OBVIOUS
<1>. HIDE DEF x, y, z
<1>2. /\ x \o y \in Seq({a, b}) /\ Len(x \o y) = 2
      /\ (x \o y)[1] = a /\ (x \o y)[2] = b
  BY <1>1, ConcatProperties
<1>3. \A i \in 1 .. Len(z) : (x \o y)[i] = z[i]
  BY <1>1, <1>2
<1>4. x \o y = z
  BY <1>1, <1>2, <1>3, SeqEqual
<1>. QED  BY <1>4 DEF x, y, z

\* What revoke.sh will revoke, and that no older certificate is left out.
LEMMA TargetsFacts ==
  ASSUME PkiInv, NEW n \in Names, NEW s \in Serial, s \in {issued[n], renewed[n]}
  PROVE  /\ Targets(n, s) \in Seq(Target) /\ Targets(n, s) # <<>>
         /\ \A k \in DOMAIN Targets(n, s) :
              /\ Targets(n, s)[k].serial = FileOf(Targets(n, s)[k].file, issued, renewed)[n]
              /\ Targets(n, s)[k].serial \in Serial /\ Targets(n, s)[k].serial <= s
         /\ \A f \in {"issued", "renewed"} :
              FileOf(f, issued, renewed)[n] \in 1 .. s =>
                \E k \in DOMAIN Targets(n, s) : Targets(n, s)[k].file = f
         /\ \A k, l \in DOMAIN Targets(n, s) :
              Targets(n, s)[k].file = Targets(n, s)[l].file => k = l
<1>1. /\ issued[n] \in Serial \cup {None} /\ renewed[n] \in Serial \cup {None}
      /\ issued[n] # None => renewed[n] < issued[n]
  BY DEF PkiInv, Files, Records, RenewedOlder
<1>. DEFINE R(t) == [file |-> "renewed", serial |-> t]
            I(t) == [file |-> "issued", serial |-> t]
<1>n. /\ Serial \subseteq Nat /\ None \notin Serial /\ \A t \in Serial : t >= 1
  BY MaxSerialNat DEF Serial, None
<1>2. CASE s = renewed[n]
  <2>1. Targets(n, s) = <<R(s)>>
    BY <1>2 DEF Targets
  <2>2. <<R(s)>> \in Seq(Target) /\ <<R(s)>> # <<>> /\ DOMAIN <<R(s)>> = {1} /\ <<R(s)>>[1] = R(s)
    BY DEF Target
  <2>3. issued[n] \notin 1 .. s
    BY <1>1, <1>2, <1>n DEF None
  <2>4. R(s).serial = s /\ R(s).file = "renewed" /\ s <= s
    BY <1>n
  <2>. HIDE DEF R
  <2>. QED  BY <1>2, <2>1, <2>2, <2>3, <2>4 DEF FileOf
<1>3. CASE s # renewed[n] /\ renewed[n] = None
  <2>0. s = issued[n]
    BY <1>3
  <2>1. Targets(n, s) = <<I(s)>>
    BY <1>3 DEF Targets
  <2>2. <<I(s)>> \in Seq(Target) /\ <<I(s)>> # <<>> /\ DOMAIN <<I(s)>> = {1} /\ <<I(s)>>[1] = I(s)
    BY DEF Target
  <2>3. renewed[n] \notin 1 .. s
    BY <1>3, <1>n DEF None
  <2>4. I(s).serial = s /\ I(s).file = "issued" /\ s <= s
    BY <1>n
  <2>. HIDE DEF I
  <2>. QED  BY <2>0, <2>1, <2>2, <2>3, <2>4 DEF FileOf
<1>4. CASE s # renewed[n] /\ renewed[n] # None
  <2>0. s = issued[n] /\ renewed[n] \in Serial /\ renewed[n] <= s
    <3>1. s = issued[n] /\ renewed[n] \in Serial
      BY <1>1, <1>4
    <3>2. renewed[n] < s /\ renewed[n] \in Nat /\ s \in Nat
      BY <1>1, <1>n, <3>1
    <3>. QED  BY <3>1, <3>2
  <2>. DEFINE t == renewed[n]
              T == <<I(s), R(t)>>
  <2>1. Targets(n, s) = T
    <3>1. Targets(n, s) = <<I(s)>> \o <<R(t)>>
      BY <1>4 DEF Targets
    <3>. HIDE DEF I, R
    <3>. QED  BY <3>1, PairConcat
  <2>2. T \in Seq(Target) /\ T # <<>> /\ DOMAIN T = {1, 2} /\ T[1] = I(s) /\ T[2] = R(t)
    BY <2>0 DEF Target
  <2>4. I(s).serial = s /\ I(s).file = "issued" /\ R(t).serial = t /\ R(t).file = "renewed" /\ s <= s
    BY <1>n
  <2>. HIDE DEF I, R, T
  <2>. QED  BY <2>0, <2>1, <2>2, <2>4 DEF FileOf
<1>. QED  BY <1>2, <1>3, <1>4

LEMMA RevokeOutcome ==
  ASSUME PkiInv, Overlap = FALSE, NEW r \in Reqs, NEW n \in Names, NEW s \in Serial,
         RevokeCertificate(r, n, s)
  PROVE  Outcome
<1>. DEFINE T == Targets(n, s)
            m == NewRequest("revoke", "strip", n, s, T)
<1>1. "strip" \in StepsOf("revoke") /\ "strip" \in Pcs \ {"replace", "tag"}
  BY StepsOfOp DEF Pcs
<1>2. s \in {issued[n], renewed[n]}
  BY DEF RevokeCertificate
<1>3. /\ T \in Seq(Target) /\ T # <<>>
      /\ \A k \in DOMAIN T : /\ T[k].serial = FileOf(T[k].file, issued, renewed)[n]
                             /\ T[k].serial \in Serial /\ T[k].serial <= s
      /\ \A f \in {"issued", "renewed"} :
           FileOf(f, issued, renewed)[n] \in 1 .. s => \E k \in DOMAIN T : T[k].file = f
  BY <1>2, TargetsFacts
<1>4. Begin(r, "revoke", "strip", n, s, T) /\ Free(r) /\ FilesUnchanged
  BY DEF RevokeCertificate
<1>5. m.targets = T /\ m.name = n /\ m.serial = s /\ Due(m) = DOMAIN T
  BY DEF NewRequest, Due, At
<1>. HIDE DEF T
<1>6. \A k \in DOMAIN T : \A i \in DOMAIN index : index[i].serial = T[k].serial => index[i].cn = n
  <2>1. None \notin Serial
    BY MaxSerialNat DEF None, Serial
  <2>2. ASSUME NEW k \in DOMAIN T PROVE T[k].serial \in {issued[n], renewed[n]} \ {None}
    BY <1>3, <2>1 DEF FileOf
  <2>. QED  BY <2>2 DEF PkiInv, Records, HasLine
<1>7. Revoking(m, index, issued, renewed)
  <2>. HIDE DEF m
  <2>1. \A k \in DOMAIN T : FileOf(T[k].file, issued, renewed)[n] <= s
    BY <1>3
  <2>. QED  BY <1>3, <1>5, <1>6, <2>1 DEF Revoking
<1>. QED  BY <1>1, <1>3, <1>4, <1>7, BeginOutcome

-----------------------------------------------------------------------------
(* Steps that touch a profile or the CRL.                                  *)

\* The script of a request that is at pc.
LEMMA StepOp ==
  ASSUME PkiInv, NEW r \in Reqs, req[r].pc \in Pcs \ {"replace"}
  PROVE  /\ req[r].pc \in StepsOf(req[r].op)
         /\ req[r].pc \in {"script", "sign", "render"} => req[r].op = "create"
         /\ req[r].pc \in {"strip", "revoke", "retag", "crl"} => req[r].op = "revoke"
         /\ req[r].pc = "tag" => req[r].op \in {"create", "renew"}
         /\ req[r].pc = "remove" => req[r].op \in {"revoke", "burn"}
         /\ req[r].pc = "mark" => req[r].op = "burn"
<1>1. req[r] \in Request /\ Good(req[r], index, issued, renewed, signed) /\ req[r] # Idle
  BY Running DEF Pcs
<1>2. req[r].pc \in StepsOf(req[r].op)
  BY <1>1 DEF Good, At, Pcs
<1>3. req[r].op \in {"create", "revoke", "renew", "burn", "download"}
  BY <1>1, RequestFields
<1>. QED  BY <1>2, <1>3, StepsOfOp

LEMMA CheckProfileOutcome ==
  ASSUME PkiInv, NEW r \in Reqs, CheckProfile(r) PROVE Outcome
<1>1. req[r].pc = "script" /\ FilesUnchanged
  BY DEF CheckProfile
<1>2. req[r].op = "create" /\ signed < MaxSerial
  BY <1>1, StepOp, Running DEF Good, Pcs
<1>3. "sign" \in StepsOf("create")
  BY StepsOfOp
<1>4. /\ UNCHANGED <<index, issued, renewed, signed, failures>> /\ crl' = crl
      /\ profile' \in [Names -> Serial \cup {None}]
  BY <1>1 DEF FilesUnchanged, PkiInv, Files
<1>5. PICK pc \in {"sign", "done"} : GoTo(r, pc)
  BY DEF CheckProfile
<1>. QED  BY <1>1, <1>2, <1>3, <1>4, <1>5, GoOutcome DEF Pcs

LEMMA WriteProfileOutcome ==
  ASSUME PkiInv, NEW r \in Reqs, WriteProfile(r) PROVE Outcome
<1>1. /\ req[r].pc = "render" /\ GoTo(r, "done") /\ crl' = crl
      /\ UNCHANGED <<index, issued, renewed, signed, failures>>
  BY DEF WriteProfile
<1>2. profile' \in [Names -> Serial \cup {None}]
  <2>1. issued[req[r].name] \in Serial \cup {None}
    BY <1>1, Running
  <2>. QED  BY <2>1 DEF WriteProfile, PkiInv, Files
<1>. QED  BY <1>1, <1>2, GoOutcome DEF Pcs

LEMMA SaveProfileOutcome ==
  ASSUME PkiInv, NEW r \in Reqs, SaveProfile(r) PROVE Outcome
<1>1. /\ req[r].pc = "download" /\ GoTo(r, "done") /\ crl' = crl
      /\ UNCHANGED <<index, issued, renewed, signed, failures>>
  BY DEF SaveProfile
<1>2. profile' \in [Names -> Serial \cup {None}]
  <2>1. req[r].serial \in Serial \cup {None}
    BY <1>1, Running, RequestFields
  <2>. QED  BY <2>1 DEF SaveProfile, PkiInv, Files
<1>. QED  BY <1>1, <1>2, GoOutcome DEF Pcs

LEMMA RemoveProfileOutcome ==
  ASSUME PkiInv, NEW r \in Reqs, RemoveProfile(r) PROVE Outcome
<1>1. /\ req[r].pc = "remove" /\ crl' = crl
      /\ UNCHANGED <<index, issued, renewed, signed, failures>>
  BY DEF RemoveProfile
<1>2. profile' \in [Names -> Serial \cup {None}]
  <2>1. None \in Serial \cup {None}
    OBVIOUS
  <2>. QED  BY <2>1 DEF RemoveProfile, PkiInv, Files
<1>3. CASE req[r].op = "revoke"
  <2>1. GoTo(r, "crl")
    BY <1>3 DEF RemoveProfile
  <2>2. "crl" \in StepsOf("revoke")
    BY StepsOfOp
  <2>3. Due([req[r] EXCEPT !.pc = "crl"]) = Due(req[r])
    <3>1. req[r] \in Request
      BY <1>1, Running
    <3>2. [req[r] EXCEPT !.pc = "crl"].pc = "crl"
      BY <3>1, MoveTo DEF Pcs
    <3>. QED  BY <1>1, <3>2 DEF Due, At
  <2>. QED  BY <1>1, <1>2, <1>3, <2>1, <2>2, <2>3, GoOutcome DEF Pcs
<1>4. CASE req[r].op # "revoke"
  <2>1. GoTo(r, "done")
    BY <1>4 DEF RemoveProfile
  <2>. QED  BY <1>1, <1>2, <1>4, <2>1, GoOutcome DEF Pcs
<1>. QED  BY <1>3, <1>4

LEMMA GenCrlOutcome ==
  ASSUME PkiInv, NEW r \in Reqs, GenCrl(r) PROVE Outcome
<1>1. /\ req[r].pc = "crl" /\ GoTo(r, "done") /\ crl' = RevokedSerials
      /\ UNCHANGED <<index, issued, renewed, signed, failures>>
  BY DEF GenCrl
<1>2. profile' \in [Names -> Serial \cup {None}]
  BY DEF GenCrl, PkiInv, Files
<1>. QED  BY <1>1, <1>2, GoOutcome DEF Pcs

-----------------------------------------------------------------------------
(* sed -i: the copy, and the replacement of the index by it.               *)

LEMMA SedOutcome ==
  ASSUME PkiInv, NEW r \in Reqs, req[r].pc \in Pcs, FilesUnchanged,
         NEW m \in Request, req' = [req EXCEPT ![r] = m],
         m.pc = "replace", m.op = req[r].op, m.then \in StepsOf(m.op) \cup {"done"},
         m.then \in {"strip", "revoke", "retag"} => m.targets # <<>>,
         Edited(index, m.copy),
         m.op = "revoke" => Revoking(m, index, issued, renewed)
  PROVE  Outcome
<1>1. \A q \in Reqs : req[q] # Idle => q = r
  BY Running DEF Pcs
<1>2. Good(m, index, issued, renewed, signed)
  BY DEF Good, At
<1>3. /\ profile' \in [Names -> Serial \cup {None}] /\ failures' \in 0 .. MaxFailures
      /\ crl' = crl /\ UNCHANGED <<index, issued, renewed, signed>>
  BY DEF FilesUnchanged, PkiInv, Files
<1>. QED  BY <1>1, <1>2, <1>3, Plain

\* A sed on the lines of one serial, when it changes each of them in a way the index
\* survives.
LEMMA OnLinesEdited ==
  ASSUME PkiInv, NEW s, NEW edited,
         \A i \in DOMAIN index : index[i].serial = s => SameLine(index[i], edited[i])
  PROVE  Edited(index, OnLines(s, edited))
<1>. DEFINE f == OnLines(s, edited)
<1>1. f = [i \in DOMAIN index |-> f[i]]
  BY DEF OnLines
<1>2. \A i \in DOMAIN index : index[i] \in Line
  BY LenProperties, ElementOfSeq DEF PkiInv, Files
<1>3. \A i \in DOMAIN index : SameLine(index[i], f[i])
  BY <1>2, SameLineRefl DEF OnLines
<1>4. index \in Seq(Line) /\ OwnTags(index)
  BY DEF PkiInv, Files, Records
<1>. HIDE DEF f
<1>5. Edited(index, f)
  BY <1>1, <1>3, <1>4, EditedBy
<1>. QED  BY <1>5 DEF f

LEMMA TagOutcome == ASSUME PkiInv, NEW r \in Reqs, Tag(r) PROVE Outcome
<1>. DEFINE n == req[r].name
            q == req[r]
            f == LastTagged(n)
            then == IF q.op = "create" THEN "render" ELSE "done"
            m == [q EXCEPT !.pc = "replace", !.copy = f, !.then = then]
<1>1. /\ q.pc = "tag" /\ FilesUnchanged /\ req' = [req EXCEPT ![r] = m]
  BY DEF Tag, Sed
<1>2. q \in Request /\ index # <<>> /\ index[Len(index)].cn = n /\ q.op \in {"create", "renew"}
  BY <1>1, Running, StepOp DEF Good, Pcs
<1>3. index \in Seq(Line) /\ OwnTags(index) /\ DOMAIN index = 1 .. Len(index)
  BY LenProperties DEF PkiInv, Files, Records
<1>4. Edited(index, f)
  <2>1. f = [i \in DOMAIN index |-> f[i]]
    BY DEF LastTagged
  <2>2. ASSUME NEW i \in DOMAIN index PROVE SameLine(index[i], f[i])
    <3>1. index[i] \in Line
      BY <1>3, ElementOfSeq
    <3>2. CASE i = Len(index)
      <4>1. f[i] = Tagged(index[i], index[i].cn)
        BY <1>2, <3>2 DEF LastTagged
      <4>. QED  BY <3>1, <4>1, TaggedLine
    <3>3. CASE i # Len(index)
      <4>1. f[i] = index[i]
        BY <3>3 DEF LastTagged
      <4>. QED  BY <3>1, <4>1, SameLineRefl
    <3>. QED  BY <3>2, <3>3
  <2>. HIDE DEF f
  <2>. QED  BY <1>3, <2>1, <2>2, EditedBy
<1>5. /\ m \in Request /\ m.pc = "replace" /\ m.then = then /\ m.op = q.op /\ m.copy = f
  <2>1. f \in Seq(Line) /\ then \in Thens
    BY <1>4 DEF Edited, Thens
  <2>3. m = Sedded(q, f, then)
    BY DEF Sedded
  <2>4. q \in Request
    BY <1>2
  <2>. HIDE DEF f, then, m, q
  <2>5. /\ Sedded(q, f, then) \in Request
        /\ Sedded(q, f, then).pc = "replace" /\ Sedded(q, f, then).then = then
        /\ Sedded(q, f, then).op = q.op /\ Sedded(q, f, then).copy = f
    BY <2>1, <2>4, SeddedFields
  <2>. QED  BY <2>3, <2>5
<1>6. then \in StepsOf(q.op) \cup {"done"} /\ then \notin {"strip", "revoke", "retag"}
  BY StepsOfOp
<1>. HIDE DEF m, f, then
<1>. QED  BY <1>1, <1>2, <1>4, <1>5, <1>6, SedOutcome DEF Pcs

LEMMA MarkOutcome == ASSUME PkiInv, NEW r \in Reqs, MarkRemoved(r) PROVE Outcome
<1>. DEFINE q == req[r]
            marked == [i \in DOMAIN index |-> [index[i] EXCEPT !.removed = TRUE]]
            f == OnLines(q.serial, marked)
            m == [q EXCEPT !.pc = "replace", !.copy = f, !.then = "remove"]
<1>1. q.pc = "mark" /\ FilesUnchanged /\ req' = [req EXCEPT ![r] = m]
  BY DEF MarkRemoved, Sed
<1>2. q \in Request /\ q.op = "burn"
  BY <1>1, Running, StepOp DEF Pcs
<1>3. Edited(index, f)
  <2>1. \A i \in DOMAIN index : index[i] \in Line
    BY LenProperties, ElementOfSeq DEF PkiInv, Files
  <2>2. \A i \in DOMAIN index : SameLine(index[i], marked[i])
    BY <2>1, MarkedLine
  <2>. HIDE DEF marked
  <2>. QED  BY <2>2, OnLinesEdited
<1>4. /\ m \in Request /\ m.pc = "replace" /\ m.then = "remove" /\ m.op = q.op /\ m.copy = f
  <2>1. f \in Seq(Line)
    BY <1>3 DEF Edited
  <2>2. m = Sedded(q, f, "remove")
    BY DEF Sedded
  <2>3. q \in Request
    BY <1>2
  <2>4. "remove" \in Thens
    BY DEF Thens
  <2>. HIDE DEF f, m, q
  <2>5. /\ Sedded(q, f, "remove") \in Request
        /\ Sedded(q, f, "remove").pc = "replace" /\ Sedded(q, f, "remove").then = "remove"
        /\ Sedded(q, f, "remove").op = q.op /\ Sedded(q, f, "remove").copy = f
        /\ Sedded(q, f, "remove").targets = q.targets /\ Sedded(q, f, "remove").name = q.name
        /\ Sedded(q, f, "remove").serial = q.serial
    BY <2>1, <2>3, <2>4, SeddedFields
  <2>. QED  BY <2>2, <2>5
<1>5. "remove" \in StepsOf("burn")
  BY StepsOfOp
<1>. HIDE DEF m, f
<1>. QED  BY <1>1, <1>2, <1>3, <1>4, <1>5, SedOutcome DEF Pcs

LEMMA StripOutcome == ASSUME PkiInv, NEW r \in Reqs, StripTag(r) PROVE Outcome
<1>. DEFINE q == req[r]
            n == q.name
            stripped == [i \in DOMAIN index |-> Stripped(index[i], n)]
            f == OnLines(Head(q.targets).serial, stripped)
            m == [q EXCEPT !.pc = "replace", !.copy = f, !.then = "revoke"]
<1>1. q.pc = "strip" /\ FilesUnchanged /\ req' = [req EXCEPT ![r] = m]
  BY DEF StripTag, Sed
<1>2. q \in Request /\ q # Idle /\ q.op = "revoke" /\ Good(q, index, issued, renewed, signed)
  BY <1>1, Running, StepOp DEF Pcs
<1>3. Edited(index, f)
  <2>1. \A i \in DOMAIN index : index[i] \in Line
    BY LenProperties, ElementOfSeq DEF PkiInv, Files
  <2>2. \A i \in DOMAIN index : SameLine(index[i], stripped[i])
    BY <2>1, StrippedLine
  <2>. HIDE DEF stripped
  <2>. QED  BY <2>2, OnLinesEdited
<1>4. /\ m \in Request /\ m.pc = "replace" /\ m.then = "revoke" /\ m.op = q.op /\ m.copy = f
      /\ m.targets = q.targets /\ m.name = q.name /\ m.serial = q.serial
  <2>1. f \in Seq(Line)
    BY <1>3 DEF Edited
  <2>2. m = Sedded(q, f, "revoke")
    BY DEF Sedded
  <2>3. q \in Request
    BY <1>2
  <2>4. "revoke" \in Thens
    BY DEF Thens
  <2>. HIDE DEF f, m, q
  <2>5. /\ Sedded(q, f, "revoke") \in Request
        /\ Sedded(q, f, "revoke").pc = "replace" /\ Sedded(q, f, "revoke").then = "revoke"
        /\ Sedded(q, f, "revoke").op = q.op /\ Sedded(q, f, "revoke").copy = f
        /\ Sedded(q, f, "revoke").targets = q.targets /\ Sedded(q, f, "revoke").name = q.name
        /\ Sedded(q, f, "revoke").serial = q.serial
    BY <2>1, <2>3, <2>4, SeddedFields
  <2>. QED  BY <2>2, <2>5
<1>5. "revoke" \in StepsOf("revoke")
  BY StepsOfOp
<1>. HIDE DEF m, f
<1>6. q.targets # <<>> /\ Revoking(q, index, issued, renewed)
  BY <1>1, <1>2 DEF Good, At
<1>7. Due(m) = Due(q)
  BY <1>1, <1>4 DEF Due, At
<1>8. Revoking(m, index, issued, renewed)
  BY <1>4, <1>6, <1>7 DEF Revoking
<1>. QED  BY <1>1, <1>2, <1>3, <1>4, <1>5, <1>6, <1>8, SedOutcome DEF Pcs

LEMMA RetagOutcome == ASSUME PkiInv, NEW r \in Reqs, RestoreTag(r) PROVE Outcome
<1>. DEFINE q == req[r]
            n == q.name
            T == q.targets
            rest == Tail(T)
            tagged == [i \in DOMAIN index |-> Tagged(index[i], n)]
            f == OnLines(Head(T).serial, tagged)
            then == IF rest = <<>> THEN "remove" ELSE "strip"
            m == [q EXCEPT !.pc = "replace", !.targets = rest, !.copy = f, !.then = then]
<1>1. q.pc = "retag" /\ FilesUnchanged /\ req' = [req EXCEPT ![r] = m]
  BY DEF RestoreTag
<1>2. q \in Request /\ q # Idle /\ q.op = "revoke" /\ Good(q, index, issued, renewed, signed)
  BY <1>1, Running, StepOp DEF Pcs
<1>3. T # <<>> /\ Revoking(q, index, issued, renewed) /\ T \in Seq(Target)
  BY <1>1, <1>2, RequestFields DEF Good, At
<1>4. /\ rest \in Seq(Target) /\ Len(rest) = Len(T) - 1 /\ Len(T) \in Nat /\ Len(T) >= 1
      /\ \A i \in 1 .. Len(rest) : rest[i] = T[i + 1]
      /\ DOMAIN rest = 1 .. Len(rest) /\ DOMAIN T = 1 .. Len(T)
      /\ Head(T) = T[1]
  <2>1. rest \in Seq(Target) /\ Len(rest) = Len(T) - 1
        /\ \A i \in 1 .. Len(rest) : rest[i] = T[i + 1]
    BY <1>3, HeadTailProperties
  <2>2. DOMAIN rest = 1 .. Len(rest) /\ DOMAIN T = 1 .. Len(T) /\ Len(T) \in Nat /\ Len(T) \in Nat \ {0}
    BY <1>3, <2>1, LenProperties, EmptySeq
  <2>3. Head(T) = T[1]
    BY <1>3
  <2>. QED  BY <2>1, <2>2, <2>3
<1>5. Edited(index, f)
  <2>1. \A i \in DOMAIN index : index[i] \in Line
    BY LenProperties, ElementOfSeq DEF PkiInv, Files
  <2>2. \A i \in DOMAIN index : index[i].serial = Head(T).serial => index[i].cn = n
    BY <1>3, <1>4 DEF Revoking
  <2>3. \A i \in DOMAIN index : index[i].serial = Head(T).serial => SameLine(index[i], tagged[i])
    BY <2>1, <2>2, TaggedLine
  <2>. HIDE DEF tagged
  <2>. QED  BY <2>3, OnLinesEdited
<1>6. /\ m \in Request /\ m.pc = "replace" /\ m.then = then /\ m.op = q.op /\ m.copy = f
      /\ m.targets = rest /\ m.name = q.name /\ m.serial = q.serial
  <2>1. /\ f \in Seq(Line)
        /\ then \in Thens
    BY <1>5 DEF Edited, Thens
  <2>2. m = SeddedTo(q, rest, f, then)
    BY DEF SeddedTo
  <2>3. q \in Request /\ rest \in Seq(Target)
    BY <1>2, <1>4
  <2>. DEFINE d == SeddedTo(q, rest, f, then)
  <2>. HIDE DEF f, rest, then, m, q
  <2>4. /\ d \in Request /\ d.pc = "replace" /\ d.then = then /\ d.op = q.op /\ d.copy = f
        /\ d.targets = rest /\ d.name = q.name /\ d.serial = q.serial
    BY <2>1, <2>3, SeddedToFields
  <2>. QED  BY <2>2, <2>4
<1>7. "strip" \in StepsOf("revoke") /\ "remove" \in StepsOf("revoke")
  BY StepsOfOp
<1>8. Due(q) = DOMAIN T \ {1}
  BY <1>1 DEF Due, At
<1>9. Due(m) = DOMAIN rest
  <2>. HIDE DEF m
  <2>1. CASE rest = <<>>
    <3>1. m.then = "remove" /\ DOMAIN rest = {}
      BY <1>6, <2>1, NoTargets
    <3>. QED  BY <1>6, <3>1 DEF Due, At
  <2>2. CASE rest # <<>>
    BY <1>6, <2>2 DEF Due, At
  <2>. QED  BY <2>1, <2>2
<1>. HIDE DEF m, f, rest, T
<1>10. Revoking(m, index, issued, renewed)
  <2>1. \A k \in DOMAIN rest : k + 1 \in DOMAIN T /\ rest[k] = T[k + 1]
    BY <1>4
  <2>2. \A k \in DOMAIN T \ {1} : k - 1 \in DOMAIN rest /\ rest[k - 1] = T[k]
    BY <1>4
  <2>3. ASSUME NEW k \in DOMAIN rest
        PROVE  /\ FileOf(rest[k].file, issued, renewed)[q.name] <= q.serial
               /\ \A i \in DOMAIN index : index[i].serial = rest[k].serial => index[i].cn = q.name
    BY <1>3, <2>1 DEF Revoking, T
  <2>4. ASSUME NEW g \in {"issued", "renewed"},
               FileOf(g, issued, renewed)[q.name] \in 1 .. q.serial
        PROVE  \E k \in DOMAIN rest : rest[k].file = g
    <3>1. PICK k \in DOMAIN T \ {1} : T[k].file = g
      BY <1>3, <1>8, <2>4 DEF Revoking, T
    <3>. QED  BY <2>2, <3>1
  <2>. QED  BY <1>6, <1>9, <2>3, <2>4 DEF Revoking
<1>11. m.then \in StepsOf(m.op) \cup {"done"} /\ (m.then \in {"strip", "revoke", "retag"} => m.targets # <<>>)
  BY <1>2, <1>6, <1>7
<1>. QED  BY <1>1, <1>2, <1>5, <1>6, <1>10, <1>11, SedOutcome DEF Pcs

LEMMA ReplaceOutcome == ASSUME PkiInv, NEW r \in Reqs, Replace(r) PROVE Outcome
<1>. DEFINE q == req[r]
            m == Resumed(q, q.then)
            next == IF q.then = "done" THEN Idle ELSE m
<1>1. /\ q.pc = "replace" /\ index' = q.copy /\ req' = [req EXCEPT ![r] = next]
      /\ UNCHANGED <<issued, renewed, crl, profile, signed, failures>>
  BY DEF Replace, Resumed
<1>2. /\ q \in Request /\ q # Idle /\ Good(q, index, issued, renewed, signed)
      /\ \A p \in Reqs : req[p] # Idle => p = r
  BY <1>1, Running
<1>3. Edited(index, index')
  BY <1>1, <1>2 DEF Good
<1>4. Files'
  BY <1>1, <1>3 DEF PkiInv, Files, Edited
<1>5. Kept(index, index') /\ DOMAIN index' = DOMAIN index
  BY <1>3 DEF Edited
<1>6. Records'
  <2>1. OwnTags(index')
    BY <1>3 DEF Edited
  <2>2. \A i \in DOMAIN index :
          /\ index'[i].serial = index[i].serial /\ index'[i].cn = index[i].cn
          /\ index'[i].status = index[i].status
    BY <1>3 DEF Edited, Kept
  <2>3. Numbered' /\ Filed' /\ HasLine' /\ RenewedOlder'
    BY <1>1, <1>5, <2>2 DEF PkiInv, Records, Numbered, Filed, HasLine, RenewedOlder
  <2>. QED  BY <2>1, <2>3 DEF Records
<1>7. next \in Request \cup {Idle} /\ Good(next, index', issued', renewed', signed')
  <2>1. CASE q.then = "done"
    BY <2>1 DEF Good
  <2>2. CASE q.then # "done"
    <3>1. q.then \in StepsOf(q.op) /\ q.op \in {"create", "revoke", "renew", "burn", "download"}
          /\ q.then \in Thens
      BY <1>1, <1>2, <2>2, RequestFields DEF Good, At, Thens
    <3>2. q.then # "none"
      BY <3>1, StepsOfOp
    <3>3. q.then \in {"render", "revoke", "strip", "remove"}
      BY <2>2, <3>1, <3>2 DEF Thens
    <3>4. q.then \in Pcs
      BY <3>3 DEF Pcs
    <3>5. /\ m \in Request /\ m.pc = q.then /\ m.op = q.op /\ m.name = q.name
          /\ m.serial = q.serial /\ m.targets = q.targets
      BY <1>2, <3>4, ResumedFields
    <3>. HIDE DEF m
    <3>6. At(m) = At(q) /\ At(q) = q.then
      BY <1>1, <3>3, <3>5 DEF At
    <3>7. Due(m) = Due(q)
      BY <3>5, <3>6 DEF Due
    <3>8. m.op = "revoke" => Revoking(m, index', issued', renewed')
      <4>1. \A i \in DOMAIN index :
              index'[i].serial = index[i].serial /\ index'[i].cn = index[i].cn
        BY <1>5 DEF Kept
      <4>2. m.op = "revoke" => Revoking(q, index, issued, renewed)
        BY <1>2, <3>5 DEF Good
      <4>. QED  BY <1>1, <1>5, <3>5, <3>7, <4>1, <4>2 DEF Revoking
    <3>9. m.targets # <<>> \/ At(m) \notin {"strip", "revoke", "retag"}
      BY <1>2, <3>5, <3>6 DEF Good
    <3>10. Good(m, index', issued', renewed', signed')
      BY <3>1, <3>3, <3>5, <3>6, <3>8, <3>9 DEF Good
    <3>. QED  BY <2>2, <3>5, <3>10
  <2>. QED  BY <2>1, <2>2
<1>. HIDE DEF next
<1>8. Requests'
  BY <1>1, <1>2, <1>7, ReqStep DEF PkiInv
<1>. QED  BY <1>1, <1>4, <1>5, <1>6, <1>8, OutcomeOf

-----------------------------------------------------------------------------
(* New certificates.                                                       *)

LEMMA AppendLine ==
  ASSUME index \in Seq(Line), NEW l \in Line
  PROVE  LET b == Append(index, l) IN
         /\ b \in Seq(Line) /\ b # <<>>
         /\ DOMAIN b = DOMAIN index \cup {Len(index) + 1} /\ Len(b) = Len(index) + 1
         /\ \A i \in DOMAIN index : b[i] = index[i]
         /\ b[Len(index) + 1] = l
         /\ Len(index) + 1 \notin DOMAIN index
<1>. DEFINE b == Append(index, l)
<1>1. /\ b \in Seq(Line) /\ Len(b) = Len(index) + 1
      /\ \A i \in 1 .. Len(index) : b[i] = index[i]
      /\ b[Len(index) + 1] = l
  BY AppendProperties
<1>2. /\ Len(index) \in Nat /\ DOMAIN index = 1 .. Len(index)
      /\ DOMAIN b = 1 .. Len(b)
  BY <1>1, LenProperties
<1>. HIDE DEF b
<1>3. b # <<>>
  BY <1>1, <1>2, EmptySeq
<1>4. DOMAIN b = DOMAIN index \cup {Len(index) + 1} /\ Len(index) + 1 \notin DOMAIN index
  BY <1>1, <1>2
<1>. QED  BY <1>1, <1>2, <1>3, <1>4 DEF b

\* The next serial goes to the current certificate of n, whose file was free or has
\* moved.
NewCertificate(n) ==
  /\ signed < MaxSerial
  /\ signed' = signed + 1
  /\ index' = Append(index, SignedLine(n, signed + 1))
  /\ issued' = [issued EXCEPT ![n] = signed + 1]
  /\ \/ issued[n] = None /\ renewed' = renewed
     \/ renewed[n] = None /\ renewed' = [renewed EXCEPT ![n] = issued[n]]
  /\ UNCHANGED <<crl, profile, failures>>

LEMMA NewCertificateOutcome ==
  ASSUME PkiInv, NEW n \in Names, NewCertificate(n),
         NEW r \in Reqs, NEW m \in Request, req' = [req EXCEPT ![r] = m],
         \A q \in Reqs : req[q] # Idle => q = r,
         m.pc = "tag", m.op \in {"create", "renew"}, m.name = n
  PROVE  Outcome
<1>. DEFINE s == signed + 1
            l == SignedLine(n, s)
            e == Len(index) + 1
<1>1. /\ signed \in Nat /\ s \in Serial /\ s \in Nat /\ s > signed
      /\ Serial \subseteq Nat \ {0} /\ signed' \in 0 .. MaxSerial
  BY MaxSerialNat DEF PkiInv, Files, NewCertificate, Serial
<1>2. l \in Line /\ l.serial = s /\ l.cn = n /\ l.tags = <<>> /\ l.status = "V"
  BY <1>1, SignedLineType
<1>3. /\ index \in Seq(Line)
      /\ issued \in [Names -> Serial \cup {None}]
      /\ renewed \in [Names -> Serial \cup {None}]
  BY DEF PkiInv, Files
<1>4. index' = Append(index, l)
  BY DEF NewCertificate
<1>. HIDE DEF l
<1>5. /\ index' \in Seq(Line) /\ index' # <<>>
      /\ DOMAIN index' = DOMAIN index \cup {e} /\ Len(index') = e
      /\ \A i \in DOMAIN index : index'[i] = index[i]
      /\ index'[e] = l /\ e \notin DOMAIN index
  BY <1>2, <1>3, <1>4, AppendLine
<1>. HIDE DEF s, e
<1>6. /\ issued' \in [Names -> Serial \cup {None}] /\ issued'[n] = s
      /\ \A x \in Names \ {n} : issued'[x] = issued[x] /\ renewed'[x] = renewed[x]
      /\ renewed' \in [Names -> Serial \cup {None}]
      /\ \/ issued[n] = None /\ renewed'[n] = renewed[n]
         \/ renewed[n] = None /\ renewed'[n] = issued[n]
  BY <1>1, <1>3 DEF NewCertificate, s
<1>7. Files'
  BY <1>1, <1>5, <1>6 DEF PkiInv, Files, NewCertificate
<1>8. Kept(index, index')
  BY <1>5 DEF Kept
<1>9. \A i \in DOMAIN index : index[i].serial \in Serial /\ index[i].serial <= signed
                              /\ index[i].serial # s
  <2>1. \A i \in DOMAIN index : index[i].serial \in Serial
    BY <1>3, LenProperties, ElementOfSeq, LineFields
  <2>2. \A i \in DOMAIN index : index[i].serial <= signed
    BY DEF PkiInv, Records, Numbered
  <2>. QED  BY <1>1, <2>1, <2>2
<1>10. \A x \in Names : \A t \in {issued[x], renewed[x]} \ {None} : t \in Serial /\ t <= signed /\ t # s
  <2>. SUFFICES ASSUME NEW x \in Names, NEW t \in {issued[x], renewed[x]} \ {None}
                PROVE  t \in Serial /\ t <= signed /\ t # s
    OBVIOUS
  <2>1. PICK i \in DOMAIN index : index[i].serial = t
    BY DEF PkiInv, Records, HasLine
  <2>. QED  BY <1>9, <2>1
<1>11. OwnTags(index')
  <2>1. DOMAIN l.tags = {}
    BY <1>2, NoTargets
  <2>. QED  BY <1>5, <2>1 DEF PkiInv, Records, OwnTags
<1>12. Numbered'
  <2>1. signed' = s
    BY DEF NewCertificate, s
  <2>2. ASSUME NEW i \in DOMAIN index PROVE index[i].serial <= s
    <3>1. index[i].serial \in Nat /\ index[i].serial <= signed /\ signed \in Nat /\ s \in Nat /\ signed < s
      BY <1>1, <1>9
    <3>. QED  BY <3>1
  <2>. QED  BY <1>1, <1>2, <1>5, <2>1, <2>2 DEF Numbered
<1>13. Filed'
  <2>1. ASSUME NEW i \in DOMAIN index, index[i].status = "V"
        PROVE  index[i].serial \in {issued'[index[i].cn], renewed'[index[i].cn]}
    <3>1. /\ index[i].serial \in {issued[index[i].cn], renewed[index[i].cn]}
          /\ index[i].cn \in Names
      BY <1>3, <2>1, LenProperties, ElementOfSeq, LineFields DEF PkiInv, Records, Filed
    <3>2. index[i].serial # None
      BY <1>1, <1>9 DEF None
    <3>. QED  BY <1>6, <3>1, <3>2
  <2>. QED  BY <1>2, <1>5, <1>6, <2>1 DEF Filed
<1>14. HasLine'
  <2>. SUFFICES ASSUME NEW x \in Names, NEW t \in {issued'[x], renewed'[x]} \ {None}
                PROVE  /\ \E i \in DOMAIN index' : index'[i].serial = t
                       /\ \A i \in DOMAIN index' : index'[i].serial = t => index'[i].cn = x
    BY DEF HasLine
  <2>1. CASE x = n /\ t = s
    BY <1>2, <1>5, <1>9, <2>1
  <2>2. CASE t \in {issued[x], renewed[x]}
    <3>1. t # s
      BY <1>10, <2>2
    <3>2. /\ \E i \in DOMAIN index : index[i].serial = t
          /\ \A i \in DOMAIN index : index[i].serial = t => index[i].cn = x
      BY <2>2 DEF PkiInv, Records, HasLine
    <3>. QED  BY <1>2, <1>5, <3>1, <3>2
  <2>. QED  BY <1>6, <2>1, <2>2
<1>15. RenewedOlder'
  <2>. SUFFICES ASSUME NEW x \in Names, issued'[x] # None PROVE renewed'[x] < issued'[x]
    BY DEF RenewedOlder
  <2>1. CASE x = n
    <3>1. renewed'[n] = None \/ (renewed'[n] \in Serial /\ renewed'[n] <= signed)
      BY <1>6, <1>10
    <3>2. issued'[n] = s /\ s \in Nat /\ signed \in Nat /\ signed < s
      BY <1>1, <1>6
    <3>3. CASE renewed'[n] = None
      <4>1. None < s
        BY <3>2 DEF None
      <4>. QED  BY <2>1, <3>2, <3>3, <4>1
    <3>4. CASE renewed'[n] \in Serial /\ renewed'[n] <= signed
      <4>1. renewed'[n] \in Nat
        BY <1>1, <3>4
      <4>2. renewed'[n] < s
        BY <3>2, <3>4, <4>1
      <4>. QED  BY <2>1, <3>2, <4>2
    <3>. QED  BY <3>1, <3>3, <3>4
  <2>2. CASE x # n
    BY <1>6, <2>2 DEF PkiInv, Records, RenewedOlder
  <2>. QED  BY <2>1, <2>2
<1>16. Good(m, index', issued', renewed', signed')
  <2>1. "tag" \in StepsOf(m.op)
    BY StepsOfOp
  <2>2. At(m) = "tag"
    BY DEF At
  <2>3. index'[Len(index')].cn = n
    BY <1>2, <1>5
  <2>. QED  BY <1>5, <2>1, <2>2, <2>3 DEF Good
<1>17. Requests'
  BY <1>16, ReqStep DEF PkiInv
<1>18. Records' /\ crl' = crl
  BY <1>11, <1>12, <1>13, <1>14, <1>15 DEF Records, NewCertificate
<1>. QED  BY <1>7, <1>8, <1>17, <1>18, OutcomeOf

LEMMA SignOutcome == ASSUME PkiInv, NEW r \in Reqs, Sign(r) PROVE Outcome
<1>. DEFINE q == req[r]
            n == q.name
<1>1. q.pc = "sign"
  BY DEF Sign
<1>2. /\ q \in Request /\ n \in Names /\ signed < MaxSerial /\ q.op = "create"
      /\ \A p \in Reqs : req[p] # Idle => p = r
  BY <1>1, Running, StepOp DEF Good, Pcs
<1>3. CASE issued[n] = None
  <2>. DEFINE m == [q EXCEPT !.pc = "tag"]
  <2>1. NewCertificate(n) /\ req' = [req EXCEPT ![r] = m]
    BY <1>2, <1>3 DEF Sign, NewCertificate, GoTo
  <2>2. m \in Request /\ m.pc = "tag" /\ m.op = "create" /\ m.name = n
    BY <1>2, MoveTo DEF Pcs
  <2>. HIDE DEF m
  <2>. QED  BY <1>2, <2>1, <2>2, NewCertificateOutcome
<1>4. CASE issued[n] # None
  <2>1. /\ GoTo(r, "done") /\ UNCHANGED <<index, issued, renewed, signed, failures>>
        /\ crl' = crl /\ profile' \in [Names -> Serial \cup {None}]
    BY <1>4 DEF Sign, PkiInv, Files
  <2>. QED  BY <1>1, <2>1, GoOutcome DEF Pcs
<1>. QED  BY <1>3, <1>4

LEMMA RenewOutcome ==
  ASSUME PkiInv, Overlap = FALSE, NEW r \in Reqs, NEW n \in Names, RenewCertificate(r, n)
  PROVE  Outcome
<1>. DEFINE m == NewRequest("renew", "tag", n, None, <<>>)
<1>1. NewCertificate(n)
  <2>1. signed < MaxSerial
    BY CanSignAlone DEF RenewCertificate
  <2>. QED  BY <2>1 DEF RenewCertificate, NewCertificate
<1>2. req' = [req EXCEPT ![r] = m] /\ Free(r)
  BY DEF RenewCertificate, Begin, NewRequest
<1>3. m \in Request
  <2>1. None \in Serial \cup {None} /\ "tag" \in Pcs
    BY DEF Pcs
  <2>. QED  BY <2>1, NoTargets, NewRequestType
<1>4. m.pc = "tag" /\ m.op = "renew" /\ m.name = n
  BY DEF NewRequest
<1>. HIDE DEF m
<1>5. \A q \in Reqs : req[q] # Idle => q = r
  BY <1>2, Alone
<1>. QED  BY <1>1, <1>2, <1>3, <1>4, <1>5, NewCertificateOutcome

-----------------------------------------------------------------------------
(* revoke.sh.                                                              *)

\* The lines of a certificate that is in a file.
LEMMA LinesOf ==
  ASSUME PkiInv, NEW n \in Names, NEW s, s \in {issued[n], renewed[n]}, s # None
  PROVE  /\ {i \in DOMAIN index : index[i].serial = s} # {}
         /\ \A i \in DOMAIN index : index[i].serial = s => index[i].cn = n
BY DEF PkiInv, Records, HasLine

LEMMA RevokeStepOutcome == ASSUME PkiInv, NEW r \in Reqs, EasyRsaRevoke(r) PROVE Outcome
<1>. DEFINE q     == req[r]
            n     == q.name
            T     == q.targets
            file  == Head(T).file
            found == FileOf(file, issued, renewed)[n]
            lines == {i \in DOMAIN index : index[i].serial = found}
            revoked == [i \in DOMAIN index |-> [index[i] EXCEPT !.status = "R"]]
            f     == OnLines(found, revoked)
            m     == [q EXCEPT !.pc = "retag"]
            well  == found # None /\ \A i \in lines : index[i].tags = <<>> /\ index[i].status = "V"
<1>1. /\ q.pc = "revoke"
      /\ q \in Request /\ q # Idle /\ n \in Names /\ q.op = "revoke"
      /\ \A p \in Reqs : req[p] # Idle => p = r
      /\ Good(q, index, issued, renewed, signed)
  <2>1. q.pc = "revoke"
    BY DEF EasyRsaRevoke
  <2>. QED  BY <2>1, Running, StepOp DEF Pcs
<1>2. /\ T \in Seq(Target) /\ T # <<>> /\ Revoking(q, index, issued, renewed)
      /\ q.serial \in Serial \cup {None}
  BY <1>1, RequestFields DEF Good, At
<1>3. 1 \in DOMAIN T /\ Head(T) = T[1] /\ file = T[1].file /\ file \in {"issued", "renewed"}
  <2>1. Len(T) \in Nat \ {0} /\ DOMAIN T = 1 .. Len(T)
    BY <1>2, LenProperties, EmptySeq
  <2>2. 1 \in DOMAIN T
    BY <2>1
  <2>3. T[1] \in Target /\ Head(T) = T[1]
    BY <1>2, <2>1, <2>2, ElementOfSeq
  <2>. QED  BY <2>2, <2>3 DEF Target
<1>4. /\ index \in Seq(Line)
      /\ issued \in [Names -> Serial \cup {None}]
      /\ renewed \in [Names -> Serial \cup {None}]
      /\ \A i \in DOMAIN index : index[i] \in Line
  <2>1. /\ index \in Seq(Line)
        /\ issued \in [Names -> Serial \cup {None}]
        /\ renewed \in [Names -> Serial \cup {None}]
    BY DEF PkiInv, Files
  <2>. QED  BY <2>1, LenProperties, ElementOfSeq
<1>5. found = IF file = "issued" THEN issued[n] ELSE renewed[n]
  BY DEF FileOf
<1>6. /\ UNCHANGED <<crl, profile, signed, failures>>
      /\ well =>
           /\ index' = IF lines # {} THEN f
                       ELSE Append(index, [SignedLine(n, found) EXCEPT !.status = "R"])
           /\ IF file = "issued"
              THEN issued' = [issued EXCEPT ![n] = None] /\ renewed' = renewed
              ELSE renewed' = [renewed EXCEPT ![n] = None] /\ issued' = issued
           /\ GoTo(r, "retag")
      /\ ~ well => GoTo(r, "done") /\ UNCHANGED <<index, issued, renewed>>
  BY DEF EasyRsaRevoke, FileOf
<1>7. CASE ~ well
  <2>1. /\ GoTo(r, "done") /\ UNCHANGED <<index, issued, renewed, signed, failures>>
        /\ crl' = crl /\ profile' \in [Names -> Serial \cup {None}]
    BY <1>6, <1>7 DEF PkiInv, Files
  <2>. QED  BY <1>1, <2>1, GoOutcome DEF Pcs
<1>8. CASE well
  <2>1. found # None /\ found \in {issued[n], renewed[n]} \ {None} /\ found \in Serial
    <3>1. found # None
      BY <1>8
    <3>2. found \in {issued[n], renewed[n]}
      BY <1>5
    <3>. QED  BY <1>1, <1>4, <3>1, <3>2
  <2>2. lines # {} /\ \A i \in lines : index[i].cn = n
    <3>1. n \in Names /\ found \in {issued[n], renewed[n]} /\ found # None
      BY <1>1, <2>1
    <3>. HIDE DEF found, n
    <3>. QED  BY <3>1, LinesOf
  <2>3. index' = f
    BY <1>6, <1>8, <2>2
  <2>4. \A i \in DOMAIN index :
          f[i] = IF index[i].serial = found THEN [index[i] EXCEPT !.status = "R"] ELSE index[i]
    BY DEF OnLines
  <2>5. ASSUME NEW i \in DOMAIN index
        PROVE  /\ f[i] \in Line /\ f[i].serial = index[i].serial /\ f[i].cn = index[i].cn
               /\ f[i].tags = index[i].tags /\ f[i].removed = index[i].removed
               /\ f[i].status = IF index[i].serial = found THEN "R" ELSE index[i].status
    <3>1. index[i] \in Line
      BY <1>4
    <3>2. LET l == [index[i] EXCEPT !.status = "R"] IN
            /\ l \in Line /\ l.serial = index[i].serial /\ l.cn = index[i].cn
            /\ l.tags = index[i].tags /\ l.removed = index[i].removed /\ l.status = "R"
      BY <3>1 DEF Line
    <3>3. f[i] = IF index[i].serial = found THEN [index[i] EXCEPT !.status = "R"] ELSE index[i]
      BY <2>4
    <3>. HIDE DEF f, found
    <3>4. CASE index[i].serial = found
      BY <3>2, <3>3, <3>4
    <3>5. CASE index[i].serial # found
      BY <3>1, <3>3, <3>5
    <3>. QED  BY <3>4, <3>5
  <2>6. f = [i \in DOMAIN index |-> f[i]]
    BY DEF OnLines
  <2>7. f \in Seq(Line) /\ DOMAIN f = DOMAIN index
    <3>. HIDE DEF f
    <3>. QED  BY <1>4, <2>5, <2>6, SeqOfLines
  <2>. HIDE DEF f
  <2>8. /\ issued' \in [Names -> Serial \cup {None}] /\ renewed' \in [Names -> Serial \cup {None}]
        /\ \A x \in Names \ {n} : issued'[x] = issued[x] /\ renewed'[x] = renewed[x]
        /\ file = "issued" => issued'[n] = None /\ renewed'[n] = renewed[n]
        /\ file = "renewed" => renewed'[n] = None /\ issued'[n] = issued[n]
    <3>1. CASE file = "issued"
      <4>1. issued' = [issued EXCEPT ![n] = None] /\ renewed' = renewed
        BY <1>6, <1>8, <3>1
      <4>. QED  BY <1>1, <1>4, <3>1, <4>1
    <3>2. CASE file = "renewed"
      <4>1. renewed' = [renewed EXCEPT ![n] = None] /\ issued' = issued
        BY <1>6, <1>8, <3>2
      <4>. QED  BY <1>1, <1>4, <3>2, <4>1
    <3>. QED  BY <1>3, <3>1, <3>2
  <2>9. Files'
    BY <1>6, <2>3, <2>7, <2>8 DEF PkiInv, Files
  <2>10. Kept(index, index')
    BY <2>3, <2>5, <2>7 DEF Kept
  <2>11. OwnTags(index') /\ Numbered'
    <3>1. OwnTags(index')
      BY <2>3, <2>5, <2>7 DEF PkiInv, Records, OwnTags
    <3>2. Numbered'
      BY <1>6, <2>3, <2>5, <2>7 DEF PkiInv, Records, Numbered
    <3>. QED  BY <3>1, <3>2
  <2>12. Filed'
    <3>. SUFFICES ASSUME NEW i \in DOMAIN index, f[i].status = "V"
                  PROVE  f[i].serial \in {issued'[f[i].cn], renewed'[f[i].cn]}
      BY <2>3, <2>7 DEF Filed
    <3>1. index[i].serial # found /\ index[i].status = "V" /\ index[i].cn \in Names
      BY <1>4, <2>5, LineFields
    <3>2. index[i].serial \in {issued[index[i].cn], renewed[index[i].cn]}
      BY <3>1 DEF PkiInv, Records, Filed
    <3>3. index[i].serial \in {issued'[index[i].cn], renewed'[index[i].cn]}
      <4>1. CASE index[i].cn # n
        BY <2>8, <3>1, <3>2, <4>1
      <4>2. CASE index[i].cn = n
        BY <1>3, <1>5, <2>8, <3>1, <3>2, <4>2
      <4>. QED  BY <4>1, <4>2
    <3>. QED  BY <2>5, <3>3
  <2>13. HasLine'
    <3>. SUFFICES ASSUME NEW x \in Names, NEW t \in {issued'[x], renewed'[x]} \ {None}
                  PROVE  /\ \E i \in DOMAIN index : f[i].serial = t
                         /\ \A i \in DOMAIN index : f[i].serial = t => f[i].cn = x
      BY <2>3, <2>7 DEF HasLine
    <3>1. t \in {issued[x], renewed[x]} \ {None}
      <4>1. CASE x # n
        BY <2>8, <4>1
      <4>2. CASE x = n
        BY <1>3, <2>8, <4>2
      <4>. QED  BY <4>1, <4>2
    <3>. QED  BY <2>5, <3>1 DEF PkiInv, Records, HasLine
  <2>14. RenewedOlder'
    <3>. SUFFICES ASSUME NEW x \in Names, issued'[x] # None PROVE renewed'[x] < issued'[x]
      BY DEF RenewedOlder
    <3>1. CASE x # n
      BY <2>8, <3>1 DEF PkiInv, Records, RenewedOlder
    <3>2. CASE x = n
      <4>1. file = "renewed" /\ renewed'[n] = None /\ issued'[n] \in Serial
        BY <1>1, <1>3, <2>8, <3>2
      <4>2. \A t \in Serial : None < t
        BY MaxSerialNat DEF Serial, None
      <4>. QED  BY <3>2, <4>1, <4>2
    <3>. QED  BY <3>1, <3>2
  <2>15. /\ req' = [req EXCEPT ![r] = m]
         /\ m \in Request /\ m.pc = "retag" /\ m.op = "revoke" /\ m.name = n
         /\ m.serial = q.serial /\ m.targets = T
    <3>1. "retag" \in Pcs
      BY DEF Pcs
    <3>. QED  BY <1>1, <1>6, <1>8, <3>1, MoveTo DEF GoTo
  <2>. HIDE DEF m, T
  <2>16. Due(m) = DOMAIN T \ {1} /\ Due(q) = DOMAIN T
    BY <1>1, <2>15 DEF Due, At, T
  <2>17. Revoking(m, index', issued', renewed')
    <3>1. ASSUME NEW g \in {"issued", "renewed"}
          PROVE  FileOf(g, issued', renewed')[n] =
                   IF g = file THEN None ELSE FileOf(g, issued, renewed)[n]
      BY <1>3, <2>8 DEF FileOf
    <3>2. None <= q.serial /\ None \notin 1 .. q.serial
      BY <1>2, MaxSerialNat DEF Serial, None
    <3>3. ASSUME NEW k \in DOMAIN T
          PROVE  /\ FileOf(T[k].file, issued', renewed')[n] <= q.serial
                 /\ \A i \in DOMAIN index : index[i].serial = T[k].serial => index[i].cn = n
      <4>1. T[k].file \in {"issued", "renewed"}
        <5>1. T[k] \in Target
          BY <1>2, <3>3, LenProperties, ElementOfSeq
        <5>. QED  BY <5>1 DEF Target
      <4>2. /\ FileOf(T[k].file, issued, renewed)[n] <= q.serial
            /\ \A i \in DOMAIN index : index[i].serial = T[k].serial => index[i].cn = n
        BY <1>2 DEF Revoking, T
      <4>. QED  BY <3>1, <3>2, <4>1, <4>2
    <3>4. ASSUME NEW g \in {"issued", "renewed"},
                 FileOf(g, issued', renewed')[n] \in 1 .. q.serial
          PROVE  \E k \in DOMAIN T \ {1} : T[k].file = g
      <4>1. g # file /\ FileOf(g, issued, renewed)[n] \in 1 .. q.serial
        BY <3>1, <3>2, <3>4
      <4>2. PICK k \in DOMAIN T : T[k].file = g
        BY <1>2, <2>16, <4>1 DEF Revoking, T
      <4>3. k # 1
        BY <1>3, <4>1, <4>2 DEF T
      <4>. QED  BY <4>2, <4>3
    <3>5. \A i \in DOMAIN index' :
            i \in DOMAIN index /\ index'[i].serial = index[i].serial /\ index'[i].cn = index[i].cn
      BY <2>3, <2>5, <2>7
    <3>. QED  BY <2>15, <2>16, <3>3, <3>4, <3>5 DEF Revoking
  <2>18. Good(m, index', issued', renewed', signed')
    <3>1. "retag" \in StepsOf(m.op) /\ At(m) = "retag"
      BY <2>15, StepsOfOp DEF At
    <3>2. m.targets # <<>>
      BY <1>2, <2>15 DEF T
    <3>. QED  BY <2>15, <2>17, <3>1, <3>2 DEF Good
  <2>19. Requests'
    BY <1>1, <2>15, <2>18, ReqStep DEF PkiInv
  <2>20. Records' /\ crl' = crl
    BY <1>6, <2>11, <2>12, <2>13, <2>14 DEF Records
  <2>. QED  BY <2>9, <2>10, <2>19, <2>20, OutcomeOf
<1>. QED  BY <1>7, <1>8

-----------------------------------------------------------------------------
(* The invariant, and what follows from it.                                *)

LEMMA InitInv == Init => PkiInv
<1>. SUFFICES ASSUME Init PROVE PkiInv
  OBVIOUS
<1>1. index = <<>> /\ <<>> \in Seq(Line) /\ DOMAIN index = {}
  BY NoTargets, EmptySeq DEF Init
<1>2. Files
  BY <1>1, MaxSerialNat DEF Init, Files
<1>3. Requests
  BY DEF Init, Requests, Single, Good
<1>4. Records
  BY <1>1 DEF Init, Records, OwnTags, Numbered, Filed, HasLine, RenewedOlder
<1>5. crl \subseteq RevokedSerials
  BY DEF Init
<1>. QED  BY <1>2, <1>3, <1>4, <1>5 DEF PkiInv

LEMMA NextOutcome ==
  ASSUME Overlap = FALSE, PkiInv, [Next]_vars
  PROVE  Outcome
<1>1. CASE UNCHANGED vars
  BY <1>1, Unchanged
<1>2. CASE Next
  <2>1. PICK r \in Reqs :
          \/ \E n \in Names : \/ CreateCertificate(r, n) \/ RenewCertificate(r, n) \/ Download(r, n)
                              \/ \E s \in Serial : RevokeCertificate(r, n, s) \/ BurnCertificate(r, n, s)
          \/ ScriptStep(r)
          \/ Replace(r)
          \/ Fail(r)
    BY <1>2 DEF Next
  <2>2. CASE \E n \in Names : \/ CreateCertificate(r, n) \/ RenewCertificate(r, n) \/ Download(r, n)
                              \/ \E s \in Serial : RevokeCertificate(r, n, s) \/ BurnCertificate(r, n, s)
    BY <2>2, CreateOutcome, RenewOutcome, DownloadOutcome, RevokeOutcome, BurnOutcome
  <2>3. CASE ScriptStep(r)
    BY <2>3, CheckProfileOutcome, SignOutcome, TagOutcome, WriteProfileOutcome, StripOutcome,
       RevokeStepOutcome, RetagOutcome, RemoveProfileOutcome, GenCrlOutcome, MarkOutcome,
       SaveProfileOutcome
       DEF ScriptStep
  <2>. QED  BY <2>1, <2>2, <2>3, ReplaceOutcome, FailOutcome
<1>. QED  BY <1>1, <1>2

LEMMA InvHolds == ASSUME Overlap = FALSE PROVE Spec => []PkiInv
<1>1. PkiInv /\ [Next]_vars => PkiInv'
  BY NextOutcome DEF Outcome
<1>. QED  BY <1>1, InitInv, PTL DEF Spec

\* The variables keep their types, and each script its own steps.
THEOREM PkiTypes == ASSUME Overlap = FALSE PROVE Spec => []TypeOK
<1>1. PkiInv => TypeOK
  BY DEF PkiInv, Files, Requests, Good, At, TypeOK
<1>. QED  BY <1>1, InvHolds, PTL

\* No script, failed or not, loses a record of index.txt, or undoes a revocation or
\* a removal.
THEOREM RecordsAreKept == ASSUME Overlap = FALSE PROVE Spec => RecordsKept
<1>1. PkiInv /\ [Next]_vars =>
        [\A i \in DOMAIN index :
           /\ i \in DOMAIN index'
           /\ index'[i].serial = index[i].serial
           /\ index[i].status = "R" => index'[i].status = "R"
           /\ index[i].removed => index'[i].removed]_vars
  BY NextOutcome DEF Outcome, Kept
<1>. QED  BY <1>1, InvHolds, PTL DEF Spec, RecordsKept

\* What is on the CRL stays on it.
THEOREM CrlOnlyGrows == ASSUME Overlap = FALSE PROVE Spec => CrlGrows
<1>1. PkiInv /\ [Next]_vars => [crl \subseteq crl']_vars
  BY NextOutcome DEF Outcome
<1>. QED  BY <1>1, InvHolds, PTL DEF Spec, CrlGrows

\* Every valid certificate is listed under its own name, and revoke.sh finds its file.
THEOREM ValidCanBeRevoked == ASSUME Overlap = FALSE PROVE Spec => []ValidIsRevocable
<1>1. ASSUME PkiInv, NEW i \in DOMAIN index, index[i].status = "V"
      PROVE  /\ NameOf(index[i]) = index[i].cn
             /\ index[i].serial \in {issued[index[i].cn], renewed[index[i].cn]}
  <2>1. index[i].tags \in Seq(Names)
    BY <1>1, LenProperties, ElementOfSeq, LineFields DEF PkiInv, Files
  <2>2. ASSUME index[i].tags # <<>> PROVE Len(index[i].tags) \in DOMAIN index[i].tags
    BY <2>1, <2>2, LenProperties, EmptySeq
  <2>. QED  BY <1>1, <2>2 DEF NameOf, PkiInv, Records, OwnTags, Filed
<1>2. PkiInv => ValidIsRevocable
  BY <1>1 DEF ValidIsRevocable
<1>. QED  BY <1>2, InvHolds, PTL

\* A line becomes revoked only when easyrsa revokes the certificate of its request, or
\* an older one of the same name.
LEMMA RevokedOnRequest ==
  ASSUME Overlap = FALSE, PkiInv, [Next]_vars,
         NEW i \in DOMAIN index \cap DOMAIN index',
         index[i].status = "V", index'[i].status = "R"
  PROVE  \E r \in Reqs : /\ req[r].pc = "revoke"
                         /\ req[r].name = index[i].cn
                         /\ index[i].serial <= req[r].serial
<1>1. index' # index
  OBVIOUS
<1>2. PICK r \in Reqs : Sign(r) \/ EasyRsaRevoke(r) \/ Replace(r) \/ \E n \in Names : RenewCertificate(r, n)
  BY <1>1
     DEF Next, vars, ScriptStep, FilesUnchanged, CreateCertificate, Download, RevokeCertificate,
         BurnCertificate, CheckProfile, Tag, WriteProfile, StripTag, RestoreTag, RemoveProfile,
         GenCrl, MarkRemoved, SaveProfile, Fail
<1>3. ASSUME NEW n \in Names, signed < MaxSerial, index' = Append(index, SignedLine(n, signed + 1))
      PROVE  FALSE
  <2>1. signed + 1 \in Serial
    BY <1>3, MaxSerialNat DEF PkiInv, Files, Serial
  <2>2. SignedLine(n, signed + 1) \in Line
    BY <2>1, SignedLineType
  <2>3. index'[i] = index[i]
    BY <1>3, <2>2, AppendLine DEF PkiInv, Files
  <2>. QED  BY <2>3
<1>4. CASE Sign(r)
  <2>1. req[r].pc = "sign"
    BY <1>4 DEF Sign
  <2>2. req[r].name \in Names /\ signed < MaxSerial
    BY <2>1, Running DEF Good
  <2>3. index' = Append(index, SignedLine(req[r].name, signed + 1))
    BY <1>1, <1>4 DEF Sign
  <2>. QED  BY <1>3, <2>2, <2>3
<1>5. CASE \E n \in Names : RenewCertificate(r, n)
  <2>1. PICK n \in Names : RenewCertificate(r, n)
    BY <1>5
  <2>2. signed < MaxSerial /\ index' = Append(index, SignedLine(n, signed + 1))
    BY <2>1, CanSignAlone DEF RenewCertificate
  <2>. QED  BY <1>3, <2>2
<1>6. CASE Replace(r)
  <2>1. req[r].pc = "replace" /\ index' = req[r].copy
    BY <1>6 DEF Replace
  <2>2. Good(req[r], index, issued, renewed, signed) /\ req[r] # Idle
    BY <2>1, Running
  <2>3. Edited(index, index')
    BY <2>1, <2>2 DEF Good
  <2>. QED  BY <2>3 DEF Edited
<1>7. CASE EasyRsaRevoke(r)
  <2>. DEFINE q     == req[r]
              n     == q.name
              T     == q.targets
              found == FileOf(Head(T).file, issued, renewed)[n]
              lines == {j \in DOMAIN index : index[j].serial = found}
              revoked == [j \in DOMAIN index |-> [index[j] EXCEPT !.status = "R"]]
  <2>1. q.pc = "revoke"
    BY <1>7 DEF EasyRsaRevoke
  <2>2. /\ q \in Request /\ n \in Names /\ q.op = "revoke" /\ q # Idle
        /\ Good(q, index, issued, renewed, signed)
        /\ issued[n] \in Serial \cup {None} /\ renewed[n] \in Serial \cup {None}
    BY <2>1, Running, StepOp DEF Pcs
  <2>3. T \in Seq(Target) /\ T # <<>> /\ Revoking(q, index, issued, renewed)
    BY <2>1, <2>2, RequestFields DEF Good, At
  <2>4. 1 \in DOMAIN T /\ Head(T) = T[1]
    <3>1. Len(T) \in Nat \ {0} /\ DOMAIN T = 1 .. Len(T)
      BY <2>3, LenProperties, EmptySeq
    <3>. QED  BY <2>3, <3>1
  <2>5. found # None /\ found \in {issued[n], renewed[n]}
    BY <1>1, <1>7 DEF EasyRsaRevoke, FileOf
  <2>6. lines # {} /\ \A j \in lines : index[j].cn = n
    <3>1. n \in Names /\ found \in {issued[n], renewed[n]} /\ found # None
      BY <2>2, <2>5
    <3>. HIDE DEF found, n
    <3>. QED  BY <3>1, LinesOf
  <2>7. index' = OnLines(found, revoked)
    <3>1. index' = IF lines # {} THEN OnLines(found, revoked)
                   ELSE Append(index, [SignedLine(n, found) EXCEPT !.status = "R"])
      BY <1>1, <1>7 DEF EasyRsaRevoke, FileOf
    <3>. QED  BY <2>6, <3>1
  <2>8. index[i].serial = found
    BY <2>7 DEF OnLines
  <2>9. found <= q.serial
    BY <2>3, <2>4 DEF Revoking
  <2>. QED  BY <2>1, <2>6, <2>8, <2>9
<1>. QED  BY <1>2, <1>4, <1>5, <1>6, <1>7

\* A revocation leaves newer certificates of the name, and those of others, valid.
THEOREM NewerStay == ASSUME Overlap = FALSE PROVE Spec => NewerStaysValid
<1>1. PkiInv /\ [Next]_vars =>
        [\A i \in DOMAIN index \cap DOMAIN index' :
           index[i].status = "V" /\ index'[i].status = "R" =>
             \E r \in Reqs : /\ req[r].pc = "revoke"
                             /\ req[r].name = index[i].cn
                             /\ index[i].serial <= req[r].serial]_vars
  BY RevokedOnRequest
<1>. QED  BY <1>1, InvHolds, PTL DEF Spec, NewerStaysValid

\* A revocation that reaches its last step has revoked the certificate and the older
\* one of a renewal, and the CRL it writes lists them.
THEOREM RevocationHolds == ASSUME Overlap = FALSE PROVE Spec => RevocationTakesEffect
<1>1. ASSUME PkiInv, NEW r \in Reqs, GenCrl(r), NEW i \in DOMAIN index,
             index[i].cn = req[r].name, index[i].serial <= req[r].serial
      PROVE  index[i].serial \in crl'
  <2>1. req[r].pc = "crl" /\ crl' = RevokedSerials
    BY <1>1 DEF GenCrl
  <2>2. /\ req[r] \in Request /\ req[r].op = "revoke" /\ req[r] # Idle
        /\ Good(req[r], index, issued, renewed, signed)
    BY <1>1, <2>1, Running, StepOp DEF Pcs
  <2>3. Revoking(req[r], index, issued, renewed) /\ Due(req[r]) = {}
    BY <2>1, <2>2 DEF Good, Due, At
  <2>4. \A f \in {"issued", "renewed"} :
          FileOf(f, issued, renewed)[req[r].name] \notin 1 .. req[r].serial
    BY <2>3 DEF Revoking
  <2>5. issued[req[r].name] \notin 1 .. req[r].serial /\ renewed[req[r].name] \notin 1 .. req[r].serial
    BY <2>4 DEF FileOf
  <2>6. index[i].serial \in 1 .. req[r].serial /\ index[i].status \in {"V", "R"}
    <3>1. index[i] \in Line
      BY <1>1, LenProperties, ElementOfSeq DEF PkiInv, Files
    <3>2. index[i].serial \in Nat /\ index[i].serial >= 1 /\ index[i].status \in {"V", "R"}
      BY <3>1, LineFields, MaxSerialNat DEF Serial
    <3>3. req[r].serial \in Nat
      BY <2>2, RequestFields, MaxSerialNat DEF Serial, None
    <3>. QED  BY <1>1, <3>2, <3>3
  <2>7. index[i].status = "R"
    BY <1>1, <2>5, <2>6 DEF PkiInv, Records, Filed
  <2>. QED  BY <2>1, <2>7 DEF RevokedSerials
<1>2. PkiInv /\ [Next]_vars =>
        [\A r \in Reqs : GenCrl(r) =>
           \A i \in DOMAIN index :
             index[i].cn = req[r].name /\ index[i].serial <= req[r].serial
               => index[i].serial \in crl']_vars
  BY <1>1
<1>. QED  BY <1>2, InvHolds, PTL DEF Spec, RevocationTakesEffect

-----------------------------------------------------------------------------
(* Names that can be used again.                                           *)

\* A serial has one line; a certificate in a file is valid, and a record that was
\* removed is not.
OneLineEach    == \A i, j \in DOMAIN index : index[i].serial = index[j].serial => i = j
FiledValid     == \A n \in Names : \A i \in DOMAIN index :
                    index[i].serial \in {issued[n], renewed[n]} => index[i].status = "V"
RemovedRevoked == \A i \in DOMAIN index : index[i].removed => index[i].status = "R"

\* A line that rmcert.sh may mark for the request q.
Removable(q, idx, i) == q.op = "burn" /\ idx[i].cn = q.name /\ idx[i].status = "R"

\* What else holds of a request: only rmcert.sh marks lines, those of its serial; a
\* download has a certificate, and each certificate still to be revoked is in a file
\* of its own.
Sound(q, idx, iss, ren) ==
  q # Idle =>
    /\ q.pc = "replace" => \A i \in DOMAIN idx :
         q.copy[i].removed => idx[i].removed \/ Removable(q, idx, i)
    /\ q.op = "burn" =>
         /\ At(q) # "done"
         /\ \A i \in DOMAIN idx : idx[i].serial = q.serial => Removable(q, idx, i)
    /\ q.op = "download" => iss[q.name] # None
    /\ q.op = "revoke" =>
         /\ \A k, l \in DOMAIN q.targets : q.targets[k].file = q.targets[l].file => k = l
         /\ \A k \in Due(q) : FileOf(q.targets[k].file, iss, ren)[q.name] # None

\* The name is listed; the request q is about it and has come to one of the steps.
HasRecord(n, idx)   == \E i \in DOMAIN idx : ~ idx[i].removed /\ idx[i].cn = n
Doing(q, n, op, at) == q # Idle /\ q.op = op /\ q.name = n /\ At(q) \in at

\* Why a profile of n is there: it has a certificate; or the script that took the
\* certificate away has still to remove the profile, or failed, and the record is
\* listed, or is being removed together with the profile; or a second script failed.
Accounted(n, q, idx, iss, ren, fl) ==
  \/ fl >= 2
  \/ iss[n] # None
  \/ ren[n] # None
  \/ HasRecord(n, idx) /\ (fl >= 1 \/ Doing(q, n, "revoke", {"retag", "remove"}))
  \/ fl >= 1 /\ Doing(q, n, "burn", {"remove"})

Lines    == OneLineEach /\ FiledValid /\ RemovedRevoked
Profiles == \A n \in Names : profile[n] # None =>
              \E r \in Reqs : Accounted(n, req[r], index, issued, renewed, failures)
FreeInv  == /\ Lines
            /\ \A r \in Reqs : Sound(req[r], index, issued, renewed)
            /\ Profiles

\* A name with a certificate in a file is listed.
LEMMA HeldListed ==
  ASSUME PkiInv, Lines, NEW n \in Names, issued[n] # None \/ renewed[n] # None
  PROVE  HasRecord(n, index)
<1>1. PICK s \in {issued[n], renewed[n]} \ {None} : TRUE
  BY DEF None
<1>2. PICK i \in DOMAIN index : index[i].serial = s /\ index[i].cn = n
  BY <1>1 DEF PkiInv, Records, HasLine
<1>3. index[i].status = "V"
  BY <1>1, <1>2 DEF Lines, FiledValid
<1>4. ~ index[i].removed
  BY <1>3 DEF Lines, RemovedRevoked
<1>. QED  BY <1>2, <1>4 DEF HasRecord

\* With one request under way, it is the one a profile waits for.
LEMMA AccountedBy ==
  ASSUME FreeInv, NEW r \in Reqs, \A q \in Reqs : req[q] # Idle => q = r,
         NEW n \in Names, profile[n] # None
  PROVE  Accounted(n, req[r], index, issued, renewed, failures)
<1>1. PICK q \in Reqs : Accounted(n, req[q], index, issued, renewed, failures)
  BY DEF FreeInv, Profiles
<1>2. CASE q = r
  BY <1>1, <1>2
<1>3. CASE q # r
  <2>1. req[q] = Idle
    BY <1>3
  <2>. QED  BY <1>1, <2>1 DEF Accounted, Doing
<1>. QED  BY <1>2, <1>3

\* A step of the request r, which becomes next.
LEMMA FreeStep ==
  ASSUME PkiInv, FreeInv, NEW r \in Reqs, \A q \in Reqs : req[q] # Idle => q = r,
         NEW next, req' = [req EXCEPT ![r] = next],
         Lines', Sound(next, index', issued', renewed'),
         \A n \in Names : profile'[n] # None =>
           \/ Accounted(n, next, index', issued', renewed', failures')
           \/ /\ profile[n] # None
              /\ Accounted(n, req[r], index, issued, renewed, failures)
                   => Accounted(n, next, index', issued', renewed', failures')
  PROVE  FreeInv'
<1>1. req'[r] = next /\ \A q \in Reqs \ {r} : req'[q] = Idle
  BY DEF PkiInv, Requests
<1>2. ASSUME NEW q \in Reqs PROVE Sound(req'[q], index', issued', renewed')
  <2>1. CASE q = r
    BY <1>1, <2>1
  <2>2. CASE q # r
    BY <1>1, <2>2 DEF Sound
  <2>. QED  BY <2>1, <2>2
<1>3. ASSUME NEW n \in Names, profile'[n] # None
      PROVE  \E q \in Reqs : Accounted(n, req'[q], index', issued', renewed', failures')
  <2>1. Accounted(n, next, index', issued', renewed', failures')
    <3>1. CASE profile[n] # None
      BY <1>3, <3>1, AccountedBy
    <3>2. CASE profile[n] = None
      BY <1>3, <3>2
    <3>. QED  BY <3>1, <3>2
  <2>. QED  BY <1>1, <2>1
<1>4. Profiles'
  BY <1>3 DEF Profiles
<1>. QED  BY <1>2, <1>4 DEF FreeInv

\* One that leaves the index and the certificate files alone.
LEMMA FreePlain ==
  ASSUME PkiInv, FreeInv, NEW r \in Reqs, \A q \in Reqs : req[q] # Idle => q = r,
         NEW next, req' = [req EXCEPT ![r] = next],
         UNCHANGED <<index, issued, renewed>>, Sound(next, index, issued, renewed),
         \A n \in Names : profile'[n] # None =>
           \/ Accounted(n, next, index, issued, renewed, failures')
           \/ /\ profile[n] # None
              /\ Accounted(n, req[r], index, issued, renewed, failures)
                   => Accounted(n, next, index, issued, renewed, failures')
  PROVE  FreeInv'
<1>1. Lines'
  BY DEF FreeInv, Lines, OneLineEach, FiledValid, RemovedRevoked
<1>2. /\ index' = index /\ issued' = issued /\ renewed' = renewed
  OBVIOUS
<1>. QED  BY <1>1, <1>2, FreeStep

\* One after which it still waits for the profile, if it did.
LEMMA FreeQuiet ==
  ASSUME PkiInv, FreeInv, NEW r \in Reqs, \A q \in Reqs : req[q] # Idle => q = r,
         NEW next, req' = [req EXCEPT ![r] = next],
         UNCHANGED <<index, issued, renewed, profile, failures>>,
         Sound(next, index, issued, renewed),
         \A n \in Names :
           /\ Doing(req[r], n, "revoke", {"retag", "remove"}) =>
                \/ Doing(next, n, "revoke", {"retag", "remove"})
                \/ issued[n] # None \/ renewed[n] # None
           /\ Doing(req[r], n, "burn", {"remove"}) => Doing(next, n, "burn", {"remove"})
  PROVE  FreeInv'
<1>1. ASSUME NEW n \in Names, Accounted(n, req[r], index, issued, renewed, failures)
      PROVE  Accounted(n, next, index, issued, renewed, failures)
  BY <1>1 DEF Accounted
<1>2. failures' = failures /\ profile' = profile
  OBVIOUS
<1>. QED  BY <1>1, <1>2, FreePlain

LEMMA FreeInit == Init => FreeInv
<1>. SUFFICES ASSUME Init PROVE FreeInv
  OBVIOUS
<1>1. DOMAIN index = {}
  BY NoTargets DEF Init
<1>2. Lines
  BY <1>1 DEF Lines, OneLineEach, FiledValid, RemovedRevoked
<1>3. \A r \in Reqs : Sound(req[r], index, issued, renewed)
  BY DEF Init, Sound
<1>4. Profiles
  BY DEF Init, Profiles
<1>. QED  BY <1>2, <1>3, <1>4 DEF FreeInv

LEMMA FreeFail == ASSUME PkiInv, FreeInv, NEW r \in Reqs, Fail(r) PROVE FreeInv'
<1>1. /\ req' = [req EXCEPT ![r] = Idle] /\ failures' = failures + 1 /\ profile' = profile
      /\ UNCHANGED <<index, issued, renewed>> /\ req[r] # Idle
  BY DEF Fail
<1>2. \A q \in Reqs : req[q] # Idle => q = r
  BY <1>1 DEF PkiInv, Requests, Single
<1>3. Sound(Idle, index, issued, renewed)
  BY DEF Sound
<1>4. failures \in Nat
  BY MaxSerialNat DEF PkiInv, Files
<1>5. ASSUME NEW n \in Names, Accounted(n, req[r], index, issued, renewed, failures)
      PROVE  Accounted(n, Idle, index, issued, renewed, failures')
  <2>1. failures >= 2 => failures' >= 2
    BY <1>1, <1>4
  <2>2. failures >= 1 => failures' >= 2
    BY <1>1, <1>4
  <2>3. failures' >= 1
    BY <1>1, <1>4
  <2>. QED  BY <1>5, <2>1, <2>2, <2>3 DEF Accounted
<1>. QED  BY <1>1, <1>2, <1>3, <1>5, FreePlain

-----------------------------------------------------------------------------
\* Scripts that begin.
LEMMA FreeStart ==
  ASSUME PkiInv, FreeInv, Overlap = FALSE, NEW r \in Reqs, Free(r),
         UNCHANGED <<index, issued, renewed, profile>>,
         failures' = failures \/ failures' = failures + 1,
         NEW op, NEW pc, NEW n, NEW s, NEW targets,
         Begin(r, op, pc, n, s, targets),
         Sound(NewRequest(op, pc, n, s, targets), index, issued, renewed)
  PROVE  FreeInv'
<1>. DEFINE m == NewRequest(op, pc, n, s, targets)
<1>1. req' = [req EXCEPT ![r] = m] /\ Sound(m, index, issued, renewed)
  BY DEF Begin, NewRequest
<1>. HIDE DEF m
<1>2. \A q \in Reqs : req[q] # Idle => q = r
  BY Alone
<1>3. \A x \in Names : ~ Doing(req[r], x, "revoke", {"retag", "remove"})
                       /\ ~ Doing(req[r], x, "burn", {"remove"})
  BY DEF Free, Doing
<1>4. failures \in Nat
  BY MaxSerialNat DEF PkiInv, Files
<1>5. (failures >= 1 => failures' >= 1) /\ (failures >= 2 => failures' >= 2)
  BY <1>4
<1>6. ASSUME NEW x \in Names, Accounted(x, req[r], index, issued, renewed, failures)
      PROVE  Accounted(x, m, index, issued, renewed, failures')
  BY <1>3, <1>5, <1>6 DEF Accounted
<1>7. profile' = profile
  OBVIOUS
<1>. QED  BY <1>1, <1>2, <1>6, <1>7, FreePlain

LEMMA FreeBegin ==
  ASSUME PkiInv, FreeInv, Overlap = FALSE, NEW r \in Reqs, Free(r), FilesUnchanged,
         NEW op, NEW pc, NEW n, NEW s, NEW targets,
         Begin(r, op, pc, n, s, targets),
         Sound(NewRequest(op, pc, n, s, targets), index, issued, renewed)
  PROVE  FreeInv'
<1>1. UNCHANGED <<index, issued, renewed, profile>> /\ failures' = failures
  BY DEF FilesUnchanged
<1>. QED  BY <1>1, FreeStart

\* A request that is not about a revocation, a removal or a download, and whose sed
\* marks no line.
LEMMA SoundOther ==
  ASSUME NEW q, q.op \in {"create", "renew"}, NEW idx, NEW iss, NEW ren,
         q.pc = "replace" => \A i \in DOMAIN idx : q.copy[i].removed => idx[i].removed
  PROVE  Sound(q, idx, iss, ren)
BY DEF Sound

LEMMA FreeCreate ==
  ASSUME PkiInv, FreeInv, Overlap = FALSE, NEW r \in Reqs, NEW n \in Names,
         CreateCertificate(r, n)
  PROVE  FreeInv'
<1>. DEFINE m == NewRequest("create", "script", n, None, <<>>)
<1>1. Sound(m, index, issued, renewed)
  <2>1. m.op = "create" /\ m.pc = "script"
    BY DEF NewRequest
  <2>. HIDE DEF m
  <2>. QED  BY <2>1, SoundOther
<1>2. /\ UNCHANGED <<index, issued, renewed, profile>>
      /\ failures' = failures \/ failures' = failures + 1
  BY DEF CreateCertificate
<1>. QED  BY <1>1, <1>2, FreeStart DEF CreateCertificate

LEMMA FreeDownload ==
  ASSUME PkiInv, FreeInv, Overlap = FALSE, NEW r \in Reqs, NEW n \in Names, Download(r, n)
  PROVE  FreeInv'
<1>. DEFINE m == NewRequest("download", "download", n, issued[n], <<>>)
<1>1. Sound(m, index, issued, renewed)
  <2>1. m.op = "download" /\ m.pc = "download" /\ m.name = n
    BY DEF NewRequest
  <2>2. issued[n] # None
    BY DEF Download
  <2>. HIDE DEF m
  <2>. QED  BY <2>1, <2>2 DEF Sound
<1>. QED  BY <1>1, FreeBegin DEF Download

LEMMA FreeBurn ==
  ASSUME PkiInv, FreeInv, Overlap = FALSE, NEW r \in Reqs, NEW n \in Names, NEW s \in Serial,
         BurnCertificate(r, n, s)
  PROVE  FreeInv'
<1>. DEFINE m == NewRequest("burn", "mark", n, s, <<>>)
<1>1. m.op = "burn" /\ m.pc = "mark" /\ m.name = n /\ m.serial = s
  BY DEF NewRequest
<1>2. PICK i \in DOMAIN index : index[i].serial = s /\ index[i].cn = n /\ index[i].status # "V"
  BY DEF BurnCertificate
<1>3. index[i].status = "R"
  <2>1. index[i] \in Line
    BY LenProperties, ElementOfSeq DEF PkiInv, Files
  <2>. QED  BY <1>2, <2>1, LineFields
<1>4. \A j \in DOMAIN index : index[j].serial = s => j = i
  BY <1>2 DEF FreeInv, Lines, OneLineEach
<1>5. Sound(m, index, issued, renewed)
  <2>. HIDE DEF m
  <2>1. At(m) = "mark"
    BY <1>1 DEF At
  <2>2. \A j \in DOMAIN index : index[j].serial = m.serial => Removable(m, index, j)
    BY <1>1, <1>2, <1>3, <1>4 DEF Removable
  <2>. QED  BY <1>1, <2>1, <2>2 DEF Sound
<1>. QED  BY <1>5, FreeBegin DEF BurnCertificate

LEMMA FreeRevoke ==
  ASSUME PkiInv, FreeInv, Overlap = FALSE, NEW r \in Reqs, NEW n \in Names, NEW s \in Serial,
         RevokeCertificate(r, n, s)
  PROVE  FreeInv'
<1>. DEFINE T == Targets(n, s)
            m == NewRequest("revoke", "strip", n, s, T)
<1>1. s \in {issued[n], renewed[n]} /\ Begin(r, "revoke", "strip", n, s, T) /\ Free(r)
      /\ FilesUnchanged
  BY DEF RevokeCertificate
<1>2. /\ \A k \in DOMAIN T : /\ T[k].serial = FileOf(T[k].file, issued, renewed)[n]
                             /\ T[k].serial \in Serial
      /\ \A k, l \in DOMAIN T : T[k].file = T[l].file => k = l
  BY <1>1, TargetsFacts
<1>3. m.op = "revoke" /\ m.pc = "strip" /\ m.name = n /\ m.targets = T
  BY DEF NewRequest
<1>. HIDE DEF T, m
<1>4. Sound(m, index, issued, renewed)
  <2>1. Due(m) = DOMAIN T
    BY <1>3 DEF Due, At
  <2>2. None \notin Serial
    BY MaxSerialNat DEF None, Serial
  <2>3. \A k \in DOMAIN T : FileOf(T[k].file, issued, renewed)[n] # None
    BY <1>2, <2>2
  <2>. QED  BY <1>2, <1>3, <2>1, <2>3 DEF Sound
<1>. QED  BY <1>1, <1>4, FreeBegin DEF m

-----------------------------------------------------------------------------
\* Steps that touch a profile or the CRL.
LEMMA FreeRunning ==
  ASSUME PkiInv, FreeInv, NEW r \in Reqs, req[r].pc \in Pcs
  PROVE  /\ req[r] \in Request /\ req[r] # Idle
         /\ \A q \in Reqs : req[q] # Idle => q = r
         /\ Sound(req[r], index, issued, renewed)
BY Running DEF Pcs, FreeInv

\* A script that goes on, or ends.
LEMMA SoundMove ==
  ASSUME NEW q \in Request, NEW pc \in Pcs \ {"replace"}, NEW idx, NEW iss, NEW ren,
         Sound(q, idx, iss, ren), q # Idle, q.op = "burn" => pc # "done",
         q.op = "revoke" => Due([q EXCEPT !.pc = pc]) = Due(q)
  PROVE  Sound([q EXCEPT !.pc = pc], idx, iss, ren)
<1>. DEFINE m == [q EXCEPT !.pc = pc]
<1>1. /\ m.pc = pc /\ m.op = q.op /\ m.name = q.name
      /\ m.serial = q.serial /\ m.targets = q.targets
  BY MoveTo
<1>2. q.op = "revoke" => Due(m) = Due(q)
  OBVIOUS
<1>3. At(m) = pc /\ pc # "done"
  <2>. HIDE DEF m
  <2>. QED  BY <1>1 DEF At, Pcs
<1>. HIDE DEF m
<1>4. Sound(m, idx, iss, ren)
  BY <1>1, <1>2, <1>3 DEF Sound, Removable
<1>. QED  BY <1>4 DEF m

LEMMA FreeCheckProfile ==
  ASSUME PkiInv, FreeInv, NEW r \in Reqs, CheckProfile(r) PROVE FreeInv'
<1>1. req[r].pc = "script" /\ req[r].op = "create"
  BY StepOp DEF CheckProfile, Pcs
<1>2. /\ req[r] \in Request
      /\ \A q \in Reqs : req[q] # Idle => q = r
      /\ Sound(req[r], index, issued, renewed)
  BY <1>1, FreeRunning DEF Pcs
<1>3. PICK next \in {Idle, [req[r] EXCEPT !.pc = "sign"]} : req' = [req EXCEPT ![r] = next]
  BY DEF CheckProfile, GoTo
<1>4. Sound(next, index, issued, renewed)
  <2>1. CASE next = Idle
    BY <2>1 DEF Sound
  <2>2. CASE next = [req[r] EXCEPT !.pc = "sign"]
    <3>1. next.op = "create" /\ next.pc = "sign"
      BY <1>1, <1>2, <2>2, MoveTo DEF Pcs
    <3>. QED  BY <3>1, SoundOther
  <2>. QED  BY <1>3, <2>1, <2>2
<1>5. UNCHANGED <<index, issued, renewed, profile, failures>>
  BY DEF CheckProfile, FilesUnchanged
<1>. QED  BY <1>1, <1>2, <1>3, <1>4, <1>5, FreeQuiet DEF Doing

LEMMA FreeWriteProfile ==
  ASSUME PkiInv, FreeInv, NEW r \in Reqs, WriteProfile(r) PROVE FreeInv'
<1>1. req[r].pc = "render" /\ req[r].op = "create"
  BY StepOp DEF WriteProfile, Pcs
<1>2. \A q \in Reqs : req[q] # Idle => q = r
  BY <1>1, FreeRunning DEF Pcs
<1>3. req' = [req EXCEPT ![r] = Idle] /\ Sound(Idle, index, issued, renewed)
  BY DEF WriteProfile, GoTo, Sound
<1>4. /\ UNCHANGED <<index, issued, renewed>> /\ failures' = failures
      /\ profile' = [profile EXCEPT ![req[r].name] = issued[req[r].name]]
  BY DEF WriteProfile
<1>5. ASSUME NEW n \in Names, profile'[n] # None
      PROVE  \/ Accounted(n, Idle, index, issued, renewed, failures')
             \/ /\ profile[n] # None
                /\ Accounted(n, req[r], index, issued, renewed, failures)
                     => Accounted(n, Idle, index, issued, renewed, failures')
  <2>1. CASE n = req[r].name
    <3>1. issued[n] # None
      BY <1>4, <1>5, <2>1 DEF PkiInv, Files
    <3>. QED  BY <3>1 DEF Accounted
  <2>2. CASE n # req[r].name
    <3>1. profile[n] # None
      BY <1>4, <1>5, <2>2 DEF PkiInv, Files
    <3>. QED  BY <1>1, <1>4, <3>1 DEF Accounted, Doing
  <2>. QED  BY <2>1, <2>2
<1>. QED  BY <1>2, <1>3, <1>4, <1>5, FreePlain

LEMMA FreeSaveProfile ==
  ASSUME PkiInv, FreeInv, NEW r \in Reqs, SaveProfile(r) PROVE FreeInv'
<1>1. req[r].pc = "download" /\ req[r].op = "download"
  <2>1. req[r].pc = "download"
    BY DEF SaveProfile
  <2>2. req[r].pc \in StepsOf(req[r].op) /\ req[r].op \in {"create", "revoke", "renew", "burn", "download"}
    BY <2>1, StepOp, FreeRunning, RequestFields DEF Pcs
  <2>. QED  BY <2>1, <2>2 DEF StepsOf
<1>2. (\A q \in Reqs : req[q] # Idle => q = r) /\ issued[req[r].name] # None
  BY <1>1, FreeRunning DEF Pcs, Sound
<1>3. req' = [req EXCEPT ![r] = Idle] /\ Sound(Idle, index, issued, renewed)
  BY DEF SaveProfile, GoTo, Sound
<1>4. /\ UNCHANGED <<index, issued, renewed>> /\ failures' = failures
      /\ profile' = [profile EXCEPT ![req[r].name] = req[r].serial]
  BY DEF SaveProfile
<1>5. ASSUME NEW n \in Names, profile'[n] # None
      PROVE  \/ Accounted(n, Idle, index, issued, renewed, failures')
             \/ /\ profile[n] # None
                /\ Accounted(n, req[r], index, issued, renewed, failures)
                     => Accounted(n, Idle, index, issued, renewed, failures')
  <2>1. CASE n = req[r].name
    BY <1>2, <2>1 DEF Accounted
  <2>2. CASE n # req[r].name
    <3>1. profile[n] # None
      BY <1>4, <1>5, <2>2 DEF PkiInv, Files
    <3>. QED  BY <1>1, <1>4, <3>1 DEF Accounted, Doing
  <2>. QED  BY <2>1, <2>2
<1>. QED  BY <1>2, <1>3, <1>4, <1>5, FreePlain

LEMMA FreeRemoveProfile ==
  ASSUME PkiInv, FreeInv, NEW r \in Reqs, RemoveProfile(r) PROVE FreeInv'
<1>1. req[r].pc = "remove" /\ req[r].op \in {"revoke", "burn"}
  BY StepOp DEF RemoveProfile, Pcs
<1>2. /\ req[r] \in Request /\ req[r] # Idle
      /\ \A q \in Reqs : req[q] # Idle => q = r
      /\ Sound(req[r], index, issued, renewed)
  BY <1>1, FreeRunning DEF Pcs
<1>3. PICK next \in {Idle, [req[r] EXCEPT !.pc = "crl"]} :
        /\ req' = [req EXCEPT ![r] = next]
        /\ req[r].op # "revoke" => next = Idle
  BY DEF RemoveProfile, GoTo
<1>4. Sound(next, index, issued, renewed)
  <2>1. CASE next = Idle
    BY <2>1 DEF Sound
  <2>2. CASE next # Idle
    <3>1. next = [req[r] EXCEPT !.pc = "crl"] /\ req[r].op = "revoke"
      BY <1>3, <2>2
    <3>2. [req[r] EXCEPT !.pc = "crl"].pc = "crl"
      BY <1>2, MoveTo DEF Pcs
    <3>3. Due([req[r] EXCEPT !.pc = "crl"]) = Due(req[r])
      BY <1>1, <3>2 DEF Due, At
    <3>. QED  BY <1>2, <3>1, <3>3, SoundMove DEF Pcs
  <2>. QED  BY <2>1, <2>2
<1>5. /\ UNCHANGED <<index, issued, renewed>> /\ failures' = failures
      /\ profile' = [profile EXCEPT ![req[r].name] = None]
  BY DEF RemoveProfile
<1>6. ASSUME NEW n \in Names, profile'[n] # None
      PROVE  /\ profile[n] # None
             /\ Accounted(n, req[r], index, issued, renewed, failures)
                  => Accounted(n, next, index, issued, renewed, failures')
  <2>1. n # req[r].name /\ profile[n] # None
    BY <1>5, <1>6 DEF PkiInv, Files
  <2>. QED  BY <1>5, <2>1 DEF Accounted, Doing
<1>. QED  BY <1>2, <1>3, <1>4, <1>5, <1>6, FreePlain

LEMMA FreeGenCrl ==
  ASSUME PkiInv, FreeInv, NEW r \in Reqs, GenCrl(r) PROVE FreeInv'
<1>1. req[r].pc = "crl"
  BY DEF GenCrl
<1>2. \A q \in Reqs : req[q] # Idle => q = r
  BY <1>1, FreeRunning DEF Pcs
<1>3. req' = [req EXCEPT ![r] = Idle] /\ Sound(Idle, index, issued, renewed)
  BY DEF GenCrl, GoTo, Sound
<1>4. UNCHANGED <<index, issued, renewed, profile, failures>>
  BY DEF GenCrl
<1>. QED  BY <1>1, <1>2, <1>3, <1>4, FreeQuiet DEF Doing, At

-----------------------------------------------------------------------------
\* sed -i: which lines the copy marks, and the replacement of the index by it.

\* What a sed leaves of its request.
LEMMA SedFields ==
  ASSUME NEW q \in Request, NEW copy, NEW then
  PROVE  LET m == Sedded(q, copy, then) IN
         /\ m.pc = "replace" /\ m.op = q.op /\ m.name = q.name /\ m.serial = q.serial
         /\ m.then = then /\ m.targets = q.targets /\ m.copy = copy
BY DEF Request, Sedded

LEMMA SedToFields ==
  ASSUME NEW q \in Request, NEW copy, NEW then, NEW targets
  PROVE  LET m == SeddedTo(q, targets, copy, then) IN
         /\ m.pc = "replace" /\ m.op = q.op /\ m.name = q.name /\ m.serial = q.serial
         /\ m.then = then /\ m.targets = targets /\ m.copy = copy
BY DEF Request, SeddedTo

\* Changing the suffixes marks nothing.
LEMMA TagsOnly ==
  ASSUME NEW l \in Line, NEW n
  PROVE  Tagged(l, n).removed = l.removed /\ Stripped(l, n).removed = l.removed
<1>1. \A t : [l EXCEPT !.tags = t].removed = l.removed
  BY DEF Line
<1>. QED  BY <1>1 DEF Tagged, Stripped

LEMMA FreeTag == ASSUME PkiInv, FreeInv, NEW r \in Reqs, Tag(r) PROVE FreeInv'
<1>. DEFINE q == req[r]
            f == LastTagged(q.name)
            then == IF q.op = "create" THEN "render" ELSE "done"
            m == Sedded(q, f, then)
<1>1. q.pc = "tag" /\ FilesUnchanged /\ req' = [req EXCEPT ![r] = m]
  BY DEF Tag, Sed, Sedded
<1>2. /\ q \in Request /\ q.op \in {"create", "renew"}
      /\ \A p \in Reqs : req[p] # Idle => p = r
  BY <1>1, FreeRunning, StepOp DEF Pcs
<1>3. \A i \in DOMAIN index : f[i].removed = index[i].removed
  <2>1. ASSUME NEW i \in DOMAIN index PROVE f[i].removed = index[i].removed
    <3>1. index[i] \in Line
      BY LenProperties, ElementOfSeq DEF PkiInv, Files
    <3>2. f[i] = Tagged(index[i], q.name) \/ f[i] = index[i]
      BY DEF LastTagged
    <3>. QED  BY <3>1, <3>2, TagsOnly
  <2>. QED  BY <2>1
<1>4. m.op = q.op /\ m.pc = "replace" /\ m.copy = f
  <2>1. q \in Request
    BY <1>2
  <2>. HIDE DEF q, f, then
  <2>. QED  BY <2>1, SedFields
<1>. HIDE DEF f, m
<1>5. Sound(m, index, issued, renewed)
  BY <1>2, <1>3, <1>4, SoundOther
<1>6. UNCHANGED <<index, issued, renewed, profile, failures>>
  BY <1>1 DEF FilesUnchanged
<1>. QED  BY <1>1, <1>2, <1>5, <1>6, FreeQuiet DEF Doing

LEMMA FreeStrip == ASSUME PkiInv, FreeInv, NEW r \in Reqs, StripTag(r) PROVE FreeInv'
<1>. DEFINE q == req[r]
            n == q.name
            stripped == [i \in DOMAIN index |-> Stripped(index[i], n)]
            f == OnLines(Head(q.targets).serial, stripped)
            m == Sedded(q, f, "revoke")
<1>1. q.pc = "strip" /\ FilesUnchanged /\ req' = [req EXCEPT ![r] = m]
  BY DEF StripTag, Sed, Sedded
<1>2. /\ q \in Request /\ q.op = "revoke" /\ q # Idle
      /\ \A p \in Reqs : req[p] # Idle => p = r
      /\ Sound(q, index, issued, renewed)
  BY <1>1, FreeRunning, StepOp DEF Pcs
<1>3. \A i \in DOMAIN index : f[i].removed = index[i].removed
  <2>1. ASSUME NEW i \in DOMAIN index PROVE f[i].removed = index[i].removed
    <3>1. index[i] \in Line
      BY LenProperties, ElementOfSeq DEF PkiInv, Files
    <3>2. f[i] = Stripped(index[i], n) \/ f[i] = index[i]
      BY DEF OnLines
    <3>. QED  BY <3>1, <3>2, TagsOnly
  <2>. QED  BY <2>1
<1>4. /\ m.op = q.op /\ m.name = q.name /\ m.targets = q.targets /\ m.pc = "replace"
      /\ m.then = "revoke" /\ m.copy = f
  <2>1. q \in Request
    BY <1>2
  <2>. HIDE DEF q, f
  <2>. QED  BY <2>1, SedFields
<1>. HIDE DEF f, m
<1>5. Due(m) = Due(q)
  BY <1>1, <1>4 DEF Due, At
<1>6. Sound(m, index, issued, renewed)
  BY <1>2, <1>3, <1>4, <1>5 DEF Sound
<1>7. UNCHANGED <<index, issued, renewed, profile, failures>>
  BY <1>1 DEF FilesUnchanged
<1>8. At(q) = "strip"
  BY <1>1 DEF At
<1>. QED  BY <1>1, <1>2, <1>6, <1>7, <1>8, FreeQuiet DEF Doing

LEMMA FreeRetag == ASSUME PkiInv, FreeInv, NEW r \in Reqs, RestoreTag(r) PROVE FreeInv'
<1>. DEFINE q == req[r]
            n == q.name
            T == q.targets
            rest == Tail(T)
            tagged == [i \in DOMAIN index |-> Tagged(index[i], n)]
            f == OnLines(Head(T).serial, tagged)
            then == IF rest = <<>> THEN "remove" ELSE "strip"
            m == SeddedTo(q, rest, f, then)
<1>1. q.pc = "retag" /\ FilesUnchanged /\ req' = [req EXCEPT ![r] = m]
  BY DEF RestoreTag, SeddedTo
<1>2. /\ q \in Request /\ q.op = "revoke" /\ q # Idle
      /\ \A p \in Reqs : req[p] # Idle => p = r
      /\ Sound(q, index, issued, renewed) /\ Good(q, index, issued, renewed, signed)
      /\ T \in Seq(Target)
  BY <1>1, FreeRunning, StepOp, Running, RequestFields DEF Pcs
<1>3. T # <<>>
  BY <1>1, <1>2 DEF Good, At
<1>4. /\ rest \in Seq(Target) /\ DOMAIN rest = 1 .. Len(rest) /\ Len(rest) \in Nat
      /\ \A k \in DOMAIN rest : k + 1 \in DOMAIN T \ {1} /\ rest[k] = T[k + 1]
  <2>1. rest \in Seq(Target) /\ Len(rest) = Len(T) - 1
        /\ \A i \in 1 .. Len(rest) : rest[i] = T[i + 1]
    BY <1>2, <1>3, HeadTailProperties
  <2>2. DOMAIN rest = 1 .. Len(rest) /\ Len(rest) \in Nat /\ DOMAIN T = 1 .. Len(T) /\ Len(T) \in Nat
    BY <1>2, <2>1, LenProperties
  <2>. HIDE DEF rest, T
  <2>. QED  BY <2>1, <2>2
<1>5. \A i \in DOMAIN index : f[i].removed = index[i].removed
  <2>1. ASSUME NEW i \in DOMAIN index PROVE f[i].removed = index[i].removed
    <3>1. index[i] \in Line
      BY LenProperties, ElementOfSeq DEF PkiInv, Files
    <3>2. f[i] = Tagged(index[i], n) \/ f[i] = index[i]
      BY DEF OnLines
    <3>. QED  BY <3>1, <3>2, TagsOnly
  <2>. QED  BY <2>1
<1>6. /\ m.op = q.op /\ m.name = q.name /\ m.targets = rest /\ m.pc = "replace"
      /\ m.then = then /\ m.copy = f
  <2>1. q \in Request
    BY <1>2
  <2>. HIDE DEF q, f, rest, then
  <2>. QED  BY <2>1, SedToFields
<1>7. /\ \A k, l \in DOMAIN T : T[k].file = T[l].file => k = l
      /\ \A k \in DOMAIN T \ {1} : FileOf(T[k].file, issued, renewed)[n] # None
  <2>1. Due(q) = DOMAIN T \ {1}
    BY <1>1 DEF Due, At
  <2>. QED  BY <1>2, <2>1 DEF Sound
<1>8. /\ rest = <<>> => At(m) = "remove"
      /\ rest # <<>> => 1 \in DOMAIN rest
      /\ Due(m) \subseteq DOMAIN rest
  <2>1. rest # <<>> => 1 \in DOMAIN rest
    <3>. HIDE DEF rest
    <3>. QED  BY <1>4, EmptySeq, LenProperties
  <2>2. At(m) = then
    BY <1>6 DEF At
  <2>. HIDE DEF m, rest
  <2>. QED  BY <1>6, <2>1, <2>2 DEF Due
<1>. HIDE DEF f, m, rest, T
<1>9. \A k, l \in DOMAIN rest : rest[k].file = rest[l].file => k = l
  <2>1. ASSUME NEW k \in DOMAIN rest, NEW l \in DOMAIN rest, rest[k].file = rest[l].file
        PROVE  k = l
    <3>1. k + 1 = l + 1
      BY <1>4, <1>7, <2>1
    <3>. QED  BY <1>4, <3>1
  <2>. QED  BY <2>1
<1>10. \A k \in DOMAIN rest : FileOf(rest[k].file, issued, renewed)[n] # None
  BY <1>4, <1>7
<1>11. Sound(m, index, issued, renewed)
  BY <1>2, <1>5, <1>6, <1>8, <1>9, <1>10 DEF Sound
<1>12. UNCHANGED <<index, issued, renewed, profile, failures>>
  BY <1>1 DEF FilesUnchanged
<1>13. ASSUME NEW x \in Names, Doing(q, x, "revoke", {"retag", "remove"})
       PROVE  \/ Doing(m, x, "revoke", {"retag", "remove"})
              \/ issued[x] # None \/ renewed[x] # None
  <2>1. x = n
    BY <1>13 DEF Doing
  <2>2. CASE rest = <<>>
    <3>1. m # Idle
      BY <1>6, IdleFacts
    <3>. QED  BY <1>2, <1>6, <1>8, <2>1, <2>2, <3>1 DEF Doing
  <2>3. CASE rest # <<>>
    BY <1>8, <1>10, <2>1, <2>3 DEF FileOf
  <2>. QED  BY <2>2, <2>3
<1>14. \A x \in Names : ~ Doing(q, x, "burn", {"remove"})
  BY <1>2 DEF Doing
<1>. QED  BY <1>1, <1>2, <1>11, <1>12, <1>13, <1>14, FreeQuiet

LEMMA FreeMark == ASSUME PkiInv, FreeInv, NEW r \in Reqs, MarkRemoved(r) PROVE FreeInv'
<1>. DEFINE q == req[r]
            marked == [i \in DOMAIN index |-> [index[i] EXCEPT !.removed = TRUE]]
            f == OnLines(q.serial, marked)
            m == Sedded(q, f, "remove")
<1>1. q.pc = "mark" /\ FilesUnchanged /\ req' = [req EXCEPT ![r] = m]
  BY DEF MarkRemoved, Sed, Sedded
<1>2. /\ q \in Request /\ q.op = "burn" /\ q # Idle
      /\ \A p \in Reqs : req[p] # Idle => p = r
      /\ Sound(q, index, issued, renewed)
  BY <1>1, FreeRunning, StepOp DEF Pcs
<1>3. \A i \in DOMAIN index : f[i] = index[i] \/ index[i].serial = q.serial
  BY DEF OnLines
<1>4. /\ m.op = q.op /\ m.name = q.name /\ m.serial = q.serial /\ m.pc = "replace"
      /\ m.then = "remove" /\ m.copy = f
  <2>1. q \in Request
    BY <1>2
  <2>. HIDE DEF q, f
  <2>. QED  BY <2>1, SedFields
<1>. HIDE DEF f, m
<1>5. \A i \in DOMAIN index : index[i].serial = q.serial => Removable(m, index, i)
  BY <1>2, <1>4 DEF Sound, Removable
<1>6. At(m) = "remove"
  BY <1>4 DEF At
<1>7. Sound(m, index, issued, renewed)
  BY <1>2, <1>3, <1>4, <1>5, <1>6 DEF Sound
<1>8. UNCHANGED <<index, issued, renewed, profile, failures>>
  BY <1>1 DEF FilesUnchanged
<1>9. At(q) = "mark"
  BY <1>1 DEF At
<1>. QED  BY <1>1, <1>2, <1>7, <1>8, <1>9, FreeQuiet DEF Doing

LEMMA FreeReplace == ASSUME PkiInv, FreeInv, NEW r \in Reqs, Replace(r) PROVE FreeInv'
<1>. DEFINE q == req[r]
            m == Resumed(q, q.then)
            next == IF q.then = "done" THEN Idle ELSE m
<1>1. /\ q.pc = "replace" /\ index' = q.copy /\ req' = [req EXCEPT ![r] = next]
      /\ UNCHANGED <<issued, renewed, profile, failures>>
  BY DEF Replace, Resumed
<1>2. /\ q \in Request /\ q # Idle /\ Good(q, index, issued, renewed, signed)
      /\ Sound(q, index, issued, renewed)
      /\ \A p \in Reqs : req[p] # Idle => p = r
  BY <1>1, Running DEF FreeInv
<1>3. /\ DOMAIN index' = DOMAIN index
      /\ \A i \in DOMAIN index :
           /\ index'[i].serial = index[i].serial /\ index'[i].cn = index[i].cn
           /\ index'[i].status = index[i].status
           /\ index'[i].removed => index[i].removed \/ Removable(q, index, i)
  <2>1. Edited(index, index')
    BY <1>1, <1>2 DEF Good
  <2>2. \A i \in DOMAIN index : index'[i].removed => index[i].removed \/ Removable(q, index, i)
    BY <1>1, <1>2 DEF Sound
  <2>. QED  BY <2>1, <2>2 DEF Edited, Kept
<1>4. Lines'
  BY <1>1, <1>3 DEF FreeInv, Lines, OneLineEach, FiledValid, RemovedRevoked, Removable
<1>5. At(q) = q.then /\ q.then # "mark"
  BY <1>1, <1>2, RequestFields DEF At, Thens
<1>6. q.op = "burn" => q.then = "remove"
  <2>1. q.op = "burn" => q.then \in {"mark", "remove"}
    BY <1>2, <1>5 DEF Good, Sound, StepsOf
  <2>. QED  BY <1>5, <2>1
<1>7. q.then # "done" =>
        /\ m.pc = q.then /\ m.op = q.op /\ m.name = q.name
        /\ m.serial = q.serial /\ m.targets = q.targets /\ m # Idle
        /\ At(m) = At(q) /\ q.then # "replace"
  <2>. SUFFICES ASSUME q.then # "done" PROVE /\ m.pc = q.then /\ m.op = q.op /\ m.name = q.name
        /\ m.serial = q.serial /\ m.targets = q.targets /\ m # Idle
        /\ At(m) = At(q) /\ q.then # "replace"
    OBVIOUS
  <2>1. q.then \in StepsOf(q.op) /\ q.op \in {"create", "revoke", "renew", "burn", "download"}
        /\ q.then \in Thens
    BY <1>2, <1>5, RequestFields DEF Good
  <2>2. q.then \in {"render", "revoke", "strip", "remove"}
    BY <2>1, StepsOfOp DEF Thens
  <2>3. q.then \in Pcs
    BY <2>2 DEF Pcs
  <2>4. /\ m \in Request /\ m.pc = q.then /\ m.op = q.op /\ m.name = q.name
        /\ m.serial = q.serial /\ m.targets = q.targets
    BY <1>2, <2>3, ResumedFields
  <2>. HIDE DEF m
  <2>5. At(m) = q.then
    BY <2>2, <2>4 DEF At
  <2>. QED  BY <1>5, <2>2, <2>4, <2>5, IdleFacts
<1>. HIDE DEF m
<1>8. Sound(next, index', issued', renewed')
  <2>1. CASE q.then = "done"
    BY <2>1 DEF Sound
  <2>2. CASE q.then # "done"
    <3>1. Due(m) = Due(q)
      BY <1>7, <2>2 DEF Due
    <3>2. Sound(m, index', issued', renewed')
      BY <1>1, <1>2, <1>3, <1>7, <2>2, <3>1 DEF Sound, Removable
    <3>. QED  BY <2>2, <3>2
  <2>. QED  BY <2>1, <2>2
<1>9. ASSUME NEW n, NEW op, NEW at, "done" \notin at, Doing(q, n, op, at)
      PROVE  Doing(next, n, op, at)
  BY <1>5, <1>7, <1>9 DEF Doing
<1>10. ASSUME NEW n \in Names, Accounted(n, q, index, issued, renewed, failures)
       PROVE  Accounted(n, next, index', issued', renewed', failures')
  <2>1. /\ Doing(q, n, "revoke", {"retag", "remove"}) => Doing(next, n, "revoke", {"retag", "remove"})
        /\ Doing(q, n, "burn", {"remove"}) => Doing(next, n, "burn", {"remove"})
    BY <1>9
  <2>2. CASE q.op = "burn" /\ q.name = n
    <3>1. Doing(q, n, "burn", {"remove"}) /\ ~ Doing(q, n, "revoke", {"retag", "remove"})
      BY <1>2, <1>5, <1>6, <2>2 DEF Doing
    <3>. QED  BY <1>1, <1>10, <2>1, <3>1 DEF Accounted
  <2>3. CASE ~ (q.op = "burn" /\ q.name = n)
    <3>1. HasRecord(n, index) => HasRecord(n, index')
      BY <1>3, <2>3 DEF HasRecord, Removable
    <3>. QED  BY <1>1, <1>10, <2>1, <3>1 DEF Accounted
  <2>. QED  BY <2>2, <2>3
<1>. HIDE DEF next
<1>. QED  BY <1>1, <1>2, <1>4, <1>8, <1>10, FreeStep

-----------------------------------------------------------------------------
\* New certificates.
LEMMA FreeNewCertificate ==
  ASSUME PkiInv, FreeInv, NEW n \in Names, NewCertificate(n),
         NEW r \in Reqs, NEW m, req' = [req EXCEPT ![r] = m],
         \A q \in Reqs : req[q] # Idle => q = r,
         req[r] = Idle \/ req[r].op = "create",
         m.pc = "tag", m.op \in {"create", "renew"}
  PROVE  FreeInv'
<1>. DEFINE s == signed + 1
            l == SignedLine(n, s)
            e == Len(index) + 1
<1>1. s \in Serial /\ s \in Nat /\ signed \in Nat /\ s > signed
  BY MaxSerialNat DEF PkiInv, Files, NewCertificate, Serial
<1>2. l \in Line /\ l.serial = s /\ l.status = "V" /\ l.removed = FALSE
  <2>1. l.removed = FALSE
    BY DEF SignedLine
  <2>. QED  BY <1>1, <2>1, SignedLineType
<1>3. /\ index' = Append(index, l) /\ index \in Seq(Line)
      /\ issued' = [issued EXCEPT ![n] = s]
      /\ renewed' = renewed \/ renewed' = [renewed EXCEPT ![n] = issued[n]]
      /\ failures' = failures /\ profile' = profile
      /\ issued \in [Names -> Serial \cup {None}]
      /\ renewed \in [Names -> Serial \cup {None}]
  BY DEF NewCertificate, PkiInv, Files
<1>. HIDE DEF l
<1>4. /\ DOMAIN index' = DOMAIN index \cup {e}
      /\ \A i \in DOMAIN index : index'[i] = index[i]
      /\ index'[e] = l /\ e \notin DOMAIN index
  BY <1>2, <1>3, AppendLine
<1>5. \A i \in DOMAIN index : index[i].serial # s
  <2>1. ASSUME NEW i \in DOMAIN index PROVE index[i].serial # s
    <3>1. index[i] \in Line
      BY <1>3, LenProperties, ElementOfSeq
    <3>2. index[i].serial \in Nat /\ index[i].serial <= signed
      BY <3>1, LineFields, MaxSerialNat DEF PkiInv, Records, Numbered, Serial
    <3>. QED  BY <1>1, <3>2
  <2>. QED  BY <2>1
<1>6. \A x \in Names : {issued'[x], renewed'[x]} \subseteq {issued[x], renewed[x], s}
  BY <1>3
<1>. HIDE DEF e, s
<1>7. OneLineEach' /\ RemovedRevoked'
  BY <1>2, <1>4, <1>5 DEF FreeInv, Lines, OneLineEach, RemovedRevoked
<1>8. FiledValid'
  <2>1. ASSUME NEW x \in Names, NEW i \in DOMAIN index', index'[i].serial \in {issued'[x], renewed'[x]}
        PROVE  index'[i].status = "V"
    <3>1. CASE i = e
      BY <1>2, <1>4, <3>1
    <3>2. CASE i # e
      <4>1. i \in DOMAIN index /\ index'[i] = index[i]
        BY <1>4, <3>2
      <4>2. index[i].serial \in {issued[x], renewed[x]}
        BY <1>5, <1>6, <2>1, <4>1
      <4>. QED  BY <4>1, <4>2 DEF FreeInv, Lines, FiledValid
    <3>. QED  BY <3>1, <3>2
  <2>. QED  BY <2>1 DEF FiledValid
<1>9. Lines'
  BY <1>7, <1>8 DEF Lines
<1>10. Sound(m, index', issued', renewed')
  BY SoundOther
<1>11. ASSUME NEW x \in Names, Accounted(x, req[r], index, issued, renewed, failures)
       PROVE  Accounted(x, m, index', issued', renewed', failures')
  <2>1. CASE x = n
    <3>1. issued'[x] = s /\ s # None
      BY <1>1, <1>3, <2>1, MaxSerialNat DEF Serial, None
    <3>. QED  BY <3>1 DEF Accounted
  <2>2. CASE x # n
    <3>1. issued'[x] = issued[x] /\ renewed'[x] = renewed[x]
      BY <1>3, <2>2
    <3>2. HasRecord(x, index) => HasRecord(x, index')
      BY <1>4 DEF HasRecord
    <3>. QED  BY <1>3, <1>11, <3>1, <3>2 DEF Accounted, Doing
  <2>. QED  BY <2>1, <2>2
<1>. QED  BY <1>3, <1>9, <1>10, <1>11, FreeStep

LEMMA FreeSign == ASSUME PkiInv, FreeInv, NEW r \in Reqs, Sign(r) PROVE FreeInv'
<1>1. req[r].pc = "sign" /\ req[r].op = "create"
  BY StepOp DEF Sign, Pcs
<1>2. /\ req[r] \in Request /\ req[r] # Idle /\ req[r].name \in Names
      /\ \A q \in Reqs : req[q] # Idle => q = r
      /\ Sound(req[r], index, issued, renewed) /\ Good(req[r], index, issued, renewed, signed)
  BY <1>1, FreeRunning, Running DEF Pcs
<1>3. CASE issued[req[r].name] = None
  <2>. DEFINE m == [req[r] EXCEPT !.pc = "tag"]
  <2>1. NewCertificate(req[r].name) /\ req' = [req EXCEPT ![r] = m]
    BY <1>1, <1>2, <1>3 DEF Sign, NewCertificate, GoTo, Good
  <2>2. m.pc = "tag" /\ m.op = "create"
    BY <1>1, <1>2, MoveTo DEF Pcs
  <2>. HIDE DEF m
  <2>. QED  BY <1>1, <1>2, <2>1, <2>2, FreeNewCertificate
<1>4. CASE issued[req[r].name] # None
  <2>1. req' = [req EXCEPT ![r] = Idle] /\ UNCHANGED <<index, issued, renewed, profile, failures>>
    BY <1>4 DEF Sign, GoTo
  <2>2. Sound(Idle, index, issued, renewed)
    BY DEF Sound
  <2>. QED  BY <1>1, <1>2, <2>1, <2>2, FreeQuiet DEF Doing
<1>. QED  BY <1>3, <1>4

LEMMA FreeRenew ==
  ASSUME PkiInv, FreeInv, Overlap = FALSE, NEW r \in Reqs, NEW n \in Names, RenewCertificate(r, n)
  PROVE  FreeInv'
<1>. DEFINE m == NewRequest("renew", "tag", n, None, <<>>)
<1>1. NewCertificate(n) /\ req' = [req EXCEPT ![r] = m] /\ Free(r)
  BY CanSignAlone DEF RenewCertificate, NewCertificate, Begin, NewRequest
<1>2. m.pc = "tag" /\ m.op = "renew"
  BY DEF NewRequest
<1>. HIDE DEF m
<1>3. (\A q \in Reqs : req[q] # Idle => q = r) /\ req[r] = Idle
  BY <1>1, Alone DEF Free
<1>. QED  BY <1>1, <1>2, <1>3, FreeNewCertificate

-----------------------------------------------------------------------------
\* revoke.sh.
LEMMA FreeRevokeStep == ASSUME PkiInv, FreeInv, NEW r \in Reqs, EasyRsaRevoke(r) PROVE FreeInv'
<1>. DEFINE q     == req[r]
            n     == q.name
            T     == q.targets
            file  == Head(T).file
            found == FileOf(file, issued, renewed)[n]
            lines == {i \in DOMAIN index : index[i].serial = found}
            revoked == [i \in DOMAIN index |-> [index[i] EXCEPT !.status = "R"]]
            m     == [q EXCEPT !.pc = "retag"]
            well  == found # None /\ \A i \in lines : index[i].tags = <<>> /\ index[i].status = "V"
<1>0. q.pc = "revoke"
  BY DEF EasyRsaRevoke
<1>1. /\ q \in Request /\ q # Idle /\ n \in Names /\ q.op = "revoke"
      /\ \A p \in Reqs : req[p] # Idle => p = r
      /\ Good(q, index, issued, renewed, signed) /\ Sound(q, index, issued, renewed)
      /\ T \in Seq(Target)
  BY <1>0, FreeRunning, Running, StepOp, RequestFields DEF Pcs
<1>2. 1 \in DOMAIN T /\ Head(T) = T[1] /\ T[1].file \in {"issued", "renewed"}
  <2>1. T # <<>>
    BY <1>0, <1>1 DEF Good, At
  <2>2. Len(T) \in Nat \ {0} /\ DOMAIN T = 1 .. Len(T)
    BY <1>1, <2>1, LenProperties, EmptySeq
  <2>3. 1 \in DOMAIN T
    BY <2>2
  <2>4. T[1] \in Target /\ Head(T) = T[1]
    BY <1>1, <2>1, <2>2, <2>3, ElementOfSeq
  <2>. QED  BY <2>3, <2>4 DEF Target
<1>3. At(q) = "revoke" /\ Due(q) = DOMAIN T
  BY <1>0 DEF At, Due
<1>4. /\ index \in Seq(Line)
      /\ issued \in [Names -> Serial \cup {None}]
      /\ renewed \in [Names -> Serial \cup {None}]
  BY DEF PkiInv, Files
<1>5. /\ profile' = profile /\ failures' = failures
      /\ well =>
           /\ index' = IF lines # {} THEN OnLines(found, revoked)
                       ELSE Append(index, [SignedLine(n, found) EXCEPT !.status = "R"])
           /\ IF file = "issued"
              THEN issued' = [issued EXCEPT ![n] = None] /\ renewed' = renewed
              ELSE renewed' = [renewed EXCEPT ![n] = None] /\ issued' = issued
           /\ GoTo(r, "retag")
      /\ ~ well => GoTo(r, "done") /\ UNCHANGED <<index, issued, renewed>>
  BY DEF EasyRsaRevoke, FileOf
<1>6. CASE ~ well
  <2>1. req' = [req EXCEPT ![r] = Idle] /\ UNCHANGED <<index, issued, renewed, profile, failures>>
    BY <1>5, <1>6 DEF GoTo
  <2>2. Sound(Idle, index, issued, renewed)
    BY DEF Sound
  <2>. QED  BY <1>1, <1>3, <2>1, <2>2, FreeQuiet DEF Doing
<1>7. CASE well
  <2>1. found # None /\ found \in {issued[n], renewed[n]}
    BY <1>7 DEF FileOf
  <2>2. lines # {} /\ \A i \in DOMAIN index : index[i].serial = found => index[i].cn = n
    <3>1. n \in Names /\ found \in {issued[n], renewed[n]} /\ found # None
      BY <1>1, <2>1
    <3>. HIDE DEF found, n
    <3>. QED  BY <3>1, LinesOf
  <2>3. /\ DOMAIN index' = DOMAIN index
        /\ \A i \in DOMAIN index :
             /\ index'[i].serial = index[i].serial /\ index'[i].cn = index[i].cn
             /\ index'[i].removed = index[i].removed
             /\ index'[i].status = IF index[i].serial = found THEN "R" ELSE index[i].status
    <3>1. index' = OnLines(found, revoked)
      BY <1>5, <1>7, <2>2
    <3>2. DOMAIN index' = DOMAIN index
      BY <3>1 DEF OnLines
    <3>3. ASSUME NEW i \in DOMAIN index
          PROVE  /\ index'[i].serial = index[i].serial /\ index'[i].cn = index[i].cn
                 /\ index'[i].removed = index[i].removed
                 /\ index'[i].status = IF index[i].serial = found THEN "R" ELSE index[i].status
      <4>1. index[i] \in Line
        BY <1>4, LenProperties, ElementOfSeq
      <4>2. LET l == [index[i] EXCEPT !.status = "R"] IN
              /\ l.serial = index[i].serial /\ l.cn = index[i].cn
              /\ l.removed = index[i].removed /\ l.status = "R"
        BY <4>1 DEF Line
      <4>3. index'[i] = IF index[i].serial = found THEN [index[i] EXCEPT !.status = "R"] ELSE index[i]
        BY <3>1 DEF OnLines
      <4>. HIDE DEF found
      <4>4. CASE index[i].serial = found
        BY <4>2, <4>3, <4>4
      <4>5. CASE index[i].serial # found
        BY <4>3, <4>5
      <4>. QED  BY <4>4, <4>5
    <3>. QED  BY <3>2, <3>3
  <2>4. /\ file = "issued" => issued' = [issued EXCEPT ![n] = None] /\ renewed' = renewed
        /\ file # "issued" => renewed' = [renewed EXCEPT ![n] = None] /\ issued' = issued
        /\ file \in {"issued", "renewed"} /\ file = T[1].file
        /\ req' = [req EXCEPT ![r] = m]
    BY <1>2, <1>5, <1>7 DEF GoTo
  <2>5. /\ m.pc = "retag" /\ m.op = "revoke" /\ m.name = n /\ m.targets = T /\ m # Idle
    <3>1. m.pc = "retag" /\ m.op = q.op /\ m.name = n /\ m.targets = T
      BY <1>1, MoveTo DEF Pcs
    <3>. HIDE DEF m
    <3>. QED  BY <1>1, <3>1, IdleFacts
  <2>6. At(m) = "retag" /\ Due(m) = DOMAIN T \ {1}
    <3>. HIDE DEF m
    <3>. QED  BY <2>5 DEF At, Due
  <2>7. renewed[n] # issued[n] \/ issued[n] = None
    BY <1>1, <1>4, MaxSerialNat DEF PkiInv, Records, RenewedOlder, Serial, None
  <2>8. \A x \in Names : \A i \in DOMAIN index :
          index[i].serial \in {issued'[x], renewed'[x]} =>
            index[i].serial \in {issued[x], renewed[x]} /\ index[i].serial # found
    <3>1. \A i \in DOMAIN index : index[i].serial # None
      <4>1. \A i \in DOMAIN index : index[i] \in Line
        BY <1>4, LenProperties, ElementOfSeq
      <4>. QED  BY <4>1, LineFields, MaxSerialNat DEF Serial, None
    <3>2. ASSUME NEW x \in Names, NEW i \in DOMAIN index,
                 index[i].serial \in {issued'[x], renewed'[x]}
          PROVE  index[i].serial \in {issued[x], renewed[x]} /\ index[i].serial # found
      <4>1. index[i].serial \in {issued[x], renewed[x]}
        BY <1>1, <1>4, <2>4, <3>1, <3>2
      <4>2. CASE x # n
        <5>1. index[i].cn = x
          BY <3>1, <4>1, LinesOf
        <5>. QED  BY <2>2, <4>1, <4>2, <5>1
      <4>3. CASE x = n
        <5>1. CASE file = "issued"
          <6>1. found = issued[n] /\ issued'[n] = None /\ renewed'[n] = renewed[n]
            BY <1>1, <1>4, <2>4, <5>1 DEF FileOf
          <6>. HIDE DEF found, n
          <6>. QED  BY <2>1, <2>7, <3>1, <3>2, <4>1, <4>3, <6>1
        <5>2. CASE file # "issued"
          <6>1. found = renewed[n] /\ renewed'[n] = None /\ issued'[n] = issued[n]
            BY <1>1, <1>4, <2>4, <5>2 DEF FileOf
          <6>. HIDE DEF found, n
          <6>. QED  BY <2>1, <2>7, <3>1, <3>2, <4>1, <4>3, <6>1
        <5>. QED  BY <5>1, <5>2
      <4>. QED  BY <4>2, <4>3
    <3>. QED  BY <3>2
  <2>. HIDE DEF found, lines, revoked, well
  <2>9. OneLineEach' /\ RemovedRevoked'
    BY <2>3 DEF FreeInv, Lines, OneLineEach, RemovedRevoked
  <2>10. FiledValid'
    BY <2>3, <2>8 DEF FreeInv, Lines, FiledValid
  <2>11. Sound(m, index', issued', renewed')
    <3>1. \A k, l \in DOMAIN T : T[k].file = T[l].file => k = l
      BY <1>1 DEF Sound
    <3>2. ASSUME NEW k \in DOMAIN T \ {1}
          PROVE  FileOf(T[k].file, issued', renewed')[n] # None
      <4>1. FileOf(T[k].file, issued, renewed)[n] # None
        BY <1>1, <1>3 DEF Sound
      <4>2. T[k].file # file /\ T[k].file \in {"issued", "renewed"}
        <5>1. T[k] \in Target
          BY <1>1, LenProperties, ElementOfSeq
        <5>2. T[k].file # T[1].file
          BY <1>2, <3>1
        <5>. QED  BY <2>4, <5>1, <5>2 DEF Target
      <4>. HIDE DEF T, n, file
      <4>. QED  BY <2>4, <4>1, <4>2 DEF FileOf
    <3>. HIDE DEF m, T, n
    <3>. QED  BY <2>5, <2>6, <3>1, <3>2 DEF Sound
  <2>12. ASSUME NEW x \in Names, Accounted(x, q, index, issued, renewed, failures)
         PROVE  Accounted(x, m, index', issued', renewed', failures')
    <3>1. HasRecord(x, index) => HasRecord(x, index')
      BY <2>3 DEF HasRecord
    <3>2. CASE x = n
      <4>1. HasRecord(n, index)
        BY <1>1, <2>1, HeldListed DEF FreeInv
      <4>2. Doing(m, n, "revoke", {"retag", "remove"})
        <5>. HIDE DEF m
        <5>. QED  BY <2>5, <2>6 DEF Doing
      <4>. HIDE DEF m, n
      <4>. QED  BY <3>1, <3>2, <4>1, <4>2 DEF Accounted
    <3>3. CASE x # n
      <4>1. issued'[x] = issued[x] /\ renewed'[x] = renewed[x]
        BY <1>4, <2>4, <3>3
      <4>2. \A op, at : ~ Doing(q, x, op, at)
        BY <3>3 DEF Doing
      <4>. HIDE DEF m, n, q
      <4>. QED  BY <1>5, <2>12, <3>1, <4>1, <4>2 DEF Accounted
    <3>. QED  BY <3>2, <3>3
  <2>. HIDE DEF m
  <2>13. Lines'
    BY <2>9, <2>10 DEF Lines
  <2>. QED  BY <1>1, <1>5, <2>4, <2>11, <2>12, <2>13, FreeStep
<1>. QED  BY <1>6, <1>7

LEMMA FreeNext ==
  ASSUME Overlap = FALSE, PkiInv, FreeInv, [Next]_vars
  PROVE  FreeInv'
<1>1. CASE UNCHANGED vars
  BY <1>1
     DEF vars, FreeInv, Lines, OneLineEach, FiledValid, RemovedRevoked, Profiles
<1>2. CASE Next
  <2>1. PICK r \in Reqs :
          \/ \E n \in Names : \/ CreateCertificate(r, n) \/ RenewCertificate(r, n) \/ Download(r, n)
                              \/ \E s \in Serial : RevokeCertificate(r, n, s) \/ BurnCertificate(r, n, s)
          \/ ScriptStep(r)
          \/ Replace(r)
          \/ Fail(r)
    BY <1>2 DEF Next
  <2>2. CASE \E n \in Names : \/ CreateCertificate(r, n) \/ RenewCertificate(r, n) \/ Download(r, n)
                              \/ \E s \in Serial : RevokeCertificate(r, n, s) \/ BurnCertificate(r, n, s)
    BY <2>2, FreeCreate, FreeRenew, FreeDownload, FreeRevoke, FreeBurn
  <2>3. CASE ScriptStep(r)
    BY <2>3, FreeCheckProfile, FreeSign, FreeTag, FreeWriteProfile, FreeStrip, FreeRevokeStep,
       FreeRetag, FreeRemoveProfile, FreeGenCrl, FreeMark, FreeSaveProfile
       DEF ScriptStep
  <2>. QED  BY <2>1, <2>2, <2>3, FreeReplace, FreeFail
<1>. QED  BY <1>1, <1>2

LEMMA FreeHolds == ASSUME Overlap = FALSE PROVE Spec => [](PkiInv /\ FreeInv)
<1>1. PkiInv /\ FreeInv /\ [Next]_vars => (PkiInv /\ FreeInv)'
  BY NextOutcome, FreeNext DEF Outcome
<1>2. Init => PkiInv /\ FreeInv
  BY InitInv, FreeInit
<1>. QED  BY <1>1, <1>2, PTL DEF Spec

\* A record that was not removed is listed under its name.
LEMMA RecordListed ==
  ASSUME PkiInv, NEW n \in Names, HasRecord(n, index)
  PROVE  n \in ListedNames
<1>1. PICK i \in DOMAIN index : ~ index[i].removed /\ index[i].cn = n
  BY DEF HasRecord
<1>2. index[i].tags \in Seq(Names)
  BY LenProperties, ElementOfSeq, LineFields DEF PkiInv, Files
<1>3. index[i].tags # <<>> => Len(index[i].tags) \in DOMAIN index[i].tags
  BY <1>2, LenProperties, EmptySeq
<1>4. NameOf(index[i]) = n
  BY <1>1, <1>3 DEF NameOf, PkiInv, Records, OwnTags
<1>. QED  BY <1>1, <1>4 DEF ListedNames, Listed

\* A certificate in one of the two files can be seen: its name is listed.
CertificatesListed ==
  \A n \in Names : issued[n] # None \/ renewed[n] # None => n \in ListedNames

\* However many scripts fail, no certificate is left in a file under a name that the
\* pages do not show: sign-req refuses no name that CreateCertificate found free in an
\* index it could read.
THEOREM CertificatesAreListed == ASSUME Overlap = FALSE PROVE Spec => []CertificatesListed
<1>1. PkiInv /\ FreeInv => CertificatesListed
  BY HeldListed, RecordListed DEF FreeInv, CertificatesListed
<1>. QED  BY <1>1, FreeHolds, PTL

\* A name that is not listed has neither a profile nor a certificate once the scripts
\* have ended, unless two of them failed.
THEOREM FreeNamesAreFree == ASSUME Overlap = FALSE PROVE Spec => []FreeNameIsFree
<1>1. ASSUME PkiInv, FreeInv, Quiet, failures < 2, NEW n \in Names, n \notin ListedNames
      PROVE  profile[n] = None /\ issued[n] = None
  <2>1. ~ HasRecord(n, index)
    BY <1>1, RecordListed
  <2>2. issued[n] = None /\ renewed[n] = None
    BY <1>1, <2>1, HeldListed DEF FreeInv
  <2>3. profile[n] = None
    <3>. SUFFICES ASSUME profile[n] # None PROVE FALSE
      OBVIOUS
    <3>1. PICK r \in Reqs : Accounted(n, req[r], index, issued, renewed, failures)
      BY <1>1 DEF FreeInv, Profiles
    <3>2. req[r] = Idle /\ ~ (failures >= 2)
      BY <1>1, MaxSerialNat DEF Quiet, PkiInv, Files
    <3>. QED  BY <2>1, <2>2, <3>1, <3>2 DEF Accounted, Doing
  <2>. QED  BY <2>2, <2>3
<1>2. PkiInv /\ FreeInv => FreeNameIsFree
  BY <1>1 DEF FreeNameIsFree
<1>. QED  BY <1>2, FreeHolds, PTL
===============================================================================
