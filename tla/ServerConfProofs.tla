--------------------------- MODULE ServerConfProofs ---------------------------
(* Proofs about ServerConf, for any lines, directives, settings and bounds.   *)
EXTENDS ServerConf, TLAPS

-----------------------------------------------------------------------------
(* Types.                                                                     *)

LEMMA RenderType == \A s \in Settings : Render(s) \subseteq Lines
  BY LinesAssumption DEF Settings, Render

LEMMA NoRequestType == NoRequest \in Request
  BY LinesAssumption DEF NoRequest, Request, Page

LEMMA ShownType ==
  ASSUME row \in Settings, NEW text
  PROVE  Shown(text) \subseteq Settings
  BY DEF Shown, Settings

LEMMA InitTypeOK == Init => TypeOK
<1> SUFFICES ASSUME Init PROVE TypeOK
  OBVIOUS
<1>1. Default \in Settings /\ Render(Default) \subseteq Lines
  BY LinesAssumption, RenderType
<1>2. page \in [Admins -> Page]
  BY <1>1 DEF Init, Page
<1>3. req \in [Admins -> Request]
  BY NoRequestType DEF Init
<1> QED
  BY <1>1, <1>2, <1>3, LinesAssumption DEF Init, TypeOK

LEMMA SendType ==
  ASSUME TypeOK, NEW a \in Admins, NEW new \in Page,
         NEW first \in {"read", "edit"}, Send(a, first, new)
  PROVE  TypeOK'
<1>1. [NoRequest EXCEPT !.pc = first, !.new = new, !.previous = row] \in Request
  BY NoRequestType DEF Request, TypeOK
<1>2. req' \in [Admins -> Request]
  BY <1>1 DEF Send, TypeOK
<1>3. requests' \in 0 .. MaxRequests
  BY LinesAssumption DEF Send, TypeOK
<1> QED
  BY <1>2, <1>3 DEF Send, TypeOK

LEMMA AnswerType ==
  ASSUME TypeOK, NEW a \in Admins, NEW text \in SUBSET Lines, Answer(a, text)
  PROVE  /\ req' \in [Admins -> Request]
         /\ page' \in [Admins -> Page]
<1>1. req[a].new.form \in Settings
  BY DEF TypeOK, Request, Page
<1>2. [form |-> req[a].new.form, text |-> text] \in Page
  BY <1>1 DEF Page
<1> QED
  BY <1>2, NoRequestType DEF Answer, TypeOK

LEMMA FailsType ==
  ASSUME TypeOK, NEW what \in {"update", "write", "stop"}, Fails(what)
  PROVE  /\ failures' \in 0 .. MaxFailures
         /\ damage' \subseteq {"update", "write", "stop"}
<1>1. failures' \in 0 .. MaxFailures
  BY LinesAssumption DEF Fails, TypeOK
<1> QED
  BY <1>1 DEF Fails, TypeOK

LEMMA GoType ==
  ASSUME TypeOK, NEW a \in Admins, NEW from,
         NEW to \in {"write", "rewrite", "overwrite", "reread", "update"},
         Go(a, from, to)
  PROVE  req' \in [Admins -> Request]
<1>1. [req[a] EXCEPT !.pc = to] \in Request
  BY DEF TypeOK, Request
<1> QED
  BY <1>1 DEF Go, TypeOK

LEMMA LoadType == ASSUME TypeOK, NEW a \in Admins, Load(a) PROVE TypeOK'
<1>1. PICK s \in Shown(file) : page' = [page EXCEPT ![a] = [form |-> s, text |-> file]]
  BY DEF Load
<1>2. s \in Settings
  BY <1>1, ShownType DEF TypeOK
<1>3. [form |-> s, text |-> file] \in Page
  BY <1>2 DEF TypeOK, Page
<1> QED
  BY <1>1, <1>3 DEF Load, TypeOK

LEMMA PostType ==
  ASSUME TypeOK, NEW a \in Admins, NEW s \in Settings, Post(a, s)
  PROVE  TypeOK'
<1>1. [form |-> s, text |-> {}] \in Page
  BY DEF Page
<1> QED
  BY <1>1, SendType DEF Post

LEMMA EditType ==
  ASSUME TypeOK, NEW a \in Admins, NEW change \in Changes, Edit(a, change)
  PROVE  TypeOK'
<1> DEFINE text == (page[a].text \ change) \cup (change \ page[a].text)
           new == [form |-> row, text |-> text]
<1>1. text \subseteq Lines
  BY DEF TypeOK, Page, Changes
<1>2. new \in Page
  BY <1>1 DEF Page, TypeOK
<1>3. Send(a, "edit", new)
  BY DEF Edit
<1> HIDE DEF text, new
<1> QED
  BY <1>2, <1>3, SendType

LEMMA FindType ==
  ASSUME TypeOK, NEW a \in Admins, FindHandLines(a)
  PROVE  TypeOK'
<1> DEFINE kept == HandLines(file, Render(req[a].previous), req[a].current)
           to == IF kept = {} THEN "update" ELSE "keep"
<1>1. req[a] \in Request /\ file \subseteq Lines
  BY DEF TypeOK
<1>2. kept \subseteq Lines
  BY <1>1 DEF HandLines, Request
<1>3. req' = [req EXCEPT ![a].pc = to, ![a].rendered = file, ![a].kept = kept]
  BY DEF FindHandLines
<1>4. to \in {"update", "keep"}
  OBVIOUS
<1> HIDE DEF kept, to
<1>5. [req[a] EXCEPT !.pc = to, !.rendered = file, !.kept = kept] \in Request
  BY <1>1, <1>2, <1>4 DEF Request
<1>6. req' \in [Admins -> Request]
  BY <1>3, <1>5 DEF TypeOK
<1> QED
  BY <1>6 DEF FindHandLines, TypeOK

LEMMA StepType == ASSUME TypeOK, NEW a \in Admins, Step(a) PROVE TypeOK'
<1>1. req[a] \in Request
  BY DEF TypeOK
<1>2. /\ req[a].new \in Page
      /\ req[a].new.form \in Settings
      /\ req[a].new.text \subseteq Lines
      /\ req[a].rendered \cup req[a].kept \subseteq Lines
  BY <1>1 DEF Request, Page
<1>3. CASE ReadCurrent(a)
  <2>1. [req[a] EXCEPT !.pc = "render", !.current = file] \in Request
    BY <1>1 DEF Request, TypeOK
  <2>2. req' \in [Admins -> Request]
    BY <1>3, <2>1 DEF ReadCurrent, TypeOK
  <2> QED
    BY <1>3, <2>2 DEF ReadCurrent, TypeOK
<1>4. CASE Truncate(a)
  <2>1. req' \in [Admins -> Request]
    BY <1>4, GoType DEF Truncate
  <2> QED
    BY <1>4, <2>1 DEF Truncate, TypeOK
<1>5. CASE WriteRendered(a)
  <2>1. req' \in [Admins -> Request]
    BY <1>5, GoType DEF WriteRendered
  <2>2. file' \subseteq Lines
    BY <1>5, <1>2, RenderType DEF WriteRendered
  <2> QED
    BY <1>5, <2>1, <2>2 DEF WriteRendered, TypeOK
<1>6. CASE FindHandLines(a)
  BY <1>6, FindType
<1>7. CASE WriteKept(a)
  <2>1. req' \in [Admins -> Request]
    BY <1>7, GoType DEF WriteKept
  <2> QED
    BY <1>7, <1>2, <2>1 DEF WriteKept, TypeOK
<1>8. CASE UpdateRow(a)
  <2>1. req' \in [Admins -> Request] /\ page' \in [Admins -> Page]
    BY <1>8, AnswerType DEF UpdateRow, TypeOK
  <2> QED
    BY <1>8, <1>2, <2>1 DEF UpdateRow, TypeOK
<1>9. CASE UpdateFails(a)
  <2>1. req' \in [Admins -> Request] /\ page' \in [Admins -> Page]
    BY <1>9, AnswerType DEF UpdateFails, TypeOK
  <2>2. failures' \in 0 .. MaxFailures /\ damage' \subseteq {"update", "write", "stop"}
    BY <1>9, FailsType DEF UpdateFails
  <2> QED
    BY <1>9, <2>1, <2>2 DEF UpdateFails, TypeOK
<1>10. CASE WriteEdited(a)
  <2>1. req' \in [Admins -> Request] /\ page' \in [Admins -> Page]
    BY <1>10, <1>2, AnswerType DEF WriteEdited
  <2>2. Render(row) \subseteq Lines
    BY RenderType DEF TypeOK
  <2> QED
    BY <1>10, <1>2, <2>1, <2>2 DEF WriteEdited, TypeOK
<1>11. CASE WriteFails(a)
  <2>1. req' \in [Admins -> Request] /\ page' \in [Admins -> Page]
    BY <1>11, AnswerType DEF WriteFails
  <2>2. failures' \in 0 .. MaxFailures /\ damage' \subseteq {"update", "write", "stop"}
    BY <1>11, FailsType DEF WriteFails
  <2> QED
    BY <1>11, <2>1, <2>2 DEF WriteFails, TypeOK
<1> QED
  BY <1>3, <1>4, <1>5, <1>6, <1>7, <1>8, <1>9, <1>10, <1>11 DEF Step

LEMMA RestartType == ASSUME TypeOK, Restart PROVE TypeOK'
<1>1. req' \in [Admins -> Request]
  BY NoRequestType DEF Restart
<1>2. failures' \in 0 .. MaxFailures /\ damage' \subseteq {"update", "write", "stop"}
  BY FailsType DEF Restart
<1>3. file' \subseteq Lines
  BY RenderType DEF Restart, TypeOK
<1> QED
  BY <1>1, <1>2, <1>3 DEF Restart, TypeOK

LEMMA NextTypeOK == TypeOK /\ [Next]_vars => TypeOK'
<1> SUFFICES ASSUME TypeOK, [Next]_vars PROVE TypeOK'
  OBVIOUS
<1>1. CASE Restart
  BY <1>1, RestartType
<1>2. ASSUME NEW a \in Admins, Load(a) PROVE TypeOK'
  BY <1>2, LoadType
<1>3. ASSUME NEW a \in Admins, NEW s \in Settings, Post(a, s) PROVE TypeOK'
  BY <1>3, PostType
<1>4. ASSUME NEW a \in Admins, NEW change \in Changes, Edit(a, change) PROVE TypeOK'
  BY <1>4, EditType
<1>5. ASSUME NEW a \in Admins, Step(a) PROVE TypeOK'
  BY <1>5, StepType
<1>6. CASE UNCHANGED vars
  BY <1>6 DEF vars, TypeOK
<1> QED
  BY <1>1, <1>2, <1>3, <1>4, <1>5, <1>6 DEF Next

\* Whatever is saved by whom, and also when requests overlap, every text, page and
\* request stays within the lines and settings there are.
THEOREM TypesHold == Spec => []TypeOK
<1>1. QED
  BY InitTypeOK, NextTypeOK, PTL DEF Spec

-----------------------------------------------------------------------------
(* One request at a time.  What the file holds at each step of a request.     *)

\* The file as the last completed save left it.
Both == (Render(row) \ cut) \cup typed

KeptBy(r) == HandLines(Render(r.new.form), Render(r.previous), r.current)

Alone == \A a, b \in Admins : req[a].pc # "idle" /\ req[b].pc # "idle" => a = b

\* What a request has written, whatever failed before it.
Progress(r) ==
  /\ r.pc \in {"reread", "keep"} => file = Render(r.new.form)
  /\ r.pc \in {"keep", "rewrite"} => r.rendered = Render(r.new.form) /\ r.kept = KeptBy(r)
  /\ r.pc = "update" => file = Render(r.new.form) \cup KeptBy(r)
  /\ r.pc \in {"edit", "overwrite"} => r.new.text # {}

\* What it has read, when nothing failed before it.
Reading(r) ==
  /\ r.pc \in {"read", "render"} => file = Both
  /\ r.pc \in {"render", "write", "reread", "keep", "rewrite", "update"} => r.current = Both
  /\ r.pc \in {"read", "render", "write", "reread", "keep", "rewrite", "update"} => r.previous = row

ByHand == typed \cap Render(row) = {}

Inv ==
  /\ TypeOK
  /\ Alone
  /\ \A a \in Admins : Progress(req[a])
  /\ damage = {} => \A a \in Admins : Reading(req[a])
  /\ ByHand
  /\ UsableConfig
  /\ FileIsFormAndHand

LEMMA RenderNotEmpty == \A s \in Settings : Render(s) # {}
  BY LinesAssumption DEF Render

LEMMA OneRequest ==
  ASSUME Alone, NEW a \in Admins, req[a].pc # "idle"
  PROVE  /\ \A b \in Admins \ {a} : req[b].pc = "idle"
         /\ ~Quiet
  BY DEF Alone, Quiet, Busy

LEMMA IdleHolds ==
  /\ Progress(NoRequest)
  /\ Reading(NoRequest)
  BY DEF Progress, Reading, NoRequest

\* An idle request says nothing about the file.
LEMMA IdleSaysNothing ==
  ASSUME NEW r, r.pc = "idle"
  PROVE  Progress(r) /\ Reading(r)
  BY DEF Progress, Reading

LEMMA InitInv == Init => Inv
<1> SUFFICES ASSUME Init PROVE Inv
  OBVIOUS
<1>1. TypeOK
  BY InitTypeOK
<1>2. \A a \in Admins : req[a] = NoRequest
  BY DEF Init
<1>3. \A a \in Admins : req[a].pc = "idle"
  BY <1>2 DEF NoRequest
<1>4. Alone
  BY <1>3 DEF Alone
<1>5. (\A a \in Admins : Progress(req[a])) /\ (\A a \in Admins : Reading(req[a]))
  BY <1>2, IdleHolds
<1>6. ByHand
  BY DEF Init, ByHand
<1>7. UsableConfig
  BY LinesAssumption, RenderNotEmpty DEF Init, UsableConfig
<1>8. FileIsFormAndHand
  BY DEF Init, FileIsFormAndHand
<1> QED
  BY <1>1, <1>4, <1>5, <1>6, <1>7, <1>8 DEF Inv

\* The lines that a save of the form keeps are those that stay lines by hand.
LEMMA KeptIsTyped ==
  ASSUME NEW s \in Settings, NEW a \in Admins,
         req[a].new.form = s, req[a].previous = row, req[a].current = Both, ByHand
  PROVE  Render(s) \cup KeptBy(req[a]) = Render(s) \cup {l \in typed : ~FormSets(s, l)}
<1>1. Both \ (Render(s) \cup Render(row)) = typed \ Render(s)
  BY DEF Both, ByHand
<1>2. KeptBy(req[a]) = {l \in typed \ (Render(s) \cup Muted) :
                          Directive[l] \in Owned(Render(s)) => Directive[l] \in Repeatable}
  BY <1>1 DEF KeptBy, HandLines
<1> QED
  BY <1>2 DEF FormSets

\* A step in the middle of a request.
LEMMA MiddleStep ==
  ASSUME Inv, TypeOK', NEW a \in Admins, req[a].pc # "idle", req'[a].pc # "idle",
         \A b \in Admins \ {a} : req'[b] = req[b],
         UNCHANGED <<row, typed, damage>>,
         Progress(req[a])', damage = {} => Reading(req[a])'
  PROVE  Inv'
<1>1. \A b \in Admins \ {a} : req'[b].pc = "idle"
  BY OneRequest DEF Inv
<1>2. Alone'
  BY <1>1 DEF Alone
<1>3. \A b \in Admins : Progress(req[b])'
  BY <1>1 DEF Progress
<1>4. damage = {} => \A b \in Admins : Reading(req[b])'
  BY <1>1 DEF Reading
<1>5. ByHand'
  BY DEF Inv, ByHand, Render
<1>6. ~Quiet'
  BY DEF Quiet, Busy
<1> QED
  BY <1>2, <1>3, <1>4, <1>5, <1>6 DEF Inv, UsableConfig, FileIsFormAndHand

\* The last step of a request.
LEMMA LastStep ==
  ASSUME Inv, TypeOK', NEW a \in Admins, req[a].pc # "idle",
         req' = [req EXCEPT ![a] = NoRequest],
         ByHand', "write" \notin damage' => file' # {}, damage' = {} => file' = Both'
  PROVE  Inv'
<1>1. \A b \in Admins : req'[b].pc = "idle"
  <2>1. req \in [Admins -> Request]
    BY DEF Inv, TypeOK
  <2>2. NoRequest.pc = "idle"
    BY DEF NoRequest
  <2> QED
    BY <2>1, <2>2, OneRequest DEF Inv
<1>2. Alone'
  BY <1>1 DEF Alone
<1>3. \A b \in Admins : Progress(req[b])'
  BY <1>1 DEF Progress
<1>4. \A b \in Admins : Reading(req[b])'
  BY <1>1 DEF Reading
<1> QED
  BY <1>2, <1>3, <1>4 DEF Inv, UsableConfig, FileIsFormAndHand, Both

LEMMA SendInv ==
  ASSUME ~Overlap, Inv, NEW a \in Admins, NEW new \in Page, NEW first \in {"read", "edit"},
         first = "edit" => new.text # {}, Send(a, first, new)
  PROVE  Inv'
<1> DEFINE r == [NoRequest EXCEPT !.pc = first, !.new = new, !.previous = row]
<1>1. TypeOK'
  BY SendType DEF Inv
<1>2. Quiet /\ \A b \in Admins : req[b].pc = "idle"
  BY DEF Send, Quiet, Busy
<1>3. req' = [req EXCEPT ![a] = r]
  BY DEF Send
<1>4. r.pc = first /\ r.new = new /\ r.previous = row
  BY DEF NoRequest
<1> HIDE DEF r
<1>5. req'[a] = r /\ \A b \in Admins \ {a} : req'[b].pc = "idle"
  BY <1>2, <1>3 DEF Inv, TypeOK
<1>6. UNCHANGED <<row, file, typed, cut, damage>>
  BY DEF Send
<1>7. Alone'
  BY <1>5 DEF Alone
<1>8. \A b \in Admins : Progress(req[b])'
  <2>1. Progress(req[a])'
    BY <1>4, <1>5 DEF Progress
  <2> QED
    BY <1>5, <2>1 DEF Progress
<1>9. damage = {} => \A b \in Admins : Reading(req[b])'
  <2>1. damage = {} => file' = Both'
    BY <1>2, <1>6 DEF Inv, FileIsFormAndHand, Both, Render
  <2>2. damage = {} => Reading(req[a])'
    BY <1>4, <1>5, <1>6, <2>1 DEF Reading
  <2> QED
    BY <1>5, <2>2 DEF Reading
<1>10. ByHand'
  BY <1>6 DEF Inv, ByHand, Render
<1>11. ~Quiet'
  BY <1>4, <1>5 DEF Quiet, Busy
<1> QED
  BY <1>1, <1>6, <1>7, <1>8, <1>9, <1>10, <1>11 DEF Inv, UsableConfig, FileIsFormAndHand

LEMMA PostInv ==
  ASSUME ~Overlap, Inv, NEW a \in Admins, NEW s \in Settings, Post(a, s)
  PROVE  Inv'
<1>1. [form |-> s, text |-> {}] \in Page
  BY DEF Page
<1> QED
  BY <1>1, SendInv DEF Post

LEMMA EditInv ==
  ASSUME ~Overlap, Inv, NEW a \in Admins, NEW change \in Changes, Edit(a, change)
  PROVE  Inv'
<1> DEFINE text == (page[a].text \ change) \cup (change \ page[a].text)
           new == [form |-> row, text |-> text]
<1>1. text \subseteq Lines /\ text # {}
  BY DEF Inv, TypeOK, Page, Changes, Edit
<1>2. new \in Page /\ new.text # {}
  BY <1>1 DEF Page, Inv, TypeOK
<1>3. Send(a, "edit", new)
  BY DEF Edit
<1> HIDE DEF text, new
<1> QED
  BY <1>2, <1>3, SendInv

LEMMA ReadCurrentInv == ASSUME Inv, NEW a \in Admins, ReadCurrent(a) PROVE Inv'
<1>1. TypeOK'
  BY StepType DEF Step, Inv
<1>2. req[a].pc = "read" /\ req \in [Admins -> Request] /\ req[a] \in Request
  BY DEF ReadCurrent, Inv, TypeOK
<1>3. /\ req'[a] = [req[a] EXCEPT !.pc = "render", !.current = file]
      /\ \A b \in Admins \ {a} : req'[b] = req[b]
  BY <1>2 DEF ReadCurrent
<1>4. /\ req'[a].pc = "render"
      /\ req'[a].current = file
      /\ req'[a].previous = req[a].previous
  BY <1>2, <1>3 DEF Request
<1>5. Progress(req[a])'
  BY <1>4 DEF Progress
<1>6. damage = {} => Reading(req[a])'
  BY <1>2, <1>4 DEF Inv, Reading, ReadCurrent, Both, Render
<1> QED
  BY <1>1, <1>2, <1>3, <1>4, <1>5, <1>6, MiddleStep DEF ReadCurrent

LEMMA GoFacts ==
  ASSUME TypeOK, NEW a \in Admins, NEW from, NEW to, Go(a, from, to)
  PROVE  /\ req[a].pc = from /\ req'[a].pc = to
         /\ req'[a].new = req[a].new /\ req'[a].previous = req[a].previous
         /\ req'[a].current = req[a].current /\ req'[a].rendered = req[a].rendered
         /\ req'[a].kept = req[a].kept
         /\ \A b \in Admins \ {a} : req'[b] = req[b]
<1>1. req \in [Admins -> Request] /\ req[a] \in Request
  BY DEF TypeOK
<1>2. req'[a] = [req[a] EXCEPT !.pc = to] /\ \A b \in Admins \ {a} : req'[b] = req[b]
  BY <1>1 DEF Go
<1> QED
  BY <1>1, <1>2 DEF Go, Request

LEMMA TruncateInv == ASSUME Inv, NEW a \in Admins, Truncate(a) PROVE Inv'
<1>1. TypeOK'
  BY StepType DEF Step, Inv
<1>2. UNCHANGED <<row, typed, cut, damage>>
  BY DEF Truncate
<1>3. Both' = Both
  BY <1>2 DEF Both, Render
<1>4. PICK from, to : /\ <<from, to>> \in {<<"render", "write">>, <<"keep", "rewrite">>,
                                          <<"edit", "overwrite">>}
                      /\ Go(a, from, to)
  BY DEF Truncate
<1>5. /\ req[a].pc = from /\ req'[a].pc = to
      /\ req'[a].new = req[a].new /\ req'[a].previous = req[a].previous
      /\ req'[a].current = req[a].current /\ req'[a].rendered = req[a].rendered
      /\ req'[a].kept = req[a].kept
      /\ \A b \in Admins \ {a} : req'[b] = req[b]
  BY <1>4, GoFacts DEF Inv
<1>6. Progress(req[a]) /\ (damage = {} => Reading(req[a]))
  BY DEF Inv
<1>7. KeptBy(req[a])' = KeptBy(req[a])
  BY <1>5 DEF KeptBy, HandLines, Render, Owned
<1>8. Progress(req[a])'
  BY <1>4, <1>5, <1>6, <1>7 DEF Progress, Render
<1>9. damage = {} => Reading(req[a])'
  BY <1>2, <1>3, <1>4, <1>5, <1>6 DEF Reading
<1>10. req[a].pc # "idle" /\ req'[a].pc # "idle"
  BY <1>4, <1>5
<1> QED
  BY <1>1, <1>2, <1>5, <1>8, <1>9, <1>10, MiddleStep

LEMMA WriteRenderedInv == ASSUME Inv, NEW a \in Admins, WriteRendered(a) PROVE Inv'
<1>1. TypeOK'
  BY StepType DEF Step, Inv
<1>2. UNCHANGED <<row, typed, cut, damage>> /\ file' = Render(req[a].new.form)
  BY DEF WriteRendered
<1>3. Both' = Both
  BY <1>2 DEF Both, Render
<1>4. /\ req[a].pc = "write" /\ req'[a].pc = "reread"
      /\ req'[a].new = req[a].new /\ req'[a].previous = req[a].previous
      /\ req'[a].current = req[a].current
      /\ \A b \in Admins \ {a} : req'[b] = req[b]
  BY GoFacts DEF Inv, WriteRendered
<1>5. Progress(req[a])'
  BY <1>2, <1>4 DEF Progress, Render
<1>6. damage = {} => Reading(req[a])'
  BY <1>2, <1>3, <1>4 DEF Inv, Reading
<1> QED
  BY <1>1, <1>2, <1>4, <1>5, <1>6, MiddleStep

LEMMA FindInv == ASSUME Inv, NEW a \in Admins, FindHandLines(a) PROVE Inv'
<1> DEFINE kept == HandLines(file, Render(req[a].previous), req[a].current)
           to == IF kept = {} THEN "update" ELSE "keep"
<1>1. TypeOK'
  BY FindType DEF Inv
<1>2. UNCHANGED <<row, file, typed, cut, damage>>
  BY DEF FindHandLines
<1>3. Both' = Both
  BY <1>2 DEF Both, Render
<1>4. req[a].pc = "reread" /\ req[a] \in Request /\ req \in [Admins -> Request]
  BY DEF FindHandLines, Inv, TypeOK
<1>5. file = Render(req[a].new.form)
  BY <1>4 DEF Inv, Progress
<1>6. kept = KeptBy(req[a])
  BY <1>5 DEF KeptBy
<1>7. req' = [req EXCEPT ![a].pc = to, ![a].rendered = file, ![a].kept = kept]
  BY DEF FindHandLines
<1>8. to \in {"update", "keep"} /\ (to = "update" => kept = {})
  OBVIOUS
<1> HIDE DEF kept, to
<1>9. /\ req'[a].pc = to /\ req'[a].rendered = file /\ req'[a].kept = kept
      /\ req'[a].new = req[a].new /\ req'[a].previous = req[a].previous
      /\ req'[a].current = req[a].current
      /\ \A b \in Admins \ {a} : req'[b] = req[b]
  BY <1>4, <1>7 DEF Request
<1>10. KeptBy(req[a])' = KeptBy(req[a])
  BY <1>9 DEF KeptBy, HandLines, Render, Owned
<1>11. Render(req[a].new.form)' = file'
  BY <1>2, <1>5, <1>9 DEF Render
<1>12. Progress(req[a])'
  BY <1>2, <1>6, <1>8, <1>9, <1>10, <1>11 DEF Progress
<1>13. damage = {} => Reading(req[a])'
  BY <1>2, <1>3, <1>4, <1>8, <1>9 DEF Inv, Reading
<1> QED
  BY <1>1, <1>2, <1>4, <1>8, <1>9, <1>12, <1>13, MiddleStep

LEMMA WriteKeptInv == ASSUME Inv, NEW a \in Admins, WriteKept(a) PROVE Inv'
<1>1. TypeOK'
  BY StepType DEF Step, Inv
<1>2. /\ UNCHANGED <<row, typed, cut, damage>>
      /\ file' = req[a].rendered \cup req[a].kept
  BY DEF WriteKept
<1>3. Both' = Both
  BY <1>2 DEF Both, Render
<1>4. /\ req[a].pc = "rewrite" /\ req'[a].pc = "update"
      /\ req'[a].new = req[a].new /\ req'[a].previous = req[a].previous
      /\ req'[a].current = req[a].current
      /\ \A b \in Admins \ {a} : req'[b] = req[b]
  BY GoFacts DEF Inv, WriteKept
<1>5. req[a].rendered = Render(req[a].new.form) /\ req[a].kept = KeptBy(req[a])
  BY <1>4 DEF Inv, Progress
<1>6. KeptBy(req[a])' = KeptBy(req[a]) /\ Render(req[a].new.form)' = Render(req[a].new.form)
  BY <1>4 DEF KeptBy, HandLines, Render, Owned
<1>7. Progress(req[a])'
  BY <1>2, <1>4, <1>5, <1>6 DEF Progress
<1>8. damage = {} => Reading(req[a])'
  BY <1>2, <1>3, <1>4 DEF Inv, Reading
<1> QED
  BY <1>1, <1>2, <1>4, <1>7, <1>8, MiddleStep

LEMMA UpdateRowInv == ASSUME Inv, NEW a \in Admins, UpdateRow(a) PROVE Inv'
<1> DEFINE s == req[a].new.form
           kept == {l \in typed : ~FormSets(s, l)}
<1>1. TypeOK'
  BY StepType DEF Step, Inv
<1>2. req[a].pc = "update" /\ s \in Settings
  BY DEF UpdateRow, Inv, TypeOK, Request, Page
<1>3. /\ row' = s /\ typed' = kept /\ cut' = {} /\ file' = file /\ damage' = damage
      /\ req' = [req EXCEPT ![a] = NoRequest]
  BY DEF UpdateRow, Answer
<1>4. file = Render(s) \cup KeptBy(req[a])
  BY <1>2 DEF Inv, Progress
<1>5. ByHand'
  BY <1>3 DEF ByHand, FormSets, Render
<1>6. file' # {}
  BY <1>2, <1>3, <1>4, RenderNotEmpty
<1>7. ASSUME damage' = {} PROVE file' = Both'
  <2>1. req[a].previous = row /\ req[a].current = Both
    BY <1>2, <1>3, <1>7 DEF Inv, Reading
  <2>2. Render(s) \cup KeptBy(req[a]) = Render(s) \cup kept
    BY <1>2, <2>1, KeptIsTyped DEF Inv
  <2>3. Both' = Render(s) \cup kept
    BY <1>3 DEF Both, Render
  <2> QED
    BY <1>3, <1>4, <2>2, <2>3
<1> QED
  BY <1>1, <1>2, <1>3, <1>5, <1>6, <1>7, LastStep

LEMMA WriteEditedInv == ASSUME Inv, NEW a \in Admins, WriteEdited(a) PROVE Inv'
<1> DEFINE text == req[a].new.text
<1>1. TypeOK'
  BY StepType DEF Step, Inv
<1>2. req[a].pc = "overwrite" /\ text # {}
  BY DEF WriteEdited, Inv, Progress
<1>3. /\ row' = row /\ typed' = text \ Render(row) /\ cut' = Render(row) \ text
      /\ file' = text
      /\ req' = [req EXCEPT ![a] = NoRequest]
  BY DEF WriteEdited, Answer
<1>4. Render(row)' = Render(row)
  BY <1>3 DEF Render
<1>5. ByHand' /\ file' = Both'
  BY <1>3, <1>4 DEF ByHand, Both
<1> QED
  BY <1>1, <1>2, <1>3, <1>5, LastStep

LEMMA FailureInv ==
  ASSUME Inv, NEW a \in Admins, UpdateFails(a) \/ WriteFails(a)
  PROVE  Inv'
<1>1. TypeOK'
  BY StepType DEF Step, Inv
<1>2. /\ UNCHANGED <<row, file, typed>>
      /\ req' = [req EXCEPT ![a] = NoRequest]
      /\ req[a].pc # "idle"
  BY DEF UpdateFails, WriteFails, Answer
<1>3. damage' # {}
  BY DEF UpdateFails, WriteFails, Fails
<1>4. ByHand'
  BY <1>2 DEF Inv, ByHand, Render
<1>5. "write" \notin damage' => file' # {}
  <2>1. CASE UpdateFails(a)
    <3>1. file = Render(req[a].new.form) \cup KeptBy(req[a])
      BY <2>1 DEF UpdateFails, Inv, Progress
    <3>2. req[a].new.form \in Settings
      BY DEF Inv, TypeOK, Request, Page
    <3> QED
      BY <1>2, <3>1, <3>2, RenderNotEmpty
  <2>2. CASE WriteFails(a)
    BY <2>2 DEF WriteFails, Fails
  <2> QED
    BY <2>1, <2>2
<1> QED
  BY <1>1, <1>2, <1>3, <1>4, <1>5, LastStep

LEMMA RestartInv == ASSUME Inv, Restart PROVE Inv'
<1>1. TypeOK'
  BY RestartType DEF Inv
<1>2. \A a \in Admins : req'[a] = NoRequest
  BY DEF Restart
<1>3. \A a \in Admins : req'[a].pc = "idle"
  BY <1>2 DEF NoRequest
<1>4. Alone'
  BY <1>3 DEF Alone
<1>5. (\A a \in Admins : Progress(req[a])') /\ (\A a \in Admins : Reading(req[a])')
  BY <1>3 DEF Progress, Reading
<1>6. ByHand'
  BY DEF Restart, Inv, ByHand, Render
<1>7. damage' # {}
  BY DEF Restart, Fails
<1>8. file' # {}
  BY RenderNotEmpty DEF Restart, Inv, TypeOK
<1> QED
  BY <1>1, <1>4, <1>5, <1>6, <1>7, <1>8 DEF Inv, UsableConfig, FileIsFormAndHand

LEMMA LoadInv == ASSUME Inv, NEW a \in Admins, Load(a) PROVE Inv'
<1>1. TypeOK'
  BY LoadType DEF Inv
<1>2. UNCHANGED <<row, file, req, requests, failures, damage, typed, cut>>
  BY DEF Load
<1> QED
  BY <1>1, <1>2 DEF Inv, Alone, Progress, Reading, KeptBy, HandLines, Both, ByHand, UsableConfig,
     FileIsFormAndHand, Quiet, Busy, Render, Owned

LEMMA NextInv == ASSUME ~Overlap PROVE Inv /\ [Next]_vars => Inv'
<1> SUFFICES ASSUME Inv, [Next]_vars PROVE Inv'
  OBVIOUS
<1>1. CASE Restart
  BY <1>1, RestartInv
<1>2. ASSUME NEW a \in Admins, Load(a) PROVE Inv'
  BY <1>2, LoadInv
<1>3. ASSUME NEW a \in Admins, NEW s \in Settings, Post(a, s) PROVE Inv'
  BY <1>3, PostInv
<1>4. ASSUME NEW a \in Admins, NEW change \in Changes, Edit(a, change) PROVE Inv'
  BY <1>4, EditInv
<1>5. ASSUME NEW a \in Admins, Step(a) PROVE Inv'
  BY <1>5, ReadCurrentInv, TruncateInv, WriteRenderedInv, FindInv, WriteKeptInv,
     UpdateRowInv, WriteEditedInv, FailureInv DEF Step
<1>6. CASE UNCHANGED vars
  <2>1. TypeOK'
    BY <1>6 DEF Inv, TypeOK, vars
  <2> QED
    BY <1>6, <2>1 DEF vars, Inv, Alone, Progress, Reading, KeptBy, HandLines, Both, ByHand,
       UsableConfig, FileIsFormAndHand, Quiet, Busy, Render, Owned
<1> QED
  BY <1>1, <1>2, <1>3, <1>4, <1>5, <1>6 DEF Next

THEOREM InvHolds == ASSUME ~Overlap PROVE Spec => []Inv
<1>1. Init => Inv
  BY InitInv
<1>2. Inv /\ [Next]_vars => Inv'
  BY NextInv
<1> QED
  BY <1>1, <1>2, PTL DEF Spec

\* When requests do not overlap and nothing fails, server.conf is the render of the
\* stored settings and the lines added by hand, after every sequence of saves of
\* the form and of the editor.
THEOREM FileIsFormAndHandHolds == ASSUME ~Overlap PROVE Spec => []FileIsFormAndHand
<1>1. Inv => FileIsFormAndHand
  BY DEF Inv
<1> QED
  BY <1>1, InvHolds, PTL

\* When requests do not overlap, no stop leaves the server without a config.
THEOREM UsableConfigHolds == ASSUME ~Overlap PROVE Spec => []UsableConfig
<1>1. Inv => UsableConfig
  BY DEF Inv
<1> QED
  BY <1>1, InvHolds, PTL

\* When requests do not overlap, settings that are going to be stored are in the
\* file, whatever failed or stopped before.
THEOREM SavedIsInFileHolds == ASSUME ~Overlap PROVE Spec => []SavedIsInFile
<1>1. Inv => SavedIsInFile
  BY DEF Inv, Progress, SavedIsInFile
<1> QED
  BY <1>1, InvHolds, PTL

\* When requests do not overlap, a form that is sent with the mode of the file keeps
\* it, also when another mode is stored.
THEOREM ModeKeptHolds == ASSUME ~Overlap PROVE Spec => []ModeKept
<1>1. Inv => ModeKept
  <2> SUFFICES ASSUME Inv, NEW a \in Admins, req[a].pc = "update",
                      req[a].current \cap TlsLines = {req[a].new.form.tls}
               PROVE  file \cap TlsLines = {req[a].new.form.tls}
    BY DEF ModeKept
  <2>1. file = Render(req[a].new.form) \cup KeptBy(req[a])
    BY DEF Inv, Progress
  <2>2. req[a].new.form \in Settings
    BY DEF Inv, TypeOK, Request, Page
  <2>3. Render(req[a].new.form) \cap TlsLines = {req[a].new.form.tls}
    BY <2>2, LinesAssumption DEF Render, Settings
  <2>4. KeptBy(req[a]) \subseteq req[a].current
    BY DEF KeptBy, HandLines
  <2> QED
    BY <2>1, <2>3, <2>4
<1> QED
  BY <1>1, InvHolds, PTL
==============================================================================
