------------------------------ MODULE ServerConf ------------------------------
(***************************************************************************)
(* server.conf and the settings row it is rendered from                    *)
(* (controllers/ovconfig.go, lib/serverconf.go, models/models.go).  Two    *)
(* forms of one page write the file: the settings form renders it from the *)
(* template and appends the lines that were added by hand, which it finds  *)
(* by comparing the file with the render of the former settings; the       *)
(* editor writes back its own copy of the text (static/js/custom.js).      *)
(* Nothing but the order of the steps ties file and row together: the file *)
(* is emptied and written in place, twice when there are lines to keep,    *)
(* and the row is updated last.                                            *)
(*                                                                         *)
(* A text is the set of its lines.  Comments are left out, except for the  *)
(* directives with a # right before them: one that a setting holds belongs *)
(* to the form, as if it were active, and one in the file is never kept.   *)
(***************************************************************************)
EXTENDS Naturals, FiniteSets

CONSTANTS
  Admins,      \* browsers with the page open
  Lines,       \* lines
  Directive,   \* Directive[l]: what line l begins with, after its # if it has one
  Muted,       \* the lines #directive ...
  Repeatable,  \* repeatableDirectives
  TlsLines,    \* the lines tls-crypt ... and tls-auth ...
  Options,     \* the lines of the three custom options
  Fixed,       \* what every render holds
  Default,     \* the settings of a new installation
  Overlap,     \* are requests served at the same time?
  MaxRequests, \* bound on the requests
  MaxChanges,  \* bound on the lines changed in the editor at once
  MaxFailures  \* bound on failing writes and restarts

Settings == [tls : TlsLines, options : SUBSET Options]

ASSUME LinesAssumption ==
  /\ TlsLines \subseteq Lines
  /\ Muted \subseteq Lines \ TlsLines
  /\ Options \subseteq Lines \ TlsLines
  /\ Fixed \subseteq Lines \ TlsLines
  /\ Fixed # {}
  /\ Default \in Settings
  /\ Overlap \in BOOLEAN
  /\ MaxRequests \in Nat
  /\ MaxChanges \in Nat
  /\ MaxFailures \in Nat

VARIABLES
  row,       \* o_v_config: the stored settings
  file,      \* server.conf; no lines at all is an empty file
  page,      \* what each browser shows
  req,       \* the request of each browser
  requests,  \* requests so far
  failures,  \* failures so far
  damage,    \* history: what went wrong so far
  typed,     \* history: lines added by hand that the form does not set
  cut        \* history: lines of the form that were removed by hand

vars == <<row, file, page, req, requests, failures, damage, typed, cut>>

Page == [form : Settings, text : SUBSET Lines]

\* Local variables of Post and saveServerConfig; those of Edit are new.text.
Request ==
  [pc : {"idle", "read", "render", "write", "reread", "keep", "rewrite",
         "update", "edit", "overwrite"},
   new : Page, previous : Settings, current : SUBSET Lines,
   rendered : SUBSET Lines, kept : SUBSET Lines]

-----------------------------------------------------------------------------
(* Rendering, and the lines to keep.                                       *)

Render(s) == Fixed \cup {s.tls} \cup s.options

\* The directives a rendered text owns, commented out or not.
Owned(text) == {Directive[l] : l \in text}

\* Mutant of the next definition: the former render is not looked at.
HandLinesOfFile(rendered, previous, current) ==
  {l \in current \ (rendered \cup Muted) : Directive[l] \in Owned(rendered) => Directive[l] \in Repeatable}

HandLines(rendered, previous, current) ==
  {l \in current \ (rendered \cup previous \cup Muted) :
     Directive[l] \in Owned(rendered) => Directive[l] \in Repeatable}

\* Mutant of the next definition: the first line is taken, whatever it sets.
ShownFirstLine(text) == {[row EXCEPT !.tls = l] : l \in text}

\* Get: the stored settings, with a TLS line of the file if it has one.
Shown(text) ==
  IF text \cap TlsLines = {} THEN {row}
  ELSE {[row EXCEPT !.tls = l] : l \in text \cap TlsLines}

NoRequest == [pc |-> "idle", new |-> [form |-> Default, text |-> {}],
              previous |-> Default, current |-> {}, rendered |-> {}, kept |-> {}]

Busy  == {a \in Admins : req[a].pc # "idle"}
Quiet == Busy = {}

Init ==
  /\ row = Default
  /\ file = Render(Default)
  /\ page = [a \in Admins |-> [form |-> Default, text |-> Render(Default)]]
  /\ req = [a \in Admins |-> NoRequest]
  /\ requests = 0
  /\ failures = 0
  /\ damage = {}
  /\ typed = {}
  /\ cut = {}

Go(a, from, to) == /\ req[a].pc = from
                   /\ req' = [req EXCEPT ![a].pc = to]

\* The answer is the page again: the form as it was sent, never with the TLS line
\* of the file, and the file if it was read.
Answer(a, text) ==
  /\ req' = [req EXCEPT ![a] = NoRequest]
  /\ page' = [page EXCEPT ![a] = [form |-> req[a].new.form, text |-> text]]

Fails(what) == /\ failures < MaxFailures
               /\ failures' = failures + 1
               /\ damage' = damage \cup {what}

-----------------------------------------------------------------------------
(* The page.                                                               *)

Load(a) ==
  /\ Overlap \/ Quiet
  /\ \E s \in Shown(file) : page' = [page EXCEPT ![a] = [form |-> s, text |-> file]]
  /\ UNCHANGED <<row, file, req, requests, failures, damage, typed, cut>>

\* One of the two forms is sent.  The stored settings are read, and the fields of
\* the form put over them.
Send(a, first, new) ==
  /\ req[a].pc = "idle"
  /\ Overlap \/ Quiet
  /\ requests < MaxRequests
  /\ requests' = requests + 1
  /\ req' = [req EXCEPT ![a] = [NoRequest EXCEPT !.pc = first, !.new = new,
                                                 !.previous = row]]
  /\ UNCHANGED <<row, file, page, failures, damage, typed, cut>>

-----------------------------------------------------------------------------
(* Saving the settings form.                                               *)

Post(a, s) == Send(a, "read", [form |-> s, text |-> {}])

ReadCurrent(a) ==
  /\ req[a].pc = "read"
  /\ req' = [req EXCEPT ![a].pc = "render", ![a].current = file]
  /\ UNCHANGED <<row, file, page, requests, failures, damage, typed, cut>>

\* SaveToFile and WritePrivateFile empty the file and write it: two steps.
Truncate(a) ==
  /\ \/ Go(a, "render", "write")
     \/ Go(a, "keep", "rewrite")
     \/ Go(a, "edit", "overwrite")
  /\ file' = {}
  /\ UNCHANGED <<row, page, requests, failures, damage, typed, cut>>

\* Mutant of the next definition: the stored settings are rendered once more.
WriteFormer(a) ==
  /\ Go(a, "write", "reread")
  /\ file' = Render(req[a].previous)
  /\ UNCHANGED <<row, page, requests, failures, damage, typed, cut>>

WriteRendered(a) ==
  /\ Go(a, "write", "reread")
  /\ file' = Render(req[a].new.form)
  /\ UNCHANGED <<row, page, requests, failures, damage, typed, cut>>

FindHandLines(a) ==
  LET kept == HandLines(file, Render(req[a].previous), req[a].current)
  IN  /\ req[a].pc = "reread"
      /\ req' = [req EXCEPT ![a].pc = IF kept = {} THEN "update" ELSE "keep",
                            ![a].rendered = file, ![a].kept = kept]
      /\ UNCHANGED <<row, file, page, requests, failures, damage, typed, cut>>

\* Mutant of the next definition: only the kept lines are written.
WriteKeptOnly(a) ==
  /\ Go(a, "rewrite", "update")
  /\ file' = req[a].kept
  /\ UNCHANGED <<row, page, requests, failures, damage, typed, cut>>

WriteKept(a) ==
  /\ Go(a, "rewrite", "update")
  /\ file' = req[a].rendered \cup req[a].kept
  /\ UNCHANGED <<row, page, requests, failures, damage, typed, cut>>

\* The form now sets what it sets, and comments are dropped; lines of other directives
\* remain by hand.
FormSets(s, l) ==
  \/ l \in Render(s) \cup Muted
  \/ Directive[l] \in Owned(Render(s)) \ Repeatable

UpdateRow(a) ==
  LET s == req[a].new.form
  IN  /\ req[a].pc = "update"
      /\ row' = s
      /\ Answer(a, file)
      /\ typed' = {l \in typed : ~FormSets(s, l)}
      /\ cut' = {}
      /\ UNCHANGED <<file, requests, failures, damage>>

\* The row cannot be updated: the file keeps the new settings.
UpdateFails(a) ==
  /\ req[a].pc = "update"
  /\ Fails("update")
  /\ Answer(a, file)
  /\ UNCHANGED <<row, file, requests, typed, cut>>

-----------------------------------------------------------------------------
(* Saving the editor.                                                      *)

Changes == {c \in SUBSET Lines : Cardinality(c) <= MaxChanges}

\* The editor's copy with some lines added or removed; nobody empties the file,
\* or writes both modes into it.  This form has no field of the settings.
Edit(a, change) ==
  LET text == (page[a].text \ change) \cup (change \ page[a].text)
  IN  /\ text # {}
      /\ Cardinality(text \cap TlsLines) <= 1
      /\ Send(a, "edit", [form |-> row, text |-> text])

WriteEdited(a) ==
  LET text == req[a].new.text
  IN  /\ req[a].pc = "overwrite"
      /\ file' = text
      /\ Answer(a, text)
      /\ typed' = text \ Render(row)
      /\ cut' = Render(row) \ text
      /\ UNCHANGED <<row, requests, failures, damage>>

-----------------------------------------------------------------------------
(* What goes wrong.                                                        *)

\* A write fails after the file was emptied: the request gives up, and the page
\* comes back with an empty editor.
WriteFails(a) ==
  /\ req[a].pc \in {"write", "rewrite", "overwrite"}
  /\ Fails("write")
  /\ Answer(a, {})
  /\ UNCHANGED <<row, file, requests, typed, cut>>

\* Mutant of the next definition: an existing file is left as it is.
RestartWithFile ==
  /\ Busy # {} \/ file = {}
  /\ Fails("stop")
  /\ req' = [a \in Admins |-> NoRequest]
  /\ UNCHANGED <<row, file, page, requests, typed, cut>>

\* The process is stopped and started again.  CreateDefaultOVConfig renders the
\* stored settings if the file is empty.
Restart ==
  /\ Busy # {} \/ file = {}
  /\ Fails("stop")
  /\ req' = [a \in Admins |-> NoRequest]
  /\ file' = IF file = {} THEN Render(row) ELSE file
  /\ UNCHANGED <<row, page, requests, typed, cut>>

Step(a) ==
  \/ ReadCurrent(a)
  \/ Truncate(a)
  \/ WriteRendered(a)
  \/ FindHandLines(a)
  \/ WriteKept(a)
  \/ UpdateRow(a)
  \/ UpdateFails(a)
  \/ WriteEdited(a)
  \/ WriteFails(a)

Next ==
  \/ \E a \in Admins :
       \/ Load(a)
       \/ \E s \in Settings : Post(a, s)
       \/ \E change \in Changes : Edit(a, change)
       \/ Step(a)
  \/ Restart

Spec == Init /\ [][Next]_vars

-----------------------------------------------------------------------------
(* Properties.                                                             *)

TypeOK ==
  /\ row \in Settings
  /\ file \subseteq Lines
  /\ page \in [Admins -> Page]
  /\ req \in [Admins -> Request]
  /\ requests \in 0 .. MaxRequests
  /\ failures \in 0 .. MaxFailures
  /\ damage \subseteq {"update", "write", "stop"}
  /\ typed \subseteq Lines
  /\ cut \subseteq Lines

\* When nothing is under way and nothing failed, the file holds the stored
\* settings and the lines added by hand, and nothing else: a save of the form
\* neither loses a line nor turns a line of the former settings into one added
\* by hand, whatever was saved by whom from however old a page.
FileIsFormAndHand ==
  Quiet /\ damage = {} => file = (Render(row) \ cut) \cup typed

\* A form that is sent with the mode of the file keeps it, although the row may
\* have the other one.
ModeKept ==
  \A a \in Admins :
    /\ req[a].pc = "update"
    /\ req[a].current \cap TlsLines = {req[a].new.form.tls}
    => file \cap TlsLines = {req[a].new.form.tls}

\* Whatever failed or stopped before, the settings that are going to be stored
\* are in the file.
SavedIsInFile ==
  \A a \in Admins :
    req[a].pc = "update" => Render(req[a].new.form) \subseteq file

\* The server always finds a config: a stop between the emptying and the writing
\* of the file is repaired at the next start.
UsableConfig ==
  Quiet /\ "write" \notin damage => file # {}

\* README.md:1138: the mode is chosen in the form or set in the file, and
\* controllers/ovconfig.go:45: saving must not change it by accident.  The server
\* refuses a config with both.
OneTlsMode ==
  Quiet /\ damage = {} => Cardinality(file \cap TlsLines) <= 1
==============================================================================
