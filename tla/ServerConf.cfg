CONSTANTS
  a1 = a1
  a2 = a2
  port = port
  crypt = crypt
  auth = auth
  dns = dns
  domain = domain
  hook = hook
  nohook = nohook
  Admins = {a1, a2}
  Lines = {port, crypt, auth, dns, domain, hook, nohook}
  Directive <- MCDirective
  Repeatable = {"push", "route", "iroute", "setenv"}
  TlsLines = {crypt, auth}
  Options = {dns, nohook}
  Fixed = {port}
  Muted = {nohook}
  Default <- MCDefault
  Overlap = FALSE
  MaxRequests = 3
  MaxChanges = 2
  MaxFailures = 1
SPECIFICATION Spec
SYMMETRY Symmetry
INVARIANTS TypeOK FileIsFormAndHand ModeKept SavedIsInFile UsableConfig
CHECK_DEADLOCK FALSE
