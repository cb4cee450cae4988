----------------------------- MODULE MCServerConf -----------------------------
(* A small server.conf: a line of the template, the two modes, two custom   *)
(* options, one that pushes something and one that comments a hook out, and *)
(* two lines that only a person adds: another push, and the hook, which     *)
(* belongs to the form while that option is set.                            *)
EXTENDS ServerConf, TLC

CONSTANTS a1, a2, port, crypt, auth, dns, domain, hook, nohook

MCDirective ==
  port :> "port" @@ dns :> "push" @@ domain :> "push"
  @@ crypt :> "tls-crypt" @@ auth :> "tls-auth" @@ hook :> "client-disconnect"
  @@ nohook :> "client-disconnect"

MCDefault == [tls |-> crypt, options |-> {}]
Symmetry  == Permutations({a1, a2})
==============================================================================
