------------------------- MODULE SingleUseAuthority -------------------------
(***************************************************************************)
(* What the privileged side promises, with no processes, files or crashes: *)
(* an authorization that was approved for an exact text is spent for ever, *)
(* then starts one command at most, and only commands that were started    *)
(* change what is live, away from the boot default.                        *)
(***************************************************************************)
CONSTANTS
  Request,      \* the requests in play
  AuthorizationOf, \* the authorization of each request
  TextOf,       \* what polkit shows for each request
  ClosureOf,    \* the closure each request would make live
  BootDefault   \* the closure a reboot makes live

VARIABLES
  approved,  \* the requests polkit approved
  spent,     \* the authorizations that are spent for good
  started,   \* the requests whose command was started
  live       \* the live closure

vars == <<approved, spent, started, live>>

Init ==
  /\ approved = {}
  /\ spent    = {}
  /\ started  = {}
  /\ live     = BootDefault

Approve(r) ==
  /\ approved' = approved \cup {r}
  /\ UNCHANGED <<spent, started, live>>

\* Receipts become durable in groups, and do not become undone.
Spend ==
  /\ spent \subseteq spent'
  /\ spent' \subseteq {AuthorizationOf[r] : r \in Request}
  /\ UNCHANGED <<approved, started, live>>

Start(r) ==
  /\ AuthorizationOf[r] \in spent
  /\ \A s \in started : AuthorizationOf[s] # AuthorizationOf[r]
  /\ \E q \in approved : TextOf[q] = TextOf[r]
  /\ started' = started \cup {r}
  /\ UNCHANGED <<approved, spent, live>>

\* The command of a started request has its effect.
TakeEffect(r) ==
  /\ r \in started
  /\ live' = ClosureOf[r]
  /\ UNCHANGED <<approved, spent, started>>

\* A rollback or a reboot; a power loss may find more receipts on disk than
\* were known to be there.
Restore ==
  /\ live' = BootDefault
  /\ spent \subseteq spent'
  /\ spent' \subseteq {AuthorizationOf[r] : r \in Request}
  /\ UNCHANGED <<approved, started>>

Next ==
  \/ \E r \in Request : Approve(r) \/ Start(r) \/ TakeEffect(r)
  \/ Spend
  \/ Restore

Spec == Init /\ [][Next]_vars
=============================================================================
