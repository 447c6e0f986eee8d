---------------------------- MODULE PermitIssuer ----------------------------
(***************************************************************************)
(* blob-nix-nixos-authority: polkit is asked about an exact request, and   *)
(* a grant lets the issuer write the permit file for that request.         *)
(*                                                                         *)
(* Each issuer is one thread of the authority service.  A check blocks on  *)
(* the user, so its time is the time before the user answered.  A grant is *)
(* a value: it can be used again while it is fresh.                        *)
(***************************************************************************)
EXTENDS PreparedActivation, PermitDirectory

CONSTANTS
  Issuers,        \* threads that check with polkit and issue permits
  MaxGrantAge     \* max_grant_age_ms

ASSUME IssuerAssumption == MaxGrantAge \in Nat

VARIABLES
  issuerPc,   \* what each issuer does next
  asked,      \* the request each issuer works on
  askedAt,    \* the time the issuer took when its current call began
  created,    \* the file the issuer created in this call
  grants,     \* the grants the service holds: the request and the time of the check
  approvals,  \* history: every grant polkit ever gave
  reported    \* history: the files whose issuance was reported as done

issuerVars == <<issuerPc, asked, askedAt, created, grants, approvals, reported>>

IssuerSteps == {"idle", "check", "create", "write", "flush", "inspect", "sync", "cleanup"}
Grants      == [request : Request, checkedAt : Nat]

IssuerTypeOK ==
  /\ issuerPc  \in [Issuers -> IssuerSteps]
  /\ asked     \in [Issuers -> Request \cup {NoRequest}]
  /\ askedAt   \in [Issuers -> Nat]
  /\ created   \in [Issuers -> Files \cup {NoFile}]
  /\ grants    \in SUBSET Grants
  /\ approvals \in SUBSET Grants
  /\ reported  \in SUBSET Files

IssuerInit ==
  /\ issuerPc  = [i \in Issuers |-> "idle"]
  /\ asked     = [i \in Issuers |-> NoRequest]
  /\ askedAt   = [i \in Issuers |-> 0]
  /\ created   = [i \in Issuers |-> NoFile]
  /\ grants    = {}
  /\ approvals = {}
  /\ reported  = {}

-----------------------------------------------------------------------------
(* Parts of actions.                                                        *)

IssuerGoes(i, from, to) ==
  /\ issuerPc[i] = from
  /\ issuerPc' = [issuerPc EXCEPT ![i] = to]
  /\ UNCHANGED <<clock, asked, askedAt, grants, approvals>>

\* The call returns and its locals are gone.
IssuerReturns(i) ==
  /\ issuerPc' = [issuerPc EXCEPT ![i] = "idle"]
  /\ asked'    = [asked    EXCEPT ![i] = NoRequest]
  /\ askedAt'  = [askedAt  EXCEPT ![i] = 0]
  /\ created'  = [created  EXCEPT ![i] = NoFile]
  /\ UNCHANGED clock

\* A call on request r begins; the caller passes the time it read just before.
IssuerBegins(i, r, step) ==
  /\ issuerPc[i] = "idle"
  /\ issuerPc' = [issuerPc EXCEPT ![i] = step]
  /\ asked'    = [asked    EXCEPT ![i] = r]
  /\ askedAt'  = [askedAt  EXCEPT ![i] = clock]
  /\ UNCHANGED <<clock, created, grants, approvals, reported>>
  /\ UNCHANGED dirVars

-----------------------------------------------------------------------------
(* check_user_initiated: pkcheck runs until the user has answered.          *)

BeginCheck(i, r) ==
  /\ Prepared[r].plan.action \in SupportedActions
  /\ IssuerBegins(i, r, "check")

PolkitApproves(i) ==
  LET grant == [request |-> asked[i], checkedAt |-> askedAt[i]] IN
  /\ issuerPc[i] = "check"
  /\ grants'    = grants \cup {grant}
  /\ approvals' = approvals \cup {grant}
  /\ IssuerReturns(i)
  /\ UNCHANGED reported
  /\ UNCHANGED dirVars

\* Denied, no agent, dismissed, another exit code, or pkcheck did not start.
PolkitRefuses(i) ==
  /\ issuerPc[i] = "check"
  /\ IssuerReturns(i)
  /\ UNCHANGED <<grants, approvals, reported>>
  /\ UNCHANGED dirVars

-----------------------------------------------------------------------------
(* issue: every check comes before the file is created.                     *)

\* Mutant: a grant from before the preparation is accepted.
GrantCoversFromBefore(r, g, now) ==
  /\ ValidatePrepared(Prepared[r], now)
  /\ g.checkedAt <= now
  /\ now - g.checkedAt <= MaxGrantAge
  /\ PermitText(Prepared[g.request]) = PermitText(Prepared[r])

GrantCovers(r, g, now) ==
  /\ ValidatePrepared(Prepared[r], now)
  /\ Prepared[r].preparedAt <= g.checkedAt
  /\ g.checkedAt <= now
  /\ now - g.checkedAt <= MaxGrantAge
  /\ Prepared[g.request].plan.action = Prepared[r].plan.action
  /\ PermitText(Prepared[g.request]) = PermitText(Prepared[r])

BeginIssue(i, r) ==
  /\ \E g \in grants : GrantCovers(r, g, clock)
  /\ \E f \in Files : text[f] = Free   \* bound: MaxFiles
  /\ IssuerBegins(i, r, "create")

CreatePermit(i) ==
  \E f \in Files :
    /\ IssuerGoes(i, "create", "write")
    /\ CreateNew(Authorization(asked[i]), f)
    /\ created' = [created EXCEPT ![i] = f]
    /\ UNCHANGED reported

AlreadyIssued(i) ==
  /\ issuerPc[i] = "create"
  /\ entry[Authorization(asked[i])] # NoFile
  /\ IssuerReturns(i)
  /\ UNCHANGED <<grants, approvals, reported>>
  /\ UNCHANGED dirVars

WritePermit(i) ==
  /\ IssuerGoes(i, "write", "flush")
  /\ WriteText(created[i], asked[i])
  /\ UNCHANGED <<created, reported>>

\* Mutant: the file is not flushed before success can be reported.
SkipFlush(i) ==
  /\ IssuerGoes(i, "flush", "inspect")
  /\ UNCHANGED <<created, reported>>
  /\ UNCHANGED dirVars

FlushPermit(i) ==
  /\ IssuerGoes(i, "flush", "inspect")
  /\ FlushFile(created[i])
  /\ UNCHANGED <<created, reported>>

\* The metadata of whatever file has the name now is what was asked for.
InspectPermit(i) ==
  /\ IssuerGoes(i, "inspect", "sync")
  /\ entry[Authorization(asked[i])] # NoFile
  /\ UNCHANGED <<created, reported>>
  /\ UNCHANGED dirVars

SyncPermit(i) ==
  /\ issuerPc[i] = "sync"
  /\ SyncDirectory
  /\ reported' = reported \cup {created[i]}
  /\ IssuerReturns(i)
  /\ UNCHANGED <<grants, approvals>>

\* An error after which issue removes the path again: a failed write or
\* fsync, or metadata that is not that of a fresh root-owned file.
IssueGoesWrong(i) ==
  /\ \E step \in {"write", "flush", "inspect"} : IssuerGoes(i, step, "cleanup")
  /\ UNCHANGED <<created, reported>>
  /\ UNCHANGED dirVars

\* Best effort: the result of remove_file is dropped.
CleanUp(i) ==
  /\ issuerPc[i] = "cleanup"
  /\ Unlink(Authorization(asked[i])) \/ UNCHANGED dirVars
  /\ IssuerReturns(i)
  /\ UNCHANGED <<grants, approvals, reported>>

\* An error that returns at once: the file cannot be created, its metadata
\* cannot be read, or the directory cannot be synced.
IssueFails(i) ==
  /\ issuerPc[i] \in {"create", "inspect", "sync"}
  /\ IssuerReturns(i)
  /\ UNCHANGED <<grants, approvals, reported>>
  /\ UNCHANGED dirVars

\* The service is killed in the middle of a call.
KillIssuer(i) ==
  /\ issuerPc[i] # "idle"
  /\ IssuerReturns(i)
  /\ UNCHANGED <<grants, approvals, reported>>
  /\ UNCHANGED dirVars

IssuerStep(i) ==
  \/ \E r \in Request : BeginCheck(i, r)
  \/ PolkitApproves(i)
  \/ PolkitRefuses(i)
  \/ \E r \in Request : BeginIssue(i, r)
  \/ CreatePermit(i)
  \/ AlreadyIssued(i)
  \/ WritePermit(i)
  \/ FlushPermit(i)
  \/ InspectPermit(i)
  \/ SyncPermit(i)
  \/ IssueGoesWrong(i)
  \/ CleanUp(i)
  \/ IssueFails(i)
  \/ KillIssuer(i)

\* A reboot ends every call and forgets every grant.
RebootIssuers ==
  /\ issuerPc' = [i \in Issuers |-> "idle"]
  /\ asked'    = [i \in Issuers |-> NoRequest]
  /\ askedAt'  = [i \in Issuers |-> 0]
  /\ created'  = [i \in Issuers |-> NoFile]
  /\ grants'   = {}
  /\ UNCHANGED <<approvals, reported>>
=============================================================================
