------------------------ MODULE ActivationInvariants ------------------------
(***************************************************************************)
(* The inductive invariants behind the safety properties of                *)
(* ActivationSystem.  TLC checks them on small instances, and              *)
(* ActivationSystemProofs proves them for all.                             *)
(***************************************************************************)
EXTENDS ActivationSystem

-----------------------------------------------------------------------------
(* Types.  TypeOK alone is not inductive: what a helper makes live is a     *)
(* closure because the request it works on was validated.                   *)

\* A helper under way has a valid request, and from the host check on the
\* baseline it would restore is the boot default.
HelperLocals ==
  \A h \in Helpers : pc[h] # "idle" =>
    /\ req[h] \in Request
    /\ CanonicalPlan(Prepared[req[h]].plan)
    /\ pc[h] \in {"readPermit", "removePermit", "syncPermits", "inspectHost"}
         \/ before[h] = BootDefault

\* An issuer under way has a request, and from create on a file.
IssuerLocals ==
  \A i \in Issuers : issuerPc[i] # "idle" =>
    /\ asked[i] \in Request
    /\ issuerPc[i] \in {"check", "create"} \/ created[i] \in Files

TypeInv == TypeOK /\ HelperLocals /\ IssuerLocals

-----------------------------------------------------------------------------
(* The execution ledger.                                                    *)

\* Between winning create_new and starting the command.
Armed == {"syncReceipt", "spawn"}

\* Each authorization has one winner, whose command has not started yet or is
\* the one that did; what the winner relies on no power loss takes away
\* (consume_once, then run).
LedgerInv ==
  /\ \A a \in Authorizations : receipt[a] \in receiptDisk[a]
  /\ \A h \in Helpers : pc[h] \in Armed =>
       /\ receipt[AuthOf(h)]
       /\ \A r \in Request : runs[r] > 0 => Authorization(r) # AuthOf(h)
  /\ \A h \in Helpers : pc[h] = "spawn" => receiptDisk[AuthOf(h)] = {TRUE}
  /\ \A h, k \in Helpers :
       (h # k /\ pc[h] \in Armed /\ pc[k] \in Armed) => AuthOf(h) # AuthOf(k)
  /\ ReceiptBeforeRun
  /\ AtMostOneRun

-----------------------------------------------------------------------------
(* Approval, handed from polkit to the grant, the file and the helper.      *)

Permitted ==
  {"removePermit", "syncPermits", "inspectHost", "createReceipt", "syncReceipt", "spawn"}

\* Whoever can lead a request to its command holds something that polkit
\* approved when the request was in time: an issuer past its checks, a written
\* permit, a helper that compared one (issue and consume_matching).
ApprovalInv ==
  /\ grants \subseteq approvals
  /\ \A i \in Issuers : issuerPc[i] \notin {"idle", "check"} => WasApproved(asked[i])
  /\ \A f \in Files : text[f] \in Request => WasApproved(text[f])
  /\ \A h \in Helpers : pc[h] \in Permitted => WasApproved(req[h])
  /\ RunsWereApproved

-----------------------------------------------------------------------------
(* Permit files.                                                            *)

\* A file bears one authorization's name, in memory and on every disk a power
\* loss may leave, and a consumed one bears none.
NamesAgree ==
  /\ \A a \in Authorizations : entry[a] \in onDisk[a] /\ entry[a] \notin removed
  /\ \A a, b \in Authorizations : a # b => onDisk[a] \cap onDisk[b] \subseteq {NoFile}
  /\ \A a \in Authorizations : \A f \in onDisk[a] \ {NoFile} :
       /\ text[f] # Free
       /\ text[f] \in Request => Authorization(text[f]) = a
  /\ \A f \in removed : text[f] # Free
  /\ spent \subseteq removed
  /\ \A a \in Authorizations : onDisk[a] \cap spent = {}

Holding == {"write", "flush", "inspect", "sync", "cleanup"}

\* What an issuer created is not reported yet, still bears its authorization's
\* name and no other, unless somebody unlinked it, and keeps what was done to it.
OwnFile(i) ==
  /\ created[i] \notin reported
  /\ text[created[i]] # Free
  /\ created[i] \in removed \/ entry[Authorization(asked[i])] = created[i]
  /\ \A a \in Authorizations : created[i] \in onDisk[a] => a = Authorization(asked[i])
  /\ issuerPc[i] \in {"flush", "inspect", "sync"} => text[created[i]] = asked[i]
  /\ issuerPc[i] \in {"inspect", "sync"} => created[i] \in flushed

CreatedFiles ==
  /\ \A i \in Issuers : issuerPc[i] \in Holding => OwnFile(i)
  /\ \A i, j \in Issuers :
       (i # j /\ issuerPc[i] \in Holding /\ issuerPc[j] \in Holding) => created[i] # created[j]
  /\ \A f \in reported : f \in flushed /\ text[f] \in Request

\* With these, neither a crash nor another issuer of the same name takes away a
\* permit that was reported, or brings back one that was consumed.
PermitInv ==
  /\ NamesAgree
  /\ CreatedFiles
  /\ IssuedPermitSurvives
  /\ ConsumedStaysConsumed

-----------------------------------------------------------------------------
(* Which permit a helper used up.                                           *)

\* The permit a helper compared is still at its path or was removed, then it was
\* removed, then for good: whatever was removed in its place.  No issuer is
\* about to write a file that is complete.
ConsumptionInv ==
  /\ \A i \in Issuers : issuerPc[i] = "write" => text[created[i]] = Torn
  /\ \A h \in Helpers :
       /\ pc[h] = "removePermit" =>
            \E f \in Files : /\ IsPermitFor(f, req[h])
                             /\ f = entry[AuthOf(h)] \/ f \in removed
       /\ pc[h] = "syncPermits" => \E f \in removed : IsPermitFor(f, req[h])
       /\ pc[h] \in {"inspectHost", "createReceipt", "syncReceipt", "spawn"} =>
            \E f \in spent : IsPermitFor(f, req[h])

\* Between its comparison of the permit and the removal a helper is alone with
\* the name: no other one removes it and no issuer that holds a file under it is
\* at work.  It is what a lock around consume_matching and issue would provide.
SeparateRemovals ==
  \A h \in Helpers : pc[h] = "removePermit" =>
    /\ \A k \in Helpers \ {h} : pc[k] = "removePermit" => AuthOf(k) # AuthOf(h)
    /\ \A i \in Issuers : issuerPc[i] \in Holding => Authorization(asked[i]) # AuthOf(h)

ComparedInv == \A h \in Helpers : pc[h] = "removePermit" => HoldsPermitFor(req[h])

-----------------------------------------------------------------------------
(* Effects.                                                                 *)

\* A switch program that runs for a candidate, watched or orphaned, is one
\* whose start was counted (only StartCandidate spawns it).
StartedInv ==
  \A h \in Helpers : pc[h] \in {"running", "orphan"} => runs[req[h]] > 0

-----------------------------------------------------------------------------
(* One invocation at a time.                                                *)

\* The part of an invocation that deals with the host, once it has looked at it.
OnHost ==
  HelperSteps \ {"idle", "readPermit", "removePermit", "syncPermits", "inspectHost"}

\* At most one helper deals with the host, its orphaned command included.
\* Nothing in the code sees to that: it is what a lock that is held from the
\* look at the host to the answer would provide, and what a lone helper has.
OneAtATime == \A h, k \in Helpers : (pc[h] \in OnHost /\ pc[k] \in OnHost) => h = k

\* From its check of the host to its command, and from its check of a rollback
\* to its answer, an invocation relies on what it saw.
ReliesOnBaseline == {"createReceipt", "syncReceipt", "spawn", "readFinal"}

SerialInv == \A h \in Helpers : pc[h] \in ReliesOnBaseline => current = BootDefault
=============================================================================
