---------------------------- MODULE PermitProofs ----------------------------
(***************************************************************************)
(* Proofs about the permit files of ActivationSystem, for any number of    *)
(* issuers that race for one name, of helpers, files and power losses.     *)
(***************************************************************************)
EXTENDS ActivationSystemProofs

\* The directory starts empty.
LEMMA InitHasPermits == Init => PermitInv
BY DEF Init, DirInit, IssuerInit, BoundaryInit, PermitInv, NamesAgree, CreatedFiles, Holding,
       IssuedPermitSurvives, ConsumedStaysConsumed, NoFile

\* A step that leaves the files and the reports alone, and after which no
\* issuer claims more of its file, keeps the invariant.
LEMMA QuietForPermits ==
  ASSUME PermitInv, UNCHANGED <<dirVars, reported, spent>>,
         \A i \in Issuers : issuerPc'[i] \in Holding =>
           /\ issuerPc[i] \in Holding /\ created'[i] = created[i] /\ asked'[i] = asked[i]
           /\ issuerPc'[i] \in {"flush", "inspect", "sync"} =>
                issuerPc[i] \in {"flush", "inspect", "sync"}
           /\ issuerPc'[i] \in {"inspect", "sync"} => created[i] \in flushed
  PROVE  PermitInv'
<1> USE DEF PermitInv, dirVars
<1>1. NamesAgree'
  BY DEF NamesAgree
<1>2. IssuedPermitSurvives' /\ ConsumedStaysConsumed'
  BY DEF IssuedPermitSurvives, ConsumedStaysConsumed
<1>3. \A i \in Issuers : issuerPc'[i] \in Holding => OwnFile(i)'
  BY DEF CreatedFiles, OwnFile
<1>4. CreatedFiles'
  BY <1>3 DEF CreatedFiles
<1> QED  BY <1>1, <1>2, <1>4

\* Nothing disturbs the files but the operations of PermitDirectory.
LEMMA NewFileKeepsPermits ==
  ASSUME TypeInv, PermitInv, NEW i \in Issuers, CreatePermit(i),
         UNCHANGED spent
  PROVE  PermitInv'
<1> USE DirectoryAssumption DEF TypeInv, TypeOK, DirTypeOK, IssuerTypeOK, PermitInv, NoFile
<1> DEFINE a == Authorization(asked[i])
<1>1. PICK f \in Files :
        /\ issuerPc[i] = "create" /\ issuerPc' = [issuerPc EXCEPT ![i] = "write"]
        /\ UNCHANGED <<asked, reported, flushed, removed>>
        /\ entry[a] = NoFile /\ text[f] = Free
        /\ entry' = [entry EXCEPT ![a] = f]
        /\ onDisk' = [onDisk EXCEPT ![a] = @ \cup {f}]
        /\ text' = [text EXCEPT ![f] = Torn]
        /\ created' = [created EXCEPT ![i] = f]
  BY DEF CreatePermit, IssuerGoes, CreateNew
<1>2. a \in Authorizations /\ asked[i] \in Request
  BY <1>1, AuthorizationIn DEF IssuerLocals
<1>3. f # 0 /\ f \notin removed /\ f \notin reported /\ f \notin spent
  BY <1>1 DEF NamesAgree, CreatedFiles, Files
<1>4. \A b \in Authorizations : f \notin onDisk[b]
  BY <1>1, <1>3 DEF NamesAgree
<1> HIDE DEF a
<1>5. NamesAgree'
  BY <1>1, <1>2, <1>3, <1>4 DEF NamesAgree
<1>6. ConsumedStaysConsumed'
  BY <1>1, <1>2, <1>3 DEF ConsumedStaysConsumed
<1>7. \A g \in reported \ removed : Authorization(text[g]) # a
  <2>1. 0 \in onDisk[a]
    BY <1>1, <1>2 DEF NamesAgree
  <2>2. \A g \in reported : g # 0
    BY DEF Files
  <2>3. \A g \in reported \ removed : onDisk[Authorization(text[g])] = {g}
    BY DEF IssuedPermitSurvives
  <2> QED  BY <2>1, <2>2, <2>3
<1>8. IssuedPermitSurvives'
  <2> SUFFICES ASSUME NEW g \in reported \ removed
               PROVE  /\ g \in flushed' /\ text'[g] \in Request
                      /\ onDisk'[Authorization(text'[g])] = {g}
    BY <1>1 DEF IssuedPermitSurvives
  <2>1. text'[g] = text[g] /\ text[g] \in Request /\ g \in Files
    BY <1>1, <1>3 DEF IssuedPermitSurvives
  <2>2. onDisk'[Authorization(text[g])] = onDisk[Authorization(text[g])]
    BY <1>1, <1>7, <2>1, AuthorizationIn
  <2> QED  BY <1>1, <2>1, <2>2 DEF IssuedPermitSurvives
<1>9. \A k \in Issuers : issuerPc[k] \in Holding => created[k] # f /\ created[k] \in Files
  BY <1>1 DEF CreatedFiles, OwnFile, IssuerLocals, Holding
<1>10. ASSUME NEW k \in Issuers, issuerPc'[k] \in Holding
       PROVE  OwnFile(k)'
  <2>1. CASE k = i
    BY <1>1, <1>2, <1>3, <1>4, <2>1 DEF OwnFile, a
  <2>2. CASE k # i
    <3>1. issuerPc[k] \in Holding /\ OwnFile(k) /\ created'[k] = created[k] /\ issuerPc'[k] = issuerPc[k]
      BY <1>1, <1>10, <2>2 DEF CreatedFiles
    <3>2. created[k] # f /\ created[k] \in Files /\ created[k] # 0
      BY <1>9, <3>1 DEF Files
    <3>3. created[k] \in removed \/ entry'[Authorization(asked[k])] = created[k]
      BY <1>1, <3>1, <3>2 DEF OwnFile, a
    <3>4. \A b \in Authorizations : created[k] \in onDisk'[b] => b = Authorization(asked[k])
      BY <1>1, <1>2, <3>1, <3>2 DEF OwnFile
    <3>5. text'[created[k]] = text[created[k]]
      BY <1>1, <3>2
    <3> QED  BY <1>1, <3>1, <3>3, <3>4, <3>5 DEF OwnFile
  <2> QED  BY <2>1, <2>2
<1>11. CreatedFiles'
  <2>1. \A g \in reported' : g \in flushed' /\ text'[g] \in Request
    BY <1>1, <1>3 DEF CreatedFiles
  <2>2. \A j, k \in Issuers : (j # k /\ issuerPc'[j] \in Holding /\ issuerPc'[k] \in Holding)
          => created'[j] # created'[k]
    BY <1>1, <1>9 DEF CreatedFiles
  <2> QED  BY <1>10, <2>1, <2>2 DEF CreatedFiles
<1> QED  BY <1>5, <1>6, <1>8, <1>11

\* An issuer writes only the file it created, which bears its authorization's name.
LEMMA WriteKeepsPermits ==
  ASSUME TypeInv, PermitInv, NEW i \in Issuers, WritePermit(i), UNCHANGED spent
  PROVE  PermitInv'
<1> USE DEF TypeInv, TypeOK, DirTypeOK, IssuerTypeOK, PermitInv
<1> DEFINE f == created[i]
<1>1. /\ issuerPc[i] = "write" /\ issuerPc' = [issuerPc EXCEPT ![i] = "flush"]
      /\ UNCHANGED <<asked, created, reported, flushed, removed, entry, onDisk>>
      /\ text' = [text EXCEPT ![f] = asked[i]]
  BY DEF WritePermit, IssuerGoes, WriteText
<1>2. f \in Files /\ asked[i] \in Request /\ OwnFile(i)
  BY <1>1 DEF IssuerLocals, CreatedFiles, Holding
<1>3. asked[i] # Free
  BY <1>2, DirectoryAssumption
<1> HIDE DEF f
<1>4. NamesAgree'
  <2>1. \A a \in Authorizations : \A g \in onDisk[a] \ {NoFile} :
          text'[g] # Free /\ (text'[g] \in Request => Authorization(text'[g]) = a)
    <3> SUFFICES ASSUME NEW a \in Authorizations, NEW g \in onDisk[a] \ {NoFile}
                 PROVE  text'[g] # Free /\ (text'[g] \in Request => Authorization(text'[g]) = a)
      OBVIOUS
    <3>1. CASE g = f
      BY <1>1, <1>2, <1>3, <3>1 DEF OwnFile, f
    <3>2. CASE g # f
      BY <1>1, <3>2 DEF NamesAgree, NoFile
    <3> QED  BY <3>1, <3>2
  <2>2. \A g \in removed : text'[g] # Free
    BY <1>1, <1>2, <1>3 DEF NamesAgree
  <2> QED  BY <1>1, <2>1, <2>2 DEF NamesAgree
<1>5. f \notin reported
  BY <1>2 DEF OwnFile, f
<1>6. IssuedPermitSurvives'
  <2> SUFFICES ASSUME NEW g \in reported \ removed
               PROVE  /\ g \in flushed /\ text'[g] \in Request
                      /\ onDisk[Authorization(text'[g])] = {g}
    BY <1>1 DEF IssuedPermitSurvives
  <2>1. text'[g] = text[g]
    BY <1>1, <1>5
  <2> QED  BY <2>1 DEF IssuedPermitSurvives
<1>7. ConsumedStaysConsumed'
  BY <1>1 DEF ConsumedStaysConsumed
<1>8. ASSUME NEW k \in Issuers, issuerPc'[k] \in Holding
      PROVE  OwnFile(k)'
  <2>1. CASE k = i
    BY <1>1, <1>2, <1>3, <2>1 DEF OwnFile, f
  <2>2. CASE k # i
    <3>1. issuerPc[k] \in Holding /\ issuerPc'[k] = issuerPc[k] /\ OwnFile(k)
      BY <1>1, <1>8, <2>2 DEF CreatedFiles
    <3>2. created[k] # f
      BY <1>1, <2>2, <3>1 DEF CreatedFiles, Holding, f
    <3>3. text'[created[k]] = text[created[k]]
      BY <1>1, <3>2
    <3> QED  BY <1>1, <3>1, <3>3 DEF OwnFile
  <2> QED  BY <2>1, <2>2
<1>9. CreatedFiles'
  <2>1. \A g \in reported : g \in flushed /\ text'[g] \in Request
    BY <1>1, <1>5 DEF CreatedFiles
  <2>2. \A j, k \in Issuers : (j # k /\ issuerPc'[j] \in Holding /\ issuerPc'[k] \in Holding)
          => created'[j] # created'[k]
    BY <1>1 DEF CreatedFiles, Holding
  <2> QED  BY <1>1, <1>8, <2>1, <2>2 DEF CreatedFiles
<1> QED  BY <1>4, <1>6, <1>7, <1>9

\* A flush makes a content durable that is complete.
LEMMA FlushKeepsPermits ==
  ASSUME TypeInv, PermitInv, NEW i \in Issuers, FlushPermit(i), UNCHANGED spent
  PROVE  PermitInv'
<1> USE DEF TypeInv, TypeOK, IssuerTypeOK, PermitInv
<1>1. /\ issuerPc[i] = "flush" /\ issuerPc' = [issuerPc EXCEPT ![i] = "inspect"]
      /\ UNCHANGED <<asked, created, reported, removed, entry, onDisk, text>>
      /\ flushed' = flushed \cup {created[i]}
  BY DEF FlushPermit, IssuerGoes, FlushFile
<1>2. NamesAgree' /\ IssuedPermitSurvives' /\ ConsumedStaysConsumed'
  BY <1>1 DEF NamesAgree, IssuedPermitSurvives, ConsumedStaysConsumed
<1>3. \A k \in Issuers : issuerPc'[k] \in Holding => OwnFile(k)'
  BY <1>1 DEF CreatedFiles, OwnFile, Holding
<1>4. CreatedFiles'
  BY <1>1, <1>3 DEF CreatedFiles, Holding
<1> QED  BY <1>2, <1>4

\* Whoever unlinks a name, its file is removed and every other keeps its name.
LEMMA UnlinkKeepsPermits ==
  ASSUME TypeInv, PermitInv, NEW a \in Authorizations, Unlink(a), UNCHANGED <<reported, spent>>,
         \A i \in Issuers : issuerPc'[i] \in Holding =>
           issuerPc'[i] = issuerPc[i] /\ created'[i] = created[i] /\ asked'[i] = asked[i]
  PROVE  PermitInv'
<1> USE DirectoryAssumption DEF TypeInv, TypeOK, DirTypeOK, IssuerTypeOK, PermitInv, NoFile
<1> DEFINE f == entry[a]
<1>1. /\ f # 0 /\ f \in Files
      /\ entry' = [entry EXCEPT ![a] = 0]
      /\ onDisk' = [onDisk EXCEPT ![a] = @ \cup {0}]
      /\ removed' = removed \cup {f}
      /\ UNCHANGED <<text, flushed>>
  BY DEF Unlink
<1>2. f \in onDisk[a] /\ text[f] # Free
  BY <1>1 DEF NamesAgree
<1>3. \A b \in Authorizations : b # a => entry[b] # f
  BY <1>1, <1>2 DEF NamesAgree
<1>4. 0 \notin removed /\ 0 \notin spent
  BY DEF Files, BoundaryTypeOK
<1> HIDE DEF f
<1>5. NamesAgree'
  BY <1>1, <1>2, <1>3, <1>4 DEF NamesAgree
<1>6. IssuedPermitSurvives'
  <2> SUFFICES ASSUME NEW g \in reported \ removed'
               PROVE  /\ g \in flushed /\ text[g] \in Request
                      /\ onDisk'[Authorization(text[g])] = {g}
    BY <1>1 DEF IssuedPermitSurvives
  <2>1. /\ g \in flushed /\ text[g] \in Request
        /\ onDisk[Authorization(text[g])] = {g}
    BY <1>1 DEF IssuedPermitSurvives
  <2>2. g # f
    BY <1>1
  <2>3. Authorization(text[g]) # a
    BY <1>2, <2>1, <2>2
  <2> QED  BY <1>1, <2>1, <2>3, AuthorizationIn
<1>7. ConsumedStaysConsumed'
  BY <1>1, <1>4 DEF ConsumedStaysConsumed
<1>8. ASSUME NEW k \in Issuers, issuerPc'[k] \in Holding
      PROVE  OwnFile(k)'
  <2>1. issuerPc'[k] = issuerPc[k] /\ created'[k] = created[k] /\ asked'[k] = asked[k] /\ OwnFile(k)
    BY <1>8 DEF CreatedFiles
  <2>2. asked[k] \in Request /\ created[k] # 0
    BY <1>8, <2>1 DEF IssuerLocals, Holding, Files
  <2>3. created[k] \in removed' \/ entry'[Authorization(asked[k])] = created[k]
    BY <1>1, <2>1, <2>2, AuthorizationIn DEF OwnFile, f
  <2>4. \A b \in Authorizations : created[k] \in onDisk'[b] => b = Authorization(asked[k])
    BY <1>1, <2>1, <2>2 DEF OwnFile
  <2> QED  BY <1>1, <2>1, <2>3, <2>4 DEF OwnFile
<1>9. CreatedFiles'
  BY <1>1, <1>8 DEF CreatedFiles
<1> QED  BY <1>5, <1>6, <1>7, <1>9

\* A sync makes the names as they are the only ones: no removed file has one.
LEMMA SyncKeepsPermits ==
  ASSUME TypeInv, PermitInv, SyncDirectory,
         spent' \in {spent, removed},
         \/ reported' = reported
         \/ \E i \in Issuers : /\ issuerPc[i] = "sync" /\ issuerPc'[i] = "idle"
                               /\ reported' = reported \cup {created[i]},
         \A i \in Issuers : issuerPc'[i] \in Holding =>
           issuerPc'[i] = issuerPc[i] /\ created'[i] = created[i] /\ asked'[i] = asked[i]
  PROVE  PermitInv'
<1> USE DirectoryAssumption DEF TypeInv, TypeOK, DirTypeOK, IssuerTypeOK, PermitInv, NoFile
<1>1. /\ onDisk' = [a \in Authorizations |-> {entry[a]}]
      /\ UNCHANGED <<entry, text, flushed, removed>>
  BY DEF SyncDirectory
<1>2. \A a \in Authorizations : entry[a] \in onDisk[a] /\ entry[a] \notin removed
  BY DEF NamesAgree
<1>3. spent' \subseteq removed
  BY DEF NamesAgree
<1>4. NamesAgree'
  BY <1>1, <1>2, <1>3 DEF NamesAgree
<1>5. ConsumedStaysConsumed'
  BY <1>1, <1>2, <1>3 DEF ConsumedStaysConsumed
<1>6. ASSUME NEW f \in reported' \ reported
      PROVE  \E i \in Issuers : issuerPc[i] = "sync" /\ issuerPc'[i] = "idle" /\ f = created[i]
  BY <1>6
<1>7. ASSUME NEW f \in reported'
      PROVE  f \in flushed /\ text[f] \in Request
  BY <1>6, <1>7 DEF CreatedFiles, OwnFile, IssuerLocals, Holding
<1>8. ASSUME NEW f \in reported' \ removed
      PROVE  onDisk'[Authorization(text[f])] = {f}
  <2>1. CASE f \in reported
    <3>1. onDisk[Authorization(text[f])] = {f} /\ Authorization(text[f]) \in Authorizations
      BY <1>8, <2>1, AuthorizationIn DEF IssuedPermitSurvives
    <3> QED  BY <1>1, <1>2, <3>1
  <2>2. CASE f \notin reported
    <3>1. PICK i \in Issuers : issuerPc[i] = "sync" /\ f = created[i]
      BY <1>6, <2>2
    <3>2. /\ text[f] = asked[i] /\ asked[i] \in Request
          /\ entry[Authorization(asked[i])] = f
      BY <1>8, <3>1 DEF CreatedFiles, OwnFile, IssuerLocals, Holding
    <3> QED  BY <1>1, <3>2, AuthorizationIn
  <2> QED  BY <2>1, <2>2
<1>9. IssuedPermitSurvives'
  BY <1>1, <1>7, <1>8 DEF IssuedPermitSurvives
<1>10. ASSUME NEW k \in Issuers, issuerPc'[k] \in Holding
       PROVE  OwnFile(k)'
  <2>1. issuerPc'[k] = issuerPc[k] /\ created'[k] = created[k] /\ asked'[k] = asked[k] /\ OwnFile(k)
    BY <1>10 DEF CreatedFiles
  <2>2. created[k] \notin reported'
    <3> SUFFICES ASSUME created[k] \in reported' PROVE FALSE
      OBVIOUS
    <3>1. PICK i \in Issuers : issuerPc[i] = "sync" /\ issuerPc'[i] = "idle" /\ created[k] = created[i]
      BY <1>6, <2>1 DEF OwnFile
    <3>2. i # k
      BY <1>10, <3>1 DEF Holding
    <3> QED  BY <1>10, <2>1, <3>1, <3>2 DEF CreatedFiles, Holding
  <2>3. \A b \in Authorizations : created[k] \in onDisk'[b] => b = Authorization(asked[k])
    BY <1>1, <1>2, <2>1 DEF OwnFile
  <2> QED  BY <1>1, <2>1, <2>2, <2>3 DEF OwnFile
<1>11. CreatedFiles'
  BY <1>1, <1>7, <1>10 DEF CreatedFiles
<1> QED  BY <1>4, <1>5, <1>9, <1>11

\* A power loss takes back only what nobody was told of (fsync before Ok).
LEMMA PowerLossKeepsPermits ==
  ASSUME TypeInv, PermitInv, PowerLoss
  PROVE  PermitInv'
<1> USE DirectoryAssumption DEF TypeInv, TypeOK, DirTypeOK, IssuerTypeOK, PermitInv, NoFile
<1>1. /\ \A a \in Authorizations : entry'[a] \in onDisk[a]
      /\ onDisk' = [a \in Authorizations |-> {entry'[a]}]
      /\ flushed' = {f \in Files : text[f] # Free}
      /\ removed' = {f \in removed : \A a \in Authorizations : entry'[a] # f}
      /\ UNCHANGED <<reported, spent>>
      /\ \A i \in Issuers : issuerPc'[i] = "idle"
  BY DEF PowerLoss, LoseUnsynced, RebootIssuers, RebootBoundary, historyVars
<1>2. \A f \in Files : \/ text'[f] = text[f]
                       \/ text'[f] = Torn /\ f \notin flushed /\ text[f] # Free
  BY DEF PowerLoss, LoseUnsynced
<1>3. \A a \in Authorizations : \A f \in onDisk[a] \ {0} : f \in Files
  OBVIOUS
<1>4. NamesAgree'
  <2>1. \A a \in Authorizations : entry'[a] \in onDisk'[a] /\ entry'[a] \notin removed'
    BY <1>1
  <2>2. \A a, b \in Authorizations : a # b => onDisk'[a] \cap onDisk'[b] \subseteq {0}
    BY <1>1 DEF NamesAgree
  <2>3. \A a \in Authorizations : \A f \in onDisk'[a] \ {0} :
          text'[f] # Free /\ (text'[f] \in Request => Authorization(text'[f]) = a)
    <3> SUFFICES ASSUME NEW a \in Authorizations, NEW f \in onDisk[a] \ {0}
                 PROVE  text'[f] # Free /\ (text'[f] \in Request => Authorization(text'[f]) = a)
      BY <1>1
    <3> QED  BY <1>2, <1>3 DEF NamesAgree
  <2>4. \A f \in removed' : text'[f] # Free
    BY <1>1, <1>2 DEF NamesAgree
  <2>5. spent' \subseteq removed'
    BY <1>1 DEF NamesAgree
  <2>6. \A a \in Authorizations : onDisk'[a] \cap spent' = {}
    BY <1>1 DEF NamesAgree
  <2> QED  BY <2>1, <2>2, <2>3, <2>4, <2>5, <2>6 DEF NamesAgree
<1>5. ConsumedStaysConsumed'
  BY <1>1 DEF NamesAgree, ConsumedStaysConsumed
<1>6. \A f \in reported : f \in flushed' /\ text'[f] = text[f] /\ text[f] \in Request
  BY <1>1, <1>2 DEF CreatedFiles
<1>7. IssuedPermitSurvives'
  <2> SUFFICES ASSUME NEW f \in reported \ removed'
               PROVE  onDisk'[Authorization(text[f])] = {f}
    BY <1>1, <1>6 DEF IssuedPermitSurvives
  <2>1. Authorization(text[f]) \in Authorizations
    BY <1>6, AuthorizationIn
  <2>2. CASE f \notin removed
    <3>1. onDisk[Authorization(text[f])] = {f}
      BY <2>2 DEF IssuedPermitSurvives
    <3> QED  BY <1>1, <2>1, <3>1
\* An unlinked file that came back did so under its own name.
  <2>3. CASE f \in removed
    <3>1. PICK a \in Authorizations : entry'[a] = f
      BY <1>1, <2>3
    <3>2. f \in onDisk[a] \ {0}
      BY <1>1, <3>1 DEF Files
    <3>3. Authorization(text[f]) = a
      BY <1>6, <3>2 DEF NamesAgree
    <3> QED  BY <1>1, <3>1, <3>3
  <2> QED  BY <2>2, <2>3
<1>8. CreatedFiles'
  BY <1>1, <1>6 DEF CreatedFiles, Holding
<1> QED  BY <1>4, <1>5, <1>7, <1>8

\* Every step of an issuer keeps the permits, cleanup of an error included.
LEMMA IssuerKeepsPermits ==
  ASSUME TypeInv, PermitInv, NEW i \in Issuers, Issuer(i)
  PROVE  PermitInv'
<1> USE DEF TypeInv, TypeOK, IssuerTypeOK, dirVars
<1>0. spent' = spent
  BY DEF Issuer, boundaryVars, historyVars
<1>1. CASE \/ \E r \in Request : BeginCheck(i, r) \/ BeginIssue(i, r)
           \/ PolkitApproves(i) \/ PolkitRefuses(i) \/ AlreadyIssued(i)
           \/ IssueFails(i) \/ KillIssuer(i)
  <2>1. /\ UNCHANGED <<dirVars, reported>>
        /\ \A k \in Issuers : issuerPc'[k] \in Holding =>
             issuerPc'[k] = issuerPc[k] /\ created'[k] = created[k] /\ asked'[k] = asked[k]
    BY <1>1 DEF BeginCheck, BeginIssue, IssuerBegins, PolkitApproves, PolkitRefuses,
       AlreadyIssued, IssueFails, KillIssuer, IssuerReturns, Holding
  <2> QED  BY <1>0, <2>1, QuietForPermits DEF PermitInv, CreatedFiles, OwnFile, Holding
<1>2. CASE CreatePermit(i)
  BY <1>0, <1>2, NewFileKeepsPermits
<1>3. CASE WritePermit(i)
  BY <1>0, <1>3, WriteKeepsPermits
<1>4. CASE FlushPermit(i)
  BY <1>0, <1>4, FlushKeepsPermits
<1>5. CASE InspectPermit(i) \/ IssueGoesWrong(i)
  <2>1. /\ UNCHANGED <<dirVars, reported, created, asked>>
        /\ issuerPc[i] \in Holding
        /\ \/ issuerPc[i] = "inspect" /\ issuerPc' = [issuerPc EXCEPT ![i] = "sync"]
           \/ issuerPc' = [issuerPc EXCEPT ![i] = "cleanup"]
    BY <1>5 DEF InspectPermit, IssueGoesWrong, IssuerGoes, Holding
  <2>2. \A k \in Issuers : issuerPc[k] \in {"inspect", "sync"} => created[k] \in flushed
    BY DEF PermitInv, CreatedFiles, OwnFile, Holding
  <2> QED  BY <1>0, <2>1, <2>2, QuietForPermits DEF Holding
<1>6. CASE SyncPermit(i)
  <2>1. /\ SyncDirectory /\ issuerPc[i] = "sync" /\ reported' = reported \cup {created[i]}
        /\ issuerPc' = [issuerPc EXCEPT ![i] = "idle"]
        /\ created'  = [created EXCEPT ![i] = NoFile]
        /\ asked'    = [asked EXCEPT ![i] = NoRequest]
    BY <1>6 DEF SyncPermit, IssuerReturns
  <2> QED  BY <1>0, <2>1, SyncKeepsPermits DEF Holding
<1>7. CASE CleanUp(i)
  <2> DEFINE a == Authorization(asked[i])
  <2>1. /\ issuerPc[i] = "cleanup" /\ UNCHANGED reported
        /\ issuerPc' = [issuerPc EXCEPT ![i] = "idle"]
        /\ created'  = [created EXCEPT ![i] = NoFile]
        /\ asked'    = [asked EXCEPT ![i] = NoRequest]
        /\ Unlink(a) \/ UNCHANGED dirVars
    BY <1>7 DEF CleanUp, IssuerReturns
  <2>2. a \in Authorizations
    BY <2>1, AuthorizationIn DEF IssuerLocals
  <2>3. \A k \in Issuers : issuerPc'[k] \in Holding =>
          issuerPc'[k] = issuerPc[k] /\ created'[k] = created[k] /\ asked'[k] = asked[k]
    BY <2>1 DEF Holding
  <2>4. CASE Unlink(a)
    BY <1>0, <2>1, <2>2, <2>3, <2>4, UnlinkKeepsPermits
  <2>5. CASE UNCHANGED dirVars
    BY <1>0, <2>1, <2>3, <2>5, QuietForPermits DEF PermitInv, CreatedFiles, OwnFile, Holding
  <2> QED  BY <2>1, <2>4, <2>5
<1> QED
  BY <1>1, <1>2, <1>3, <1>4, <1>5, <1>6, <1>7 DEF Issuer, IssuerStep

\* Of a helper's steps only two touch the permit files.
LEMMA HelperTouchesFiles ==
  ASSUME NEW h \in Helpers, Helper(h)
  PROVE  RemovePermit(h) \/ SyncPermits(h) \/ UNCHANGED <<dirVars, spent>>
<1> USE DEF historyVars
<1>1. ASSUME NEW r \in Request, Begin(h, r) PROVE UNCHANGED <<dirVars, spent>>
  BY <1>1 DEF Begin
<1>2. ReadPermit(h) \/ PermitRefused(h) \/ PermitGone(h) \/ InspectHost(h)
        \/ NotBootDefault(h) \/ CreateReceipt(h) \/ AlreadyConsumed(h)
        \/ SyncReceipt(h) => UNCHANGED <<dirVars, spent>>
  BY DEF ReadPermit, PermitRefused, PermitGone, InspectHost, NotBootDefault,
     CreateReceipt, AlreadyConsumed, SyncReceipt
<1>3. StartCandidate(h) \/ FinishCandidate(h) \/ ReportOk(h) \/ DecideToRestore(h)
        \/ StartRestore(h) \/ FinishRestore(h) \/ RestoreExitsBadly(h) \/ NotRestored(h)
        => UNCHANGED <<dirVars, spent>>
  BY DEF StartCandidate, FinishCandidate, ReportOk, DecideToRestore, StartRestore,
     FinishRestore, RestoreExitsBadly, NotRestored
<1>4. ReportUndone(h) \/ RestoredAfterFailure(h) \/ ReportRolledBack(h) \/ CallFails(h)
        \/ KillHelper(h) \/ Abandon(h) \/ FinishOrphan(h) => UNCHANGED <<dirVars, spent>>
  BY DEF ReportUndone, RestoredAfterFailure, ReportRolledBack, CallFails, KillHelper,
     Abandon, FinishOrphan
<1> QED  BY <1>1, <1>2, <1>3, <1>4 DEF Helper, HelperStep, HelperProgress

\* Every step of a helper keeps the permits that are not its own.
LEMMA HelperKeepsPermits ==
  ASSUME TypeInv, PermitInv, NEW h \in Helpers, Helper(h)
  PROVE  PermitInv'
<1> USE DEF TypeInv, TypeOK, BoundaryTypeOK
<1>0. UNCHANGED <<issuerPc, created, asked, reported>>
  BY DEF Helper, issuerVars
<1>1. CASE RemovePermit(h)
  <2>1. AuthOf(h) \in Authorizations /\ Unlink(AuthOf(h)) /\ UNCHANGED spent
    BY <1>1, AuthorizationIn DEF RemovePermit, Goes, HelperLocals, AuthOf, historyVars
  <2> QED  BY <1>0, <2>1, UnlinkKeepsPermits
<1>2. CASE SyncPermits(h)
  <2>1. SyncDirectory /\ spent' = removed
    BY <1>2 DEF SyncPermits
  <2> QED  BY <1>0, <2>1, SyncKeepsPermits
<1>3. CASE UNCHANGED <<dirVars, spent>>
  BY <1>0, <1>3, QuietForPermits DEF PermitInv, CreatedFiles, OwnFile, Holding
<1>4. RemovePermit(h) \/ SyncPermits(h) \/ UNCHANGED <<dirVars, spent>>
  BY HelperTouchesFiles
<1> QED  BY <1>1, <1>2, <1>3, <1>4

\* Every step of the system keeps what is said of permit files.
LEMMA NextKeepsPermits == TypeInv /\ PermitInv /\ [Next]_vars => PermitInv'
<1> SUFFICES ASSUME TypeInv, PermitInv, [Next]_vars PROVE PermitInv'
  OBVIOUS
<1>1. ASSUME NEW i \in Issuers, Issuer(i) PROVE PermitInv'
  BY <1>1, IssuerKeepsPermits
<1>2. ASSUME NEW h \in Helpers, Helper(h) PROVE PermitInv'
  BY <1>2, HelperKeepsPermits
<1>3. CASE PowerLoss
  BY <1>3, PowerLossKeepsPermits
<1>4. CASE ClockMoves \/ UNCHANGED vars
  <2>1. UNCHANGED <<dirVars, issuerPc, created, asked, reported, spent>>
    BY <1>4 DEF ClockMoves, vars, issuerVars, boundaryVars, historyVars
  <2> QED  BY <2>1, QuietForPermits DEF PermitInv, CreatedFiles, OwnFile, Holding
<1> QED  BY <1>1, <1>2, <1>3, <1>4 DEF Next

\* What is said of permit files holds throughout.
LEMMA AlwaysPermitInv == Spec => []PermitInv
BY InitHasPermits, NextKeepsPermits, AlwaysTypeInv, PTL DEF Spec

\* A permit that was reported as issued is there, whole and under its own name,
\* until it is removed, however issuers of one authorization race, clean up
\* after errors or are killed, and whatever a power loss leaves.
THEOREM PermitsLast == Spec => []IssuedPermitSurvives
<1>1. PermitInv => IssuedPermitSurvives
  BY DEF PermitInv
<1> QED  BY <1>1, AlwaysPermitInv, PTL

\* A permit whose consumption was reported never comes back.
THEOREM ConsumptionLasts == Spec => []ConsumedStaysConsumed
<1>1. PermitInv => ConsumedStaysConsumed
  BY DEF PermitInv
<1> QED  BY <1>1, AlwaysPermitInv, PTL

-----------------------------------------------------------------------------
(* Which permit a helper used up.                                           *)

\* Short of a power loss a complete file keeps its text, what was removed or
\* spent stays so, and a name loses its file only to an unlink.
LEMMA FilesGoOn ==
  ASSUME TypeInv, PermitInv, ConsumptionInv,
         \/ \E i \in Issuers : Issuer(i)
         \/ \E h \in Helpers : Helper(h)
  PROVE  /\ \A f \in Files : text[f] \in Request => text'[f] = text[f]
         /\ removed \subseteq removed' /\ spent \subseteq spent'
         /\ \A a \in Authorizations :
              entry'[a] = entry[a] \/ entry[a] = NoFile \/ entry[a] \in removed'
<1> USE DirectoryAssumption
    DEF TypeInv, TypeOK, DirTypeOK, IssuerTypeOK, BoundaryTypeOK, dirVars, historyVars
<1> DEFINE GoOn == /\ \A f \in Files : text[f] \in Request => text'[f] = text[f]
                   /\ removed \subseteq removed' /\ spent \subseteq spent'
                   /\ \A a \in Authorizations :
                        entry'[a] = entry[a] \/ entry[a] = NoFile \/ entry[a] \in removed'
<1>1. UNCHANGED <<dirVars, spent>> => GoOn
  OBVIOUS
<1>2. ASSUME NEW a \in Authorizations, Unlink(a), spent' = spent PROVE GoOn
  BY <1>2 DEF Unlink
<1>3. ASSUME SyncDirectory, spent' \in {spent, removed} PROVE GoOn
  BY <1>3 DEF SyncDirectory, PermitInv, NamesAgree
<1>4. ASSUME NEW i \in Issuers, Issuer(i) PROVE GoOn
  <2>0. spent' = spent
    BY <1>4 DEF Issuer, boundaryVars
  <2>1. CASE CreatePermit(i)
    BY <2>0, <2>1 DEF CreatePermit, CreateNew
  <2>2. CASE WritePermit(i)
    <3>1. text[created[i]] = Torn
      BY <2>2 DEF WritePermit, IssuerGoes, ConsumptionInv
    <3> QED  BY <2>0, <2>2, <3>1 DEF WritePermit, WriteText
  <2>3. CASE CleanUp(i)
    <3>1. Authorization(asked[i]) \in Authorizations
      BY <2>3, AuthorizationIn DEF CleanUp, IssuerLocals
    <3> QED  BY <1>1, <1>2, <2>0, <2>3, <3>1 DEF CleanUp
  <2>4. CASE FlushPermit(i)
    BY <2>0, <2>4 DEF FlushPermit, FlushFile
  <2>5. CASE SyncPermit(i)
    BY <1>3, <2>0, <2>5 DEF SyncPermit
  <2>6. (\E r \in Request : BeginCheck(i, r) \/ BeginIssue(i, r)) => GoOn
    BY <1>1, <2>0 DEF BeginCheck, BeginIssue, IssuerBegins
  <2>7. (PolkitApproves(i) \/ PolkitRefuses(i) \/ AlreadyIssued(i) \/ InspectPermit(i)
           \/ IssueGoesWrong(i) \/ IssueFails(i) \/ KillIssuer(i)) => GoOn
    BY <1>1, <2>0 DEF PolkitApproves, PolkitRefuses, AlreadyIssued, InspectPermit,
       IssueGoesWrong, IssueFails, KillIssuer
  <2> QED  BY <1>4, <2>1, <2>2, <2>3, <2>4, <2>5, <2>6, <2>7 DEF Issuer, IssuerStep
<1>5. ASSUME NEW h \in Helpers, Helper(h) PROVE GoOn
  <2>1. RemovePermit(h) \/ SyncPermits(h) \/ UNCHANGED <<dirVars, spent>>
    BY <1>5, HelperTouchesFiles
  <2>2. CASE RemovePermit(h)
    <3>1. AuthOf(h) \in Authorizations
      BY <2>2, AuthorizationIn DEF RemovePermit, Goes, HelperLocals, AuthOf
    <3> QED  BY <1>2, <2>2, <3>1 DEF RemovePermit
  <2>3. CASE SyncPermits(h)
    BY <1>3, <2>3 DEF SyncPermits
  <2> QED  BY <1>1, <2>1, <2>2, <2>3
<1> HIDE DEF GoOn
<1> QED  BY <1>4, <1>5 DEF GoOn

\* What is said of the permit of one helper.
UsedUpBy(h) ==
  /\ pc[h] = "removePermit" =>
       \E f \in Files : IsPermitFor(f, req[h]) /\ (f = entry[AuthOf(h)] \/ f \in removed)
  /\ pc[h] = "syncPermits" => \E f \in removed : IsPermitFor(f, req[h])
  /\ pc[h] \in {"inspectHost", "createReceipt", "syncReceipt", "spawn"} =>
       \E f \in spent : IsPermitFor(f, req[h])

\* A helper that stays where it is keeps its permit, whoever else takes a step.
LEMMA StayingKeepsUsedUp ==
  ASSUME TypeInv, PermitInv, ConsumptionInv,
         \/ \E i \in Issuers : Issuer(i)
         \/ \E h \in Helpers : Helper(h),
         NEW h \in Helpers, pc'[h] = pc[h], req'[h] = req[h]
  PROVE  UsedUpBy(h)'
<1> USE DEF TypeInv, TypeOK, DirTypeOK, BoundaryTypeOK
<1>1. UsedUpBy(h)
  BY DEF ConsumptionInv, UsedUpBy
<1>2. /\ \A f \in Files : text[f] \in Request => text'[f] = text[f]
      /\ removed \subseteq removed' /\ spent \subseteq spent'
      /\ \A a \in Authorizations :
           entry'[a] = entry[a] \/ entry[a] = NoFile \/ entry[a] \in removed'
  BY FilesGoOn
<1>3. \A f \in Files : IsPermitFor(f, req[h]) => IsPermitFor(f, req[h])'
  BY <1>2 DEF IsPermitFor
<1>4. removed \subseteq Files /\ spent \subseteq Files /\ NoFile \notin Files
  BY DEF Files, NoFile
<1>5. CASE pc[h] = "removePermit"
  <2>1. AuthOf(h) \in Authorizations /\ AuthOf(h)' = AuthOf(h)
    BY <1>5, AuthorizationIn DEF HelperLocals, AuthOf
  <2>2. PICK f \in Files : IsPermitFor(f, req[h]) /\ (f = entry[AuthOf(h)] \/ f \in removed)
    BY <1>1, <1>5 DEF UsedUpBy
  <2>3. f = entry'[AuthOf(h)] \/ f \in removed'
    BY <1>2, <1>4, <2>1, <2>2
  <2> QED  BY <1>3, <1>5, <2>1, <2>2, <2>3 DEF UsedUpBy
<1>6. CASE pc[h] = "syncPermits"
  BY <1>1, <1>2, <1>3, <1>4, <1>6 DEF UsedUpBy
<1>7. CASE pc[h] \in {"inspectHost", "createReceipt", "syncReceipt", "spawn"}
  BY <1>1, <1>2, <1>3, <1>4, <1>7 DEF UsedUpBy
<1> QED  BY <1>5, <1>6, <1>7 DEF UsedUpBy

\* A helper hands its permit on from the comparison to the removal, its sync and
\* the start of the command.
LEMMA MovingKeepsUsedUp ==
  ASSUME TypeInv, PermitInv, ConsumptionInv, NEW h \in Helpers, Helper(h)
  PROVE  UsedUpBy(h)'
<1> USE DEF TypeInv, TypeOK, DirTypeOK, BoundaryTypeOK
<1> DEFINE Later == {"inspectHost", "createReceipt", "syncReceipt", "spawn"}
<1>1. UsedUpBy(h)
  BY DEF ConsumptionInv, UsedUpBy
<1>2. CASE ReadPermit(h)
  <2>1. /\ pc[h] = "readPermit" /\ pc'[h] = "removePermit" /\ HoldsPermitFor(req[h])
        /\ UNCHANGED <<req, dirVars>>
    BY <1>2 DEF ReadPermit, Goes
  <2>2. entry[AuthOf(h)] \in Files
    BY <2>1, AuthorizationIn DEF HelperLocals, HoldsPermitFor, AuthOf
  <2> QED  BY <2>1, <2>2 DEF UsedUpBy, HoldsPermitFor, IsPermitFor, AuthOf, dirVars
<1>3. CASE RemovePermit(h)
  <2>1. /\ pc[h] = "removePermit" /\ pc'[h] = "syncPermits" /\ UNCHANGED <<req, text>>
        /\ removed' = removed \cup {entry[AuthOf(h)]}
    BY <1>3 DEF RemovePermit, Goes, Unlink
  <2> QED  BY <1>1, <2>1 DEF UsedUpBy, IsPermitFor
<1>4. CASE SyncPermits(h)
  <2>1. /\ pc[h] = "syncPermits" /\ pc'[h] = "inspectHost" /\ UNCHANGED <<req, text>>
        /\ spent' = removed
    BY <1>4 DEF SyncPermits, Goes, SyncDirectory
  <2> QED  BY <1>1, <2>1 DEF UsedUpBy, IsPermitFor
<1>5. CASE InspectHost(h) \/ CreateReceipt(h) \/ SyncReceipt(h)
  <2>1. pc[h] \in Later /\ pc'[h] \in Later /\ UNCHANGED <<req, text, spent>>
    BY <1>5 DEF InspectHost, CreateReceipt, SyncReceipt, Goes, dirVars, historyVars
  <2> QED  BY <1>1, <2>1 DEF UsedUpBy, IsPermitFor
<1>6. CASE pc'[h] \notin {"removePermit", "syncPermits"} \cup Later
  BY <1>6 DEF UsedUpBy
\* The other steps begin an invocation, follow the start or return.
<1>7. ASSUME NEW r \in Request, Begin(h, r)
      PROVE  pc'[h] \notin {"removePermit", "syncPermits"} \cup Later
  BY <1>7 DEF Begin
<1>8. (StartCandidate(h) \/ FinishCandidate(h) \/ DecideToRestore(h) \/ StartRestore(h)
         \/ FinishRestore(h) \/ RestoredAfterFailure(h) \/ Abandon(h))
      => pc'[h] \notin {"removePermit", "syncPermits"} \cup Later
  BY DEF StartCandidate, FinishCandidate, DecideToRestore, StartRestore, FinishRestore,
     RestoredAfterFailure, Abandon, Goes
<1>9. (PermitRefused(h) \/ PermitGone(h) \/ NotBootDefault(h) \/ AlreadyConsumed(h) \/ ReportOk(h)
         \/ RestoreExitsBadly(h) \/ NotRestored(h) \/ ReportUndone(h) \/ ReportRolledBack(h)
         \/ CallFails(h) \/ KillHelper(h) \/ FinishOrphan(h))
      => pc'[h] \notin {"removePermit", "syncPermits"} \cup Later
  BY DEF PermitRefused, PermitGone, NotBootDefault, AlreadyConsumed, ReportOk,
     RestoreExitsBadly, NotRestored, ReportUndone, ReportRolledBack, CallFails, KillHelper,
     FinishOrphan, Returns
<1> HIDE DEF Later
<1> QED  BY <1>2, <1>3, <1>4, <1>5, <1>6, <1>7, <1>8, <1>9 DEF Helper, HelperStep, HelperProgress

\* An issuer that is about to write its file finds it as it was created.
LEMMA WritersFindTorn ==
  ASSUME TypeInv, PermitInv, ConsumptionInv, NEW i \in Issuers, Issuer(i),
         NEW k \in Issuers, issuerPc'[k] = "write"
  PROVE  text'[created'[k]] = Torn
<1> USE DirectoryAssumption DEF TypeInv, TypeOK, DirTypeOK, IssuerTypeOK, dirVars
<1>1. CASE CreatePermit(i)
  <2>1. PICK f \in Files : /\ issuerPc' = [issuerPc EXCEPT ![i] = "write"]
                           /\ created' = [created EXCEPT ![i] = f]
                           /\ text' = [text EXCEPT ![f] = Torn]
    BY <1>1 DEF CreatePermit, IssuerGoes, CreateNew
  <2>2. CASE k = i
    BY <2>1, <2>2
  <2>3. CASE k # i
    <3>1. text[created[k]] = Torn /\ created[k] \in Files
      BY <2>1, <2>3 DEF ConsumptionInv, IssuerLocals
    <3> QED  BY <2>1, <2>3, <3>1
  <2> QED  BY <2>2, <2>3
<1>2. CASE WritePermit(i)
  <2>1. /\ issuerPc[i] = "write" /\ issuerPc' = [issuerPc EXCEPT ![i] = "flush"]
        /\ created' = created /\ text' = [text EXCEPT ![created[i]] = asked[i]]
    BY <1>2 DEF WritePermit, IssuerGoes, WriteText
  <2>2. k # i /\ issuerPc[k] = "write"
    BY <2>1
  <2>3. created[k] # created[i]
    BY <2>1, <2>2 DEF PermitInv, CreatedFiles, Holding
  <2>4. text[created[k]] = Torn /\ created[k] \in Files
    BY <2>2 DEF ConsumptionInv, IssuerLocals
  <2> QED  BY <2>1, <2>3, <2>4
<1> DEFINE Quiet == UNCHANGED text /\ issuerPc[k] = "write" /\ created'[k] = created[k]
<1>3. CASE Quiet
  BY <1>3 DEF ConsumptionInv
<1>4. (\E r \in Request : BeginCheck(i, r) \/ BeginIssue(i, r)) => Quiet
  BY DEF BeginCheck, BeginIssue, IssuerBegins
<1>5. (FlushPermit(i) \/ InspectPermit(i) \/ IssueGoesWrong(i)) => Quiet
  BY DEF FlushPermit, FlushFile, InspectPermit, IssueGoesWrong, IssuerGoes
<1>6. (PolkitApproves(i) \/ PolkitRefuses(i) \/ AlreadyIssued(i) \/ SyncPermit(i) \/ CleanUp(i)
         \/ IssueFails(i) \/ KillIssuer(i)) => Quiet
  BY DEF PolkitApproves, PolkitRefuses, AlreadyIssued, SyncPermit, SyncDirectory, CleanUp,
     Unlink, IssueFails, KillIssuer, IssuerReturns
<1> QED  BY <1>1, <1>2, <1>3, <1>4, <1>5, <1>6 DEF Issuer, IssuerStep

\* Every step keeps track of the permit each helper uses up.
LEMMA NextKeepsConsumption ==
  TypeInv /\ PermitInv /\ ConsumptionInv /\ [Next]_vars => ConsumptionInv'
<1> SUFFICES ASSUME TypeInv, PermitInv, ConsumptionInv, [Next]_vars PROVE ConsumptionInv'
  OBVIOUS
<1>1. ASSUME NEW i \in Issuers, Issuer(i) PROVE ConsumptionInv'
  <2>1. pc' = pc /\ req' = req
    BY <1>1 DEF Issuer, boundaryVars, localVars
  <2>2. ASSUME NEW h \in Helpers PROVE UsedUpBy(h)'
    BY <1>1, <2>1, StayingKeepsUsedUp
  <2>3. \A k \in Issuers : issuerPc'[k] = "write" => text'[created'[k]] = Torn
    BY <1>1, WritersFindTorn
  <2> QED  BY <2>2, <2>3 DEF ConsumptionInv, UsedUpBy
<1>2. ASSUME NEW h \in Helpers, Helper(h) PROVE ConsumptionInv'
  <2>1. ASSUME NEW k \in Helpers PROVE UsedUpBy(k)'
    <3>1. CASE k = h
      BY <1>2, <3>1, MovingKeepsUsedUp
    <3>2. CASE k # h
      <4>1. pc'[k] = pc[k] /\ req'[k] = req[k]
        BY <1>2, <3>2, OthersStayPut
      <4> QED  BY <1>2, <4>1, StayingKeepsUsedUp
    <3> QED  BY <3>1, <3>2
  <2>2. UNCHANGED <<issuerPc, created, text>>
    BY <1>2, HelperTouchesFiles
       DEF Helper, issuerVars, dirVars, RemovePermit, SyncPermits, Unlink, SyncDirectory
  <2> QED  BY <2>1, <2>2 DEF ConsumptionInv, UsedUpBy
<1>3. CASE PowerLoss
  <2>1. (\A i \in Issuers : issuerPc'[i] = "idle") /\ (\A h \in Helpers : pc'[h] = "idle")
    BY <1>3 DEF PowerLoss, RebootIssuers, RebootBoundary
  <2> QED  BY <2>1 DEF ConsumptionInv
<1>4. CASE ClockMoves \/ UNCHANGED vars
  <2>1. UNCHANGED <<dirVars, issuerPc, created, pc, req, spent>>
    BY <1>4 DEF ClockMoves, vars, issuerVars, boundaryVars, localVars, historyVars
  <2> QED  BY <2>1 DEF ConsumptionInv, IsPermitFor, AuthOf, dirVars
<1> QED  BY <1>1, <1>2, <1>3, <1>4 DEF Next

\* The permit of each helper is accounted for throughout.
LEMMA AlwaysConsumptionInv == Spec => []ConsumptionInv
<1>1. Init => ConsumptionInv
  BY DEF Init, IssuerInit, BoundaryInit, IdleLocals, ConsumptionInv
<1> QED  BY <1>1, NextKeepsConsumption, AlwaysTypeInv, AlwaysPermitInv, PTL DEF Spec

\* A command is started only after a permit with its exact text was used up for
\* good, even where the helper itself removed another file than the one it
\* compared: the one it compared was removed before, and its sync covers both.
THEOREM StartsSpendPermits == Spec => StartsUseUpPermit
<1>1. ConsumptionInv =>
        \A h \in Helpers : (pc[h] = "spawn" /\ pc'[h] = "running") =>
          \E f \in spent : IsPermitFor(f, req[h])
  BY DEF ConsumptionInv
<1> QED  BY <1>1, AlwaysConsumptionInv, PTL DEF StartsUseUpPermit

-----------------------------------------------------------------------------
(* Removals that nobody disturbs.                                           *)

\* An issuer that holds no file under a name leaves a complete permit there alone.
LEMMA IssuerKeepsCompared ==
  ASSUME TypeInv, PermitInv, SeparateRemovals, ComparedInv, NEW i \in Issuers, Issuer(i)
  PROVE  ComparedInv'
<1> USE DirectoryAssumption DEF TypeInv, TypeOK, DirTypeOK, IssuerTypeOK, dirVars
<1> SUFFICES ASSUME NEW h \in Helpers, pc'[h] = "removePermit" PROVE HoldsPermitFor(req[h])'
  BY DEF ComparedInv
<1>1. pc' = pc /\ req' = req
  BY DEF Issuer, boundaryVars, localVars
<1> DEFINE a == Authorization(req[h])
<1>2. /\ a \in Authorizations /\ entry[a] # NoFile /\ entry[a] \in Files
      /\ IsPermitFor(entry[a], req[h])
  BY <1>1, AuthorizationIn DEF ComparedInv, HoldsPermitFor, HelperLocals
<1>3. issuerPc[i] \in Holding => Authorization(asked[i]) # a
  BY <1>1 DEF SeparateRemovals, AuthOf
<1>4. Authorization(req[h])' = a
  BY <1>1
<1> HIDE DEF a
<1>5. entry'[a] = entry[a] /\ text'[entry[a]] = text[entry[a]]
  <2>1. CASE CreatePermit(i)
    <3>1. PICK f \in Files :
            /\ entry[Authorization(asked[i])] = NoFile /\ text[f] = Free
            /\ entry' = [entry EXCEPT ![Authorization(asked[i])] = f]
            /\ text' = [text EXCEPT ![f] = Torn]
      BY <2>1 DEF CreatePermit, CreateNew
    <3>2. f # entry[a]
      BY <1>2, <3>1 DEF IsPermitFor
    <3> QED  BY <1>2, <3>1, <3>2
  <2>2. CASE WritePermit(i)
    <3>1. issuerPc[i] \in Holding /\ entry' = entry /\ text' = [text EXCEPT ![created[i]] = asked[i]]
      BY <2>2 DEF WritePermit, IssuerGoes, WriteText, Holding
    <3>2. created[i] # entry[a]
      BY <1>2, <1>3, <3>1 DEF PermitInv, NamesAgree, CreatedFiles, OwnFile
    <3> QED  BY <1>2, <3>1, <3>2
  <2>3. CASE CleanUp(i)
    <3>1. /\ Authorization(asked[i]) # a
          /\ Unlink(Authorization(asked[i])) \/ UNCHANGED dirVars
      BY <1>3, <2>3 DEF CleanUp, Holding
    <3> QED  BY <1>2, <3>1 DEF Unlink
  <2>4. (FlushPermit(i) \/ SyncPermit(i) \/ InspectPermit(i) \/ IssueGoesWrong(i)) => UNCHANGED <<entry, text>>
    BY DEF FlushPermit, FlushFile, SyncPermit, SyncDirectory, InspectPermit, IssueGoesWrong
  <2>5. (\E r \in Request : BeginCheck(i, r) \/ BeginIssue(i, r)) => UNCHANGED <<entry, text>>
    BY DEF BeginCheck, BeginIssue, IssuerBegins
  <2>6. (PolkitApproves(i) \/ PolkitRefuses(i) \/ AlreadyIssued(i) \/ IssueFails(i) \/ KillIssuer(i))
          => UNCHANGED <<entry, text>>
    BY DEF PolkitApproves, PolkitRefuses, AlreadyIssued, IssueFails, KillIssuer
  <2> QED  BY <2>1, <2>2, <2>3, <2>4, <2>5, <2>6 DEF Issuer, IssuerStep
<1> QED  BY <1>1, <1>2, <1>4, <1>5 DEF HoldsPermitFor, IsPermitFor

\* Of the helpers at a removal each has a name to itself.
LEMMA HelperKeepsCompared ==
  ASSUME TypeInv, SeparateRemovals, ComparedInv, NEW h \in Helpers, Helper(h)
  PROVE  ComparedInv'
<1> USE DEF TypeInv, TypeOK, DirTypeOK, BoundaryTypeOK, dirVars
<1> SUFFICES ASSUME NEW k \in Helpers, pc'[k] = "removePermit" PROVE HoldsPermitFor(req[k])'
  BY DEF ComparedInv
<1>1. CASE ReadPermit(h) /\ k = h
  <2>1. HoldsPermitFor(req[h]) /\ UNCHANGED <<req, dirVars>>
    BY <1>1 DEF ReadPermit, Goes
  <2> QED  BY <1>1, <2>1 DEF HoldsPermitFor, IsPermitFor
<1>2. CASE k # h
  <2>1. pc[k] = "removePermit" /\ req'[k] = req[k] /\ HoldsPermitFor(req[k])
    BY <1>2, OthersStayPut DEF ComparedInv
  <2>2. CASE RemovePermit(h)
    <3>1. pc[h] = "removePermit" /\ Unlink(AuthOf(h))
      BY <2>2 DEF RemovePermit, Goes
    <3>2. AuthOf(h) # AuthOf(k) /\ AuthOf(k) \in Authorizations
      BY <1>2, <2>1, <3>1, AuthorizationIn DEF SeparateRemovals, HelperLocals, AuthOf
    <3>3. entry'[AuthOf(k)] = entry[AuthOf(k)] /\ text' = text
      BY <3>1, <3>2 DEF Unlink
    <3> QED  BY <2>1, <3>3 DEF HoldsPermitFor, IsPermitFor, AuthOf
  <2>3. UNCHANGED <<entry, text>> => HoldsPermitFor(req[k])'
    BY <2>1 DEF HoldsPermitFor, IsPermitFor
  <2> QED  BY <2>2, <2>3, HelperTouchesFiles DEF SyncPermits, SyncDirectory
\* No other step of its own leads a helper to a removal.
<1>3. k = h => ReadPermit(h)
  <2> SUFFICES ASSUME k = h, ~ReadPermit(h) PROVE FALSE
    OBVIOUS
  <2>1. \A r \in Request : ~Begin(h, r)
    BY DEF Begin
  <2>2. ~(RemovePermit(h) \/ SyncPermits(h) \/ InspectHost(h) \/ CreateReceipt(h) \/ SyncReceipt(h)
            \/ StartCandidate(h) \/ FinishCandidate(h) \/ DecideToRestore(h))
    BY DEF RemovePermit, SyncPermits, InspectHost, CreateReceipt, SyncReceipt,
       StartCandidate, FinishCandidate, DecideToRestore, Goes
  <2>3. ~(StartRestore(h) \/ FinishRestore(h) \/ RestoredAfterFailure(h) \/ Abandon(h))
    BY DEF StartRestore, FinishRestore, RestoredAfterFailure, Abandon, Goes
  <2>4. ~(PermitRefused(h) \/ PermitGone(h) \/ NotBootDefault(h) \/ AlreadyConsumed(h) \/ ReportOk(h)
            \/ RestoreExitsBadly(h) \/ NotRestored(h) \/ ReportUndone(h) \/ ReportRolledBack(h)
            \/ CallFails(h) \/ KillHelper(h) \/ FinishOrphan(h))
    BY DEF PermitRefused, PermitGone, NotBootDefault, AlreadyConsumed, ReportOk,
       RestoreExitsBadly, NotRestored, ReportUndone, ReportRolledBack, CallFails, KillHelper,
       FinishOrphan, Returns
  <2> QED  BY <2>1, <2>2, <2>3, <2>4 DEF Helper, HelperStep, HelperProgress
<1> QED  BY <1>1, <1>2, <1>3

\* While compare and remove are not disturbed by a call on the same
\* authorization, a permit is removed by an invocation of its own request only.
\* (Reissued shows that the code does not see to it.)
THEOREM SeparateRemovalsMatch ==
  (Spec /\ []SeparateRemovals) => PermitRemovedByItsRequest
<1>1. Init => ComparedInv
  BY DEF Init, BoundaryInit, IdleLocals, ComparedInv
<1>2. TypeInv /\ PermitInv /\ SeparateRemovals /\ ComparedInv /\ [Next]_vars => ComparedInv'
  <2> SUFFICES ASSUME TypeInv, PermitInv, SeparateRemovals, ComparedInv, [Next]_vars
               PROVE  ComparedInv'
    OBVIOUS
  <2>1. CASE PowerLoss
    BY <2>1 DEF PowerLoss, RebootBoundary, ComparedInv
  <2>2. CASE ClockMoves \/ UNCHANGED vars
    <3>1. UNCHANGED <<dirVars, pc, req>>
      BY <2>2 DEF ClockMoves, vars, boundaryVars, localVars
    <3> QED  BY <3>1 DEF ComparedInv, HoldsPermitFor, IsPermitFor, dirVars
  <2> QED  BY <2>1, <2>2, IssuerKeepsCompared, HelperKeepsCompared DEF Next
<1>3. ComparedInv =>
        \A h \in Helpers : (pc[h] = "removePermit" /\ pc'[h] = "syncPermits") =>
          HoldsPermitFor(req[h])
  BY DEF ComparedInv
<1> QED  BY <1>1, <1>2, <1>3, AlwaysTypeInv, AlwaysPermitInv, PTL DEF PermitRemovedByItsRequest, Spec
=============================================================================
