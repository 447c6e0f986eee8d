--------------------------- MODULE PermitDirectory ---------------------------
(***************************************************************************)
(* What the issuer and the root boundary share: the wall clock they read   *)
(* and the directory of activation permits, as the file system keeps it.   *)
(*                                                                         *)
(* There is one path per authorization.  Operations act on the cached      *)
(* directory; fsync decides what a power loss may undo.  A file is a       *)
(* number, so that a permit issued again under an old name is another file.*)
(* The code reaches this state only through std::fs.                       *)
(***************************************************************************)
EXTENDS Naturals

CONSTANTS
  Request,   \* names of the PreparedPrivilegedActivation values in play
  Prepared,  \* the value each name stands for
  MaxFiles,  \* bound: how many permit files are ever created
  NoRequest, \* "no request" where a request is expected
  Torn,      \* content of a file that was not written completely
  Free       \* content of a file number that is not in use yet

ASSUME DirectoryAssumption ==
  /\ MaxFiles \in Nat
  /\ Torn \notin Request
  /\ Free \notin Request
  /\ NoRequest \notin Request
  /\ Torn # Free

VARIABLES
  clock,     \* wall-clock time
  entry,     \* the cached directory: the file at each authorization's path
  onDisk,    \* what each entry may turn out to be after a power loss
  text,      \* the content of each file: the request whose permit text it is
  flushed,   \* the files whose content has reached the disk
  removed    \* history: the files that were unlinked and did not come back

dirVars == <<entry, onDisk, text, flushed, removed>>

Authorization(r) == Prepared[r].authorization
Authorizations   == {Authorization(r) : r \in Request}
Files            == 1 .. MaxFiles
NoFile           == 0

DirTypeOK ==
  /\ clock   \in Nat
  /\ entry   \in [Authorizations -> Files \cup {NoFile}]
  /\ onDisk  \in [Authorizations -> SUBSET (Files \cup {NoFile})]
  /\ text    \in [Files -> Request \cup {Torn, Free}]
  /\ flushed \in SUBSET Files
  /\ removed \in SUBSET Files

DirInit ==
  /\ entry   = [a \in Authorizations |-> NoFile]
  /\ onDisk  = [a \in Authorizations |-> {NoFile}]
  /\ text    = [f \in Files |-> Free]
  /\ flushed = {}
  /\ removed = {}

-----------------------------------------------------------------------------

\* open with O_CREAT|O_EXCL, where no file has the name.
CreateNew(a, f) ==
  /\ entry[a] = NoFile
  /\ text[f] = Free
  /\ \A g \in Files : g < f => text[g] # Free
  /\ entry'  = [entry  EXCEPT ![a] = f]
  /\ onDisk' = [onDisk EXCEPT ![a] = @ \cup {f}]
  /\ text'   = [text   EXCEPT ![f] = Torn]
  /\ UNCHANGED <<flushed, removed>>

WriteText(f, r) ==
  /\ text' = [text EXCEPT ![f] = r]
  /\ UNCHANGED <<entry, onDisk, flushed, removed>>

\* fsync of the file: its content survives, its name may not.
FlushFile(f) ==
  /\ flushed' = flushed \cup {f}
  /\ UNCHANGED <<entry, onDisk, text, removed>>

\* unlink by path: whatever file has the name now goes.
Unlink(a) ==
  /\ entry[a] # NoFile
  /\ entry'   = [entry  EXCEPT ![a] = NoFile]
  /\ onDisk'  = [onDisk EXCEPT ![a] = @ \cup {NoFile}]
  /\ removed' = removed \cup {entry[a]}
  /\ UNCHANGED <<text, flushed>>

\* fsync of the directory: every name in it survives as it is now.
SyncDirectory ==
  /\ onDisk' = [a \in Authorizations |-> {entry[a]}]
  /\ UNCHANGED <<entry, text, flushed, removed>>

\* Power loss: each name leads to one of the files it may have on disk, also to
\* one that was unlinked, and a file that was not flushed may hold a part of its
\* content.
LoseUnsynced ==
  /\ entry' \in [Authorizations -> Files \cup {NoFile}]
  /\ \A a \in Authorizations : entry'[a] \in onDisk[a]
  /\ onDisk' = [a \in Authorizations |-> {entry'[a]}]
  /\ \E lost \in SUBSET {f \in Files \ flushed : text[f] # Free} :
       text' = [f \in Files |-> IF f \in lost THEN Torn ELSE text[f]]
  /\ flushed' = {f \in Files : text[f] # Free}
  /\ removed' = {f \in removed : \A a \in Authorizations : entry'[a] # f}
=============================================================================
