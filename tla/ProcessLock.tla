----------------------------- MODULE ProcessLock -----------------------------
(***************************************************************************)
(* acquireProcessLock() (apps/cli/src/process-lock.ts), the lock file that  *)
(* makes one process the gateway of a Profile or the writer of its          *)
(* configuration: the file is created exclusively and then written, a lock  *)
(* of a dead owner is moved away under a second lock, the mutex directory,  *)
(* and the release removes the file if it is the owner's.  Every access to  *)
(* the file system is awaited, so a step is one access.                     *)
(*                                                                         *)
(* A process stands for one acquisition with its token.  The age limits of  *)
(* a minute are taken to be met by processes that are alive: only what a    *)
(* dead one left behind is ever too old.                                    *)
(***************************************************************************)
EXTENDS Naturals, FiniteSets

CONSTANTS
  Process,    \* acquisitions
  None,       \* no file, or no text in it; not a process
  MaxCrashes  \* bound: processes that die

VARIABLES
  file,      \* the process that created the file at the lock's path, or None
  written,   \* processes whose file holds their token
  mutex,     \* who made the mutex directory, and the token in it
  pc,        \* what each process does next
  owner      \* the token each process read in the lock it found

vars == <<file, written, mutex, pc, owner>>

NoMutex == [maker |-> None, text |-> None]

Init ==
  /\ file = None /\ written = {} /\ mutex = NoMutex
  /\ pc = [p \in Process |-> "idle"]
  /\ owner = [p \in Process |-> None]

Goes(p, step) == pc' = [pc EXCEPT ![p] = step]

\* readFile(path), with the empty text for a missing file.
Text == IF file \in written THEN file ELSE None

\* processAlive()
Dead(p) == p # None /\ pc[p] = "dead"

-----------------------------------------------------------------------------
(* Acquisition.                                                            *)

Start(p) ==
  /\ pc[p] = "idle" /\ Goes(p, "open")
  /\ UNCHANGED <<file, written, mutex, owner>>

\* open(path, "wx")
Open(p) ==
  /\ pc[p] = "open"
  /\ \/ file = None /\ file' = p /\ Goes(p, "write")
     \/ file # None /\ Goes(p, "read") /\ UNCHANGED file
  /\ UNCHANGED <<written, mutex, owner>>

\* The handle writes to the file that was created, wherever that is by now.
Write(p) ==
  /\ pc[p] = "write" /\ Goes(p, "held")
  /\ written' = written \cup {p}
  /\ UNCHANGED <<file, mutex, owner>>

ReadOwner(p) ==
  /\ pc[p] = "read" /\ Goes(p, "judge")
  /\ owner' = [owner EXCEPT ![p] = Text]
  /\ UNCHANGED <<file, written, mutex>>

\* A lock with a token is stale if its process is dead, one without (see
\* oldEmptyLock) if it is old, or is not there any more.
Judge(p) ==
  /\ pc[p] = "judge"
  /\ \/ /\ Dead(owner[p]) \/ (owner[p] = None /\ (file = None \/ Dead(file)))
        /\ Goes(p, "reclaim")
     \/ ~Dead(owner[p]) /\ (owner[p] # None \/ file # None) /\ Goes(p, "refused")
  /\ UNCHANGED <<file, written, mutex, owner>>

-----------------------------------------------------------------------------
(* Reclaiming a stale lock.                                                *)

MakeMutex(p) ==
  /\ pc[p] = "reclaim"
  /\ \/ /\ mutex = NoMutex /\ mutex' = [maker |-> p, text |-> None]
        /\ Goes(p, "sign")
     \/ mutex # NoMutex /\ Goes(p, "blocked") /\ UNCHANGED mutex
  /\ UNCHANGED <<file, written, owner>>

\* The token goes into the directory that is there, or the write throws.
SignMutex(p) ==
  /\ pc[p] = "sign"
  /\ \/ /\ mutex # NoMutex /\ mutex' = [mutex EXCEPT !.text = p]
        /\ Goes(p, "check")
     \/ mutex = NoMutex /\ Goes(p, "refused") /\ UNCHANGED mutex
  /\ UNCHANGED <<file, written, owner>>

\* staleReclaimMutex(): an abandoned mutex is removed, another one awaited.
Blocked(p) ==
  /\ pc[p] = "blocked"
  /\ \/ /\ mutex = NoMutex \/ Dead(mutex.maker) \/ Dead(mutex.text)
        /\ Goes(p, "clear")
     \/ mutex # NoMutex /\ ~Dead(mutex.text) /\ Goes(p, "open")
  /\ UNCHANGED <<file, written, mutex, owner>>

RemoveMutex(p) ==
  /\ pc[p] \in {"clear", "leave"} /\ Goes(p, "open")
  /\ mutex' = NoMutex
  /\ UNCHANGED <<file, written, owner>>

\* The lock is read again under the mutex ...
Check(p) ==
  /\ pc[p] = "check"
  /\ Goes(p, IF Text = owner[p] THEN "rename" ELSE "unlock")
  /\ UNCHANGED <<file, written, mutex, owner>>

\* ... and moved away, if it is still there.
Rename(p) ==
  /\ pc[p] = "rename" /\ Goes(p, "unlock")
  /\ file' = None
  /\ UNCHANGED <<written, mutex, owner>>

\* finally: the mutex is left if it still has the own token.
Unlock(p) ==
  /\ pc[p] = "unlock"
  /\ Goes(p, IF mutex.text = p THEN "leave" ELSE "open")
  /\ UNCHANGED <<file, written, mutex, owner>>

-----------------------------------------------------------------------------
(* Release, which reads the file before it removes it, and death.          *)

Release(p) ==
  /\ pc[p] = "held"
  /\ Goes(p, IF Text = p THEN "remove" ELSE "released")
  /\ UNCHANGED <<file, written, mutex, owner>>

Remove(p) ==
  /\ pc[p] = "remove" /\ Goes(p, "released")
  /\ file' = None
  /\ UNCHANGED <<written, mutex, owner>>

Crash(p) ==
  /\ pc[p] \notin {"idle", "refused", "released", "dead"}
  /\ Cardinality({q \in Process : pc[q] = "dead"}) < MaxCrashes
  /\ Goes(p, "dead")
  /\ UNCHANGED <<file, written, mutex, owner>>

-----------------------------------------------------------------------------
Next ==
  \E p \in Process :
    \/ Start(p) \/ Open(p) \/ Write(p) \/ ReadOwner(p) \/ Judge(p)
    \/ MakeMutex(p) \/ SignMutex(p) \/ Blocked(p) \/ RemoveMutex(p)
    \/ Check(p) \/ Rename(p) \/ Unlock(p)
    \/ Release(p) \/ Remove(p) \/ Crash(p)

Spec == Init /\ [][Next]_vars

\* channel-lock.test.mjs:9: "Feishu channel lock prevents duplicate Profile
\* gateways and releases cleanly".  Two processes never hold the lock at once,
\* whoever releases it, dies with it, or reclaims it meanwhile.
MutualExclusion ==
  \A p, q \in Process : pc[p] = "held" /\ pc[q] = "held" => p = q
=============================================================================
