---------------------------- MODULE DurableStore ----------------------------
(***************************************************************************)
(* What the in-memory store of pkg/memkube/mem promises its callers about  *)
(* the objects they add and delete, with nothing of how it keeps them: no  *)
(* pending events, no batches, no loop, no restart.  A restart of the      *)
(* process is a step in which nothing of this changes.                     *)
(***************************************************************************)
CONSTANT Uids      \* the objects ever added

VARIABLES disk,    \* the objects that are durable
          told,    \* the objects a caller was told are stored
          asked,   \* the objects somebody asked to delete
          gone     \* the objects a caller was told are deleted

vars == <<disk, told, asked, gone>>

Init == disk = {} /\ told = {} /\ asked = {} /\ gone = {}

\* One write of a file stores objects and removes objects, those that somebody
\* asked to delete; what was reported as deleted does not come back.
Write ==
  /\ disk' \in SUBSET Uids
  /\ disk \ disk' \subseteq asked
  /\ disk' \cap gone = {}
  /\ UNCHANGED <<told, asked, gone>>

AskDelete(u) ==
  /\ asked' = asked \cup {u}
  /\ UNCHANGED <<disk, told, gone>>

\* An object is reported as stored only once it is.
TellStored(u) ==
  /\ u \in disk \cup asked
  /\ told' = told \cup {u}
  /\ UNCHANGED <<disk, asked, gone>>

\* An object is reported as deleted only once it is.
TellDeleted(u) ==
  /\ u \in asked \ disk
  /\ gone' = gone \cup {u}
  /\ UNCHANGED <<disk, told, asked>>

Next ==
  \/ Write
  \/ \E u \in Uids : AskDelete(u) \/ TellStored(u) \/ TellDeleted(u)

Spec == Init /\ [][Next]_vars

\* What a caller was told is true of the files: an object reported as stored is
\* there until somebody asks to delete it, one reported as deleted is not.
Truthful ==
  /\ told \ asked \subseteq disk
  /\ gone \cap disk = {}
=============================================================================
