--------------------------- MODULE ConfigDocument ---------------------------
(***************************************************************************)
(* What the configuration file promises to the requests that share it:     *)
(* it always holds one whole document, every change of it is one request's *)
(* section put on a document that request has read, and nobody replaces a  *)
(* document by defaults once there is one.  The promise is deliberately    *)
(* this weak: the document a request builds on need not be the current     *)
(* one, so a save may undo what was saved since that request read.         *)
(***************************************************************************)
CONSTANTS
  NoDocument,      \* there is no file
  Blank,           \* what a request reads then
  Broken,          \* something is there that does not load
  Beginnings,      \* what a start may leave where nothing was
  OneSection(_, _) \* two documents differ in one section at most

VARIABLES
  document,   \* what the file holds
  held        \* the documents that requests have read and not yet answered from

vars == <<document, held>>

Unstarted == document \in Beginnings \cup {NoDocument}

Init == document = NoDocument /\ held = {}

\* A start finds or makes a document; it may die on the way, and the next one
\* takes what is there as it is.
Start == /\ Unstarted
         /\ document' \in Beginnings
         /\ held = {} /\ held' = {}

\* A request reads the file, if it loads.
Read == /\ document # Broken
        /\ held' = held \cup {IF document = NoDocument THEN Blank ELSE document}
        /\ UNCHANGED document

\* A request puts its section on what it has read and is done.
Save == \E base \in held :
          /\ OneSection(base, document')
          /\ held' \subseteq held

\* Requests end, by an answer, an error or the death of the process.
Forget == held' \subseteq held /\ UNCHANGED document

Next == Start \/ Read \/ Save \/ Forget

Spec == Init /\ [][Next]_vars
=============================================================================
