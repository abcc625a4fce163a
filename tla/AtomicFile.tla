------------------------------ MODULE AtomicFile ------------------------------
(***************************************************************************)
(* What Session and Hosts assume of a save, and write_atomic promises: a   *)
(* file is replaced by a whole document in one step, and a power cut       *)
(* leaves it, or the last document that surely reached the disk.           *)
(***************************************************************************)
CONSTANTS Doc, Absent     \* the documents written; no file

VARIABLES content, safe   \* what a reader gets; what the disk surely holds

Init == content \in Doc \union {Absent} /\ safe = content

Replace == content' \in Doc /\ UNCHANGED safe
Flush == safe' = content /\ UNCHANGED content
PowerCut == content' \in {content, safe} /\ safe' = content'

Next == Replace \/ Flush \/ PowerCut
Spec == Init /\ [][Next]_<<content, safe>>
=============================================================================
