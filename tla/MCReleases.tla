----------------------------- MODULE MCReleases -----------------------------
(* Two files of one name, as a build for two systems leaves them, and one  *)
(* of another.                                                             *)
EXTENDS Releases

CONSTANTS linux_fjo, mac_fjo, notes_md

MCFile == {linux_fjo, mac_fjo, notes_md}
MCBaseName == [f \in MCFile |-> IF f = notes_md THEN "notes.md" ELSE "fjo"]
=============================================================================
