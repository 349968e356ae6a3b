---------------------------- MODULE MCRagIngest ----------------------------
(* Instances of RagIngest for TLC. *)
EXTENDS RagIngest

\* note: readable, its type not retained; sheet: readable, retained, as a table
\* sent with the type of a spreadsheet is; scan: retained, nothing to extract;
\* bomb: retained, kills the parser.
\* p1, p2: two POST requests.
CONSTANTS note, sheet, scan, bomb, p1, p2
=============================================================================
