--------------------------- MODULE MCCommandRouter ---------------------------
(* CommandRouter for TLC; each .cfg turns on the part of it that its       *)
(* question needs.  One loco and three protocols suffice where commands    *)
(* and echoes of the same loco meet, two locos where they compete for the  *)
(* one slot of attribution, sweep, baseline query or table.                *)
EXTENDS CommandRouter
=============================================================================
