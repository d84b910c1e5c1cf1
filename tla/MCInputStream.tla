--------------------------- MODULE MCInputStream ---------------------------
(***************************************************************************)
(* The stream of one player, with numbers that wrap soon.                  *)
(***************************************************************************)
EXTENDS InputStream
=============================================================================
