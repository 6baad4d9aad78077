--------------------------- MODULE MCConfigService ---------------------------
(***************************************************************************)
(* The settings in use, with one pool beside the empty one and one password *)
(* beside the empty one.                                                    *)
(***************************************************************************)
EXTENDS ConfigService
=============================================================================
