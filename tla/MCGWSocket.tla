----------------------------- MODULE MCGWSocket -----------------------------
(* GWSocket for TLC; the configurations choose the kinds of socket, the    *)
(* calls of the script and the bounds.                                     *)
EXTENDS GWSocket
=============================================================================
