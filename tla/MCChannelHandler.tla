-------------------------- MODULE MCChannelHandler --------------------------
(* Two indexing threads and a channel that three messages fill. *)
EXTENDS ChannelHandler

CONSTANTS i1, i2
=============================================================================
