-------------------------- MODULE MCMessageStream --------------------------
(* Model-checking instance of MessageStream: two conversations, handlers    *)
(* and replies.  No symmetry: a liveness property is checked.               *)
EXTENDS MessageStream
=============================================================================
