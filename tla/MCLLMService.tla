---------------------------- MODULE MCLLMService ----------------------------
(* Requests of two messages, replies of three deltas and three tool calls. *)
EXTENDS LLMService

=============================================================================
