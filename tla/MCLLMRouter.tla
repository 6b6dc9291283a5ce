---------------------------- MODULE MCLLMRouter -----------------------------
(* Model-checking instance of LLMRouter. *)
EXTENDS LLMRouter

CONSTANTS openai, anthropic, ollama

\* As in router.go's example: anthropic falls back to openai, then ollama, which is
\* not registered here.
Chains == [p \in {openai, anthropic} |->
              IF p = anthropic THEN <<openai, ollama>> ELSE << >>]
=============================================================================
