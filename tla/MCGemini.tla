------------------------------- MODULE MCGemini -------------------------------
(* The instance of MCExecutor with the Gemini route in front of it.            *)
EXTENDS MCExecutor, GeminiGate
=============================================================================
