-------------------------- MODULE MCPipelineRelay --------------------------
(* A retried upload and two downloads of one key; a body of three chunks in*)
(* a buffer of one, so that every overflow happens.                        *)
EXTENDS PipelineRelay
=============================================================================
