--------------------------- MODULE MCLabelPipeline ---------------------------
(* Two workers and a window smaller than the input.                        *)
EXTENDS LabelPipeline
=============================================================================
