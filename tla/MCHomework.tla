----------------------------- MODULE MCHomework -----------------------------
(* Two resources, of which there are two units and one.                    *)
EXTENDS Homework
Total == <<2, 1>>
=============================================================================
