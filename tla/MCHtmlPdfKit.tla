----------------------------- MODULE MCHtmlPdfKit -----------------------------
(* Instances of HtmlPdfKit for TLC.                                        *)
EXTENDS HtmlPdfKit, TLC

Symmetry == Permutations(Job \ External) \cup Permutations(File)
=============================================================================
