---------------------------- MODULE MCPaperImports -----------------------------
(* Concurrent imports of two formats into one project.                     *)
EXTENDS PaperImports, TLC

CONSTANTS i1, i2, i3, doc, docx

TwoFormats == (i1 :> docx) @@ (i2 :> docx) @@ (i3 :> doc)
OfTwo == (i1 :> docx) @@ (i2 :> doc)
==============================================================================
