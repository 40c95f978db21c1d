----------------------------- MODULE MCFileSync -----------------------------
EXTENDS FileSync, TLC

CONSTANTS f, g, a, b

MCTexts == {<<a>>, <<b>>, <<a, b>>}
MCStart == (f :> <<a>>) @@ (g :> <<a, b>>)

=============================================================================
