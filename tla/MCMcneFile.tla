----------------------------- MODULE MCMcneFile -----------------------------
(* Small instances of McneFile: bytes of two bits, a key of three          *)
(* different bytes, slices shorter and longer than the key.                *)
EXTENDS McneFile

MCKey == <<{1}, {}, {1, 2}>>
MCSlices == {<<{2}>>, <<{}, {1, 2}>>, <<{1}, {1}, {}, {2}>>}
=============================================================================
