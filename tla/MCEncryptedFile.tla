-------------------------- MODULE MCEncryptedFile --------------------------
(* Small instances of EncryptedFile: bytes of one bit, slices of one to     *)
(* three bytes, so that one can be shorter and one longer than the buffer,  *)
(* and a key whose bytes differ.  Slices holds what encryption makes of     *)
(* them, too.                                                               *)
EXTENDS EncryptedFile

MCByte == {{}, {1}}
MCSlices == UNION {[1 .. n -> MCByte] : n \in 1 .. 3}
MCPlaintexts == {<<{}>>, <<{}, {1}>>, <<{1}, {1}, {}>>}
MCKey == <<{1}, {}>>
MCMagic == <<{1}>>
=============================================================================
