--------------------------- MODULE MCWritableFile ---------------------------
(* Small instances of WritableFile: two byte values, slices of one to three *)
(* bytes, so that one slice can be shorter and one longer than the buffer.  *)
EXTENDS WritableFile

MCSlices == {<<0>>, <<0, 1>>, <<1, 1, 0>>}
=============================================================================
