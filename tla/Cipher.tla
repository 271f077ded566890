------------------------------- MODULE Cipher -------------------------------
(***************************************************************************)
(* The cipher of an encrypted (MCNE) database: bytes are XORed with a key  *)
(* that repeats.  A byte is a set of bits, so that ^= is the symmetric     *)
(* difference.                                                             *)
(***************************************************************************)
EXTENDS Naturals, Sequences

CONSTANT Key  \* the encryption key

Xor(a, b) == (a \ b) \union (b \ a)

(* PerformXorOn: byte i of the data meets byte (offset + i) % size of key. *)
XorOn(data, offset) ==
  [i \in 1 .. Len(data) |->
     Xor(data[i], Key[((offset + i - 1) % Len(Key)) + 1])]
=============================================================================
