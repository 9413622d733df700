---------------------------- MODULE PacketCipher ----------------------------
(***************************************************************************)
(* The wrappers of encryption.py around the socket and its file object.    *)
(* What is sent and received goes through AES in CFB8 mode (external): a   *)
(* byte is masked with a function of the ciphertext before it, here of one *)
(* byte of it, so that each end must see every byte once and in order.     *)
(***************************************************************************)
EXTENDS PacketFraming

\* The state of a cipher context before encryption begins: bytes are left as they
\* are; and right after it.
Clear == -1
Fresh == 0

\* What encrypting and decrypting change: the byte before is all there is to know.
AfterByte(z, state) == IF state = Clear \/ z = <<>> THEN state ELSE z[Len(z)]

Mask(byte) == 3 * byte + 1

\* encryptor.update
Encrypted(s, state) ==
  IF state = Clear THEN s
  ELSE FoldLeft(LAMBDA z, b :
         Append(z, (b + Mask(AfterByte(z, state))) % (2 * Group)), <<>>, s)

\* decryptor.update
Decrypted(z, state) ==
  IF state = Clear THEN z
  ELSE [i \in DOMAIN z |->
          (z[i] - Mask(IF i = 1 THEN state ELSE z[i - 1])) % (2 * Group)]
=============================================================================
