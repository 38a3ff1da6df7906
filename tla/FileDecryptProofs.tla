-------------------------- MODULE FileDecryptProofs --------------------------
(***************************************************************************)
(* Proofs about FileDecrypt for every block size, byte range and message:  *)
(* pkcs7Unpad undoes PKCS#7 padding, and DecryptFile returns the message a *)
(* well-formed file was encrypted from.                                    *)
(***************************************************************************)
EXTENDS FileDecrypt, TLAPS

\* The padding length is between 1 and BlockSize, so it fits in a byte.
LEMMA PadLenRange ==
  ASSUME NEW m \in Seq(Bytes)
  PROVE  PadLen(m) \in 1..BlockSize /\ PadLen(m) \in Bytes
  BY DecryptConstAssumption DEF PadLen, Bytes

\* A padded message is a byte sequence that ends in its padding length.
LEMMA PadShape ==
  ASSUME NEW m \in Seq(Bytes)
  PROVE  /\ Pad(m) \in Seq(Bytes)
         /\ Len(Pad(m)) = Len(m) + PadLen(m)
         /\ Pad(m)[Len(Pad(m))] = PadLen(m)
         /\ SubSeq(Pad(m), 1, Len(m)) = m
  <1>1. PadLen(m) \in 1..BlockSize /\ PadLen(m) \in Bytes
    BY PadLenRange
  <1>2. [i \in 1..PadLen(m) |-> PadLen(m)] \in Seq(Bytes)
    BY <1>1
  <1>3. QED
    BY <1>1, <1>2 DEF Pad

\* Message and padding fill whole blocks.
LEMMA PadWholeBlocks ==
  ASSUME NEW m \in Seq(Bytes)
  PROVE  (Len(m) + PadLen(m)) % BlockSize = 0
  <1>1. PICK B \in Nat \ {0}, L \in Nat : B = BlockSize /\ L = Len(m)
    BY DecryptConstAssumption
  <1>2. PICK q \in Nat : L = B * q + (L % B)
    <2>1. L \div B \in Nat /\ L = B * (L \div B) + (L % B)
      BY <1>1, SMT
    <2>2. QED
      BY <2>1
  <1>3. L + PadLen(m) = B * (q + 1)
    BY <1>1, <1>2 DEF PadLen
  <1>4. (B * (q + 1)) % B = 0
    BY <1>1
  <1>5. QED
    BY <1>1, <1>3, <1>4

\* pkcs7Unpad undoes PKCS#7 padding.
LEMMA UnpadPad ==
  ASSUME NEW m \in Seq(Bytes)
  PROVE  pkcs7Unpad(Pad(m)) = Result("ok", m)
  <1>1. PadLen(m) \in 1..BlockSize
    BY PadLenRange
  <1>2. /\ Len(Pad(m)) = Len(m) + PadLen(m)
        /\ Pad(m)[Len(Pad(m))] = PadLen(m)
        /\ SubSeq(Pad(m), 1, Len(m)) = m
    BY PadShape
  <1>3. Len(Pad(m)) # 0 /\ ~(Pad(m)[Len(Pad(m))] > Len(Pad(m)))
    BY <1>1, <1>2
  <1>4. Len(Pad(m)) - Pad(m)[Len(Pad(m))] = Len(m)
    BY <1>1, <1>2
  <1>5. QED
    BY <1>2, <1>3, <1>4 DEF pkcs7Unpad

\* A file encrypted with the right key from a message: its plaintext is the
\* padded message, behind one IV block.
WellFormed(f) ==
  f.origin # <<>> =>
    /\ f.keyOk
    /\ f.origin[1] \in Seq(Bytes)
    /\ f.plain = Pad(f.origin[1])
    /\ f.size = BlockSize + Len(Pad(f.origin[1]))

\* The inductive invariant: the file is well formed when it has an origin,
\* and a result is the one DecryptFile computes.
IInv ==
  /\ WellFormed(file)
  /\ result.kind # "none" => result = DecryptFile(file)

\* DecryptFile on a well-formed file with a writable output.
LEMMA DecryptWellFormed ==
  ASSUME NEW f, WellFormed(f), f.origin # <<>>, f.writeOk
  PROVE  DecryptFile(f) = Result("written", f.origin[1])
  <1> DEFINE m == f.origin[1]
  <1>1. m \in Seq(Bytes) /\ f.keyOk /\ f.plain = Pad(m)
        /\ f.size = BlockSize + Len(Pad(m))
    BY DEF WellFormed
  <1>2. Len(Pad(m)) = Len(m) + PadLen(m) /\ Pad(m) \in Seq(Bytes)
    BY <1>1, PadShape
  <1>3. (Len(m) + PadLen(m)) % BlockSize = 0
    BY <1>1, PadWholeBlocks
  <1>4. ~(f.size < BlockSize) /\ (f.size - BlockSize) % BlockSize = 0
    BY <1>1, <1>2, <1>3, DecryptConstAssumption
  <1>5. pkcs7Unpad(f.plain) = Result("ok", m)
    BY <1>1, UnpadPad
  <1>6. QED
    BY <1>1, <1>4, <1>5 DEF DecryptFile, Result

\* Every initial file is well formed.
LEMMA InitWellFormed ==
  ASSUME NEW f \in Files
  PROVE  WellFormed(f)
  <1>1. CASE f \in GoodFiles
    <2>1. PICK m \in Msgs, w \in BOOLEAN :
                 f = [keyOk |-> TRUE, size |-> BlockSize + Len(Pad(m)),
                      plain |-> Pad(m), writeOk |-> w, origin |-> <<m>>]
      BY <1>1 DEF GoodFiles
    <2>2. m \in Seq(Bytes)
      BY DEF Msgs
    <2>3. QED
      BY <2>1, <2>2 DEF WellFormed
  <1>2. CASE f \in CorruptFiles \cup RaggedFiles \cup BadKeyFiles
    <2>1. f.origin = <<>>
      BY <1>2 DEF CorruptFiles, RaggedFiles, BadKeyFiles
    <2>2. QED
      BY <2>1 DEF WellFormed
  <1>3. QED
    BY <1>1, <1>2 DEF Files

\* Decrypting a file encrypted with the right key yields the message.
THEOREM RoundTripHolds == Spec => []RoundTrip
  <1>1. Init => IInv
    BY InitWellFormed DEF Init, IInv, Result
  <1>2. IInv /\ [Decrypt]_vars => IInv'
    <2> SUFFICES ASSUME IInv, [Decrypt]_vars PROVE IInv'
      OBVIOUS
    <2>1. WellFormed(file)'
      BY DEF IInv, WellFormed, Decrypt, vars
    <2>2. CASE Decrypt
      BY <2>1, <2>2 DEF IInv, Decrypt
    <2>3. CASE UNCHANGED vars
      BY <2>1, <2>3 DEF IInv, vars
    <2>4. QED
      BY <2>2, <2>3
  <1>3. IInv => RoundTrip
    BY DecryptWellFormed DEF IInv, RoundTrip, Result
  <1>4. QED
    BY <1>1, <1>2, <1>3, PTL DEF Spec

=============================================================================
