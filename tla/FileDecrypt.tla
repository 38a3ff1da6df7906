----------------------------- MODULE FileDecrypt -----------------------------
(***************************************************************************)
(* DecryptFile and pkcs7Unpad (src/crypto/decrypt.go): one call on an      *)
(* encrypted file. The file is an IV block followed by AES-CBC ciphertext. *)
(* The cryptography is abstracted to what the control depends on: whether *)
(* the key steps succeed, the file's length, and the plaintext CBC         *)
(* decryption yields. For a file encrypted with the right key that         *)
(* plaintext is the message with PKCS#7 padding; for a corrupted file or a *)
(* wrong key it is any bytes.                                              *)
(***************************************************************************)
EXTENDS Naturals, Sequences

CONSTANTS
  BlockSize,  \* aes.BlockSize (16)
  MaxByte,    \* largest byte value in the model (255 in the code)
  MaxLen      \* longest message encrypted in the model

ASSUME DecryptConstAssumption ==
  /\ MaxByte \in Nat
  /\ BlockSize \in 1..MaxByte
  /\ MaxLen \in Nat

Bytes == 0..MaxByte

\* Outcome of a call: glog.Fatalf exits, a runtime panic, or the output
\* file is written with data.
Result(k, d) == [kind |-> k, data |-> d]

\* PKCS#7 padding as the encrypting side appends it: k copies of k, with
\* k = BlockSize - Len(m) % BlockSize.
PadLen(m) == BlockSize - (Len(m) % BlockSize)
Pad(m) == m \o [i \in 1..PadLen(m) |-> PadLen(m)]

\* Mutant: a padding as long as the data is rejected.
pkcs7UnpadGE(data) ==
  IF Len(data) = 0 THEN Result("panic", <<>>)
  ELSE IF data[Len(data)] >= Len(data) THEN Result("error", <<>>)
  ELSE Result("ok", SubSeq(data, 1, Len(data) - data[Len(data)]))

\* pkcs7Unpad (decrypt.go:16-23): data[length-1] panics on empty data; a
\* last byte larger than the length is an error; else that many bytes are
\* cut off.
pkcs7Unpad(data) ==
  IF Len(data) = 0 THEN Result("panic", <<>>)
  ELSE IF data[Len(data)] > Len(data) THEN Result("error", <<>>)
  ELSE Result("ok", SubSeq(data, 1, Len(data) - data[Len(data)]))

\* DecryptFile (decrypt.go:26-65) on file f. Base64 decoding, RSA-OAEP,
\* ReadFile and NewCipher failures are all glog.Fatalf; slicing the IV off
\* a file shorter than a block panics, as does CryptBlocks on ciphertext
\* that is not whole blocks.
DecryptFile(f) ==
  IF ~f.keyOk THEN Result("exit", <<>>)
  ELSE IF f.size < BlockSize THEN Result("panic", <<>>)
  ELSE IF (f.size - BlockSize) % BlockSize # 0 THEN Result("panic", <<>>)
  ELSE LET u == pkcs7Unpad(f.plain) IN
       IF u.kind = "panic" THEN Result("panic", <<>>)
       ELSE IF u.kind = "error" \/ ~f.writeOk THEN Result("exit", <<>>)
       ELSE Result("written", u.data)

\* Messages of up to MaxLen bytes.
Msgs == UNION {[1..n -> Bytes] : n \in 0..MaxLen}

\* What the model keeps of a file: whether the key steps succeed, its size,
\* the plaintext CBC decryption yields, whether the output can be written,
\* and the message it was encrypted from, if any.
File ==
  [keyOk : BOOLEAN, size : Nat, plain : Seq(Bytes), writeOk : BOOLEAN,
   origin : Seq(Seq(Bytes))]

\* A file encrypted with the right key from message m (origin <<m>>).
GoodFiles ==
  {[keyOk |-> TRUE, size |-> BlockSize + Len(Pad(m)), plain |-> Pad(m),
    writeOk |-> w, origin |-> <<m>>] : m \in Msgs, w \in BOOLEAN}

\* Whole blocks of arbitrary plaintext: corrupted, or a wrong AES key.
CorruptFiles ==
  UNION {{[keyOk |-> TRUE, size |-> BlockSize + n, plain |-> d, writeOk |-> TRUE,
           origin |-> <<>>] : d \in [1..n -> Bytes]} : n \in {0, BlockSize}}

\* Files too short for the IV, or not whole blocks.
RaggedFiles ==
  {[keyOk |-> TRUE, size |-> s, plain |-> <<>>, writeOk |-> TRUE, origin |-> <<>>] :
     s \in {0, BlockSize - 1, BlockSize + 1}}

\* A key that does not decode or decrypt.
BadKeyFiles ==
  {[keyOk |-> FALSE, size |-> 2 * BlockSize, plain |-> <<>>, writeOk |-> TRUE,
    origin |-> <<>>]}

Files == GoodFiles \cup CorruptFiles \cup RaggedFiles \cup BadKeyFiles

VARIABLES file, result

vars == <<file, result>>

Init ==
  /\ file \in Files
  /\ result = Result("none", <<>>)

\* The call.
Decrypt ==
  /\ result.kind = "none"
  /\ result' = DecryptFile(file)
  /\ UNCHANGED file

Spec == Init /\ [][Decrypt]_vars

-----------------------------------------------------------------------------
(* Properties.                                                             *)

TypeOK ==
  /\ file \in File
  /\ result.kind \in {"none", "exit", "panic", "written"}
  /\ result.data \in Seq(Bytes)

\* A file encrypted with the right key decrypts to the original message:
\* when DecryptFile returns and the output could be written, it holds
\* exactly the bytes that were encrypted, padding removed.
RoundTrip ==
  (file.origin # <<>> /\ file.writeOk /\ result.kind # "none")
    => result = Result("written", file.origin[1])

\* PKCS#7 padding is valid when its last byte k is in 1..BlockSize and the
\* last k bytes all equal k.
ValidPadding(d) ==
  /\ Len(d) > 0
  /\ d[Len(d)] \in 1..BlockSize
  /\ d[Len(d)] <= Len(d)
  /\ \A i \in (Len(d) - d[Len(d)] + 1)..Len(d) : d[i] = d[Len(d)]

\* pkcs7Unpad reports "file-decrypt: invalid padding" (decrypt.go:20): no
\* output file is written from a plaintext whose padding is not valid.
UnpadRejectsBadPadding ==
  result.kind = "written" => ValidPadding(file.plain)

=============================================================================
