----------------------------- MODULE BinaryDigest -----------------------------
(***************************************************************************)
(* The digest of the running binary: binary_sha256 (bench/src/bench.c),    *)
(* taken once and put into every document of the run, and sha256.c below   *)
(* it, which feeds the file to the compression function block by block.    *)
(*                                                                         *)
(* The compression function is left out: a digest is the message whose     *)
(* blocks it was given, so two digests are the same only where the messages *)
(* are.                                                                    *)
(***************************************************************************)
EXTENDS Integers, Sequences

CONSTANTS Binaries,    \* what the executable's file may hold, as bytes
          Block,       \* 64: bytes in a block
          LenSize,     \* 8: bytes of the length that ends a message
          Chunk,       \* the bytes sha256_file asks fread for
          Documents,   \* documents of a run, one for each variant (a bound)
          NoDigest     \* no digest

ASSUME DigestAssumption ==
  /\ Binaries \subseteq Seq(0..255)
  /\ Block \in Nat /\ LenSize \in 1..(Block - 1)
  /\ Chunk \in Nat \ {0} /\ Documents \in Nat

VARIABLES running,   \* what is being executed
          exe,       \* /proc/self/exe names it; elsewhere a path does
          binary,    \* what the path names now
          file,      \* what was opened, and how much of it was read
          at,
          failed,    \* ferror
          hashed,    \* the bytes the compression function has been given
          buf,       \* c->buf up to c->used
          rest,      \* what sha256_update still has to take
          hashing,      \* where sha256_file is; "idle" before and "over" after it
          hex,       \* the cached digest, or NoDigest
          sent       \* the digests of the documents so far

hash == <<hashed, buf, rest>>
digest == <<running, exe, binary, file, at, failed, hash, hashing, hex, sent>>

DigestInit ==
  /\ running \in Binaries /\ binary = running /\ exe \in BOOLEAN
  /\ file = <<>> /\ at = 0 /\ failed = FALSE
  /\ hashed = <<>> /\ buf = <<>> /\ rest = <<>>
  /\ hashing = "idle" /\ hex = NoDigest /\ sent = <<>>

\* print_platform asks for the digest, before anything is measured. Where the
\* file cannot be named or opened there is none.
OpenBinary ==
  /\ hashing = "idle"
  /\ file' = IF exe THEN running ELSE binary
  /\ hashing' \in {"read", "over"}
  /\ UNCHANGED <<running, exe, binary, at, failed, hash, hex, sent>>

\* fread: a whole chunk, or what there is before the end or before an error;
\* after an error it is asked again.
ReadChunk ==
  /\ hashing = "read" /\ rest = <<>>
  /\ \E n \in 1..Chunk :
       /\ at + n <= Len(file)
       /\ failed' = (failed \/ (n < Chunk /\ at + n < Len(file)))
       /\ rest' = SubSeq(file, at + 1, at + n)
       /\ at' = at + n
  /\ UNCHANGED <<running, exe, binary, file, hashed, buf, hashing, hex, sent>>

\* One turn of sha256_update's loop.
Take ==
  /\ rest # <<>>
  /\ LET take == IF Block - Len(buf) > Len(rest) THEN Len(rest) ELSE Block - Len(buf)
         now  == buf \o SubSeq(rest, 1, take)
     IN /\ rest' = SubSeq(rest, take + 1, Len(rest))
        /\ IF Len(now) = Block
           THEN hashed' = hashed \o now /\ buf' = <<>>
           ELSE hashed' = hashed /\ buf' = now
  /\ UNCHANGED <<running, exe, binary, file, at, failed, hashing, hex, sent>>

\* fread returns nothing: the file is over, or it could not be read.
EndOfFile ==
  /\ hashing = "read" /\ rest = <<>>
  /\ failed' = (failed \/ at < Len(file))
  /\ IF failed'
     THEN hashing' = "over" /\ UNCHANGED rest
     ELSE hashing' = "zeros" /\ rest' = <<128>>
  /\ UNCHANGED <<running, exe, binary, file, at, hashed, buf, hex, sent>>

\* The length in bits, the highest byte first.
LengthField(bytes) ==
  [i \in 1..LenSize |-> ((8 * bytes) \div (256^(LenSize - i))) % 256]

\* sha256_final: zeros until just the length has room, then the length.
Pad ==
  /\ hashing = "zeros" /\ rest = <<>>
  /\ IF Len(buf) # Block - LenSize
     THEN rest' = <<0>> /\ UNCHANGED hashing
     ELSE rest' = LengthField(at) /\ hashing' = "length"
  /\ UNCHANGED <<running, exe, binary, file, at, failed, hashed, buf, hex, sent>>

Finalise ==
  /\ hashing = "length" /\ rest = <<>>
  /\ hex' = hashed
  /\ hashing' = "over"
  /\ UNCHANGED <<running, exe, binary, file, at, failed, hash, sent>>

\* Mutant: every document has the digest of what the path names then.
SendAnew ==
  /\ hashing = "over" /\ Len(sent) < Documents
  /\ sent' = Append(sent, IF hex = NoDigest THEN NoDigest ELSE binary)
  /\ UNCHANGED <<running, exe, binary, file, at, failed, hash, hashing, hex>>

\* A document is written with the digest that was taken first.
SendDigest ==
  /\ hashing = "over" /\ Len(sent) < Documents
  /\ sent' = Append(sent, hex)
  /\ UNCHANGED <<running, exe, binary, file, at, failed, hash, hashing, hex>>

\* A newer build is put in the binary's place; the open file is the old one.
ReplaceBinary ==
  /\ binary' \in Binaries \ {binary}
  /\ UNCHANGED <<running, exe, file, at, failed, hash, hashing, hex, sent>>

DigestNext ==
  OpenBinary \/ ReadChunk \/ Take \/ EndOfFile \/ Pad \/ Finalise \/ SendDigest
  \/ ReplaceBinary

DigestSpec == DigestInit /\ [][DigestNext]_digest

-----------------------------------------------------------------------------

\* The message FIPS 180-4 makes of a file.
Padded(bytes) ==
  LET zeros == (2 * Block - LenSize - 1 - (Len(bytes) % Block)) % Block
  IN bytes \o <<128>> \o [i \in 1..zeros |-> 0] \o LengthField(Len(bytes))

\* "two results claiming the same digest were produced by the same machine
\* code". A digest is of the whole file, whatever the sizes of the file, of the
\* chunks and of what was left in the buffer: of its padded message, never of
\* the part before an error. Where /proc/self/exe names it the file is the one
\* that runs, however often the path is given to a newer build, and then or
\* not the documents of a run all claim the same.
DigestNamesTheBinary ==
  /\ hex # NoDigest => hex = Padded(file) /\ ~failed /\ (exe => file = running)
  /\ \A i \in DOMAIN sent : sent[i] = hex

=============================================================================
