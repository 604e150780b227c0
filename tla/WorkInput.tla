----------------------------- MODULE WorkInput ------------------------------
(***************************************************************************)
(* What a worker gives to its hash algorithm and how much of that enters   *)
(* the digest: the headers and blobs workerLoop() makes of a job           *)
(* (src/miner/MinerEngine.cpp), and the algorithms behind                  *)
(* hash::IHashAlgorithm (src/hash/).                                       *)
(*                                                                         *)
(* A text is its length, with the few facts about its characters that the  *)
(* code looks at.  The rounds of the hash functions are left out: what     *)
(* counts is which bytes they are given.                                   *)
(***************************************************************************)
EXTENDS Integers

HeaderLimit == 200  \* characters kept of a header
BufferSize  == 256  \* bytes of Sha256dAlgorithm::buffer_
CnInput     == 72   \* bytes CryptonightAlgorithm takes of its input
NonceSize   == 4    \* bytes of a nonce

Smaller(a, b) == IF a <= b THEN a ELSE b
Larger(a, b)  == IF a <= b THEN b ELSE a

\* createAlgorithm(): the algorithm of a name in lower case; any other name is
\* an exception.
Algorithm(name) ==
    CASE name \in {"sha256d", "sha256", "randomx"} -> "sha256d"
      [] name \in {"cryptonight", "cn"}            -> "cryptonight"
      [] OTHER                                     -> "none"

\* The forms of a job.  It is mined as a blob if it has one: so many characters, of
\* which stoul() reads every pair but for the four bytes of the nonce (hex: each
\* pair begins as a hexadecimal number does; 1g is read as 1), in whose place there
\* may already be the code's test pattern (marked).  Otherwise it is mined as a
\* header: so many characters before extranonce2 and after it.
Forms == [blob : Nat, hex : BOOLEAN, marked : BOOLEAN,
          before : Nat, extranonce2Size : Nat, after : Nat]

HasBlob(f)   == f.blob # 0
Malformed(f) == f.blob \in 1 .. 3
Bytes(f)     == f.blob \div 2

-----------------------------------------------------------------------------
(* Blobs.                                                                   *)

\* The first byte of the nonce: the last four bytes, or those before the last
\* one if the test pattern is there already, see TheScan.
NonceOffset(f) ==
    IF Bytes(f) < 8 THEN 0
    ELSE IF f.marked /\ Bytes(f) >= 12 THEN Bytes(f) - 5
    ELSE Bytes(f) - 4

\* A nonce that does not fit is written beyond the end of the string.
Overrun(f) == 2 * (NonceOffset(f) + NonceSize) > f.blob

\* The scan itself, on the bytes of a blob: it goes backwards from the last
\* four to the first place that writing the test pattern would change.
TestNonce == <<1, 35, 69, 103>>
Changes(bytes, off) == \E b \in 0 .. 3 : bytes[off + b] # TestNonce[b + 1]
TheScan(bytes, n, off) ==
    /\ off \in 1 .. n - 4 /\ Changes(bytes, off)
    /\ \A o \in off + 1 .. n - 4 : ~Changes(bytes, o)

-----------------------------------------------------------------------------
(* Headers.                                                                 *)

\* The hexadecimal digits of a worker's number, and where they end: toHex()
\* fills up with zeros on the left, and does not cut.
Digits(w) == CASE w < 16 -> 1 [] w \in 16 .. 255 -> 2
               [] w \in 256 .. 4095 -> 3 [] OTHER -> 4
Extranonce2End(f, w) == f.before + Larger(2 * f.extranonce2Size, Digits(w))

HeaderSize(f, w) == Smaller(HeaderLimit, Extranonce2End(f, w) + f.after)

-----------------------------------------------------------------------------
(* The algorithms.                                                          *)

\* How many bytes of an input of length len the algorithm uses.
Used(alg, len) == IF alg = "cryptonight" THEN Smaller(len, CnInput) ELSE len

\* Sha256dAlgorithm returns without a digest if input and nonce are too long
\* for its buffer.
Digests(alg, len) == alg = "cryptonight" \/ len + NonceSize <= BufferSize

\* A number to the base b without its last n digits: what is seen of it in a
\* text that is cut n digits before the number ends.
Cut(v, b, n) ==
    CASE n <= 0 -> v
      [] n = 1  -> v \div b
      [] n = 2  -> v \div (b * b)
      [] n = 3  -> v \div (b * b * b)
      [] OTHER  -> 0

\* What enters the digest of worker w's number and of the nonce.
Extranonce2Seen(alg, f, w) == Cut(w, 16, Extranonce2End(f, w) - Used(alg, HeaderSize(f, w)))
NonceSeen(alg, f, nonce, base) ==
    Cut(nonce, base, NonceOffset(f) + NonceSize - Used(alg, Bytes(f)))

\* sha256(): whole blocks, then a tail with a one-bit after the remaining bytes
\* and the length at the end of its last block.
FullBlocks(len) == len \div 64
Remaining(len)  == len - FullBlocks(len) * 64
TailBlocks(len) == IF Remaining(len) + 1 + 8 > 64 THEN 2 ELSE 1
LenOffset(len)  == TailBlocks(len) * 64 - 8

\* keccak1600(): the element of b that the rotated lane of column x and row y
\* is stored in.
Lane(x, y) == (x * 5 + y + 24 + x + (x + 2 * y) \div 5) % 25
=============================================================================
