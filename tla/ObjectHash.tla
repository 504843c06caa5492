----------------------------- MODULE ObjectHash -----------------------------
(***************************************************************************)
(* The hash of object names (pjsonlib/src/pjson.cpp, ObjectHash): SipHash  *)
(* with two rounds per word and four at the end, under a key drawn once    *)
(* per process.                                                            *)
(*                                                                         *)
(* A 64-bit word is the set of its bits that are 1, so that exclusive or   *)
(* is the symmetric difference and a rotation moves every bit.             *)
(***************************************************************************)
EXTENDS Integers, Sequences, SequencesExt

WordBits == 0..63

Xor(a, b) == (a \ b) \union (b \ a)

\* a + b modulo 2^64: bit by bit with the carry.
Plus(a, b) ==
    LET carry[n \in 0..64] ==
            n > 0 /\ \/ n - 1 \in a \intersect b
                     \/ n - 1 \in a \union b /\ carry[n - 1]
    IN  {n \in WordBits : (n \in Xor(a, b)) # carry[n]}

rotateLeft(word, shift) == {(n + shift) % 64 : n \in word}

\* sipRound on <<v0, v1, v2, v3>>.
sipRound(v) ==
    LET a0 == Plus(v[1], v[2])
        a1 == Xor(rotateLeft(v[2], 13), a0)
        a2 == Plus(v[3], v[4])
        a3 == Xor(rotateLeft(v[4], 16), a2)
        b0 == Plus(rotateLeft(a0, 32), a3)
        b2 == Plus(a2, a1)
    IN  <<b0, Xor(rotateLeft(a1, 17), b2), rotateLeft(b2, 32), Xor(rotateLeft(a3, 21), b0)>>

Rounds(v, n) == FoldLeft(LAMBDA w, k : sipRound(w), v, [k \in 1..n |-> k])

\* Up to eight bytes, the first the lowest.
BitsOf(byte) == {n \in 0..7 : (byte \div 2^n) % 2 = 1}
Word(bytes) == UNION {{8 * (n - 1) + b : b \in BitsOf(bytes[n])} : n \in DOMAIN bytes}

Absorbed(v, word) ==
    LET w == Rounds([v EXCEPT ![4] = Xor(@, word)], 2) IN [w EXCEPT ![1] = Xor(@, word)]

\* The four words "somepseudorandomlygeneratedbytes" spells.
Start0 == Word(<<117, 101, 115, 112, 101, 109, 111, 115>>)
Start1 == Word(<<109, 111, 100, 110, 97, 114, 111, 100>>)
Start2 == Word(<<97, 114, 101, 110, 101, 103, 121, 108>>)
Start3 == Word(<<115, 101, 116, 121, 98, 100, 101, 116>>)

\* operator() for the key <<first, second>>: whole words, then what is left
\* with the length of the name as its highest byte.
hash(key, name) ==
    LET whole == Len(name) \div 8
        tail == Word(SubSeq(name, 8 * whole + 1, Len(name)))
                   \union {56 + b : b \in BitsOf(Len(name) % 256)}
        start == <<Xor(Start0, key[1]), Xor(Start1, key[2]), Xor(Start2, key[1]), Xor(Start3, key[2])>>
        words == FoldLeft(LAMBDA v, n : Absorbed(v, Word(SubSeq(name, 8 * n - 7, 8 * n))),
                          start, [n \in 1..whole |-> n])
        last == Absorbed(words, tail)
        v == Rounds([last EXCEPT ![3] = Xor(@, 0..7)], 4)
    IN  Xor(Xor(v[1], v[2]), Xor(v[3], v[4]))

-----------------------------------------------------------------------------
(* The hashes its authors publish for the key 0, 1, ..., 15 and the name   *)
(* 0, 1, ..., n - 1.                                                        *)

CountedBytes(n) == [k \in 1..n |-> k - 1]
PublishedKey == <<Word(CountedBytes(8)), Word([k \in 1..8 |-> k + 7])>>
Published == {
    <<0, <<49, 14, 14, 221, 71, 219, 111, 114>>>>,
    <<1, <<253, 103, 220, 147, 197, 57, 248, 116>>>>,
    <<2, <<90, 79, 169, 217, 9, 128, 108, 13>>>>,
    <<7, <<55, 209, 1, 139, 245, 0, 2, 171>>>>,
    <<8, <<98, 36, 147, 154, 121, 245, 245, 147>>>>,
    <<15, <<229, 69, 190, 73, 97, 202, 41, 161>>>>}

HashedAsPublished(vector) == hash(PublishedKey, CountedBytes(vector[1])) = Word(vector[2])
=============================================================================
