------------------------------ MODULE Digests ------------------------------
(***************************************************************************)
(* MD5 and SHA1 of zltoolkit: a text that comes in pieces is cut into      *)
(* blocks, padded and closed with its length in bits.  The compression of  *)
(* a block is left out: what is hashed is the sequence of blocks.  MD5     *)
(* counts bits in two words, SHA1 blocks; an MD5 object stays finalized,   *)
(* a SHA1 object starts again.                                             *)
(***************************************************************************)
EXTENDS Naturals, Sequences, SequencesExt

CONSTANTS Block,       \* 64 bytes, which divide the bytes that a word of bits counts
          LengthBytes, \* 8: what a block keeps for the length
          WordBits,    \* 32: of a count
          MaxPiece, MaxFed \* bounds: bytes of a piece, of the text

VARIABLES algorithm,
          buffer,    \* the beginning of a block
          count,     \* MD5: bits, the low word first
          blocks,    \* what was transformed
          finalized, \* MD5
          digest,    \* the result, of SHA1 until the next call
          fed,       \* the text, since the object was made or a result given
          digested   \* the text of the result

digestVars == <<algorithm, buffer, count, blocks, finalized, digest, fed, digested>>

\* The bytes of the text are numbered from 1; 0, the mark and those of the length
\* are others.
Zeros(n) == [i \in 1..n |-> 0]
Mark == MaxFed + 1
Word == 2^WordBits
Length(words) == [i \in 1..LengthBytes |->
                     Mark + i + (IF i = 1 THEN words[1] + words[2] * Word ELSE 0)]

Reset == buffer' = <<>> /\ blocks' = <<>>

Init == /\ algorithm \in {"MD5", "SHA1"}
        /\ buffer = <<>> /\ count = <<0, 0>> /\ blocks = <<>> /\ finalized = FALSE
        /\ digest = <<>> /\ fed = <<>> /\ digested = <<>>

-----------------------------------------------------------------------------
\* The blocks that fill when a piece is put behind a buffer, and what is left.
Taken(start, piece) ==
    LET all == start \o piece
        n   == Len(all) \div Block
    IN  [blocks |-> [i \in 1..n |-> SubSeq(all, (i - 1) * Block + 1, i * Block)],
         buffer |-> SubSeq(all, n * Block + 1, Len(all))]

\* mutant: the carry into the high word is forgotten
CountedLow(length) ==
    LET bits == (length * 8) % Word
    IN  <<(count[1] + bits) % Word, (count[2] + length \div 2^(WordBits - 3)) % Word>>

\* MD5 adds the low 32 bits of length * 8, and a carry, and the high bits.
Counted(length) ==
    LET bits == (length * 8) % Word
        low  == (count[1] + bits) % Word
    IN  <<low, (count[2] + (IF low < bits THEN 1 ELSE 0)
                + length \div 2^(WordBits - 3)) % Word>>

Update(piece) ==
    /\ Len(fed) + Len(piece) <= MaxFed
    /\ finalized => count = <<0, 0>> \* bound: one piece behind finalize
    /\ LET taken == Taken(buffer, piece) IN
       blocks' = blocks \o taken.blocks /\ buffer' = taken.buffer
    /\ count' = IF algorithm = "MD5" THEN Counted(Len(piece)) ELSE count
    /\ fed' = IF finalized THEN fed ELSE fed \o piece
    /\ digest' = IF algorithm = "MD5" THEN digest ELSE <<>>
    /\ UNCHANGED <<algorithm, finalized, digested>>

\* mutant: a full buffer is padded by nothing
PadLenShort(index) == IF index <= Block - LengthBytes THEN Block - LengthBytes - index
                      ELSE 2 * Block - LengthBytes - index

\* MD5: the marks that fill the block up to its length, and the length as it was.
PadLen(index) == IF index < Block - LengthBytes THEN Block - LengthBytes - index
                 ELSE 2 * Block - LengthBytes - index

Finalize ==
    /\ algorithm = "MD5"
    /\ \/ finalized /\ UNCHANGED <<buffer, count, blocks, finalized, digest, digested>>
       \/ /\ ~finalized /\ finalized' = TRUE
          /\ LET index == (count[1] \div 8) % Block
                 end   == <<Mark>> \o Zeros(PadLen(index) - 1) \o Length(count)
             IN  digest' = blocks \o Taken(buffer, end).blocks
          /\ blocks' = digest' /\ buffer' = <<>> /\ count' = <<0, 0>> /\ digested' = fed
    /\ UNCHANGED <<algorithm, fed>>

\* SHA1: a buffer whose mark leaves no room for the length gets a block of its own.
FinalBin ==
    /\ algorithm = "SHA1"
    /\ LET bits   == (Len(blocks) * Block + Len(buffer)) * 8
           words  == <<bits % Word, bits \div Word>>
           marked == Append(buffer, Mark)
           full   == marked \o Zeros(Block - Len(marked))
           more   == Len(marked) > Block - LengthBytes
           last   == SubSeq(IF more THEN Zeros(Block) ELSE full, 1, Block - LengthBytes)
       IN  digest' = blocks \o (IF more THEN <<full>> ELSE <<>>)
                     \o <<last \o Length(words)>>
    /\ Reset /\ fed' = <<>> /\ digested' = fed
    /\ UNCHANGED <<algorithm, count, finalized>>

Next == \/ \E n \in 0..MaxPiece : Update([i \in 1..n |-> Len(fed) + i])
        \/ Finalize \/ FinalBin

Spec == Init /\ [][Next]_digestVars

-----------------------------------------------------------------------------
\* The padded text, as both algorithms define it: the mark, as few zeros as fill the
\* block up to the length, and the length.
Padded(text) ==
    LET zeros == CHOOSE n \in 0..(Block - 1) : (Len(text) + 1 + n + LengthBytes) % Block = 0
        bits  == Len(text) * 8
    IN  text \o <<Mark>> \o Zeros(zeros) \o Length(<<bits % Word, (bits \div Word) % Word>>)

\* However a text is cut into pieces, its digest is that of the padded text.  What
\* is fed behind finalize has no part in the digest of an MD5 object.
DigestRight == digest # <<>> => digest = Taken(<<>>, Padded(digested)).blocks
=============================================================================
