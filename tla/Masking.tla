-------------------------------- MODULE Masking --------------------------------
(***************************************************************************)
(* maskBytes of mask.go, one action per loop, called for the pieces in     *)
(* which messageReader.Read gets the payload of a frame (conn.go:1516).    *)
(* A piece lies at any address: single bytes up to a word boundary, then   *)
(* words, then single bytes.  Of the key only the index of its bytes is    *)
(* followed.                                                               *)
(***************************************************************************)
EXTENDS Integers, Sequences

CONSTANTS WordSizes,  \* 4 or 8: unsafe.Sizeof(uintptr(0))
          MaxPiece    \* bound: bytes of a piece

ASSUME WordAssumption == WordSizes \subseteq {4, 8} /\ MaxPiece \in Nat

VARIABLES
    word,     \* wordSize
    maskPos,  \* Conn.readMaskPos
    before,   \* bytes of the payload before this piece, modulo 4
    loop,     \* what comes next: "call", "start", "words", "tail" or "done"
    piece,    \* the piece: its length, and its address modulo word
    pos,      \* the position in the key
    off,      \* how much of the piece is masked
    mask      \* the indices of the key bytes each byte was XORed with, in order

kvars == <<word, maskPos, before, loop, piece, pos, off, mask>>

MaskInit(words) ==
    /\ word \in words /\ maskPos = 0 /\ before = 0 /\ loop = "call"
    /\ piece = [len |-> 0, addr |-> 0] /\ pos = 0 /\ off = 0 /\ mask = <<>>

(* maskBytes(key, c.readMaskPos, b[:n])                                    *)
Piece(len, addr) ==
    /\ loop = "call"
    /\ piece' = [len |-> len, addr |-> addr]
    /\ pos' = maskPos /\ off' = 0 /\ mask' = [i \in 1..len |-> <<>>]
    /\ loop' = "start"
    /\ UNCHANGED <<word, maskPos, before>>

(* The loops over single bytes.                                            *)
MaskSingly(n) ==
    /\ mask' = [i \in 1..piece.len |-> IF i \in off + 1 .. off + n
                                       THEN Append(mask[i], (pos + i - 1 - off) % 4) ELSE mask[i]]
    /\ pos' = pos + n /\ off' = off + n

Small ==
    /\ loop = "start" /\ piece.len < 2 * word
    /\ MaskSingly(piece.len)
    /\ loop' = "done"
    /\ UNCHANGED <<word, maskPos, before, piece>>

ToBoundary ==
    /\ loop = "start" /\ piece.len >= 2 * word
    /\ MaskSingly(IF piece.addr = 0 THEN 0 ELSE word - piece.addr)
    /\ loop' = "words"
    /\ UNCHANGED <<word, maskPos, before, piece>>

(* Faulty: the key of a word starts at its first byte.                     *)
WordKeyUnturned(j) == j % 4

WordKey(j) == (pos + j) % 4

Words ==
    /\ loop = "words"
    /\ LET n == ((piece.len - off) \div word) * word
       IN  /\ mask' = [i \in 1..piece.len |-> IF i \in off + 1 .. off + n
                           THEN Append(mask[i], WordKey((i - 1 - off) % word)) ELSE mask[i]]
           /\ off' = off + n
    /\ loop' = "tail"
    /\ UNCHANGED <<word, maskPos, before, piece, pos>>

MaskTail ==
    /\ loop = "tail"
    /\ MaskSingly(piece.len - off)
    /\ loop' = "done"
    /\ UNCHANGED <<word, maskPos, before, piece>>

(* readMaskPos is what maskBytes returns.                                  *)
MaskReturn ==
    /\ loop = "done"
    /\ maskPos' = pos % 4 /\ before' = (before + piece.len) % 4
    /\ piece' = [len |-> 0, addr |-> 0] /\ pos' = 0 /\ off' = 0 /\ mask' = <<>>
    /\ loop' = "call"
    /\ UNCHANGED word

MaskStep ==
    \/ \E len \in 0..MaxPiece, addr \in 0 .. word - 1 : Piece(len, addr)
    \/ Small \/ ToBoundary \/ Words \/ MaskTail \/ MaskReturn

MaskSpec == MaskInit(WordSizes) /\ [][MaskStep]_kvars
-----------------------------------------------------------------------------
(* Every byte of a payload is XORed once, with the byte of the key that its*)
(* place in the whole payload calls for, however the payload is cut and    *)
(* wherever the pieces lie; words are at aligned addresses (mask.go:41,    *)
(* conn.go:1516).                                                          *)
MasksOnce ==
    /\ loop = "done" => \A i \in 1..piece.len : mask[i] = <<(before + i - 1) % 4>>
    /\ loop = "words" => (piece.addr + off) % word = 0
=============================================================================
