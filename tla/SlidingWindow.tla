---------------------------- MODULE SlidingWindow ----------------------------
(***************************************************************************)
(* The index arithmetic of the sliding windows of common/sliding_window.h. *)
(*                                                                         *)
(* The program numbers packets with an unsigned char: m_btBegin, m_btEnd,  *)
(* m_btSyn and m_btAck wrap at 256, and a packet's slot in the window's    *)
(* arrays is its number modulo the window size.  Here a packet has a       *)
(* number that never wraps, Byte gives the byte the program keeps of it,   *)
(* and every decision the program takes is computed from the bytes.        *)
(***************************************************************************)
EXTENDS Integers

CONSTANTS
    WindowSize,  \* UDP_WINDOW_SIZE, 32: slots, and buffers, of one window
    SeqMod       \* 256: the number of values of an unsigned char

\* The byte counter wraps onto slot 0, and a window never covers all bytes.
ASSUME WindowAssumption ==
    /\ WindowSize \in Nat \ {0}
    /\ SeqMod \in Nat
    /\ SeqMod > WindowSize
    /\ SeqMod % WindowSize = 0

Slots == 0 .. WindowSize - 1

\* Mutant: a counter that is not truncated to an unsigned char.
ByteUnbounded(n) == n

\* The unsigned char the program keeps of packet number n.
Byte(n) == n % SeqMod

\* The slot of packet number n: its byte modulo the window size.
SlotOf(n) == Byte(n) % WindowSize

\* Mutant: the difference of two bytes stays an int, and may be negative.
OffsetPromoted(bt, begin) == bt - Byte(begin)

\* btId - m_btBegin, in unsigned char arithmetic.
Offset(bt, begin) == (bt - Byte(begin)) % SeqMod

\* Mutant: the byte is compared with the window's ends as if nothing wrapped.
IsValidIndexUnwrapped(bt, begin, end) == Byte(begin) <= bt /\ bt < Byte(end)

\* IsValidIndex: the byte bt lies in the window from begin up to end.
IsValidIndex(bt, begin, end) == Offset(bt, begin) < Offset(Byte(end), begin)
=============================================================================
