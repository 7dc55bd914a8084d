------------------------------- MODULE BitMap -------------------------------
(***************************************************************************)
(* CBitmap<w>, an array of cells of w bits in shared memory.  Cells lie in *)
(* groups; set clears the cell through a mask, one for each place in the   *)
(* group, and ors the value in, both with a word that for some widths is   *)
(* longer than the group.  The memory is the set of the bits that are one, *)
(* counted from the first byte of the data on.                             *)
(***************************************************************************)
EXTENDS Naturals, FiniteSets

CONSTANTS
    Widths,             (* \subseteq {1, 2, 3, 4, 5, 6, 8}                   *)
    dwBitmapSize,
    Touched             (* bound: the cells that are set                     *)

ASSUME BitMapAssumption ==
    /\ Widths \subseteq {1, 2, 3, 4, 5, 6, 8}
    /\ dwBitmapSize \in Nat \ {0} /\ Touched \subseteq 0 .. dwBitmapSize

VARIABLES
    width, bits,
    written,            (* the value last written to each cell               *)
    crossed             (* cells a mask that is too wide has reached since   *)

bitVars == <<width, bits, written, crossed>>

Own(w, j) == j * w .. (j + 1) * w - 1
Eights == (dwBitmapSize + 7) \div 8

\* Of each class: cells and bytes of a group, bytes of data that init asks for,
\* and what the mask of the cell in place j clears.
Class1 == [cells |-> 8, bytes |-> 1, data |-> Eights, clears |-> [j \in 0 .. 7 |-> Own(1, j)]]
Class2 == [cells |-> 4, bytes |-> 1, data |-> 2 * Eights, clears |-> [j \in 0 .. 3 |-> Own(2, j)]]
\* The masks have 32 bits, the word 64.
Class3 == [cells |-> 8, bytes |-> 3, data |-> 3 * Eights,
           clears |-> [j \in 0 .. 7 |-> Own(3, j) \cup 32 .. 63]]
Class4 == [cells |-> 2, bytes |-> 1, data |-> 4 * Eights, clears |-> [j \in 0 .. 1 |-> Own(4, j)]]
Class5_MasksOf32 ==
    [cells |-> 8, bytes |-> 5, data |-> 5 * Eights, clears |-> [j \in 0 .. 7 |-> Own(5, j) \cup 32 .. 63]]
Class5 == [cells |-> 8, bytes |-> 5, data |-> 5 * Eights, clears |-> [j \in 0 .. 7 |-> Own(5, j)]]
Class6 == [cells |-> 4, bytes |-> 3, data |-> 6 * Eights,
           clears |-> [j \in 0 .. 3 |-> Own(6, j) \cup 32 .. 63]]
Class8 == [cells |-> 1, bytes |-> 1, data |-> dwBitmapSize, clears |-> [j \in {0} |-> Own(8, j)]]

Class(w) ==
    CASE w = 1 -> Class1 [] w = 2 -> Class2 [] w = 3 -> Class3 [] w = 4 -> Class4
      [] w = 5 -> Class5 [] w = 6 -> Class6 [] OTHER -> Class8

\* The first bit of the group of cell i, and those of a number n at bit b.
Group(w, i) == (i \div Class(w).cells) * Class(w).bytes * 8
Place(w, i) == i % Class(w).cells
Bits(b, n) == {b + k : k \in {k \in 0 .. 7 : (n \div 2 ^ k) % 2 = 1}}
CellBits(w, i) == {Group(w, i) + b : b \in Own(w, Place(w, i))}

\* get and set take an index up to the size itself.
CellGet(i) ==
    LET first == Group(width, i) + Place(width, i) * width
        At(k) == IF first + k \in bits THEN 2 ^ k ELSE 0
    IN IF width = 8
       THEN At(0) + At(1) + At(2) + At(3) + At(4) + At(5) + At(6) + At(7)
       ELSE (At(0) + At(1) + At(2) + At(3) + At(4) + At(5)) % 2 ^ width

BitInit ==
    /\ width \in Widths /\ bits = {}
    /\ written = [i \in 0 .. dwBitmapSize |-> 0] /\ crossed = {}

Cleared(i) == {Group(width, i) + b : b \in Class(width).clears[Place(width, i)]}

\* The later cells within the reach of a mask that is too wide.
Overrun(i) ==
    IF width \in {3, 6}
    THEN {c \in i + 1 .. dwBitmapSize :
             CellBits(width, c) \cap (Group(width, i) + 32 .. Group(width, i) + 63) # {}}
    ELSE {}

CellSet(i, v) ==
    /\ i <= dwBitmapSize
    /\ bits' = (bits \ Cleared(i)) \cup Bits(Group(width, i) + Place(width, i) * width, v)
    /\ written' = [written EXCEPT ![i] = v]
    /\ crossed' = (crossed \cup Overrun(i)) \ {i}
    /\ UNCHANGED width

\* The bytes that init asked for: not those of the cell behind the last.
CellClear ==
    LET size == 8 * Class(width).data
    IN /\ bits' = {b \in bits : b >= size}
       /\ written' = [i \in DOMAIN written |-> IF CellBits(width, i) \cap (0 .. size - 1) # {} THEN 0 ELSE written[i]]
       /\ crossed' = {i \in crossed : CellBits(width, i) \cap (0 .. size - 1) = {}}
       /\ UNCHANGED width

BitNext == CellClear \/ \E i \in Touched : \E v \in {0, 1, 2 ^ width - 1} : CellSet(i, v)
BitSpec == BitInit /\ [][BitNext]_bitVars

-----------------------------------------------------------------------------
\* get returns what set wrote last, whatever was written to the cells around: for
\* the widths 3 and 6 only while no cell of an earlier group within four to eight
\* bytes was set after it, and then with bits lost and none added.
CellsAsWritten ==
    \A i \in DOMAIN written :
        IF i \notin crossed THEN CellGet(i) = written[i]
        ELSE \A k \in 0 .. 7 : (CellGet(i) \div 2 ^ k) % 2 <= (written[i] \div 2 ^ k) % 2
=============================================================================
