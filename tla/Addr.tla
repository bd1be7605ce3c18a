-------------------------------- MODULE Addr --------------------------------
(***************************************************************************)
(* The operations of addr.c on addresses and prefix lengths.  An address   *)
(* is its 16 bytes in the order they are sent; a word of 32 bits, u32[i],  *)
(* is four of them, so that the byte order of the machine, and with it the *)
(* choice between the two tables of masks, does not show.                  *)
(***************************************************************************)
EXTENDS Integers, Sequences, FiniteSets, Bitwise

Byte == 0 .. 255

nd_addr_t == [1 .. 16 -> Byte]

Zero == [i \in 1 .. 16 |-> 0]

u32(addr, i) == SubSeq(addr, 4 * i + 1, 4 * i + 4)

AND(w, m) == [j \in 1 .. 4 |-> w[j] & m[j]]

XOR(w, v) == [j \in 1 .. 4 |-> w[j] ^^ v[j]]

OR(w, v) == [j \in 1 .. 4 |-> w[j] | v[j]]

NOT(w) == [j \in 1 .. 4 |-> 255 - w[j]]

Nothing == <<0, 0, 0, 0>>

Everything == <<255, 255, 255, 255>>

Join(w0, w1, w2, w3) == w0 \o w1 \o w2 \o w3

\* The last byte that is not empty of a mask of k + 1 bits.
LastByte == <<128, 192, 224, 240, 248, 252, 254, 255>>

ndL_masks(k) ==
    [j \in 1 .. 4 |->
        CASE j - 1 < k \div 8 -> 255
          [] j - 1 = k \div 8 -> LastByte[(k % 8) + 1]
          [] OTHER -> 0]

nd_addr_is_multicast(addr) == addr[1] = 255

nd_addr_is_unspecified(addr) == \A i \in 0 .. 3 : u32(addr, i) = Nothing

nd_addr_eq(first, second) == \A i \in 0 .. 3 : u32(first, i) = u32(second, i)

\* Mutant: a prefix that ends with a word is taken to end in the next one.
TopBeyond(pflen) == pflen \div 32

\* The word the prefix ends in, and its mask.
Top(pflen) == (pflen - 1) \div 32

TopMask(pflen) == ndL_masks((pflen - 1) % 32)

nd_addr_match(first, second, pflen) ==
    CASE pflen > 128 -> FALSE
      [] pflen = 0 -> TRUE
      [] pflen = 128 -> nd_addr_eq(first, second)
      [] OTHER ->
            \A i \in 0 .. Top(pflen) :
                LET mask == IF i < Top(pflen) THEN Everything ELSE TopMask(pflen)
                IN AND(XOR(u32(first, i), u32(second, i)), mask) = Nothing

nd_addr_combine(first, second, pflen) ==
    LET top == Top(pflen)
        mask == TopMask(pflen)
        Word(i) ==
            CASE i = top -> OR(AND(u32(first, i), mask), AND(u32(second, i), NOT(mask)))
              [] i < top -> u32(first, i)
              [] OTHER -> u32(second, i)
    IN CASE pflen = 0 -> second
         [] pflen >= 128 -> first
         [] OTHER -> Join(Word(0), Word(1), Word(2), Word(3))

\* The bits of a word that are set.
ndL_count_bits(w) ==
    Cardinality({<<j, b>> \in (1 .. 4) \X (0 .. 7) : (w[j] \div 2^b) % 2 = 1})

nd_mask_to_pflen(netmask) ==
    ndL_count_bits(u32(netmask, 0)) + ndL_count_bits(u32(netmask, 1)) +
    ndL_count_bits(u32(netmask, 2)) + ndL_count_bits(u32(netmask, 3))

nd_mask_from_pflen(pflen) ==
    LET top == Top(pflen)
        Word(i) ==
            CASE i = top -> TopMask(pflen)
              [] i < top -> Everything
              [] OTHER -> Nothing
    IN CASE pflen = 0 -> Zero
         [] pflen >= 128 -> [i \in 1 .. 16 |-> 255]
         [] OTHER -> Join(Word(0), Word(1), Word(2), Word(3))

-----------------------------------------------------------------------------
(* What the operations are to do, bit by bit.                              *)

\* Bit i of an address, counted from 0 at the left.
Bit(addr, i) == (addr[(i \div 8) + 1] \div 2^(7 - (i % 8))) % 2

SamePrefix(first, second, pflen) == \A i \in 0 .. pflen - 1 : Bit(first, i) = Bit(second, i)

\* The first pflen bits of one address and the others of another.
Spliced(first, second, pflen) ==
    [j \in 1 .. 16 |->
        LET b(k) == Bit(IF 8 * (j - 1) + k < pflen THEN first ELSE second, 8 * (j - 1) + k)
        IN 128 * b(0) + 64 * b(1) + 32 * b(2) + 16 * b(3) + 8 * b(4) + 4 * b(5) + 2 * b(6) + b(7)]
=============================================================================
