------------------------------ MODULE MCTools ------------------------------
(* Headers of two text and two data sections (15 words, and one of         *)
(* padding), words of 6 bits.                                              *)
EXTENDS Tools

(* Off, Addr, Size: one tuple of numbers each, text sections first. *)
MCHeader(offs, addrs, sizes) ==
    [p \in 0 .. HdrWords - 1 |->
        LET v == CASE p < Sections                       -> offs[p + 1]
                   [] p \in Sections .. 2 * Sections - 1 -> addrs[p - Sections + 1]
                   [] p \in 2 * Sections .. bssAddr - 1  -> sizes[p - 2 * Sections + 1]
                   [] OTHER                              -> 40
        IN  <<v \div B, v % B>>]

MCFile(offs, addrs, sizes, hid4) ==
    [header |-> MCHeader(offs, addrs, sizes),
     hid4   |-> hid4,
     length |-> 24]

MCImages ==
    { \* two text sections and data; two sections share a word
      MCFile(<<16, 18, 20, 22>>, <<40, 42, 43, 41>>, <<2, 2, 2, 1>>, {}),
      \* the same for a Wii, found in text section 1 after one that runs over the file's end; MEM2 is used
      MCFile(<<23, 18, 20, 0>>, <<40, 42, 50, 40>>, <<2, 2, 2, 1>>, {19}),
      \* found in data section 0
      MCFile(<<16, 18, 20, 0>>, <<40, 42, 43, 40>>, <<2, 2, 1, 0>>, {20}),
      \* starts in real mode
      MCFile(<<16, 0, 20, 0>>, <<44, 0, 40, 0>>, <<1, 0, 2, 0>>, {}),
      \* starts in real mode, with nothing but the emulator's own words
      MCFile(<<0, 0, 20, 0>>, <<44, 0, 8, 0>>, <<0, 0, 2, 0>>, {}),
      \* nothing in the guest's memory
      MCFile(<<16, 0, 0, 0>>, <<8, 0, 0, 0>>, <<1, 0, 0, 0>>, {16}) }

MCName(kind, n, part) == [kind |-> kind, index |-> n, part |-> part]
MCNames ==
    { MCName("text", 0, "addr"), MCName("text", 1, "size"), MCName("text", 2, "off"),
      MCName("data", 0, "off"), MCName("data", 1, "addr"), MCName("data", 2, "size"),
      MCName("text", 0, "other"), MCName("bss_addr", 0, "none"), MCName("bss_size", 0, "none"),
      MCName("entry", 0, "none"), MCName("other", 0, "none") }

MCTexts  == {2, 43, 99}
=============================================================================
