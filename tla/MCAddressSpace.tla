--------------------------- MODULE MCAddressSpace ---------------------------
(* AddressSpace for TLC: two sound images and three that are refused, one  *)
(* by its magic number, one by a segment that is smaller in memory than in *)
(* the file and one by two segments that share a page.                     *)
EXTENDS AddressSpace

Seg(s, f, n, w) == [start |-> s, filesz |-> f, memsz |-> n, w |-> w, data |-> "text"]
Image(segs) == [magic |-> TRUE, segs |-> segs]

MCProgram ==
  { Image(<<Seg(0, 1, 2, TRUE)>>), Image(<<Seg(0, 1, 1, FALSE), Seg(1, 0, 1, TRUE)>>),
    Image(<<Seg(0, 1, 1, FALSE), Seg(2, 1, 0, TRUE)>>),
    Image(<<Seg(0, 1, 2, TRUE), Seg(1, 1, 1, TRUE)>>),
    [magic |-> FALSE, segs |-> <<Seg(0, 1, 1, TRUE)>>] }
=============================================================================
