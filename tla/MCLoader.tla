------------------------------ MODULE MCLoader ------------------------------
(***************************************************************************)
(* The boot loader in a small memory: segments that are aligned with their *)
(* place in the file or not, with and without a part to zero, that overlap *)
(* one another, and that the loader refuses.                               *)
(***************************************************************************)
EXTENDS Loader

Segment(offset, paddr, shift, filesz, memsz) ==
    [load |-> TRUE, p_offset |-> offset, p_paddr |-> paddr, p_vaddr |-> paddr + shift,
     p_filesz |-> filesz, p_memsz |-> memsz]

Text  == Segment(1, 4, 0, 3, 3)
Data  == Segment(2, 4, 8, 3, 6)
Odd   == Segment(1, 5, 8, 3, 4)
Bss   == Segment(2, 7, 0, 0, 3)
Low   == Segment(0, 2, 0, 1, 4)
Far   == Segment(0, 9, 0, 1, 9)
Note  == [Text EXCEPT !.load = FALSE]
Top   == Segment(0, 12, 1, 1, 4)

Image(phdrs, wrong) == [wrong |-> wrong, size |-> 6, e_entry |-> 13, phdrs |-> phdrs]
Short(phdrs) == [Image(phdrs, {}) EXCEPT !.size = 5, !.e_entry = 5]

LoadedSegments == {Text, Data, Odd, Bss}

\* Programs that lie below the list and the trampoline, and two that end at
\* STAGING_ADDR
MCImages ==
    {Short(<<s>>) : s \in LoadedSegments}
    \cup {Image(<<s, t>>, {}) : s, t \in LoadedSegments}
    \cup {Short(<<Note, s>>) : s \in {Text, Low, Far}}
    \cup {Image(<<Data>>, {"mag3"}), Image(<<Data>>, {"machine"})}
    \cup {Short(<<Text, Top>>), Image(<<Top, Data>>, {})}
=============================================================================
