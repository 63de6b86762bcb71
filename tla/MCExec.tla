------------------------------- MODULE MCExec -------------------------------
(***************************************************************************)
(* Instances of Exec for TLC: pages of 4 bytes, a program of 4 pages from  *)
(* page 48 on that calls exec for files of up to 8 bytes.                  *)
(***************************************************************************)
EXTENDS Exec

MCOldPages == 48 .. 51
At(page, b) == page * PGSIZE + b
Load(offset, vaddr, filesz) ==
    [p_offset |-> offset, p_vaddr |-> vaddr, p_filesz |-> filesz]

(* Programs that are linked where the old one was or elsewhere: one page; two
   pages of their own, in either order; two segments in one page; a segment longer than a page,
   one that begins beyond the first page of the file, one that straddles a
   boundary; and one whose second segment is in the kernel's half. *)
PlainSegments == {<<Load(0, At(48, 0), 3)>>,
                  <<Load(0, At(48, 0), 3), Load(3, At(49, 3), 1)>>,
                  <<Load(0, At(49, 0), 1), Load(3, At(48, 3), 1)>>,
                  <<Load(1, At(40, 1), 2), Load(0, At(41, 0), 4)>>}
OtherSegments == {<<Load(0, At(48, 0), 2), Load(2, At(48, 2), 2)>>,
                  <<Load(0, At(48, 0), 7)>>,
                  <<Load(0, At(48, 0), 3), Load(4, At(49, 0), 2)>>,
                  <<Load(1, At(48, 1), 4)>>,
                  <<Load(0, At(48, 0), 3), Load(3, At(KHALF, 3), 1)>>}

MCCalls ==
    {[segments |-> s, entry |-> s[1].p_vaddr, valid |-> valid, size |-> 8,
      content |-> content, eip |-> At(48, 2), top |-> top] :
        s \in PlainSegments \cup OtherSegments, valid \in BOOLEAN,
        content \in {At(48, 1), At(50, 0)}, top \in {8, 9, 16}}
=============================================================================
