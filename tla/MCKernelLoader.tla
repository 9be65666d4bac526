--------------------------- MODULE MCKernelLoader ---------------------------
(***************************************************************************)
(* Instances of KernelLoader for TLC: four-byte pages, eight pages of RAM  *)
(* at address 8 and a 64-byte address space.                               *)
(***************************************************************************)
EXTENDS KernelLoader

Seg(addr, msize, fsize) == [vmaddr |-> addr, vmsize |-> msize, filesize |-> fsize]

SmallRam == 2 .. 9

\* Segments out of order, sharing a page, touching, nested in another, with a
\* hole between them, empty, and one whose end overflows when rounded up; and
\* one with more data than memory in front of another.
SmallImages ==
  { <<Seg(18, 5, 3), Seg(12, 6, 6)>>,
    <<Seg(12, 3, 2), Seg(16, 4, 0), Seg(20, 2, 1)>>,
    <<Seg(12, 12, 4), Seg(17, 2, 2)>>,
    <<Seg(28, 3, 1), Seg(12, 2, 2), Seg(13, 0, 0)>>,
    <<Seg(12, 4, 4), Seg(58, 4, 1)>>,
    <<Seg(12, 2, 7), Seg(20, 3, 3)>> }

\* Pages of RAM that the firmware occupies: the page below every image, or one
\* that the images need.
FirmwareKeeps == { {2}, {3, 9} }

Desc(start, pages) == [phys_start |-> start, page_count |-> pages]

\* RAM in two descriptors with a device hole below it.
UsualMaps == { {Desc(0, 1), Desc(8, 4), Desc(24, 4)}, {Desc(8, 8)} }

\* A descriptor that ends with the address space.
TopMaps == { {Desc(8, 8), Desc(60, 1)} }
=============================================================================
