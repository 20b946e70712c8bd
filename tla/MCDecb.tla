------------------------------- MODULE MCDecb -------------------------------
(* Small disks for TLC: sectors of 2 bytes, granules of 2 sectors.         *)
EXTENDS DecbFilesInv, TLC

MCByte == {"x", NL, CR, FF}

(* An empty file, and one with both line ends that takes two granules and  *)
(* ends inside a sector.                                                   *)
MCFiles == { << >>, <<"x", "x", "x", NL, "x", "x", CR>> }

(* Nothing in Decb or FileStore tells one name from another. *)
MCSymmetry == Permutations(Names)

(* Where the shape of the chains matters (two sectors to a granule): one   *)
(* full sector, and one full granule, which put follows with an empty one. *)
MCShapes == { <<"x", "x">>, <<"x", "x", "x", "x">> }

(* Where only the chains matter (granules of one byte): files of one and   *)
(* two granules, and one that is too big for the disk by more than one     *)
(* granule.                                                                *)
MCSmallAndBig == { << >>, <<"x">>, <<"x", "x", "x", "x", "x">> }
=============================================================================
