------------------------------ MODULE FileStore ------------------------------
(***************************************************************************)
(* What decb promises: a set of named files.  A file that does not exist   *)
(* can be stored, a file that exists can be removed, and a format removes  *)
(* all of them.  Nothing else ever changes a file.                         *)
(***************************************************************************)
CONSTANTS Names, Contents, None

VARIABLE files

Init == files = [n \in Names |-> None]

OthersKept(n) == \A m \in Names \ {n} : files'[m] = files[m]

Put(n) == files[n] = None /\ files'[n] \in Contents /\ OthersKept(n)

Rm(n) == files[n] # None /\ files'[n] = None /\ OthersKept(n)

Format == files' = [n \in Names |-> None]

Next == Format \/ \E n \in Names : Put(n) \/ Rm(n)

Spec == Init /\ [][Next]_files
=============================================================================
