------------------------------- MODULE EtcFiles -------------------------------
(***************************************************************************)
(* The files of /etc, as util/useradd.c sees them through the C library:   *)
(* names bound to files, a file being the sequence of its lines.  A name   *)
(* can be moved to another name while a process still writes to the file   *)
(* it stood for, so names and files are kept apart.  External: modelled    *)
(* from the calls of useradd.c.                                            *)
(***************************************************************************)
EXTENDS Naturals, Sequences

CONSTANTS Names,      \* the names in use in /etc
          Files       \* how many files may exist at once: 1..Files

NoFile == 0

\* A file system: what each name stands for, and what each file holds.
FileSystems(Line) == [dir : [Names -> 0..Files], data : [1..Files -> Seq(Line)]]

Exists(fs, n) == fs.dir[n] # NoFile

\* What reading the file of that name gives: nothing when there is none,
\* since getpwent and getgrent return NULL at once when the open failed.
Contents(fs, n) == IF Exists(fs, n) THEN fs.data[fs.dir[n]] ELSE <<>>

\* A file that has no name and is open nowhere is gone.
Collect(fs, open) ==
    [fs EXCEPT !.data =
        [i \in 1..Files |-> IF i \in open \/ \E n \in Names : fs.dir[n] = i
                            THEN fs.data[i] ELSE <<>>]]

Unused(fs, open) ==
    {i \in 1..Files : i \notin open /\ \A n \in Names : fs.dir[n] # i}

\* Bound: fopen(n, "w") and mkstemps have a file to give.
Room(fs, n, open) == Exists(fs, n) \/ Unused(fs, open) # {}

\* fopen(n, "w"): the file of that name is emptied, whoever writes to it;
\* without one a new file is made.
Creat(fs, n, open) ==
    IF Exists(fs, n)
    THEN [fs EXCEPT !.data[fs.dir[n]] = <<>>]
    ELSE [fs EXCEPT !.dir[n] =
            CHOOSE i \in Unused(fs, open) : \A j \in Unused(fs, open) : i <= j]

\* fclose: the lines go to the file from its beginning; what was beyond
\* them stays.  Lines are taken to be of one length.
Write(fs, i, lines) ==
    [fs EXCEPT !.data[i] =
        lines \o SubSeq(fs.data[i], Len(lines) + 1, Len(fs.data[i]))]

\* rename(a, b): nothing happens when there is no a.
Rename(fs, a, b, open) ==
    IF Exists(fs, a)
    THEN Collect([fs EXCEPT !.dir[b] = fs.dir[a], !.dir[a] = NoFile], open)
    ELSE fs

\* unlink(n) and link(a, b).
Unlink(fs, n, open) == Collect([fs EXCEPT !.dir[n] = NoFile], open)
Link(fs, a, b) == [fs EXCEPT !.dir[b] = fs.dir[a]]
=============================================================================
