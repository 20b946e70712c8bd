------------------------------ MODULE UseraddInv ------------------------------
(***************************************************************************)
(* Invariants of Useradd: which file belongs to whom in /etc, what a new   *)
(* defaults file holds on its way into place, and how far a home directory *)
(* is ready.                                                               *)
(***************************************************************************)
EXTENDS Useradd

Labels ==
    Over \union {"mkstemps", "lines", "flush", "unlink", "link", "rename", "name", "group", "uid",
                 "gid", "usr", "open", "copy", "close", "bak", "swap", "groups", "scan", "home",
                 "mkdir", "chown", "skel", "mail"}

\* What the variables are, but for the values V in them: no property here
\* is about those.
FS(V) == [dir : [Names -> 0..Files], data : [1..Files -> V]]
GSet(V) == [group : V, base : V, defshell : V, skel : V, spool : V, flags : SUBSET V, name : V,
            uid : V, gid : V, shell : V, home : V, groups : V, exit : V]
RSet(V) == [g : GSet(V), buf : V, fd : 0..Files, new_file : V, uid : V, gid : V,
            tab : Tables, e : V, then : {"done", "usr", "groups", "scan"}, stream : V,
            added : BOOLEAN, copied : V, failed : V, short : V, unread : BOOLEAN, alone : V]
Homes(D, V) == [D -> [uid : V, gid : V, mode : V, files : V]]
Typed ==
    /\ \E V : fs \in FS(V)
    /\ \E V : r \in [Procs -> RSet(V)]
    /\ pc \in [Procs -> Labels]
    /\ faults \in Nat

DefNames == {USER_DEFAULTS_FILE, BACKUP} \union TempNames

Making   == {"lines", "flush", "unlink", "link", "rename"}
Writing  == {"lines", "flush"}
Updating == {"copy", "close"}

\* A file of -D has no other name, but that the defaults file may be its own
\* backup.
Apart ==
    /\ \A m \in DefNames, n \in Names :
         (fs.dir[m] # NoFile /\ fs.dir[m] = fs.dir[n]) =>
            n = m \/ (m \notin TempNames /\ n \in {USER_DEFAULTS_FILE, BACKUP})

\* Each new defaults file is of one invocation, which alone writes to it, and
\* it stays until that is over.
Owned(p) ==
    /\ pc[p] \in Making => /\ r[p].new_file \in TempNames
                           /\ Exists(fs, r[p].new_file)
    /\ pc[p] \in Writing => r[p].fd = fs.dir[r[p].new_file]
    /\ pc[p] \in Updating => /\ r[p].fd # NoFile
                             /\ \A n \in DefNames : fs.dir[n] # r[p].fd
                             /\ r[p].fd \in 1..Files
    /\ r[p].fd # NoFile => pc[p] \in Writing \union Updating
OneOwner ==
    \A p, q \in Procs : (p # q /\ pc[p] \in Making /\ pc[q] \in Making) =>
                           r[p].new_file # r[q].new_file

\* What has no name and is open nowhere is empty.
Clean(f, open) == \A i \in Unused(f, open) : f.data[i] = <<>>

\* The lines that are to be kept.
ToKeep == Others(IF Exists(fs, USER_DEFAULTS_FILE) THEN Defaults ELSE Header)

\* Complete lines.
Good(lines) ==
    /\ IsSeq(lines)
    /\ \A k \in KeySet : HasLine(lines, k)
    /\ Unread \/ Others(lines) = ToKeep

New(p) == Contents(fs, r[p].new_file)
NewOK(p) ==
    /\ pc[p] = "lines" => New(p) = <<>>
    /\ pc[p] = "flush" => New(p) = <<>> /\ Good(r[p].buf)
    /\ pc[p] \in {"unlink", "link", "rename"} => Good(New(p))

\* What has not begun has read nothing, nor failed to.
Fresh == \A p \in Procs : pc[p] = "off" => ~r[p].unread

EtcInv ==
    /\ Apart
    /\ \A p \in Procs : Owned(p) /\ NewOK(p)
    /\ OneOwner
    /\ Clean(fs, Open)
    /\ Fresh
    /\ Exists(fs, USER_DEFAULTS_FILE) => IsSeq(Defaults)

\* How far a home directory is.
Given(p) == /\ home[Dir(p)].uid = r[p].uid /\ home[Dir(p)].gid = r[p].gid
            /\ home[Dir(p)].mode = "755"
Filled(p) == \A f \in r[p].copied : InPlace(p, f) \/ Missed(p, f)
\* Calls have failed only for what is in the skeleton, or for itself, <<>>.
FailedOK(p) ==
    /\ r[p].failed \subseteq Skeleton(p) \union {<<>>}
    /\ r[p].failed # {} => faults # 0
Owner(p) == pc[p] = "chown" \/ r[p].added
HomeOf(p) ==
    /\ Owner(p) => There(Dir(p))
    /\ r[p].added => Given(p) /\ Filled(p)
    /\ pc[p] = "skel" => r[p].added
    /\ pc[p] \notin {"skel", "mail", "done", "dead"} =>
         ~r[p].added /\ r[p].copied = {} /\ r[p].failed = {}
    /\ FailedOK(p)
    /\ r[p].added /\ (pc[p] = "mail" \/ Added(p)) => Skeleton(p) \subseteq r[p].copied
OwnHomes == \A p, q \in Procs : p # q /\ Owner(p) /\ Owner(q) => Dir(p) # Dir(q)
HomeInv ==
    /\ \E V : home \in Homes(DOMAIN home, V)
    /\ \A p \in Procs : HomeOf(p)
    /\ OwnHomes
=============================================================================
