------------------------------ MODULE DecbFiles ------------------------------
(***************************************************************************)
(* The files an image holds, read off the FAT, the directory and the       *)
(* granules, and the properties of Decb that are about them.               *)
(***************************************************************************)
EXTENDS Decb

(* The granules, from 0, of the chain that starts at g, 255 past its end,  *)
(* and its length.                                                         *)
Link(f) == [b \in Gran \cup {255} |-> IF b # 255 /\ f[b] \in Gran THEN f[b] ELSE 255]
Chain(f, g) ==
    LET at[k \in 0..FATZ] == IF k = 0 THEN g ELSE Link(f)[at[k - 1]] IN at
ChainLen(f, g) == Cardinality({k \in 0..FATZ : Chain(f, g)[k] # 255})

(* Bytes in use in the last granule of a file, given its FAT byte and the  *)
(* remainder of the entry: remainder 0 is a full last sector.              *)
TailBytes(b, rem) ==
    LET n == b - LastByte(0)
    IN  IF rem = 0 THEN n * SECZ ELSE (n - 1) * SECZ + rem

Lost == [is |-> "lost", data |-> << >>]
File(s) == [is |-> "file", data |-> s]

(* The bytes on chain c up to granule m of it, of which the last are rem   *)
(* more than whole sectors.                                                *)
Bytes(f, gr, c, m, rem) ==
    [i \in 1..(m * GRANZ + TailBytes(f[c[m]], rem)) |->
        gr[c[(i - 1) \div GRANZ]][1 + ((i - 1) % GRANZ)]]

(* The file of a directory entry.  It is lost when the chain runs into a   *)
(* free granule, which another put will take.                              *)
FileOn(f, gr, rem, c, m) ==
    IF f[c[m]] = FREE THEN Lost ELSE File(Bytes(f, gr, c, m, rem))
FileOf(f, gr, e) ==
    IF e.first \notin Gran THEN Lost
    ELSE FileOn(f, gr, e.rem, Chain(f, e.first), ChainLen(f, e.first) - 1)

(* What is on the image under name n: {} or {the file}. *)
OnDisk(n) == {FileOf(fat, gran, dir[i]) : i \in Find(dir, n)}

-----------------------------------------------------------------------------
(* The image implements FileStore.  put takes effect with the write of the *)
(* FAT, which is its last; rm with the write of the FAT, which is not; and *)
(* mkfs when it starts.                                                    *)

Hidden(n) ==
    \/ pc = "mkfs"
    \/ pc \in {"put_fat", "rm_entry"} /\ n = job.name

Stored == [n \in Names |-> IF Hidden(n) THEN {} ELSE OnDisk(n)]

Storable == {{File(s)} : s \in HostFiles \cup {NlToCr(t) : t \in HostFiles}}

Store_ == INSTANCE FileStore WITH
    files <- Stored, Contents <- Storable, None <- {}

(* decb implements a file store: put, rm and mkfs are the only commands    *)
(* that change a file, each changes the file it names (mkfs: all) in one   *)
(* step, and a stored file is the host file, whatever else is on the disk. *)
ImplementsFileStore == Store_!Spec

(* A file that a crash at this instant would leave unreadable is the one   *)
(* being put or removed, and only between the write of its entry and the   *)
(* write of the FAT (put) or the other way round (rm).                     *)
DamageWindow ==
    (fails = 0 /\ job.op # "mkfs") =>
        \A n \in Names : Lost \in OnDisk(n) =>
            n = job.name /\ pc \in {"put_fat", "rm_entry"}

LastGet == pc = "idle" /\ job.op = "get" /\ Find(dir, job.name) # {}

Received(s) == IF "l" \in job.flags THEN CrToNl(s) ELSE s

(* get copies out the file that was put, but for the last sector when that *)
(* sector is full, and says "ok" unless the last granule is empty.         *)
GetFaithful ==
    (LastGet /\ fails = 0) =>
        \A r \in OnDisk(job.name) :
        LET s == r.data
            n == Len(s) % GRANZ
        IN  IF n = 0 THEN status = "err" /\ dst = Received(s)
            ELSE /\ status = "ok"
                 /\ dst = Received(IF n % SECZ = 0 THEN SubSeq(s, 1, Len(s) - SECZ) ELSE s)

(* The manual's promise ("copying native files to and from the image"):    *)
(* get gives back the file that was put, and exits 0.                      *)
GetReturnsFile ==
    (LastGet /\ fails = 0) =>
        \A r \in OnDisk(job.name) : status = "ok" /\ dst = Received(r.data)

(* The manual's exit status, for put: 0 means that the file is stored,     *)
(* which put's own "out of granules" exits are there for.                  *)
PutStatusHonest ==
    (pc = "idle" /\ job.op = "put" /\ status = "ok") =>
        \A r \in OnDisk(job.name) : r # Lost

(* putboot checks for files on the boot track and calls finding one an     *)
(* error: it should not change such a file.                                *)
BootKeepsFiles ==
    [][job'.op = "putboot" => \A n \in Names : OnDisk(n)' = OnDisk(n)]_vars

=============================================================================
