------------------------------- MODULE Inodes -------------------------------
(***************************************************************************)
(* Inodes, directories and the system calls on path names: the inode table *)
(* of fs.c (iget, idup, ilock, iunlock, iput, ialloc, iupdate), its        *)
(* directories (dirlookup, dirlink, namex) and sys_open, sys_mkdir,        *)
(* sys_mknod, sys_link, sys_unlink, sys_chdir and fileclose.               *)
(*                                                                         *)
(* The section between ilock and iunlock is one step unless another inode  *)
(* is locked, put or waited for within it; iput, which drops itable.lock   *)
(* to free an inode, is four.  An inode keeps its type and its link count, *)
(* in memory and on the disk; a directory is a function from names, . and  *)
(* .. to inode numbers; what files contain is left to FileData.  An entry  *)
(* of the inode table is named by its inode number: iget finds it by that. *)
(***************************************************************************)
EXTENDS Integers, FiniteSets, SequencesExt

CONSTANTS Procs, NoProc,
          NInodes,    \* inodes on the disk; 1 is the root directory
          MaxDirs,    \* bound: directories on the disk, the root included
          MaxLinks,   \* bound: links of a file
          Names,      \* names other than . and ..
          Paths,      \* bound: paths of calls, as records [abs, elems]
          DirPaths,   \* bound: paths of chdir
          Types       \* bound: types create is called with

ASSUME InodesAssumption ==
  /\ NInodes \in Nat \ {0} /\ MaxDirs \in Nat /\ MaxLinks \in Nat /\ NoProc \notin Procs
  /\ Types \subseteq {"T_DIR", "T_FILE", "T_DEVICE"} /\ Names \cap {".", ".."} = {}

VARIABLES itable,    \* ref, valid, type, nlink and lock of each in-memory inode
          disk,      \* type and nlink of each inode on the disk
          ents,      \* the entries of each directory, 0 where there is none
          cwd, file, \* of a process: its directory and the inode it has open, 0 if none
          ps,        \* of a process: the call it is in
          panicked

vars == <<itable, disk, ents, cwd, file, ps, panicked>>

Inums == 1..NInodes
ROOTINO == 1
Entries == Names \cup {".", ".."}
NoEntry == [ref |-> 0, valid |-> FALSE, type |-> "free", nlink |-> 0, lock |-> NoProc]
Free == [type |-> "free", nlink |-> 0]
Empty == [n \in Entries |-> 0]

(* What a process is doing: pc; the arguments op, path (what is left of    *)
(* it), new (the second path of link) and type; namex's ip (at); the       *)
(* caller's dp and ip; the inodes it is about to iput; and how far iput is *)
(* in freeing the first of them.                                           *)
Idle == [pc |-> "idle", op |-> "none", path |-> <<>>, new |-> <<>>, type |-> "free",
         at |-> 0, dp |-> 0, ip |-> 0, puts |-> <<>>, freeing |-> "no"]

Init ==
  /\ disk = [i \in Inums |-> IF i = ROOTINO THEN [type |-> "T_DIR", nlink |-> 1] ELSE Free]
  /\ ents = [i \in Inums |-> IF i = ROOTINO THEN [Empty EXCEPT !["."] = 1, ![".."] = 1] ELSE Empty]
  /\ itable = [i \in Inums |-> IF i = ROOTINO THEN [NoEntry EXCEPT !.ref = Cardinality(Procs)]
                               ELSE NoEntry]
  /\ cwd = [p \in Procs |-> ROOTINO] /\ file = [p \in Procs |-> 0]
  /\ ps = [p \in Procs |-> Idle] /\ panicked = FALSE

Become(p, r) == ps' = [ps EXCEPT ![p] = r]
Running(p, pc) == ps[p].pc = pc /\ ps[p].puts = <<>>
(* The call returns once it has put the inodes of s. *)
Return(p, s) == Become(p, [Idle EXCEPT !.puts = s])
---------------------------------------------------------------------------
(* iget, and idup: an entry nobody refers to is filled afresh. *)
iget(t, i) ==
  [t EXCEPT ![i] = IF @.ref = 0 THEN [NoEntry EXCEPT !.ref = 1] ELSE [@ EXCEPT !.ref = @ + 1]]

(* The inode as ilock leaves it for its caller, which then holds its lock. *)
Loaded(i) == IF itable[i].valid THEN itable[i]
             ELSE [itable[i] EXCEPT !.valid = TRUE, !.type = disk[i].type, !.nlink = disk[i].nlink]

ilock(i) ==
  /\ itable[i].lock = NoProc
  /\ panicked' = (panicked \/ itable[i].ref < 1 \/ Loaded(i).type = "free")

(* The table after ilock(i) ... iunlock(i), and after ilock(i) by p. *)
Seen(i) == [itable EXCEPT ![i] = Loaded(i)]
Held(p, i) == [itable EXCEPT ![i] = [Loaded(i) EXCEPT !.lock = p]]
iunlock(t, i) == [t EXCEPT ![i].lock = NoProc]

(* A change of nlink in the table, and on the disk by iupdate. *)
AddLink(t, i, n) == [t EXCEPT ![i].nlink = @ + n]
iupdate(t, i) == [type |-> t[i].type, nlink |-> t[i].nlink]

dirlookup(d, name) == ents[d][name]
isdirempty(d) == \A n \in Names : ents[d][n] = 0

(* Mutant: other references do not matter. *)
MustFree_AnyRef(i) == itable[i].valid /\ itable[i].nlink = 0

(* iput of the first inode p has to put.  Another process that held the    *)
(* lock would make acquiresleep sleep with itable.lock held.               *)
MustFree(i) == itable[i].ref = 1 /\ itable[i].valid /\ itable[i].nlink = 0

Dropped(i) == IF itable[i].ref = 1 THEN [itable EXCEPT ![i] = NoEntry]
              ELSE [itable EXCEPT ![i].ref = @ - 1]

iput(p) ==
  /\ ps[p].puts # <<>> /\ ps[p].freeing = "no"
  /\ LET i == Head(ps[p].puts)
     IN IF MustFree(i)
        THEN /\ panicked' = (panicked \/ itable[i].lock # NoProc)
             /\ itable' = [itable EXCEPT ![i].lock = p]
             /\ Become(p, [ps[p] EXCEPT !.freeing = "trunc"])
        ELSE /\ itable' = Dropped(i)
             /\ Become(p, [ps[p] EXCEPT !.puts = Tail(@)])
             /\ UNCHANGED panicked
  /\ UNCHANGED <<disk, ents, cwd, file>>

(* itrunc, type 0 and iupdate: from here ialloc may take the inode. *)
iput_trunc(p) ==
  /\ ps[p].freeing = "trunc"
  /\ LET i == Head(ps[p].puts)
     IN /\ ents' = [ents EXCEPT ![i] = Empty] /\ disk' = [disk EXCEPT ![i] = Free]
        /\ itable' = [itable EXCEPT ![i].type = "free"]
  /\ Become(p, [ps[p] EXCEPT !.freeing = "unlock"])
  /\ UNCHANGED <<cwd, file, panicked>>

(* Mutant: the entry stays valid. *)
iput_unlock_Valid(p) ==
  /\ ps[p].freeing = "unlock"
  /\ itable' = [itable EXCEPT ![Head(ps[p].puts)].lock = NoProc]
  /\ Become(p, [ps[p] EXCEPT !.freeing = "drop"])
  /\ UNCHANGED <<disk, ents, cwd, file, panicked>>

iput_unlock(p) ==
  /\ ps[p].freeing = "unlock"
  /\ itable' = [itable EXCEPT ![Head(ps[p].puts)] = [@ EXCEPT !.valid = FALSE, !.lock = NoProc]]
  /\ Become(p, [ps[p] EXCEPT !.freeing = "drop"])
  /\ UNCHANGED <<disk, ents, cwd, file, panicked>>

iput_drop(p) ==
  /\ ps[p].freeing = "drop"
  /\ itable' = Dropped(Head(ps[p].puts))
  /\ Become(p, [ps[p] EXCEPT !.puts = Tail(@), !.freeing = "no"])
  /\ UNCHANGED <<disk, ents, cwd, file, panicked>>
---------------------------------------------------------------------------
(* namex starts at the root or at the process's directory. *)
From(p, path) == IF path.abs THEN ROOTINO ELSE cwd[p]

Start(p, op, path, new, type) ==
  LET i == From(p, path)
  IN /\ ps[p] = Idle
     /\ itable' = iget(itable, i)
     /\ Become(p, [Idle EXCEPT !.pc = IF op \in {"create", "unlink"} THEN "nameiparent" ELSE "namei",
                               !.op = op, !.path = path.elems, !.new = new, !.type = type, !.at = i])
     /\ UNCHANGED <<disk, ents, cwd, file, panicked>>

(* Mutant: a failed look-up keeps its reference. *)
Fail_KeepsRef(r) == IF r.op = "link" /\ r.ip # 0 THEN [r EXCEPT !.pc = "link_bad", !.path = <<>>, !.at = 0]
                    ELSE Idle

(* namex goes on, having locked its inode: what the process is left with,  *)
(* where l is the inode and next what dirlookup found.                     *)
Fail(r) == IF r.op = "link" /\ r.ip # 0
           THEN [r EXCEPT !.pc = "link_bad", !.path = <<>>, !.at = 0, !.puts = <<r.at>>]
           ELSE [Idle EXCEPT !.puts = <<r.at>>]

Walked(r, l, next) ==
  IF l.type # "T_DIR" THEN Fail(r)
  ELSE IF r.pc = "nameiparent" /\ Len(r.path) = 1 THEN [r EXCEPT !.pc = r.op, !.dp = r.at, !.at = 0]
  ELSE IF next = 0 THEN Fail(r)
  ELSE [r EXCEPT !.at = next, !.path = Tail(@), !.puts = <<r.at>>]

namex(p) ==
  LET r == ps[p]
      w(next) == Walked(r, Loaded(r.at), next)
  IN /\ Running(p, "namei") \/ Running(p, "nameiparent")
     /\ r.path # <<>> /\ ilock(r.at)
     /\ LET new == w(dirlookup(r.at, Head(r.path)))
        IN /\ Become(p, new)
           /\ itable' = IF new.at # 0 THEN iget(Seen(r.at), new.at) ELSE Seen(r.at)
     /\ UNCHANGED <<disk, ents, cwd, file>>

(* The path is used up: namei succeeds, nameiparent fails. *)
namex_end(p) ==
  LET r == ps[p]
  IN /\ Running(p, "namei") \/ Running(p, "nameiparent")
     /\ r.path = <<>>
     /\ Become(p, IF r.pc = "namei" THEN [r EXCEPT !.pc = r.op, !.ip = r.at, !.at = 0] ELSE Fail(r))
     /\ UNCHANGED <<itable, disk, ents, cwd, file, panicked>>
---------------------------------------------------------------------------
(* create in dp: an entry of that name, or the first free inode. *)
FirstFree == CHOOSE i \in Inums : /\ disk[i].type = "free"
                                  /\ \A j \in Inums : disk[j].type = "free" => i <= j

create(p) ==
  LET r == ps[p]
      found == dirlookup(r.dp, Head(r.path))
  IN /\ Running(p, "create") /\ ilock(r.dp)
     /\ \/ /\ found # 0
           /\ itable' = iget(Seen(r.dp), found)
           /\ Become(p, [r EXCEPT !.pc = "create_old", !.path = <<>>, !.ip = found, !.dp = 0, !.puts = <<r.dp>>])
           /\ UNCHANGED disk
        \/ /\ found = 0
           /\ disk' = [disk EXCEPT ![FirstFree] = [type |-> r.type, nlink |-> 0]]
           /\ itable' = iget(Held(p, r.dp), FirstFree)
           /\ Become(p, [r EXCEPT !.pc = "create_new", !.ip = FirstFree])
     /\ UNCHANGED <<ents, cwd, file>>

create_old(p) ==
  LET r == ps[p]
      good == r.type = "T_FILE" /\ Loaded(r.ip).type \in {"T_FILE", "T_DEVICE"}
  IN /\ Running(p, "create_old") /\ ilock(r.ip)
     /\ itable' = IF good THEN Held(p, r.ip) ELSE Seen(r.ip)
     /\ IF good THEN Become(p, [r EXCEPT !.pc = "created"]) ELSE Return(p, <<r.ip>>)
     /\ UNCHANGED <<disk, ents, cwd, file>>

(* The new inode gets its link and, a directory, its . and .. entries. *)
create_new(p) ==
  LET r == ps[p]
      t == [Held(p, r.ip) EXCEPT ![r.ip].nlink = 1, ![r.dp].nlink = IF r.type = "T_DIR" THEN @ + 1 ELSE @]
      dots == IF r.type = "T_DIR" THEN [Empty EXCEPT !["."] = r.ip, ![".."] = r.dp] ELSE Empty
  IN /\ Running(p, "create_new") /\ ilock(r.ip)
     /\ itable' = iunlock(t, r.dp)
     /\ disk' = [disk EXCEPT ![r.ip] = iupdate(t, r.ip), ![r.dp] = iupdate(t, r.dp)]
     /\ ents' = [ents EXCEPT ![r.ip] = dots, ![r.dp][Head(r.path)] = r.ip]
     /\ Become(p, [r EXCEPT !.pc = "created", !.path = <<>>, !.dp = 0, !.puts = <<r.dp>>])
     /\ UNCHANGED <<cwd, file>>

(* sys_open keeps the inode if there is a file and a descriptor for it;    *)
(* sys_mkdir and sys_mknod put it.                                         *)
created(p) ==
  LET r == ps[p]
      keep == r.type = "T_FILE" /\ file[p] = 0
  IN /\ Running(p, "created")
     /\ itable' = iunlock(itable, r.ip)
     /\ file' = IF keep THEN [file EXCEPT ![p] = r.ip] ELSE file
     /\ Return(p, IF keep THEN <<>> ELSE <<r.ip>>)
     /\ UNCHANGED <<disk, ents, cwd, panicked>>

(* sys_open without O_CREATE; rdonly says what omode is. *)
sys_open(p, rdonly) ==
  LET r == ps[p]
      keep == (Loaded(r.ip).type = "T_DIR" => rdonly) /\ file[p] = 0
  IN /\ Running(p, "open") /\ ilock(r.ip)
     /\ itable' = Seen(r.ip)
     /\ file' = IF keep THEN [file EXCEPT ![p] = r.ip] ELSE file
     /\ Return(p, IF keep THEN <<>> ELSE <<r.ip>>)
     /\ UNCHANGED <<disk, ents, cwd>>

(* fileclose drops the last reference to the file. *)
fileclose(p) ==
  /\ ps[p] = Idle /\ file[p] # 0
  /\ file' = [file EXCEPT ![p] = 0]
  /\ Return(p, <<file[p]>>)
  /\ UNCHANGED <<itable, disk, ents, cwd, panicked>>

sys_chdir(p) ==
  LET r == ps[p]
      good == Loaded(r.ip).type = "T_DIR"
  IN /\ Running(p, "chdir") /\ ilock(r.ip)
     /\ itable' = Seen(r.ip)
     /\ cwd' = IF good THEN [cwd EXCEPT ![p] = r.ip] ELSE cwd
     /\ Return(p, <<IF good THEN cwd[p] ELSE r.ip>>)
     /\ UNCHANGED <<disk, ents, file>>
---------------------------------------------------------------------------
(* sys_link: count the link, then look for the directory, then enter it;   *)
(* bad takes the count back.                                               *)
sys_link(p) ==
  LET r == ps[p]
      t == AddLink(Seen(r.ip), r.ip, 1)
      from == From(p, r.new)
  IN /\ Running(p, "link") /\ r.dp = 0 /\ ilock(r.ip)
     /\ \/ /\ Loaded(r.ip).type = "T_DIR"
           /\ itable' = Seen(r.ip) /\ Return(p, <<r.ip>>)
           /\ UNCHANGED disk
        \/ /\ Loaded(r.ip).type # "T_DIR"
           /\ itable' = iget(t, from)
           /\ disk' = [disk EXCEPT ![r.ip] = iupdate(t, r.ip)]
           /\ Become(p, [r EXCEPT !.pc = "nameiparent", !.path = r.new.elems, !.new = <<>>, !.at = from])
     /\ UNCHANGED <<ents, cwd, file>>

(* dirlink in dp; when the name is there dirlink puts its inode first. *)
link_enter(p) ==
  LET r == ps[p]
      found == dirlookup(r.dp, Head(r.path))
  IN /\ Running(p, "link") /\ r.dp # 0 /\ ilock(r.dp)
     /\ \/ /\ found # 0
           /\ itable' = iget(Held(p, r.dp), found)
           /\ Become(p, [r EXCEPT !.pc = "link_found", !.path = <<>>, !.puts = <<found>>])
           /\ UNCHANGED ents
        \/ /\ found = 0
           /\ itable' = Seen(r.dp)
           /\ ents' = [ents EXCEPT ![r.dp][Head(r.path)] = r.ip]
           /\ Return(p, <<r.dp, r.ip>>)
     /\ UNCHANGED <<disk, cwd, file>>

link_found(p) ==
  LET r == ps[p]
  IN /\ Running(p, "link_found")
     /\ itable' = iunlock(itable, r.dp)
     /\ Become(p, [r EXCEPT !.pc = "link_bad", !.dp = 0, !.puts = <<r.dp>>])
     /\ UNCHANGED <<disk, ents, cwd, file, panicked>>

link_bad(p) ==
  LET r == ps[p]
      t == AddLink(Seen(r.ip), r.ip, -1)
  IN /\ Running(p, "link_bad") /\ ilock(r.ip)
     /\ itable' = t /\ disk' = [disk EXCEPT ![r.ip] = iupdate(t, r.ip)]
     /\ Return(p, <<r.ip>>)
     /\ UNCHANGED <<ents, cwd, file>>

(* sys_unlink: dp is locked, then the inode of the entry. *)
sys_unlink(p) ==
  LET r == ps[p]
      found == dirlookup(r.dp, Head(r.path))
      bad == Head(r.path) \in {".", ".."} \/ found = 0
  IN /\ Running(p, "unlink") /\ ilock(r.dp)
     /\ itable' = IF bad THEN Seen(r.dp) ELSE iget(Held(p, r.dp), found)
     /\ IF bad THEN Return(p, <<r.dp>>) ELSE Become(p, [r EXCEPT !.pc = "unlink_entry", !.ip = found])
     /\ UNCHANGED <<disk, ents, cwd, file>>

unlink_entry(p) ==
  LET r == ps[p]
      dir == Loaded(r.ip).type = "T_DIR"
      t == AddLink(Held(p, r.ip), r.dp, IF dir THEN -1 ELSE 0)
  IN /\ Running(p, "unlink_entry")
     /\ itable[r.ip].lock = NoProc
     /\ panicked' = (panicked \/ Loaded(r.ip).type = "free" \/ Loaded(r.ip).nlink < 1)
     /\ \/ /\ dir /\ ~isdirempty(r.ip)
           /\ itable' = Seen(r.ip)
           /\ Become(p, [r EXCEPT !.pc = "unlink_bad", !.path = <<>>, !.ip = 0, !.puts = <<r.ip>>])
           /\ UNCHANGED <<disk, ents>>
        \/ /\ ~dir \/ isdirempty(r.ip)
           /\ ents' = [ents EXCEPT ![r.dp][Head(r.path)] = 0]
           /\ itable' = iunlock(t, r.dp) /\ disk' = [disk EXCEPT ![r.dp] = iupdate(t, r.dp)]
           /\ Become(p, [r EXCEPT !.pc = "unlink_inode", !.path = <<>>, !.dp = 0, !.puts = <<r.dp>>])
     /\ UNCHANGED <<cwd, file>>

unlink_inode(p) ==
  LET r == ps[p]
      t == AddLink(itable, r.ip, -1)
  IN /\ Running(p, "unlink_inode")
     /\ itable' = iunlock(t, r.ip) /\ disk' = [disk EXCEPT ![r.ip] = iupdate(t, r.ip)]
     /\ Return(p, <<r.ip>>)
     /\ UNCHANGED <<ents, cwd, file, panicked>>

(* Mutant: the directory stays locked. *)
unlink_bad_Locked(p) ==
  /\ Running(p, "unlink_bad")
  /\ Return(p, <<ps[p].dp>>)
  /\ UNCHANGED <<itable, disk, ents, cwd, file, panicked>>

unlink_bad(p) ==
  /\ Running(p, "unlink_bad")
  /\ itable' = iunlock(itable, ps[p].dp)
  /\ Return(p, <<ps[p].dp>>)
  /\ UNCHANGED <<disk, ents, cwd, file, panicked>>

(* The machine crashes between transactions and starts again: a crash      *)
(* within one leaves the disk as it was before it (see Log).               *)
Crash ==
  /\ \A p \in Procs : ps[p] = Idle
  /\ itable' = [i \in Inums |-> IF i = ROOTINO THEN [NoEntry EXCEPT !.ref = Cardinality(Procs)]
                                ELSE NoEntry]
  /\ cwd' = [p \in Procs |-> ROOTINO] /\ file' = [p \in Procs |-> 0]
  /\ UNCHANGED <<disk, ents, ps, panicked>>

Step(p) ==
  \/ iput(p) \/ iput_trunc(p) \/ iput_unlock(p) \/ iput_drop(p) \/ namex(p) \/ namex_end(p)
  \/ create(p) \/ create_old(p) \/ create_new(p) \/ created(p)
  \/ (\E rdonly \in BOOLEAN : sys_open(p, rdonly)) \/ sys_chdir(p)
  \/ sys_link(p) \/ link_enter(p) \/ link_found(p) \/ link_bad(p)
  \/ sys_unlink(p) \/ unlink_entry(p) \/ unlink_inode(p) \/ unlink_bad(p)

(* Bound: a create starts only if there will be an inode, or a directory,  *)
(* for it; ialloc panics when the disk has none.                           *)
RoomFor(type) ==
  LET pending(types) == {q \in Procs : ps[q].pc \in {"nameiparent", "create"} /\ ps[q].type \in types}
      made(types) == {i \in Inums : disk[i].type \in types}
      used(types) == Cardinality(pending(types)) + Cardinality(made(types))
  IN used({"T_DIR", "T_FILE", "T_DEVICE"}) < NInodes /\ (type = "T_DIR" => used({"T_DIR"}) < MaxDirs)

RoomForLink ==
  \A i \in Inums : disk[i].type # "T_DIR" =>
    disk[i].nlink + Cardinality({q \in Procs : ps[q].op = "link"}) < MaxLinks

Call(p) ==
  \/ fileclose(p)
  \/ \E path \in DirPaths : Start(p, "chdir", path, <<>>, "free")
  \/ \E path \in Paths :
       \/ \E op \in {"open", "unlink"} : Start(p, op, path, <<>>, "free")
       \/ \E new \in Paths : RoomForLink /\ Start(p, "link", path, new, "free")
       \/ \E type \in Types : RoomFor(type) /\ Start(p, "create", path, <<>>, type)

Next == Crash \/ \E p \in Procs : Step(p) \/ Call(p)

Spec == Init /\ [][Next]_vars
---------------------------------------------------------------------------
(* RefsCounted: ip->ref is the number of pointers to the inode that calls  *)
(* in progress, open files and current directories hold: no path through a *)
(* system call, failing ones included, leaks or drops one too many.        *)
RefsCounted ==
  \A i \in Inums :
    LET One(x) == IF x = i THEN 1 ELSE 0
        Of(p) == One(cwd[p]) + One(file[p]) + One(ps[p].at) + One(ps[p].dp) + One(ps[p].ip)
                 + Cardinality({k \in DOMAIN ps[p].puts : ps[p].puts[k] = i})
    IN itable[i].ref = FoldSet(LAMBDA p, n : n + Of(p), 0, Procs)

(* NothingDangles: no panic of ilock, iput or unlink is reached; whatever  *)
(* inode an entry of a directory names is allocated and has at least as    *)
(* many links as there are entries, and an open file or a current          *)
(* directory is an allocated inode.                                        *)
NothingDangles ==
  /\ ~panicked
  /\ \A p \in Procs : \A i \in {cwd[p], file[p]} \ {0} : disk[i].type # "free"
  /\ \A i \in Inums :
       Cardinality({e \in Inums \X Names : ents[e[1]][e[2]] = i}) <= disk[i].nlink

(* CopyIsCurrent: an inode in memory that is valid and not locked is what  *)
(* the disk has, also when its number is freed and taken again while iput  *)
(* is still at work.                                                       *)
CopyIsCurrent ==
  \A i \in Inums : itable[i].valid /\ itable[i].lock = NoProc => iupdate(itable, i) = disk[i]

(* IlockFindsAType: an inode that ilock read from the disk is allocated.   *)
(* The .. entry of a removed directory that is still someone's current     *)
(* directory does not count as a link to the parent, so the parent can be  *)
(* removed and freed too, and looking up .. then runs into ilock's panic.  *)
IlockFindsAType ==
  \A i \in Inums : itable[i].valid /\ itable[i].lock = NoProc => itable[i].type # "free"

(* LocksAreOrdered: a process holds locks only inside a call, and no two   *)
(* processes wait for each other's: unlink and create lock the parent      *)
(* before the child.                                                       *)
LocksAreOrdered ==
  LET Wants(p) == IF ps[p].puts # <<>> THEN 0
                  ELSE CASE ps[p].pc \in {"namei", "nameiparent"} -> ps[p].at
                         [] ps[p].pc \in {"create", "unlink"} -> ps[p].dp
                         [] ps[p].pc \in {"create_old", "create_new", "unlink_entry", "open", "chdir", "link_bad"} -> ps[p].ip
                         [] ps[p].pc = "link" -> IF ps[p].dp = 0 THEN ps[p].ip ELSE ps[p].dp
                         [] OTHER -> 0
      Blocks(q, p) == Wants(p) # 0 /\ itable[Wants(p)].lock = q
  IN /\ \A i \in Inums : itable[i].lock # NoProc => ps[itable[i].lock] # Idle
     /\ \A p, q \in Procs : ~(Blocks(q, p) /\ Blocks(p, q))
=============================================================================
