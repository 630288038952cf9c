-------------------------------- MODULE Sfs --------------------------------
(***************************************************************************)
(* The simple file system of hw20/sfs-homework.py: an inode bitmap, an     *)
(* inode table, a data bitmap and data blocks, changed by the requests     *)
(* that its generator makes.  A name is the sequence of its components, <<>> *)
(* being "/".  A request that fails changes nothing and is left out, but   *)
(* for the mkdir that fails half way.                                      *)
(***************************************************************************)
EXTENDS Integers, SequencesExt

CONSTANTS
  numInodes, numData,
  maxUsed,       \* the entries a directory block has room for
  Name,          \* the components that makeName returns
  Letter,        \* what a block may be filled with
  NoData         \* the content of a block without data

SfsAssumption ==
  /\ numInodes \in Nat \ {0} /\ numData \in Nat \ {0} /\ maxUsed \in Nat
  /\ maxUsed >= 2
  /\ IsFiniteSet(Name) /\ {".", ".."} \cap Name = {} /\ NoData \notin Letter

Inum == 0 .. numInodes - 1
Bnum == 0 .. numData - 1
ROOT == 0

VARIABLES
  ibitmap,       \* the inodes marked as allocated
  inodes,        \* the inode table
  dbitmap,       \* the data blocks marked as allocated
  data,          \* the data blocks
  files, dirs,   \* the names the generator knows
  nameToInum     \* the inode of each name it has ever made

vars == <<ibitmap, inodes, dbitmap, data, files, dirs, nameToInum>>

Inode(t, a, r)  == [ftype |-> t, addr |-> a, refCnt |-> r]
FreeBlock       == [ftype |-> "free", dirList |-> {}, text |-> NoData]
DirBlock(L)     == [ftype |-> "d", dirList |-> L, text |-> NoData]

TypeOK ==
  /\ ibitmap \subseteq Inum /\ dbitmap \subseteq Bnum
  /\ inodes \in [Inum -> [ftype : {"free", "f", "d"}, addr : Bnum \cup {-1}, refCnt : Nat]]
  /\ data \in [Bnum -> [ftype : {"free", "f", "d"},
                        dirList : SUBSET ((Name \cup {".", ".."}) \X Inum),
                        text : Letter \cup {NoData}]]
  /\ files \cup dirs \subseteq DOMAIN nameToInum
  /\ \A n \in DOMAIN nameToInum : n \in Seq(Name) /\ nameToInum[n] \in Inum

Init ==
  /\ ibitmap = {ROOT}
  /\ inodes = [i \in Inum |-> IF i = ROOT THEN Inode("d", 0, 2) ELSE Inode("free", -1, 1)]
  /\ dbitmap = {0}
  /\ data = [b \in Bnum |-> IF b = 0 THEN DirBlock({<<".", ROOT>>, <<"..", ROOT>>})
                            ELSE FreeBlock]
  /\ files = {}
  /\ dirs = {<< >>}
  /\ nameToInum = [n \in {<< >>} |-> ROOT]

-----------------------------------------------------------------------------
(* bitmap.alloc returns the first free number.                             *)
FirstFree(bitmap, S) == Min(S \ bitmap)

Block(d)  == inodes[nameToInum[d]].addr
Put(b, e) == [data EXCEPT ![b].dirList = @ \cup {e}]
Learn(n, i) == nameToInum' = [m \in DOMAIN nameToInum \cup {n} |->
                                IF m = n THEN i ELSE nameToInum[m]]

(* The directory d has room for an entry n, and none of that name.         *)
Room(d, n) ==
  /\ Cardinality(data[Block(d)].dirList) < maxUsed
  /\ \A e \in data[Block(d)].dirList : e[1] # n

(* The blocks without the entry of f in its directory.                     *)
Drop(f) == [data EXCEPT ![Block(Front(f))].dirList = {e \in @ : e[1] # Last(f)}]

(* The inode table with one name of inode i and one entry of p less.       *)
Unref(i, p) ==
  [inodes EXCEPT ![i] = IF inodes[i].refCnt = 1 THEN Inode("free", -1, 0)
                        ELSE [inodes[i] EXCEPT !.refCnt = @ - 1],
                 ![p].refCnt = @ - 1]

(* Slips: a last name frees the inode but not its block; the block but not *)
(* the mark of the inode.                                                  *)
Unlink_KeepsBlock(f) ==
  LET i == nameToInum[f]
  IN  /\ ibitmap' = IF inodes[i].refCnt = 1 THEN ibitmap \ {i} ELSE ibitmap
      /\ data' = Drop(f)
      /\ inodes' = Unref(i, nameToInum[Front(f)])
      /\ files' = files \ {f}
      /\ UNCHANGED <<dbitmap, dirs, nameToInum>>
Unlink_KeepsMark(f) ==
  LET i == nameToInum[f]
      b == inodes[i].addr
      freed == inodes[i].refCnt = 1 /\ b # -1
  IN  /\ dbitmap' = IF freed THEN dbitmap \ {b} ELSE dbitmap
      /\ data' = IF freed THEN [Drop(f) EXCEPT ![b] = FreeBlock] ELSE Drop(f)
      /\ inodes' = Unref(i, nameToInum[Front(f)])
      /\ files' = files \ {f}
      /\ UNCHANGED <<ibitmap, dirs, nameToInum>>
(***************************************************************************)
(* deleteFile: the last name of a file frees its inode and its block; the  *)
(* entry leaves the directory, whose count drops.                          *)
(***************************************************************************)
Unlink(f) ==
  LET i == nameToInum[f]
      b == inodes[i].addr
      freed == inodes[i].refCnt = 1 /\ b # -1
  IN  /\ ibitmap' = IF inodes[i].refCnt = 1 THEN ibitmap \ {i} ELSE ibitmap
      /\ dbitmap' = IF freed THEN dbitmap \ {b} ELSE dbitmap
      /\ data' = IF freed THEN [Drop(f) EXCEPT ![b] = FreeBlock] ELSE Drop(f)
      /\ inodes' = Unref(i, nameToInum[Front(f)])
      /\ files' = files \ {f}
      /\ UNCHANGED <<dirs, nameToInum>>

(* createLink and doLink.                                                  *)
Link(target, d, n) ==
  LET t == nameToInum[target]
      p == nameToInum[d]
  IN  /\ Room(d, n)
      /\ inodes' = [inodes EXCEPT ![p].refCnt = @ + 1, ![t].refCnt = @ + 1]
      /\ data' = Put(Block(d), <<n, t>>)
      /\ files' = files \cup {Append(d, n)}
      /\ Learn(Append(d, n), t)
      /\ UNCHANGED <<ibitmap, dbitmap, dirs>>

(* createFile and doCreate of a file, ...                                  *)
Creat(d, n) ==
  /\ Room(d, n)
  /\ ibitmap # Inum
  /\ LET i == FirstFree(ibitmap, Inum)
     IN  /\ ibitmap' = ibitmap \cup {i}
         /\ inodes' = [inodes EXCEPT ![i] = Inode("f", -1, 1),
                                     ![nameToInum[d]].refCnt = @ + 1]
         /\ data' = Put(Block(d), <<n, i>>)
         /\ files' = files \cup {Append(d, n)}
         /\ Learn(Append(d, n), i)
  /\ UNCHANGED <<dbitmap, dirs>>

(* ... of a directory, whose block is entered with its own two entries, ... *)
Mkdir(d, n) ==
  /\ Room(d, n)
  /\ ibitmap # Inum /\ dbitmap # Bnum
  /\ LET i == FirstFree(ibitmap, Inum)
         b == FirstFree(dbitmap, Bnum)
         p == nameToInum[d]
     IN  /\ ibitmap' = ibitmap \cup {i}
         /\ dbitmap' = dbitmap \cup {b}
         /\ inodes' = [inodes EXCEPT ![i] = Inode("d", b, 2), ![p].refCnt = @ + 1]
         /\ data' = [Put(Block(d), <<n, i>>) EXCEPT
                       ![b] = DirBlock({<<".", p>>, <<"..", i>>})]
         /\ dirs' = dirs \cup {Append(d, n)}
         /\ Learn(Append(d, n), i)
  /\ UNCHANGED files

(* ... and of a directory when no block is left: the inode stays marked.   *)
MkdirFails(d, n) ==
  /\ Room(d, n)
  /\ ibitmap # Inum /\ dbitmap = Bnum
  /\ ibitmap' = ibitmap \cup {FirstFree(ibitmap, Inum)}
  /\ UNCHANGED <<inodes, dbitmap, data, files, dirs, nameToInum>>

(* writeFile: the first write to a file takes a block.                     *)
Write(f, x) ==
  \/ /\ Block(f) = -1
     /\ dbitmap # Bnum
     /\ LET b == FirstFree(dbitmap, Bnum)
        IN  /\ dbitmap' = dbitmap \cup {b}
            /\ inodes' = [inodes EXCEPT ![nameToInum[f]].addr = b]
            /\ data' = [data EXCEPT ![b] = [FreeBlock EXCEPT !.ftype = "f", !.text = x]]
     /\ UNCHANGED <<ibitmap, files, dirs, nameToInum>>
  \/ /\ Block(f) # -1
     /\ data' = [data EXCEPT ![Block(f)].text = x]
     /\ UNCHANGED <<ibitmap, inodes, dbitmap, files, dirs, nameToInum>>

Next ==
  \/ \E f \in files : Unlink(f) \/ (\E x \in Letter : Write(f, x))
  \/ \E d \in dirs, n \in Name :
       Creat(d, n) \/ Mkdir(d, n) \/ MkdirFails(d, n) \/ \E f \in files : Link(f, d, n)

Spec == Init /\ [][Next]_vars

-----------------------------------------------------------------------------
InUse    == {i \in Inum : inodes[i].ftype # "free"}
Dirs     == {i \in Inum : inodes[i].ftype = "d"}
(* The entries of the directory with inode i, but "." and "..".            *)
Entries(i) == {e \in data[inodes[i].addr].dirList : e[1] \in Name}

(* The reference counts, by which deleteFile frees: of a file, its names;  *)
(* of a directory, its entries.                                            *)
RefCountsExact ==
  \A i \in InUse :
    inodes[i].refCnt = IF i \in Dirs THEN 2 + Cardinality(Entries(i))
                       ELSE Cardinality({d \in Dirs \X Name : <<d[2], i>> \in Entries(d[1])})

(* Every data block that is marked belongs to exactly one inode, whose type *)
(* it has; no other block is marked; every inode in use is marked too.     *)
BlocksExact ==
  /\ dbitmap = {inodes[i].addr : i \in InUse} \ {-1}
  /\ \A i, j \in InUse : inodes[i].addr = inodes[j].addr /\ i # j => inodes[i].addr = -1
  /\ \A i \in InUse : inodes[i].addr # -1 => data[inodes[i].addr].ftype = inodes[i].ftype
  /\ \A b \in Bnum : b \notin dbitmap <=> data[b].ftype = "free"
  /\ InUse \subseteq ibitmap /\ \A i \in Inum \ InUse : inodes[i].addr = -1

(* Looking a name up in the directories finds the inode that the generator *)
(* has noted for it, although inodes are freed and used again; and the     *)
(* directories hold no other names.                                        *)
NamesResolve ==
  /\ \A n \in (files \cup dirs) \ {<< >>} :
       /\ Front(n) \in dirs
       /\ <<Last(n), nameToInum[n]>> \in Entries(nameToInum[Front(n)])
  /\ \A n \in files : inodes[nameToInum[n]].ftype = "f"
  /\ \A n \in dirs : inodes[nameToInum[n]].ftype = "d"
  /\ \A d \in dirs : \A e \in Entries(nameToInum[d]) : Append(d, e[1]) \in files \cup dirs
  /\ \A d \in dirs : \A e, g \in Entries(nameToInum[d]) : e[1] = g[1] => e = g

(* All of it: what the structures say agrees, after any requests.          *)
TreeExact == TypeOK /\ RefCountsExact /\ BlocksExact /\ NamesResolve

Lost == ibitmap \ InUse

(* An inode stays marked without being in use only through a mkdir that    *)
(* finds no data block; it is never used again.                            *)
LosesWhenFull == Lost' # Lost => dbitmap = Bnum /\ Lost \subseteq Lost'
=============================================================================
