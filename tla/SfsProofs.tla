----------------------------- MODULE SfsProofs -----------------------------
(***************************************************************************)
(* The file system of hw20 (Sfs) as a program of Homework: theorems for    *)
(* any number of inodes, blocks and names.                                 *)
(***************************************************************************)
EXTENDS Homework, SequenceLemmas

(* The file system of hw20.  The entries of each directory, and for each   *)
(* inode the directories and names under which it is entered.              *)
EntriesOf == [j \in Fs!Inum |-> Fs!Entries(j)]
RefsOf == [i \in Fs!Inum |-> {d \in Fs!Dirs \X Name : <<d[2], i>> \in EntriesOf[d[1]]}]

(* Every directory has a block, and one name; the root is there.           *)
FsInv ==
  /\ Fs!TreeExact
  /\ << >> \in dirs
  /\ \A d, e \in dirs : nameToInum[d] = nameToInum[e] => d = e
  /\ \A i \in Fs!Dirs : inodes[i].addr # -1 /\ \E d \in dirs : nameToInum[d] = i

(* Sfs has its own instance of the community modules.                      *)
LEMMA SameFs ==
  /\ \A s : Fs!Front(s) = Front(s) /\ Fs!Last(s) = Last(s)
  /\ \A I : Fs!Min(I) = Min(I) /\ Fs!Cardinality(I) = Cardinality(I)
  /\ \A I : Fs!IsFiniteSet(I) <=> IsFiniteSet(I)
BY DEF Fs!Front, Front, Fs!Last, Last, Fs!Min, Min, Fs!Cardinality, Cardinality,
       Fs!IsFiniteSet, IsFiniteSet

(* What the constants are.                                                 *)
LEMMA FsNumbers ==
  /\ numInodes \in Nat \ {0} /\ numData \in Nat \ {0}
  /\ IsFiniteSet(Name) /\ "." \notin Name /\ ".." \notin Name
  /\ Fs!Inum \subseteq Nat /\ Fs!Bnum \subseteq Nat /\ Fs!ROOT \in Fs!Inum /\ 0 \in Fs!Bnum
  /\ IsFiniteSet(Fs!Inum) /\ IsFiniteSet(Fs!Bnum) /\ -1 \notin Fs!Bnum
<1>1. /\ numInodes \in Nat \ {0} /\ numData \in Nat \ {0}
      /\ IsFiniteSet(Name) /\ "." \notin Name /\ ".." \notin Name
  BY HomeworkAssumption, SameFs DEF Fs!SfsAssumption
<1>2. IsFiniteSet(0 .. numInodes - 1) /\ IsFiniteSet(0 .. numData - 1)
  BY <1>1, FS_Interval
<1>3. QED
  BY <1>1, <1>2 DEF Fs!Inum, Fs!Bnum, Fs!ROOT

(* A directory and a name give the name of an entry, and the other way.    *)
LEMMA PathProperties ==
  ASSUME NEW d \in Seq(Name), NEW n \in Name
  PROVE  /\ Append(d, n) \in Seq(Name) /\ Append(d, n) # << >>
         /\ Front(Append(d, n)) = d /\ Last(Append(d, n)) = n
<1> DEFINE s == Append(d, n)
<1>1. /\ s \in Seq(Name) /\ Len(s) = Len(d) + 1 /\ s[Len(d) + 1] = n
      /\ \A k \in 1 .. Len(d) : s[k] = d[k]
      /\ Len(d) \in Nat
  BY AppendProperties, LenProperties
<1>2. s # << >>
  BY <1>1, EmptySeq
<1> HIDE DEF s
<1>3. /\ Front(s) \in Seq(Name) /\ Len(Front(s)) = Len(d)
      /\ \A k \in 1 .. Len(d) : Front(s)[k] = d[k]
      /\ Last(s) = n
  <2>1. /\ Front(s) \in Seq(Name) /\ Len(Front(s)) = Len(s) - 1
        /\ \A k \in 1 .. Len(s) - 1 : Front(s)[k] = s[k]
        /\ Last(s) = s[Len(s)]
    BY <1>1, <1>2, FrontProperties
  <2>2. Len(s) - 1 = Len(d)
    BY <1>1
  <2>3. QED
    BY <1>1, <2>1, <2>2
<1>4. Front(s) = d
  BY <1>3, SeqEqual
<1>5. QED
  BY <1>1, <1>2, <1>3, <1>4 DEF s

(* The entries of a directory name inodes in use, each name once.          *)
LEMMA TreeFacts ==
  ASSUME FsInv
  PROVE  /\ \A d \in dirs : nameToInum[d] \in Fs!Dirs /\ d \in Seq(Name)
         /\ \A f \in files : nameToInum[f] \in Fs!InUse \ Fs!Dirs /\ f \in Seq(Name) /\ f # << >>
         /\ Fs!Dirs \subseteq Fs!InUse /\ Fs!InUse \subseteq Fs!Inum
         /\ \A j \in Fs!Dirs : inodes[j].addr \in Fs!Bnum /\ inodes[j].addr \in dbitmap
         /\ \A j, k \in Fs!InUse : inodes[j].addr = inodes[k].addr /\ inodes[j].addr # -1 => j = k
         /\ \A j \in Fs!Dirs : \A e \in EntriesOf[j] :
              e \in Name \X Fs!Inum /\ e[2] \in Fs!InUse /\ \A g \in EntriesOf[j] : e[1] = g[1] => e = g
         /\ dbitmap \subseteq Fs!Bnum /\ ibitmap \subseteq Fs!Inum
<1>1. Fs!TypeOK /\ Fs!BlocksExact /\ Fs!NamesResolve
  BY DEF FsInv, Fs!TreeExact
<1>2. \A m \in files \cup dirs : m \in Seq(Name) /\ nameToInum[m] \in Fs!Inum
  BY <1>1 DEF Fs!TypeOK
<1>3. \A d \in dirs : nameToInum[d] \in Fs!Dirs
  BY <1>1, <1>2 DEF Fs!NamesResolve, Fs!Dirs
<1>4. \A f \in files : nameToInum[f] \in Fs!InUse \ Fs!Dirs
  BY <1>1, <1>2 DEF Fs!NamesResolve, Fs!Dirs, Fs!InUse
<1>5. << >> \notin files
  BY <1>3, <1>4 DEF FsInv
<1>6. Fs!Dirs \subseteq Fs!InUse /\ Fs!InUse \subseteq Fs!Inum
  BY DEF Fs!Dirs, Fs!InUse
<1>7. \A j \in Fs!Dirs : inodes[j].addr \in Fs!Bnum /\ inodes[j].addr \in dbitmap
  <2>1. \A j \in Fs!Dirs : inodes[j].addr \in Fs!Bnum \cup {-1}
    BY <1>1, <1>6 DEF Fs!TypeOK
  <2>2. QED
    BY <1>1, <1>6, <2>1 DEF FsInv, Fs!BlocksExact
<1>8. \A j, k \in Fs!InUse : inodes[j].addr = inodes[k].addr /\ inodes[j].addr # -1 => j = k
  BY <1>1 DEF Fs!BlocksExact
<1>9. ASSUME NEW j \in Fs!Dirs, NEW e \in EntriesOf[j]
      PROVE  e \in Name \X Fs!Inum /\ e[2] \in Fs!InUse /\ \A g \in EntriesOf[j] : e[1] = g[1] => e = g
  <2>1. PICK d \in dirs : nameToInum[d] = j
    BY DEF FsInv
  <2>2. EntriesOf[j] = Fs!Entries(j) /\ j \in Fs!Inum
    BY <1>6 DEF EntriesOf
  <2>3. \A g \in EntriesOf[j] : e[1] = g[1] => e = g
    BY <1>1, <2>1, <2>2 DEF Fs!NamesResolve
  <2>4. e \in data[inodes[j].addr].dirList /\ e[1] \in Name
    BY <1>9, <2>2 DEF Fs!Entries
  <2>5. data[inodes[j].addr].dirList \subseteq (Name \cup {".", ".."}) \X Fs!Inum
    BY <1>1, <1>7 DEF Fs!TypeOK
  <2>6. e \in Name \X Fs!Inum
    BY <2>4, <2>5
  <2>7. Append(d, e[1]) \in (files \cup dirs) \ {<< >>}
    <3>1. Append(d, e[1]) \in files \cup dirs
      BY <1>1, <2>1, <2>2, <1>9 DEF Fs!NamesResolve
    <3>2. QED
      BY <3>1, <2>1, <2>6, <1>2, PathProperties
  <2>8. <<e[1], nameToInum[Append(d, e[1])]>> \in EntriesOf[j]
    <3>1. Front(Append(d, e[1])) = d /\ Last(Append(d, e[1])) = e[1]
      BY <2>1, <2>6, <1>2, PathProperties
    <3>2. QED
      BY <1>1, <2>1, <2>2, <2>7, <3>1, SameFs DEF Fs!NamesResolve
  <2>9. e = <<e[1], nameToInum[Append(d, e[1])]>>
    BY <2>3, <2>8
  <2>10. e[2] = nameToInum[Append(d, e[1])]
    BY <2>9
  <2>11. QED
    BY <2>3, <2>6, <2>7, <2>10, <1>3, <1>4, <1>6
<1>10. QED
  BY <1>1, <1>2, <1>3, <1>4, <1>5, <1>6, <1>7, <1>8, <1>9 DEF Fs!TypeOK

(* Both are finite, so that they can be counted.                           *)
LEMMA CountsAreFinite ==
  ASSUME FsInv
  PROVE  /\ \A j \in Fs!Dirs : IsFiniteSet(EntriesOf[j]) /\ Cardinality(EntriesOf[j]) \in Nat
         /\ \A i \in Fs!Inum : IsFiniteSet(RefsOf[i]) /\ Cardinality(RefsOf[i]) \in Nat
<1>1. IsFiniteSet(Name \X Fs!Inum)
  BY FsNumbers, FS_Product
<1>2. ASSUME NEW j \in Fs!Dirs
      PROVE  IsFiniteSet(EntriesOf[j])
  <2>1. EntriesOf[j] \subseteq Name \X Fs!Inum
    BY TreeFacts
  <2>2. QED
    BY <1>1, <2>1, FS_Subset
<1>3. ASSUME NEW i \in Fs!Inum
      PROVE  IsFiniteSet(RefsOf[i])
  <2>1. IsFiniteSet(Fs!Dirs)
    BY FsNumbers, FS_Subset DEF Fs!Dirs
  <2>2. IsFiniteSet(Fs!Dirs \X Name)
    BY <2>1, FsNumbers, FS_Product
  <2>3. RefsOf[i] \subseteq Fs!Dirs \X Name
    BY DEF RefsOf
  <2>4. QED
    BY <2>2, <2>3, FS_Subset
<1>4. QED
  BY <1>2, <1>3, FS_CardinalityType

(* The counts of the inodes in terms of the two.                           *)
CountsSay ==
  Fs!RefCountsExact <=>
    \A i \in Fs!InUse : inodes[i].refCnt = IF i \in Fs!Dirs THEN 2 + Cardinality(EntriesOf[i])
                                           ELSE Cardinality(RefsOf[i])

(* The counts are right when each is the number of names, or of entries    *)
(* and one, of its inode.                                                  *)
LEMMA CountsMeaning == CountsSay
<1>1. Fs!InUse \subseteq Fs!Inum /\ Fs!Dirs \subseteq Fs!Inum
  BY DEF Fs!InUse, Fs!Dirs
<1>2. \A i \in Fs!Dirs : EntriesOf[i] = Fs!Entries(i)
  BY <1>1 DEF EntriesOf
<1>3. \A i \in Fs!InUse : RefsOf[i] = {d \in Fs!Dirs \X Name : <<d[2], i>> \in Fs!Entries(d[1])}
  BY <1>1, <1>2 DEF RefsOf
<1>4. QED
  BY <1>2, <1>3, SameFs DEF Fs!RefCountsExact, CountsSay

(* The same after a step.                                                  *)
LEMMA CountsThen == CountsSay'
BY CountsMeaning, PTL

(* An entry n for inode t is added to directory p; a new directory, if     *)
(* there is one, has none.                                                 *)
EntryAdded(p, n, t) ==
  /\ Fs!Dirs \subseteq Fs!Dirs'
  /\ \A j \in Fs!Dirs' : EntriesOf'[j] = IF j = p THEN EntriesOf[p] \cup {<<n, t>>}
                                        ELSE IF j \in Fs!Dirs THEN EntriesOf[j] ELSE {}

(* It counts for the directory and for the inode.                          *)
LEMMA AddedCounts ==
  ASSUME FsInv, NEW p \in Fs!Dirs, NEW n \in Name, NEW t \in Fs!Inum,
         \A e \in EntriesOf[p] : e[1] # n, EntryAdded(p, n, t)
  PROVE  /\ Cardinality(EntriesOf'[p]) = Cardinality(EntriesOf[p]) + 1
         /\ \A j \in Fs!Dirs \ {p} : EntriesOf'[j] = EntriesOf[j]
         /\ Cardinality(RefsOf'[t]) = Cardinality(RefsOf[t]) + 1
         /\ \A i \in Fs!Inum \ {t} : RefsOf'[i] = RefsOf[i]
<1>1. EntriesOf'[p] = EntriesOf[p] \cup {<<n, t>>} /\ <<n, t>> \notin EntriesOf[p]
  BY DEF EntryAdded
<1>2. Cardinality(EntriesOf'[p]) = Cardinality(EntriesOf[p]) + 1
  BY <1>1, CountsAreFinite, FS_AddElement
<1>3. \A j \in Fs!Dirs \ {p} : EntriesOf'[j] = EntriesOf[j]
  BY DEF EntryAdded
<1>4. \A i \in Fs!Inum : \A d \in Fs!Dirs' \X Name :
        <<d[2], i>> \in EntriesOf'[d[1]] <=>
          (d[1] \in Fs!Dirs /\ <<d[2], i>> \in EntriesOf[d[1]]) \/ (d = <<p, n>> /\ i = t)
  <2>1. SUFFICES ASSUME NEW i \in Fs!Inum, NEW d \in Fs!Dirs' \X Name
                 PROVE  <<d[2], i>> \in EntriesOf'[d[1]] <=>
                          (d[1] \in Fs!Dirs /\ <<d[2], i>> \in EntriesOf[d[1]]) \/ (d = <<p, n>> /\ i = t)
    OBVIOUS
  <2>2. PICK j \in Fs!Dirs', m \in Name : d = <<j, m>>
    OBVIOUS
  <2>3. EntriesOf'[j] = IF j = p THEN EntriesOf[p] \cup {<<n, t>>}
                        ELSE IF j \in Fs!Dirs THEN EntriesOf[j] ELSE {}
    BY DEF EntryAdded
  <2>4. QED
    BY <2>2, <2>3
<1>5. RefsOf' = [i \in Fs!Inum |-> {d \in Fs!Dirs' \X Name : <<d[2], i>> \in EntriesOf'[d[1]]}]
  BY DEF RefsOf, Fs!Inum
<1>6. Fs!Dirs \subseteq Fs!Dirs'
  BY DEF EntryAdded
<1>7. \A i \in Fs!Inum \ {t} : RefsOf'[i] = RefsOf[i]
  BY <1>4, <1>5, <1>6 DEF RefsOf
<1>8. RefsOf'[t] = RefsOf[t] \cup {<<p, n>>} /\ <<p, n>> \notin RefsOf[t]
  BY <1>1, <1>4, <1>5, <1>6 DEF RefsOf
<1>9. Cardinality(RefsOf'[t]) = Cardinality(RefsOf[t]) + 1
  BY <1>8, CountsAreFinite, FS_AddElement
<1>10. QED
  BY <1>2, <1>3, <1>7, <1>9

(* A name that its directory does not hold is new, and the generator learns *)
(* its inode.                                                              *)
LEMMA NewName ==
  ASSUME FsInv, NEW d \in dirs, NEW n \in Name, NEW t \in Fs!Inum,
         \A e \in EntriesOf[nameToInum[d]] : e[1] # n, Fs!Learn(Append(d, n), t)
  PROVE  /\ Append(d, n) \notin files \cup dirs
         /\ nameToInum'[Append(d, n)] = t
         /\ \A m \in files \cup dirs : nameToInum'[m] = nameToInum[m]
         /\ files \cup dirs \cup {Append(d, n)} \subseteq DOMAIN nameToInum'
         /\ \A m \in DOMAIN nameToInum' : m \in Seq(Name) /\ nameToInum'[m] \in Fs!Inum
<1> DEFINE a == Append(d, n)
           p == nameToInum[d]
<1>1. Fs!NamesResolve /\ p \in Fs!Dirs /\ p \in Fs!Inum
  BY TreeFacts DEF FsInv, Fs!TreeExact
<1>2. a \in Seq(Name) /\ a # << >> /\ Front(a) = d /\ Last(a) = n
  BY PathProperties, TreeFacts
<1>3. a \notin files \cup dirs
  <2>1. SUFFICES ASSUME a \in files \cup dirs
                 PROVE  FALSE
    OBVIOUS
  <2>2. <<n, nameToInum[a]>> \in Fs!Entries(p)
    BY <1>1, <1>2, <2>1, SameFs DEF Fs!NamesResolve
  <2>3. EntriesOf[p] = Fs!Entries(p)
    BY <1>1 DEF EntriesOf
  <2>4. QED
    BY <2>2, <2>3
<1>4. /\ files \cup dirs \subseteq DOMAIN nameToInum
      /\ \A m \in DOMAIN nameToInum : m \in Seq(Name) /\ nameToInum[m] \in Fs!Inum
  BY DEF FsInv, Fs!TreeExact, Fs!TypeOK
<1>5. QED
  BY <1>2, <1>3, <1>4 DEF Fs!Learn

(* And the names still resolve, with the new one.                          *)
LEMMA AddedResolves ==
  ASSUME FsInv, NEW d \in dirs, NEW n \in Name, NEW t \in Fs!Inum,
         \A e \in EntriesOf[nameToInum[d]] : e[1] # n,
         EntryAdded(nameToInum[d], n, t), Fs!Learn(Append(d, n), t),
         \/ files' = files \cup {Append(d, n)} /\ dirs' = dirs
         \/ files' = files /\ dirs' = dirs \cup {Append(d, n)} /\ t \in Fs!Dirs' \ Fs!Dirs,
         \A m \in files' : inodes'[nameToInum'[m]].ftype = "f",
         \A m \in dirs' : inodes'[nameToInum'[m]].ftype = "d"
  PROVE  Fs!NamesResolve'
<1> DEFINE a == Append(d, n)
           p == nameToInum[d]
<1>1. Fs!NamesResolve /\ p \in Fs!Dirs /\ p \in Fs!Inum
  BY TreeFacts DEF FsInv, Fs!TreeExact
<1>2. a \in Seq(Name) /\ a # << >> /\ Front(a) = d /\ Last(a) = n
  BY PathProperties, TreeFacts
<1>3. \A j \in Fs!Dirs : EntriesOf[j] = Fs!Entries(j)
  BY TreeFacts DEF EntriesOf
<1>4. \A j \in Fs!Dirs' : EntriesOf'[j] = {e \in data'[inodes'[j].addr].dirList : e[1] \in Name}
  BY DEF EntriesOf, Fs!Dirs, Fs!Inum, Fs!Entries
<1>5. a \notin files \cup dirs
  BY NewName
<1>7. nameToInum'[a] = t /\ \A m \in files \cup dirs : nameToInum'[m] = nameToInum[m]
  BY NewName
<1>8. \A m \in (files' \cup dirs') \ {<< >>} :
         Front(m) \in dirs' /\ <<Last(m), nameToInum'[m]>> \in EntriesOf'[nameToInum'[Front(m)]]
  <2>1. SUFFICES ASSUME NEW m \in (files' \cup dirs') \ {<< >>}
                 PROVE  Front(m) \in dirs' /\ <<Last(m), nameToInum'[m]>> \in EntriesOf'[nameToInum'[Front(m)]]
    OBVIOUS
  <2>2. dirs \subseteq dirs' /\ Fs!Dirs \subseteq Fs!Dirs'
    BY DEF EntryAdded
  <2>3. \A j \in Fs!Dirs : EntriesOf'[j] = IF j = p THEN EntriesOf[p] \cup {<<n, t>>} ELSE EntriesOf[j]
    BY <2>2 DEF EntryAdded
  <2>4. CASE m = a
    BY <2>4, <1>1, <1>2, <1>7, <2>2, <2>3
  <2>5. CASE m # a
    <3>1. m \in (files \cup dirs) \ {<< >>}
      BY <2>1, <2>5
    <3>2. Front(m) \in dirs /\ <<Last(m), nameToInum[m]>> \in Fs!Entries(nameToInum[Front(m)])
      BY <1>1, <3>1, SameFs DEF Fs!NamesResolve
    <3>3. nameToInum[Front(m)] \in Fs!Dirs
      BY <3>2, TreeFacts
    <3>4. QED
      BY <1>3, <1>7, <2>2, <2>3, <3>1, <3>2, <3>3
  <2>6. QED
    BY <2>4, <2>5
<1>9. \A x \in dirs' : nameToInum'[x] \in Fs!Dirs' /\
        \A e \in EntriesOf'[nameToInum'[x]] :
          /\ Append(x, e[1]) \in files' \cup dirs'
          /\ \A g \in EntriesOf'[nameToInum'[x]] : e[1] = g[1] => e = g
  <2>1. SUFFICES ASSUME NEW x \in dirs'
                 PROVE  nameToInum'[x] \in Fs!Dirs' /\
                          \A e \in EntriesOf'[nameToInum'[x]] :
                            /\ Append(x, e[1]) \in files' \cup dirs'
                            /\ \A g \in EntriesOf'[nameToInum'[x]] : e[1] = g[1] => e = g
    OBVIOUS
  <2>2. CASE x \in dirs
    <3>1. nameToInum'[x] = nameToInum[x] /\ nameToInum[x] \in Fs!Dirs
      BY <1>7, <2>2, TreeFacts
    <3>2. \A e \in EntriesOf[nameToInum[x]] : Append(x, e[1]) \in files \cup dirs
      BY <1>1, <1>3, <2>2, <3>1 DEF Fs!NamesResolve
    <3>3. \A e, g \in EntriesOf[nameToInum[x]] : e[1] = g[1] => e = g
      BY <3>1, TreeFacts
    <3>4. files \cup dirs \cup {a} = files' \cup dirs'
      OBVIOUS
    <3>5. CASE x = d
      <4>1. EntriesOf'[nameToInum'[x]] = EntriesOf[p] \cup {<<n, t>>}
        BY <1>1, <3>1, <3>5 DEF EntryAdded
      <4>2. nameToInum'[x] \in Fs!Dirs' /\ nameToInum[x] = p
        BY <3>1, <3>5 DEF EntryAdded
      <4>3. \A e \in EntriesOf[p] : Append(x, e[1]) \in files' \cup dirs'
        BY <3>2, <3>4, <4>2
      <4>4. Append(x, n) \in files' \cup dirs'
        BY <3>4, <3>5
      <4>5. \A e, g \in EntriesOf[p] \cup {<<n, t>>} : e[1] = g[1] => e = g
        BY <3>3, <4>2
      <4>6. QED
        BY <4>1, <4>2, <4>3, <4>4, <4>5
    <3>6. CASE x # d
      <4>1. nameToInum[x] # p
        BY <2>2, <3>6 DEF FsInv
      <4>2. EntriesOf'[nameToInum'[x]] = EntriesOf[nameToInum[x]]
        BY <3>1, <4>1 DEF EntryAdded
      <4>3. QED
        BY <3>1, <3>2, <3>3, <3>4, <4>2 DEF EntryAdded
    <3>7. QED
      BY <3>5, <3>6
  <2>3. CASE x \notin dirs
    <3>1. x = a /\ nameToInum'[x] = t /\ t \in Fs!Dirs' \ Fs!Dirs
      BY <1>7, <2>3
    <3>2. EntriesOf'[t] = {}
      BY <1>1, <3>1 DEF EntryAdded
    <3>3. QED
      BY <3>1, <3>2
  <2>4. QED
    BY <2>2, <2>3
<1>10. /\ \A m \in (files' \cup dirs') \ {<< >>} :
             /\ Front(m) \in dirs'
             /\ <<Last(m), nameToInum'[m]>> \in
                  {e \in data'[inodes'[nameToInum'[Front(m)]].addr].dirList : e[1] \in Name}
       /\ \A x \in dirs' : \A e \in {g \in data'[inodes'[nameToInum'[x]].addr].dirList : g[1] \in Name} :
             /\ Append(x, e[1]) \in files' \cup dirs'
             /\ \A g \in {h \in data'[inodes'[nameToInum'[x]].addr].dirList : h[1] \in Name} :
                  e[1] = g[1] => e = g
  BY <1>4, <1>8, <1>9
<1>11. QED
  BY <1>10, SameFs DEF Fs!NamesResolve, Fs!Entries

(* The last part of FsInv when there is no new directory.                  *)
LEMMA SameDirectories ==
  ASSUME FsInv, dirs' = dirs, \A d \in dirs : nameToInum'[d] = nameToInum[d], Fs!Dirs' = Fs!Dirs,
         \A i \in Fs!Dirs : inodes'[i].addr = inodes[i].addr,
         Fs!TypeOK', Fs!RefCountsExact', Fs!BlocksExact', Fs!NamesResolve'
  PROVE  FsInv'
<1>1. \A d, e \in dirs' : nameToInum'[d] = nameToInum'[e] => d = e
  BY DEF FsInv
<1>2. \A i \in Fs!Dirs' : inodes'[i].addr # -1 /\ \E d \in dirs' : nameToInum'[d] = i
  BY DEF FsInv
<1>3. QED
  BY <1>1, <1>2 DEF FsInv, Fs!TreeExact

(* The types of an inode and of a block.                                   *)
InodeType == [ftype : {"free", "f", "d"}, addr : Fs!Bnum \cup {-1}, refCnt : Nat]
BlockType == [ftype : {"free", "f", "d"},
              dirList : SUBSET ((Name \cup {".", ".."}) \X Fs!Inum), text : Letter \cup {NoData}]

(* The types of the invariant by those names.                              *)
LEMMA FsTypes ==
  ASSUME FsInv
  PROVE  /\ inodes \in [Fs!Inum -> InodeType] /\ data \in [Fs!Bnum -> BlockType]
         /\ ibitmap \subseteq Fs!Inum /\ dbitmap \subseteq Fs!Bnum
         /\ Fs!BlocksExact /\ Fs!RefCountsExact /\ Fs!NamesResolve
BY DEF FsInv, Fs!TreeExact, Fs!TypeOK, InodeType, BlockType

(* The blocks with one entry more in block b.                              *)
LEMMA PutProperties ==
  ASSUME FsInv, NEW b \in Fs!Bnum, NEW n \in Name, NEW t \in Fs!Inum, NEW D, D = Fs!Put(b, <<n, t>>)
  PROVE  /\ D \in [Fs!Bnum -> BlockType]
         /\ D[b].dirList = data[b].dirList \cup {<<n, t>>} /\ D[b].ftype = data[b].ftype
         /\ \A c \in Fs!Bnum \ {b} : D[c] = data[c]
<1>1. data \in [Fs!Bnum -> BlockType] /\ data[b] \in BlockType
  BY FsTypes
<1>2. D = [data EXCEPT ![b] = [data[b] EXCEPT !.dirList = data[b].dirList \cup {<<n, t>>}]]
  BY DEF Fs!Put
<1>3. data[b].dirList \cup {<<n, t>>} \in SUBSET ((Name \cup {".", ".."}) \X Fs!Inum)
  BY <1>1 DEF BlockType
<1>4. QED
  BY <1>1, <1>2, <1>3 DEF BlockType

(* The same when these are the blocks after a step.                        *)
LEMMA PutThen ==
  ASSUME FsInv, NEW b \in Fs!Bnum, NEW n \in Name, NEW t \in Fs!Inum, data' = Fs!Put(b, <<n, t>>)
  PROVE  /\ data' \in [Fs!Bnum -> BlockType]
         /\ data'[b].dirList = data[b].dirList \cup {<<n, t>>}
         /\ \A c \in Fs!Bnum \ {b} : data'[c] = data[c]
         /\ \A c \in Fs!Bnum : data'[c].ftype = data[c].ftype
<1>1. PICK D : D = data'
  OBVIOUS
<1>2. D = Fs!Put(b, <<n, t>>)
  BY <1>1
<1>3. /\ D \in [Fs!Bnum -> BlockType]
      /\ D[b].dirList = data[b].dirList \cup {<<n, t>>} /\ D[b].ftype = data[b].ftype
      /\ \A c \in Fs!Bnum \ {b} : D[c] = data[c]
  BY <1>2, PutProperties
<1>4. QED
  BY <1>1, <1>3

(* An inode that is referred to once more.                                 *)
LEMMA MoreReferences ==
  ASSUME NEW r \in InodeType
  PROVE  /\ [r EXCEPT !.refCnt = r.refCnt + 1] \in InodeType
         /\ [r EXCEPT !.refCnt = r.refCnt + 1].refCnt = r.refCnt + 1
         /\ [r EXCEPT !.refCnt = r.refCnt + 1].ftype = r.ftype
         /\ [r EXCEPT !.refCnt = r.refCnt + 1].addr = r.addr
BY DEF InodeType

(* The entries that the blocks hold.                                       *)
LEMMA EntriesThen ==
  \A j \in Fs!Inum : EntriesOf'[j] = {e \in data'[inodes'[j].addr].dirList : e[1] \in Name}
BY DEF EntriesOf, Fs!Entries, Fs!Inum

(* An entry put into the block of p is added to the entries of p.          *)
LEMMA EntryPut ==
  ASSUME FsInv, NEW p \in Fs!Dirs, NEW n \in Name, NEW t \in Fs!Inum,
         Fs!Dirs \subseteq Fs!Dirs', \A j \in Fs!Dirs' \ Fs!Dirs : EntriesOf'[j] = {},
         \A j \in Fs!Dirs : inodes'[j].addr = inodes[j].addr,
         data'[inodes[p].addr].dirList = data[inodes[p].addr].dirList \cup {<<n, t>>},
         \A c \in dbitmap \ {inodes[p].addr} : data'[c] = data[c]
  PROVE  EntryAdded(p, n, t)
<1>1. ASSUME NEW j \in Fs!Dirs
      PROVE  EntriesOf'[j] = IF j = p THEN EntriesOf[p] \cup {<<n, t>>} ELSE EntriesOf[j]
  <2>1. j \in Fs!Inum /\ inodes'[j].addr = inodes[j].addr /\ inodes[j].addr \in dbitmap
    BY TreeFacts
  <2>2. EntriesOf'[j] = {e \in data'[inodes[j].addr].dirList : e[1] \in Name}
    BY <2>1, EntriesThen
  <2>3. EntriesOf[j] = {e \in data[inodes[j].addr].dirList : e[1] \in Name}
    BY <2>1 DEF EntriesOf, Fs!Entries
  <2>4. j # p => inodes[j].addr # inodes[p].addr
    BY TreeFacts, FsNumbers
  <2>5. CASE j = p
    BY <2>2, <2>3, <2>5
  <2>6. CASE j # p
    BY <2>1, <2>2, <2>3, <2>4, <2>6
  <2>7. QED
    BY <2>5, <2>6
<1>2. QED
  BY <1>1 DEF EntryAdded

(* createLink: one name and one entry more.                                *)
LEMMA LinkKeepsTree ==
  ASSUME FsInv, NEW target \in files, NEW d \in dirs, NEW n \in Name, Fs!Link(target, d, n)
  PROVE  FsInv' /\ Fs!Lost' = Fs!Lost
<1> DEFINE t == nameToInum[target]
           p == nameToInum[d]
           b == inodes[p].addr
<1>1. /\ p \in Fs!Dirs /\ t \in Fs!InUse \ Fs!Dirs /\ p \in Fs!Inum /\ t \in Fs!Inum /\ p # t
      /\ b \in Fs!Bnum /\ Fs!Dirs \subseteq Fs!InUse
  BY TreeFacts
<1>2. /\ inodes' = [inodes EXCEPT ![p].refCnt = @ + 1, ![t].refCnt = @ + 1]
      /\ data' = Fs!Put(b, <<n, t>>)
      /\ files' = files \cup {Append(d, n)} /\ dirs' = dirs
      /\ Fs!Learn(Append(d, n), t)
      /\ UNCHANGED <<ibitmap, dbitmap>>
      /\ \A e \in data[b].dirList : e[1] # n
  BY DEF Fs!Link, Fs!Room, Fs!Block
<1>3. \A e \in EntriesOf[p] : e[1] # n
  BY <1>1, <1>2 DEF EntriesOf, Fs!Entries
<1>4. /\ Append(d, n) \notin files \cup dirs /\ nameToInum'[Append(d, n)] = t
      /\ \A m \in files \cup dirs : nameToInum'[m] = nameToInum[m]
      /\ files' \cup dirs' \subseteq DOMAIN nameToInum'
      /\ \A m \in DOMAIN nameToInum' : m \in Seq(Name) /\ nameToInum'[m] \in Fs!Inum
  BY <1>1, <1>2, <1>3, NewName
<1>5. /\ \A f \in files : nameToInum[f] \in Fs!InUse \ Fs!Dirs
      /\ \A x \in dirs : nameToInum[x] \in Fs!Dirs
  BY TreeFacts
<1> HIDE DEF t, p, b
<1>6. /\ inodes' \in [Fs!Inum -> InodeType]
      /\ \A j \in Fs!Inum : inodes'[j].ftype = inodes[j].ftype /\ inodes'[j].addr = inodes[j].addr
      /\ \A j \in Fs!Inum \ {p, t} : inodes'[j] = inodes[j]
      /\ inodes'[p].refCnt = inodes[p].refCnt + 1 /\ inodes'[t].refCnt = inodes[t].refCnt + 1
  <2>1. \A j \in Fs!Inum : inodes'[j] = IF j \in {p, t} THEN [inodes[j] EXCEPT !.refCnt = inodes[j].refCnt + 1]
                                        ELSE inodes[j]
    BY <1>1, <1>2, FsTypes
  <2>2. inodes \in [Fs!Inum -> InodeType] /\ DOMAIN inodes' = Fs!Inum /\ inodes' = [j \in DOMAIN inodes' |-> inodes'[j]]
    BY <1>2, FsTypes
  <2>3. ASSUME NEW j \in Fs!Inum
        PROVE  inodes'[j] \in InodeType /\ inodes'[j].ftype = inodes[j].ftype /\ inodes'[j].addr = inodes[j].addr
    <3>1. inodes[j] \in InodeType
      BY <2>2
    <3>2. QED
      BY <2>1, <3>1, MoreReferences
  <2>4. inodes'[p].refCnt = inodes[p].refCnt + 1 /\ inodes'[t].refCnt = inodes[t].refCnt + 1
    <3>1. inodes[p] \in InodeType /\ inodes[t] \in InodeType
      BY <1>1, <2>2
    <3>2. QED
      BY <1>1, <2>1, <3>1, MoreReferences
  <2>5. QED
    BY <2>1, <2>2, <2>3, <2>4
<1>7. Fs!Dirs' = Fs!Dirs /\ Fs!InUse' = Fs!InUse
  BY <1>6 DEF Fs!Dirs, Fs!InUse, Fs!Inum
<1>8. /\ data' \in [Fs!Bnum -> BlockType]
      /\ data'[b].dirList = data[b].dirList \cup {<<n, t>>}
      /\ \A c \in Fs!Bnum \ {b} : data'[c] = data[c]
      /\ \A c \in Fs!Bnum : data'[c].ftype = data[c].ftype
  BY <1>1, <1>2, PutThen
<1>9. EntryAdded(p, n, t)
  <2>1. \A j \in Fs!Dirs : inodes'[j].addr = inodes[j].addr
    BY <1>1, <1>6, TreeFacts
  <2>2. \A c \in dbitmap \ {b} : data'[c] = data[c]
    BY <1>8, TreeFacts
  <2>3. QED
    BY <1>1, <1>7, <1>8, <2>1, <2>2, EntryPut DEF b
<1>10. Fs!NamesResolve'
  <2>1. \A m \in files' : inodes'[nameToInum'[m]].ftype = "f"
    <3>1. \A i \in Fs!InUse \ Fs!Dirs : inodes[i].ftype = "f" /\ i \in Fs!Inum
      BY FsTypes DEF Fs!InUse, Fs!Dirs, InodeType
    <3>2. \A i \in Fs!InUse \ Fs!Dirs : inodes'[i].ftype = "f"
      BY <1>6, <3>1
    <3>3. \A m \in files' : nameToInum'[m] \in Fs!InUse \ Fs!Dirs
      BY <1>1, <1>2, <1>4, <1>5
    <3>4. QED
      BY <3>2, <3>3
  <2>2. \A m \in dirs' : inodes'[nameToInum'[m]].ftype = "d"
    <3>1. \A m \in dirs' : nameToInum'[m] \in Fs!Dirs'
      BY <1>2, <1>4, <1>5, <1>7
    <3>2. QED
      BY <3>1 DEF Fs!Dirs
  <2>3. QED
    BY <1>1, <1>2, <1>3, <1>9, <2>1, <2>2, AddedResolves DEF p
<1>11. Fs!RefCountsExact'
  <2>1. /\ Cardinality(EntriesOf'[p]) = Cardinality(EntriesOf[p]) + 1
        /\ \A j \in Fs!Dirs \ {p} : EntriesOf'[j] = EntriesOf[j]
        /\ Cardinality(RefsOf'[t]) = Cardinality(RefsOf[t]) + 1
        /\ \A i \in Fs!Inum \ {t} : RefsOf'[i] = RefsOf[i]
    BY <1>1, <1>3, <1>9, AddedCounts
  <2>2. \A i \in Fs!InUse : i \in Fs!Inum /\
          inodes[i].refCnt = IF i \in Fs!Dirs THEN 2 + Cardinality(EntriesOf[i]) ELSE Cardinality(RefsOf[i])
    BY FsTypes, CountsMeaning, TreeFacts DEF CountsSay
  <2>3. Cardinality(EntriesOf[p]) \in Nat /\ Cardinality(RefsOf[t]) \in Nat
    BY <1>1, CountsAreFinite
  <2>4. \A i \in Fs!InUse :
          inodes'[i].refCnt = IF i \in Fs!Dirs THEN 2 + Cardinality(EntriesOf'[i]) ELSE Cardinality(RefsOf'[i])
    BY <1>1, <1>6, <2>1, <2>2, <2>3
  <2>5. QED
    BY <1>7, <2>4, CountsThen DEF CountsSay
<1>12. Fs!BlocksExact'
  <2>1. \A i \in Fs!InUse : i \in Fs!Inum /\ inodes[i].addr \in Fs!Bnum \cup {-1}
    BY FsTypes DEF Fs!InUse, InodeType
  <2>2. {inodes'[i].addr : i \in Fs!InUse} = {inodes[i].addr : i \in Fs!InUse}
    BY <1>6, <2>1
  <2>3. dbitmap' = {inodes'[i].addr : i \in Fs!InUse} \ {-1}
    BY <1>2, <2>2, FsTypes DEF Fs!BlocksExact
  <2>4. \A i, j \in Fs!InUse : inodes'[i].addr = inodes'[j].addr /\ i # j => inodes'[i].addr = -1
    BY <1>6, <2>1, FsTypes DEF Fs!BlocksExact
  <2>5. \A i \in Fs!InUse : inodes'[i].addr # -1 => data'[inodes'[i].addr].ftype = inodes'[i].ftype
    BY <1>6, <1>8, <2>1, FsTypes DEF Fs!BlocksExact
  <2>6. \A c \in Fs!Bnum : c \notin dbitmap' <=> data'[c].ftype = "free"
    BY <1>2, <1>8, FsTypes DEF Fs!BlocksExact
  <2>7. Fs!InUse \subseteq ibitmap' /\ \A i \in Fs!Inum \ Fs!InUse : inodes'[i].addr = -1
    BY <1>2, <1>6, FsTypes DEF Fs!BlocksExact
  <2>8. QED
    BY <1>7, <2>3, <2>4, <2>5, <2>6, <2>7 DEF Fs!BlocksExact, Fs!Bnum, Fs!Inum
<1>13. Fs!TypeOK'
  BY <1>2, <1>4, <1>6, <1>8, FsTypes DEF Fs!TypeOK, InodeType, BlockType, Fs!Bnum, Fs!Inum
<1>14. FsInv'
  <2>1. \A j \in Fs!Dirs : inodes'[j].addr = inodes[j].addr
    BY <1>1, <1>6, TreeFacts
  <2>2. dirs' = dirs /\ Fs!Dirs' = Fs!Dirs /\ \A x \in dirs : nameToInum'[x] = nameToInum[x]
    BY <1>2, <1>4, <1>7
  <2>3. QED
    BY <1>10, <1>11, <1>12, <1>13, <2>1, <2>2, SameDirectories
<1>15. QED
  BY <1>2, <1>7, <1>14 DEF Fs!Lost

(* bitmap.alloc finds a number that is free.                               *)
LEMMA FirstFreeProperties ==
  ASSUME NEW S \in SUBSET Nat, NEW bitmap, ~(S \subseteq bitmap)
  PROVE  Fs!FirstFree(bitmap, S) \in S \ bitmap
BY MinProperties, SameFs DEF Fs!FirstFree

(* The inodes and the types of the names when an inode i comes into use    *)
(* and directory p gets one entry more.                                    *)
NewInode(i, r, p) ==
  [j \in Fs!Inum |-> IF j = i THEN r
                     ELSE IF j = p THEN [inodes[j] EXCEPT !.refCnt = inodes[j].refCnt + 1] ELSE inodes[j]]

(* That inode is in use then, and no other one changes its type or block.  *)
LEMMA NewInodeProperties ==
  ASSUME FsInv, NEW p \in Fs!Dirs, NEW i \in Fs!Inum \ Fs!InUse, NEW r \in InodeType,
         r.ftype # "free", inodes' = NewInode(i, r, p)
  PROVE  /\ inodes' \in [Fs!Inum -> InodeType] /\ inodes'[i] = r
         /\ \A j \in Fs!Inum \ {i} : inodes'[j].ftype = inodes[j].ftype /\ inodes'[j].addr = inodes[j].addr
         /\ \A j \in Fs!Inum \ {i, p} : inodes'[j] = inodes[j]
         /\ inodes'[p].refCnt = inodes[p].refCnt + 1 /\ i # p
         /\ Fs!InUse' = Fs!InUse \cup {i}
         /\ Fs!Dirs' = Fs!Dirs \cup (IF r.ftype = "d" THEN {i} ELSE {})
<1>1. p \in Fs!Inum /\ i # p /\ Fs!Dirs \subseteq Fs!InUse /\ Fs!InUse \subseteq Fs!Inum
  BY TreeFacts
<1>2. inodes \in [Fs!Inum -> InodeType]
  BY FsTypes
<1>3. ASSUME NEW j \in Fs!Inum \ {i}
      PROVE  inodes'[j] \in InodeType /\ inodes'[j].ftype = inodes[j].ftype /\ inodes'[j].addr = inodes[j].addr
  <2>1. inodes[j] \in InodeType
    BY <1>2
  <2>2. inodes'[j] = IF j = p THEN [inodes[j] EXCEPT !.refCnt = inodes[j].refCnt + 1] ELSE inodes[j]
    BY DEF NewInode
  <2>3. QED
    BY <2>1, <2>2, MoreReferences
<1>4. inodes'[p].refCnt = inodes[p].refCnt + 1
  BY <1>1, <1>2, MoreReferences DEF NewInode
<1>5. inodes'[i] = r /\ (\A j \in Fs!Inum \ {i, p} : inodes'[j] = inodes[j]) /\ inodes' \in [Fs!Inum -> InodeType]
  BY <1>1, <1>3 DEF NewInode
<1>6. \A j \in Fs!Inum : (inodes'[j].ftype # "free" <=> j \in Fs!InUse \/ j = i)
                         /\ (inodes'[j].ftype = "d" <=> j \in Fs!Dirs \/ (j = i /\ r.ftype = "d"))
  BY <1>3, <1>5 DEF Fs!InUse, Fs!Dirs
<1>7. Fs!InUse' = Fs!InUse \cup {i} /\ Fs!Dirs' = Fs!Dirs \cup (IF r.ftype = "d" THEN {i} ELSE {})
  BY <1>1, <1>6 DEF Fs!InUse, Fs!Dirs, Fs!Inum
<1>8. QED
  BY <1>1, <1>3, <1>4, <1>5, <1>7

(* Nothing refers to an inode that is not in use.                          *)
LEMMA FreeHasNoName ==
  ASSUME FsInv, NEW i \in Fs!Inum \ Fs!InUse
  PROVE  RefsOf[i] = {} /\ Cardinality(RefsOf[i]) = 0
<1>1. RefsOf[i] = {}
  BY TreeFacts DEF RefsOf
<1>2. QED
  BY <1>1, FS_EmptySet

(* createFile: an inode without a block, one name and one entry more.      *)
LEMMA CreatKeepsTree ==
  ASSUME FsInv, NEW d \in dirs, NEW n \in Name, Fs!Creat(d, n)
  PROVE  FsInv' /\ Fs!Lost' = Fs!Lost
<1> DEFINE i == Fs!FirstFree(ibitmap, Fs!Inum)
           p == nameToInum[d]
           b == inodes[p].addr
<1>1. p \in Fs!Dirs /\ p \in Fs!Inum /\ b \in Fs!Bnum /\ Fs!Dirs \subseteq Fs!InUse /\ Fs!InUse \subseteq Fs!Inum
  BY TreeFacts
<1>2. /\ ibitmap' = ibitmap \cup {i}
      /\ inodes' = [inodes EXCEPT ![i] = Fs!Inode("f", -1, 1), ![p].refCnt = @ + 1]
      /\ data' = Fs!Put(b, <<n, i>>)
      /\ files' = files \cup {Append(d, n)} /\ dirs' = dirs
      /\ Fs!Learn(Append(d, n), i)
      /\ dbitmap' = dbitmap
      /\ \A e \in data[b].dirList : e[1] # n
      /\ ibitmap # Fs!Inum
  BY DEF Fs!Creat, Fs!Room, Fs!Block
<1>3. i \in Fs!Inum \ ibitmap /\ i \in Fs!Inum \ Fs!InUse
  <2>1. Fs!Inum \in SUBSET Nat /\ ~(Fs!Inum \subseteq ibitmap) /\ Fs!InUse \subseteq ibitmap
    BY <1>2, FsNumbers, FsTypes DEF Fs!BlocksExact
  <2>2. QED
    BY <2>1, FirstFreeProperties
<1>4. \A e \in EntriesOf[p] : e[1] # n
  BY <1>1, <1>2 DEF EntriesOf, Fs!Entries
<1>5. /\ Append(d, n) \notin files \cup dirs /\ nameToInum'[Append(d, n)] = i
      /\ \A m \in files \cup dirs : nameToInum'[m] = nameToInum[m]
      /\ files' \cup dirs' \subseteq DOMAIN nameToInum'
      /\ \A m \in DOMAIN nameToInum' : m \in Seq(Name) /\ nameToInum'[m] \in Fs!Inum
  BY <1>2, <1>3, <1>4, NewName
<1>6. /\ \A f \in files : nameToInum[f] \in Fs!InUse \ Fs!Dirs
      /\ \A x \in dirs : nameToInum[x] \in Fs!Dirs
  BY TreeFacts
<1> DEFINE r == Fs!Inode("f", -1, 1)
<1>7. r \in InodeType /\ r.ftype = "f" /\ r.addr = -1 /\ r.refCnt = 1
  BY DEF Fs!Inode, InodeType
<1> HIDE DEF i, p, b, r
<1>8. inodes' = NewInode(i, r, p)
  BY <1>1, <1>2, <1>3, FsTypes DEF NewInode, r
<1>9. /\ inodes' \in [Fs!Inum -> InodeType] /\ inodes'[i] = r
      /\ \A j \in Fs!Inum \ {i} : inodes'[j].ftype = inodes[j].ftype /\ inodes'[j].addr = inodes[j].addr
      /\ \A j \in Fs!Inum \ {i, p} : inodes'[j] = inodes[j]
      /\ inodes'[p].refCnt = inodes[p].refCnt + 1 /\ i # p
      /\ Fs!InUse' = Fs!InUse \cup {i} /\ Fs!Dirs' = Fs!Dirs
  <2>1. r.ftype # "free" /\ Fs!Dirs \cup (IF r.ftype = "d" THEN {i} ELSE {}) = Fs!Dirs
    BY <1>7
  <2>2. p \in Fs!Dirs /\ i \in Fs!Inum \ Fs!InUse /\ r \in InodeType
    BY <1>1, <1>3, <1>7
  <2>3. /\ inodes' \in [Fs!Inum -> InodeType] /\ inodes'[i] = r
        /\ \A j \in Fs!Inum \ {i} : inodes'[j].ftype = inodes[j].ftype /\ inodes'[j].addr = inodes[j].addr
        /\ \A j \in Fs!Inum \ {i, p} : inodes'[j] = inodes[j]
        /\ inodes'[p].refCnt = inodes[p].refCnt + 1 /\ i # p
        /\ Fs!InUse' = Fs!InUse \cup {i}
        /\ Fs!Dirs' = Fs!Dirs \cup (IF r.ftype = "d" THEN {i} ELSE {})
    BY <1>8, <2>1, <2>2, NewInodeProperties
  <2>4. QED
    BY <2>1, <2>3
<1>10. /\ data' \in [Fs!Bnum -> BlockType]
       /\ data'[b].dirList = data[b].dirList \cup {<<n, i>>}
       /\ \A c \in Fs!Bnum \ {b} : data'[c] = data[c]
       /\ \A c \in Fs!Bnum : data'[c].ftype = data[c].ftype
  BY <1>1, <1>2, <1>3, PutThen
<1>11. EntryAdded(p, n, i)
  <2>1. \A j \in Fs!Dirs : inodes'[j].addr = inodes[j].addr
    BY <1>1, <1>3, <1>9
  <2>2. \A c \in dbitmap \ {b} : data'[c] = data[c]
    BY <1>10, TreeFacts
  <2>3. \A j \in Fs!Dirs' \ Fs!Dirs : EntriesOf'[j] = {}
    BY <1>9
  <2>4. QED
    BY <1>1, <1>3, <1>9, <1>10, <2>1, <2>2, <2>3, EntryPut DEF b
<1>12. Fs!NamesResolve'
  <2>1. \A m \in files' : inodes'[nameToInum'[m]].ftype = "f"
    <3>1. \A k \in Fs!InUse \ Fs!Dirs : inodes'[k].ftype = "f"
      BY <1>1, <1>3, <1>9, FsTypes DEF Fs!InUse, Fs!Dirs, InodeType
    <3>2. \A m \in files' : nameToInum'[m] = i \/ nameToInum'[m] \in Fs!InUse \ Fs!Dirs
      BY <1>2, <1>5, <1>6
    <3>3. QED
      BY <1>7, <1>9, <3>1, <3>2
  <2>2. \A m \in dirs' : inodes'[nameToInum'[m]].ftype = "d"
    <3>1. \A m \in dirs' : nameToInum'[m] \in Fs!Dirs'
      BY <1>2, <1>5, <1>6, <1>9
    <3>2. QED
      BY <3>1 DEF Fs!Dirs
  <2>3. QED
    BY <1>1, <1>2, <1>3, <1>4, <1>11, <2>1, <2>2, AddedResolves DEF p
<1>13. Fs!RefCountsExact'
  <2>1. /\ Cardinality(EntriesOf'[p]) = Cardinality(EntriesOf[p]) + 1
        /\ \A j \in Fs!Dirs \ {p} : EntriesOf'[j] = EntriesOf[j]
        /\ Cardinality(RefsOf'[i]) = Cardinality(RefsOf[i]) + 1
        /\ \A k \in Fs!Inum \ {i} : RefsOf'[k] = RefsOf[k]
    BY <1>1, <1>3, <1>4, <1>11, AddedCounts
  <2>2. \A k \in Fs!InUse : k \in Fs!Inum /\
          inodes[k].refCnt = IF k \in Fs!Dirs THEN 2 + Cardinality(EntriesOf[k]) ELSE Cardinality(RefsOf[k])
    BY FsTypes, CountsMeaning, TreeFacts DEF CountsSay
  <2>3. Cardinality(EntriesOf[p]) \in Nat /\ Cardinality(RefsOf[i]) = 0
    BY <1>1, <1>3, CountsAreFinite, FreeHasNoName
  <2>4. \A k \in Fs!InUse :
          inodes'[k].refCnt = IF k \in Fs!Dirs THEN 2 + Cardinality(EntriesOf'[k]) ELSE Cardinality(RefsOf'[k])
    BY <1>1, <1>3, <1>9, <2>1, <2>2, <2>3
  <2>5. inodes'[i].refCnt = Cardinality(RefsOf'[i]) /\ i \notin Fs!Dirs
    BY <1>1, <1>3, <1>7, <1>9, <2>1, <2>3
  <2>6. QED
    BY <1>9, <2>4, <2>5, CountsThen DEF CountsSay
<1>14. Fs!BlocksExact'
  <2>1. \A k \in Fs!InUse : k \in Fs!Inum \ {i} /\ inodes[k].addr \in Fs!Bnum \cup {-1}
    BY <1>3, FsTypes DEF Fs!InUse, InodeType
  <2>2. {inodes'[k].addr : k \in Fs!InUse \cup {i}} = {inodes[k].addr : k \in Fs!InUse} \cup {-1}
    BY <1>7, <1>9, <2>1
  <2>3. dbitmap' = {inodes'[k].addr : k \in Fs!InUse \cup {i}} \ {-1}
    BY <1>2, <2>2, FsTypes DEF Fs!BlocksExact
  <2>4. \A j, k \in Fs!InUse \cup {i} : inodes'[j].addr = inodes'[k].addr /\ j # k => inodes'[j].addr = -1
    BY <1>7, <1>9, <2>1, FsTypes DEF Fs!BlocksExact
  <2>5. \A k \in Fs!InUse \cup {i} : inodes'[k].addr # -1 => data'[inodes'[k].addr].ftype = inodes'[k].ftype
    BY <1>7, <1>9, <1>10, <2>1, FsTypes DEF Fs!BlocksExact
  <2>6. \A c \in Fs!Bnum : c \notin dbitmap' <=> data'[c].ftype = "free"
    BY <1>2, <1>10, FsTypes DEF Fs!BlocksExact
  <2>7. Fs!InUse \cup {i} \subseteq ibitmap' /\ \A k \in Fs!Inum \ (Fs!InUse \cup {i}) : inodes'[k].addr = -1
    BY <1>2, <1>9, FsTypes DEF Fs!BlocksExact
  <2>8. QED
    BY <1>9, <2>3, <2>4, <2>5, <2>6, <2>7 DEF Fs!BlocksExact, Fs!Bnum, Fs!Inum
<1>15. Fs!TypeOK'
  BY <1>2, <1>3, <1>5, <1>9, <1>10, FsTypes DEF Fs!TypeOK, InodeType, BlockType, Fs!Bnum, Fs!Inum
<1>16. FsInv'
  <2>1. \A j \in Fs!Dirs : inodes'[j].addr = inodes[j].addr
    BY <1>1, <1>3, <1>9
  <2>2. dirs' = dirs /\ Fs!Dirs' = Fs!Dirs /\ \A x \in dirs : nameToInum'[x] = nameToInum[x]
    BY <1>2, <1>5, <1>9
  <2>3. QED
    BY <1>12, <1>13, <1>14, <1>15, <2>1, <2>2, SameDirectories
<1>17. QED
  BY <1>2, <1>3, <1>9, <1>16 DEF Fs!Lost

(* createFile of a directory: an inode and a block that come into use.     *)
LEMMA MkdirKeepsTree ==
  ASSUME FsInv, NEW d \in dirs, NEW n \in Name, Fs!Mkdir(d, n)
  PROVE  FsInv' /\ Fs!Lost' = Fs!Lost
<1> DEFINE i == Fs!FirstFree(ibitmap, Fs!Inum)
           c == Fs!FirstFree(dbitmap, Fs!Bnum)
           p == nameToInum[d]
           b == inodes[p].addr
           r == Fs!Inode("d", c, 2)
           L == {<<".", p>>, <<"..", i>>}
           D == Fs!Put(b, <<n, i>>)
<1>1. /\ p \in Fs!Dirs /\ p \in Fs!Inum /\ b \in Fs!Bnum /\ b \in dbitmap
      /\ Fs!Dirs \subseteq Fs!InUse /\ Fs!InUse \subseteq Fs!Inum
  BY TreeFacts
<1>2. /\ ibitmap' = ibitmap \cup {i} /\ dbitmap' = dbitmap \cup {c}
      /\ inodes' = [inodes EXCEPT ![i] = r, ![p].refCnt = @ + 1]
      /\ data' = [D EXCEPT ![c] = Fs!DirBlock(L)]
      /\ dirs' = dirs \cup {Append(d, n)} /\ files' = files
      /\ Fs!Learn(Append(d, n), i)
      /\ \A e \in data[b].dirList : e[1] # n
      /\ ibitmap # Fs!Inum /\ dbitmap # Fs!Bnum
  BY DEF Fs!Mkdir, Fs!Room, Fs!Block
<1>3. i \in Fs!Inum \ ibitmap /\ i \in Fs!Inum \ Fs!InUse
  <2>1. Fs!Inum \in SUBSET Nat /\ ~(Fs!Inum \subseteq ibitmap) /\ Fs!InUse \subseteq ibitmap
    BY <1>2, FsNumbers, FsTypes DEF Fs!BlocksExact
  <2>2. QED
    BY <2>1, FirstFreeProperties
<1>4. c \in Fs!Bnum \ dbitmap /\ c # b /\ c # -1
  <2>1. Fs!Bnum \in SUBSET Nat /\ ~(Fs!Bnum \subseteq dbitmap)
    BY <1>2, FsNumbers, FsTypes
  <2>2. c \in Fs!Bnum \ dbitmap
    BY <2>1, FirstFreeProperties
  <2>3. QED
    BY <1>1, <2>2, FsNumbers
<1>5. \A e \in EntriesOf[p] : e[1] # n
  BY <1>1, <1>2 DEF EntriesOf, Fs!Entries
<1>6. /\ Append(d, n) \notin files \cup dirs /\ nameToInum'[Append(d, n)] = i
      /\ \A m \in files \cup dirs : nameToInum'[m] = nameToInum[m]
      /\ files' \cup dirs' \subseteq DOMAIN nameToInum'
      /\ \A m \in DOMAIN nameToInum' : m \in Seq(Name) /\ nameToInum'[m] \in Fs!Inum
  BY <1>2, <1>3, <1>5, NewName
<1>7. /\ \A f \in files : nameToInum[f] \in Fs!InUse \ Fs!Dirs
      /\ \A x \in dirs : nameToInum[x] \in Fs!Dirs
  BY TreeFacts
<1>8. r \in InodeType /\ r.ftype = "d" /\ r.addr = c /\ r.refCnt = 2
  BY <1>4 DEF Fs!Inode, InodeType
<1>9. /\ Fs!DirBlock(L) \in BlockType /\ Fs!DirBlock(L).ftype = "d"
      /\ Fs!DirBlock(L).dirList = L /\ \A e \in L : e[1] \notin Name
  <2>1. L \in SUBSET ((Name \cup {".", ".."}) \X Fs!Inum)
    BY <1>1, <1>3
  <2>2. \A e \in L : e[1] \notin Name
    BY FsNumbers
  <2> HIDE DEF L
  <2>3. QED
    BY <2>1, <2>2 DEF Fs!DirBlock, BlockType
<1>10. /\ D \in [Fs!Bnum -> BlockType]
       /\ D[b].dirList = data[b].dirList \cup {<<n, i>>} /\ D[b].ftype = data[b].ftype
       /\ \A k \in Fs!Bnum \ {b} : D[k] = data[k]
  <2>1. PICK E : E = D
    OBVIOUS
  <2> HIDE DEF i, p, b
  <2>2. E = Fs!Put(b, <<n, i>>) /\ i \in Fs!Inum /\ b \in Fs!Bnum
    BY <2>1, <1>1, <1>3
  <2> HIDE DEF D
  <2>3. /\ E \in [Fs!Bnum -> BlockType]
        /\ E[b].dirList = data[b].dirList \cup {<<n, i>>} /\ E[b].ftype = data[b].ftype
        /\ \A k \in Fs!Bnum \ {b} : E[k] = data[k]
    BY <2>2, PutProperties
  <2>4. QED
    BY <2>1, <2>3
<1> HIDE DEF i, c, p, b, r, L, D
<1>11. inodes' = NewInode(i, r, p)
  BY <1>1, <1>2, <1>3, FsTypes DEF NewInode
<1>12. /\ inodes' \in [Fs!Inum -> InodeType] /\ inodes'[i] = r
       /\ \A j \in Fs!Inum \ {i} : inodes'[j].ftype = inodes[j].ftype /\ inodes'[j].addr = inodes[j].addr
       /\ \A j \in Fs!Inum \ {i, p} : inodes'[j] = inodes[j]
       /\ inodes'[p].refCnt = inodes[p].refCnt + 1 /\ i # p
       /\ Fs!InUse' = Fs!InUse \cup {i} /\ Fs!Dirs' = Fs!Dirs \cup {i}
  <2>1. r.ftype # "free" /\ (IF r.ftype = "d" THEN {i} ELSE {}) = {i}
    BY <1>8
  <2>2. p \in Fs!Dirs /\ i \in Fs!Inum \ Fs!InUse /\ r \in InodeType
    BY <1>1, <1>3, <1>8
  <2>3. /\ inodes' \in [Fs!Inum -> InodeType] /\ inodes'[i] = r
        /\ \A j \in Fs!Inum \ {i} : inodes'[j].ftype = inodes[j].ftype /\ inodes'[j].addr = inodes[j].addr
        /\ \A j \in Fs!Inum \ {i, p} : inodes'[j] = inodes[j]
        /\ inodes'[p].refCnt = inodes[p].refCnt + 1 /\ i # p
        /\ Fs!InUse' = Fs!InUse \cup {i}
        /\ Fs!Dirs' = Fs!Dirs \cup (IF r.ftype = "d" THEN {i} ELSE {})
    BY <1>11, <2>1, <2>2, NewInodeProperties
  <2>4. QED
    BY <2>1, <2>3
<1>13. /\ data' \in [Fs!Bnum -> BlockType]
       /\ data'[b].dirList = data[b].dirList \cup {<<n, i>>}
       /\ \A k \in Fs!Bnum \ {b, c} : data'[k] = data[k]
       /\ data'[c] = Fs!DirBlock(L)
       /\ \A k \in Fs!Bnum \ {c} : data'[k].ftype = data[k].ftype
  BY <1>1, <1>2, <1>4, <1>9, <1>10
<1>14. EntryAdded(p, n, i)
  <2>1. \A j \in Fs!Dirs : inodes'[j].addr = inodes[j].addr
    BY <1>1, <1>3, <1>12
  <2>2. \A k \in dbitmap \ {b} : data'[k] = data[k]
    BY <1>4, <1>13, TreeFacts
  <2>3. EntriesOf'[i] = {}
    <3>1. inodes'[i].addr = c
      BY <1>8, <1>12
    <3>2. data'[inodes'[i].addr].dirList = L
      BY <1>9, <1>13, <3>1
    <3>3. QED
      BY <1>3, <1>9, <3>2, EntriesThen
  <2>4. QED
    BY <1>1, <1>3, <1>12, <1>13, <2>1, <2>2, <2>3, EntryPut DEF b
<1>15. Fs!NamesResolve'
  <2>1. \A m \in files' : inodes'[nameToInum'[m]].ftype = "f"
    <3>1. \A k \in Fs!InUse \ Fs!Dirs : inodes'[k].ftype = "f"
      BY <1>1, <1>3, <1>12, FsTypes DEF Fs!InUse, Fs!Dirs, InodeType
    <3>2. QED
      BY <1>2, <1>6, <1>7, <3>1
  <2>2. \A m \in dirs' : inodes'[nameToInum'[m]].ftype = "d"
    <3>1. \A m \in dirs' : nameToInum'[m] \in Fs!Dirs'
      BY <1>2, <1>6, <1>7, <1>12
    <3>2. QED
      BY <3>1 DEF Fs!Dirs
  <2>3. i \in Fs!Dirs' \ Fs!Dirs
    BY <1>1, <1>3, <1>12
  <2>4. QED
    BY <1>1, <1>2, <1>3, <1>5, <1>14, <2>1, <2>2, <2>3, AddedResolves DEF p
<1>16. Fs!RefCountsExact'
  <2>1. /\ Cardinality(EntriesOf'[p]) = Cardinality(EntriesOf[p]) + 1
        /\ \A j \in Fs!Dirs \ {p} : EntriesOf'[j] = EntriesOf[j]
        /\ \A k \in Fs!Inum \ {i} : RefsOf'[k] = RefsOf[k]
    BY <1>1, <1>3, <1>5, <1>14, AddedCounts
  <2>2. \A k \in Fs!InUse : k \in Fs!Inum /\
          inodes[k].refCnt = IF k \in Fs!Dirs THEN 2 + Cardinality(EntriesOf[k]) ELSE Cardinality(RefsOf[k])
    BY FsTypes, CountsMeaning, TreeFacts DEF CountsSay
  <2>3. Cardinality(EntriesOf[p]) \in Nat
    BY <1>1, CountsAreFinite
  <2>4. \A k \in Fs!InUse : k # i /\
          inodes'[k].refCnt = IF k \in Fs!Dirs THEN 2 + Cardinality(EntriesOf'[k]) ELSE Cardinality(RefsOf'[k])
    BY <1>1, <1>3, <1>12, <2>1, <2>2, <2>3
  <2>5. inodes'[i].refCnt = 2 + Cardinality(EntriesOf'[i])
    <3>1. EntriesOf'[i] = {}
      BY <1>1, <1>3, <1>12, <1>14 DEF EntryAdded
    <3>2. QED
      BY <1>8, <1>12, <3>1, FS_EmptySet
  <2>6. QED
    BY <1>12, <2>4, <2>5, CountsThen DEF CountsSay
<1>17. Fs!BlocksExact'
  <2>1. \A k \in Fs!InUse : k \in Fs!Inum \ {i} /\ inodes[k].addr \in Fs!Bnum \cup {-1}
    BY <1>3, FsTypes DEF Fs!InUse, InodeType
  <2>2. {inodes'[k].addr : k \in Fs!InUse \cup {i}} = {inodes[k].addr : k \in Fs!InUse} \cup {c}
    BY <1>8, <1>12, <2>1
  <2>3. dbitmap' = {inodes'[k].addr : k \in Fs!InUse \cup {i}} \ {-1}
    BY <1>2, <1>4, <2>2, FsTypes DEF Fs!BlocksExact
  <2>4. \A k \in Fs!InUse : inodes'[k].addr # c /\ inodes'[k].addr = inodes[k].addr
    BY <1>4, <1>12, <2>1, FsTypes DEF Fs!BlocksExact
  <2>5. \A j, k \in Fs!InUse \cup {i} : inodes'[j].addr = inodes'[k].addr /\ j # k => inodes'[j].addr = -1
    BY <1>8, <1>12, <2>1, <2>4, FsTypes DEF Fs!BlocksExact
  <2>6. \A k \in Fs!InUse \cup {i} : inodes'[k].addr # -1 => data'[inodes'[k].addr].ftype = inodes'[k].ftype
    BY <1>8, <1>9, <1>12, <1>13, <2>1, <2>4, FsTypes DEF Fs!BlocksExact
  <2>7. \A k \in Fs!Bnum : k \notin dbitmap' <=> data'[k].ftype = "free"
    BY <1>2, <1>9, <1>13, FsTypes DEF Fs!BlocksExact
  <2>8. Fs!InUse \cup {i} \subseteq ibitmap' /\ \A k \in Fs!Inum \ (Fs!InUse \cup {i}) : inodes'[k].addr = -1
    BY <1>2, <1>12, FsTypes DEF Fs!BlocksExact
  <2>9. QED
    BY <1>12, <2>3, <2>5, <2>6, <2>7, <2>8 DEF Fs!BlocksExact, Fs!Bnum, Fs!Inum
<1>18. Fs!TypeOK'
  BY <1>2, <1>3, <1>4, <1>6, <1>12, <1>13, FsTypes DEF Fs!TypeOK, InodeType, BlockType, Fs!Bnum, Fs!Inum
<1>19. \A x, y \in dirs' : nameToInum'[x] = nameToInum'[y] => x = y
  <2>1. \A x \in dirs : nameToInum'[x] = nameToInum[x] /\ nameToInum[x] # i
    BY <1>1, <1>3, <1>6, <1>7
  <2>2. \A x, y \in dirs : nameToInum[x] = nameToInum[y] => x = y
    BY DEF FsInv
  <2>3. \A x \in dirs' : x \in dirs \/ (x = Append(d, n) /\ nameToInum'[x] = i)
    BY <1>2, <1>6
  <2>4. QED
    BY <2>1, <2>2, <2>3
<1>20. \A k \in Fs!Dirs' : inodes'[k].addr # -1 /\ \E x \in dirs' : nameToInum'[x] = k
  <2>1. \A k \in Fs!Dirs : inodes'[k].addr # -1 /\ \E x \in dirs : nameToInum'[x] = k
    BY <1>1, <1>3, <1>6, <1>12 DEF FsInv
  <2>2. inodes'[i].addr # -1 /\ nameToInum'[Append(d, n)] = i
    BY <1>4, <1>6, <1>8, <1>12
  <2>3. QED
    BY <1>2, <1>12, <2>1, <2>2
<1>21. << >> \in dirs'
  BY <1>2 DEF FsInv
<1>22. FsInv'
  BY <1>15, <1>16, <1>17, <1>18, <1>19, <1>20, <1>21 DEF FsInv, Fs!TreeExact
<1>23. QED
  BY <1>2, <1>3, <1>12, <1>22 DEF Fs!Lost

(* A request that leaves names, entries, types and counts alone.           *)
LEMMA SameTree ==
  ASSUME FsInv, UNCHANGED <<files, dirs, nameToInum>>,
         inodes' \in [Fs!Inum -> InodeType],
         \A j \in Fs!Inum : inodes'[j].ftype = inodes[j].ftype /\ inodes'[j].refCnt = inodes[j].refCnt,
         \A j \in Fs!Dirs : inodes'[j].addr = inodes[j].addr,
         \A c \in Fs!Bnum : (\E j \in Fs!Dirs : inodes[j].addr = c) => data'[c].dirList = data[c].dirList,
         Fs!TypeOK', Fs!BlocksExact'
  PROVE  FsInv'
<1>1. Fs!Dirs' = Fs!Dirs /\ Fs!InUse' = Fs!InUse
  BY DEF Fs!Dirs, Fs!InUse, Fs!Inum
<1>2. \A j \in Fs!Dirs : EntriesOf'[j] = EntriesOf[j]
  <2>1. SUFFICES ASSUME NEW j \in Fs!Dirs
                 PROVE  EntriesOf'[j] = EntriesOf[j]
    OBVIOUS
  <2>2. j \in Fs!Inum /\ inodes[j].addr \in Fs!Bnum /\ inodes'[j].addr = inodes[j].addr
    BY TreeFacts
  <2>3. EntriesOf[j] = {e \in data[inodes[j].addr].dirList : e[1] \in Name}
    BY <2>2 DEF EntriesOf, Fs!Entries
  <2>4. QED
    BY <2>2, <2>3, EntriesThen
<1>3. RefsOf' = RefsOf
  <2>1. RefsOf' = [i \in Fs!Inum |-> {d \in Fs!Dirs' \X Name : <<d[2], i>> \in EntriesOf'[d[1]]}]
    BY DEF RefsOf, Fs!Inum
  <2>2. QED
    BY <1>1, <1>2, <2>1 DEF RefsOf
<1>4. Fs!RefCountsExact'
  <2>1. \A k \in Fs!InUse : k \in Fs!Inum /\
          inodes[k].refCnt = IF k \in Fs!Dirs THEN 2 + Cardinality(EntriesOf[k]) ELSE Cardinality(RefsOf[k])
    BY FsTypes, CountsMeaning, TreeFacts DEF CountsSay
  <2>2. \A k \in Fs!InUse :
          inodes'[k].refCnt = IF k \in Fs!Dirs THEN 2 + Cardinality(EntriesOf'[k]) ELSE Cardinality(RefsOf'[k])
    BY <1>2, <1>3, <2>1
  <2>3. QED
    BY <1>1, <2>2, CountsThen DEF CountsSay
<1>5. Fs!NamesResolve'
  <2>1. \A x \in dirs : /\ nameToInum[x] \in Fs!Dirs /\ nameToInum[x] \in Fs!Inum
                        /\ Fs!Entries(nameToInum[x]) = EntriesOf[nameToInum[x]]
                        /\ EntriesOf[nameToInum[x]] =
                             {e \in data'[inodes'[nameToInum[x]].addr].dirList : e[1] \in Name}
    <3>1. \A x \in dirs : nameToInum[x] \in Fs!Dirs /\ nameToInum[x] \in Fs!Inum
      BY TreeFacts
    <3>2. \A x \in dirs : Fs!Entries(nameToInum[x]) = EntriesOf[nameToInum[x]]
      BY <3>1 DEF EntriesOf
    <3>3. QED
      BY <1>2, <3>1, <3>2, EntriesThen
  <2>2. \A m \in (files \cup dirs) \ {<< >>} :
          Front(m) \in dirs /\ <<Last(m), nameToInum[m]>> \in
            {e \in data'[inodes'[nameToInum[Front(m)]].addr].dirList : e[1] \in Name}
    BY <2>1, FsTypes, SameFs DEF Fs!NamesResolve
  <2>3. \A x \in dirs : \A e \in {g \in data'[inodes'[nameToInum[x]].addr].dirList : g[1] \in Name} :
          /\ Append(x, e[1]) \in files \cup dirs
          /\ \A g \in {h \in data'[inodes'[nameToInum[x]].addr].dirList : h[1] \in Name} : e[1] = g[1] => e = g
    <3>1. \A x \in dirs : \A e \in EntriesOf[nameToInum[x]] :
            Append(x, e[1]) \in files \cup dirs /\ \A g \in EntriesOf[nameToInum[x]] : e[1] = g[1] => e = g
      BY <2>1, FsTypes DEF Fs!NamesResolve
    <3>2. QED
      BY <2>1, <3>1
  <2>4. /\ \A m \in files : inodes'[nameToInum[m]].ftype = "f"
        /\ \A m \in dirs : inodes'[nameToInum[m]].ftype = "d"
    <3>1. \A m \in files \cup dirs : nameToInum[m] \in Fs!Inum
      BY TreeFacts
    <3>2. QED
      BY <3>1, FsTypes DEF Fs!NamesResolve
  <2>5. /\ files' = files /\ dirs' = dirs /\ nameToInum' = nameToInum
    OBVIOUS
  <2>6. /\ \A m \in (files' \cup dirs') \ {<< >>} :
             /\ Fs!Front(m) \in dirs'
             /\ <<Fs!Last(m), nameToInum'[m]>> \in
                  {e \in data'[inodes'[nameToInum'[Fs!Front(m)]].addr].dirList : e[1] \in Name}
        /\ \A m \in files' : inodes'[nameToInum'[m]].ftype = "f"
        /\ \A m \in dirs' : inodes'[nameToInum'[m]].ftype = "d"
    BY <2>2, <2>4, <2>5, SameFs
  <2>7. \A x \in dirs' : \A e \in {g \in data'[inodes'[nameToInum'[x]].addr].dirList : g[1] \in Name} :
          /\ Append(x, e[1]) \in files' \cup dirs'
          /\ \A g \in {h \in data'[inodes'[nameToInum'[x]].addr].dirList : h[1] \in Name} : e[1] = g[1] => e = g
    BY <2>3, <2>5
  <2>8. QED
    BY <2>6, <2>7 DEF Fs!NamesResolve, Fs!Entries
<1>6. QED
  BY <1>1, <1>4, <1>5, SameDirectories

(* A mkdir that finds no block marks an inode, and that is all.            *)
LEMMA MkdirFailsKeepsTree ==
  ASSUME FsInv, NEW d \in dirs, NEW n \in Name, Fs!MkdirFails(d, n)
  PROVE  FsInv' /\ dbitmap = Fs!Bnum /\ Fs!Lost \subseteq Fs!Lost'
<1>1. /\ UNCHANGED <<inodes, dbitmap, data, files, dirs, nameToInum>>
      /\ ibitmap' = ibitmap \cup {Fs!FirstFree(ibitmap, Fs!Inum)}
  BY DEF Fs!MkdirFails
<1>2. Fs!FirstFree(ibitmap, Fs!Inum) \in Fs!Inum
  <2>1. Fs!Inum \in SUBSET Nat /\ ~(Fs!Inum \subseteq ibitmap)
    BY FsNumbers, FsTypes DEF Fs!MkdirFails
  <2>2. QED
    BY <2>1, FirstFreeProperties
<1>3. Fs!TypeOK' /\ Fs!BlocksExact'
  <2>1. Fs!TypeOK /\ Fs!BlocksExact
    BY DEF FsInv, Fs!TreeExact
  <2>2. Fs!InUse' = Fs!InUse
    BY <1>1 DEF Fs!InUse, Fs!Inum
  <2>3. Fs!TypeOK'
    BY <1>1, <1>2, <2>1 DEF Fs!TypeOK, Fs!Inum, Fs!Bnum
  <2>4. Fs!BlocksExact'
    BY <1>1, <2>1, <2>2 DEF Fs!BlocksExact, Fs!Inum, Fs!Bnum
  <2>5. QED
    BY <2>3, <2>4
<1>4. FsInv'
  BY <1>1, <1>3, FsTypes, SameTree
<1>5. Fs!InUse' = Fs!InUse
  BY <1>1 DEF Fs!InUse, Fs!Inum
<1>6. QED
  BY <1>1, <1>4, <1>5 DEF Fs!Lost, Fs!MkdirFails

(* writeFile: the first write takes a free block, later ones change it.    *)
LEMMA WriteKeepsTree ==
  ASSUME FsInv, NEW f \in files, NEW x \in Letter, Fs!Write(f, x)
  PROVE  FsInv' /\ Fs!Lost' = Fs!Lost
<1> DEFINE i == nameToInum[f]
           a == inodes[i].addr
<1>1. /\ i \in Fs!InUse /\ i \notin Fs!Dirs /\ i \in Fs!Inum
      /\ Fs!Dirs \subseteq Fs!InUse /\ Fs!InUse \subseteq Fs!Inum
  BY TreeFacts
<1>2. /\ inodes \in [Fs!Inum -> InodeType] /\ data \in [Fs!Bnum -> BlockType]
      /\ Fs!TypeOK /\ Fs!BlocksExact /\ inodes[i].ftype = "f"
  BY FsTypes DEF FsInv, Fs!TreeExact, Fs!NamesResolve
<1>3. UNCHANGED <<ibitmap, files, dirs, nameToInum>>
  BY DEF Fs!Write
<1>4. ASSUME a = -1, dbitmap # Fs!Bnum, NEW c, c = Fs!FirstFree(dbitmap, Fs!Bnum),
             dbitmap' = dbitmap \cup {c}, inodes' = [inodes EXCEPT ![i].addr = c],
             data' = [data EXCEPT ![c] = [Fs!FreeBlock EXCEPT !.ftype = "f", !.text = x]]
      PROVE  FsInv' /\ Fs!InUse' = Fs!InUse
  <2>1. c \in Fs!Bnum \ dbitmap /\ c # -1
    <3>1. Fs!Bnum \in SUBSET Nat /\ ~(Fs!Bnum \subseteq dbitmap)
      BY <1>4, FsNumbers, FsTypes
    <3>2. QED
      BY <1>4, <3>1, FirstFreeProperties, FsNumbers
  <2>2. /\ inodes' \in [Fs!Inum -> InodeType] /\ inodes'[i].addr = c
        /\ \A j \in Fs!Inum : inodes'[j].ftype = inodes[j].ftype /\ inodes'[j].refCnt = inodes[j].refCnt
        /\ \A j \in Fs!Inum \ {i} : inodes'[j].addr = inodes[j].addr
    <3>1. inodes[i] \in InodeType
      BY <1>1, <1>2
    <3>2. /\ [inodes[i] EXCEPT !.addr = c] \in InodeType
          /\ [inodes[i] EXCEPT !.addr = c].addr = c
          /\ [inodes[i] EXCEPT !.addr = c].ftype = inodes[i].ftype
          /\ [inodes[i] EXCEPT !.addr = c].refCnt = inodes[i].refCnt
      BY <2>1, <3>1 DEF InodeType
    <3>3. inodes' = [inodes EXCEPT ![i] = [inodes[i] EXCEPT !.addr = c]]
      BY <1>4
    <3> HIDE DEF i
    <3>4. QED
      BY <1>1, <1>2, <3>2, <3>3
  <2>3. /\ data' \in [Fs!Bnum -> BlockType] /\ data'[c].ftype = "f"
        /\ \A k \in Fs!Bnum \ {c} : data'[k] = data[k]
    <3>1. /\ [Fs!FreeBlock EXCEPT !.ftype = "f", !.text = x] \in BlockType
          /\ [Fs!FreeBlock EXCEPT !.ftype = "f", !.text = x].ftype = "f"
      BY DEF Fs!FreeBlock, BlockType
    <3>2. QED
      BY <1>2, <1>4, <2>1, <3>1
  <2>4. Fs!InUse' = Fs!InUse
    BY <2>2 DEF Fs!InUse, Fs!Inum
  <2> HIDE DEF i, a
  <2>5. Fs!BlocksExact'
    <3>1. \A k \in Fs!InUse : inodes[k].addr \in Fs!Bnum \cup {-1} /\ inodes[k].addr # c
      BY <1>1, <1>2, <2>1 DEF InodeType, Fs!BlocksExact
    <3>2. {inodes'[k].addr : k \in Fs!InUse} \ {-1} = ({inodes[k].addr : k \in Fs!InUse} \ {-1}) \cup {c}
      BY <1>1, <1>4, <2>1, <2>2 DEF a
    <3>3. dbitmap' = {inodes'[k].addr : k \in Fs!InUse} \ {-1}
      BY <1>2, <1>4, <3>2 DEF Fs!BlocksExact
    <3>4. \A j, k \in Fs!InUse : inodes'[j].addr = inodes'[k].addr /\ j # k => inodes'[j].addr = -1
      BY <1>1, <1>2, <2>2, <3>1 DEF Fs!BlocksExact
    <3>5. \A k \in Fs!InUse : inodes'[k].addr # -1 => data'[inodes'[k].addr].ftype = inodes'[k].ftype
      BY <1>1, <1>2, <2>2, <2>3, <3>1 DEF Fs!BlocksExact
    <3>6. \A k \in Fs!Bnum : k \notin dbitmap' <=> data'[k].ftype = "free"
      BY <1>2, <1>4, <2>3 DEF Fs!BlocksExact
    <3>7. Fs!InUse \subseteq ibitmap' /\ \A k \in Fs!Inum \ Fs!InUse : inodes'[k].addr = -1
      BY <1>1, <1>2, <1>3, <2>2 DEF Fs!BlocksExact
    <3>8. QED
      BY <2>4, <3>3, <3>4, <3>5, <3>6, <3>7 DEF Fs!BlocksExact, Fs!Bnum, Fs!Inum
  <2>6. Fs!TypeOK'
    BY <1>2, <1>3, <1>4, <2>1, <2>2, <2>3 DEF Fs!TypeOK, InodeType, BlockType, Fs!Bnum, Fs!Inum
  <2>7. \A j \in Fs!Dirs : inodes[j].addr # c /\ inodes'[j].addr = inodes[j].addr
    BY <1>1, <2>1, <2>2, TreeFacts
  <2>8. QED
    BY <1>3, <2>2, <2>3, <2>4, <2>5, <2>6, <2>7, SameTree
<1>5. ASSUME a # -1, data' = [data EXCEPT ![a].text = x], UNCHANGED <<inodes, dbitmap>>
      PROVE  FsInv' /\ Fs!InUse' = Fs!InUse
  <2>1. a \in Fs!Bnum
    BY <1>1, <1>2, <1>5 DEF InodeType
  <2> HIDE DEF a, i
  <2>2. /\ data' \in [Fs!Bnum -> BlockType]
        /\ \A k \in Fs!Bnum : data'[k].ftype = data[k].ftype /\ data'[k].dirList = data[k].dirList
    <3>1. data[a] \in BlockType
      BY <1>2, <2>1
    <3>2. /\ [data[a] EXCEPT !.text = x] \in BlockType
          /\ [data[a] EXCEPT !.text = x].ftype = data[a].ftype
          /\ [data[a] EXCEPT !.text = x].dirList = data[a].dirList
      BY <3>1 DEF BlockType
    <3>3. data' = [data EXCEPT ![a] = [data[a] EXCEPT !.text = x]]
      BY <1>5
    <3>4. QED
      BY <1>2, <2>1, <3>2, <3>3
  <2>3. Fs!InUse' = Fs!InUse
    BY <1>5 DEF Fs!InUse, Fs!Inum
  <2>4. Fs!BlocksExact'
    <3>1. \A k \in Fs!InUse : inodes[k].addr \in Fs!Bnum \cup {-1}
      BY <1>1, <1>2 DEF InodeType
    <3>2. QED
      BY <1>2, <1>3, <1>5, <2>2, <2>3, <3>1 DEF Fs!BlocksExact, Fs!Inum, Fs!Bnum
  <2>5. Fs!TypeOK'
    BY <1>2, <1>3, <1>5, <2>2 DEF Fs!TypeOK, BlockType, Fs!Inum, Fs!Bnum
  <2>6. QED
    BY <1>2, <1>3, <1>5, <2>2, <2>3, <2>4, <2>5, SameTree
<1>6. FsInv' /\ Fs!InUse' = Fs!InUse
  BY <1>4, <1>5 DEF Fs!Write, Fs!Block
<1>7. QED
  BY <1>3, <1>6 DEF Fs!Lost

(* A name is made up of its directory and its last component.              *)
LEMMA PathUnique ==
  ASSUME NEW f \in Seq(Name), NEW g \in Seq(Name), f # << >>, g # << >>,
         Front(f) = Front(g), Last(f) = Last(g)
  PROVE  f = g
<1>1. /\ Len(Front(f)) = Len(f) - 1 /\ (\A k \in 1 .. Len(f) - 1 : Front(f)[k] = f[k])
      /\ Last(f) = f[Len(f)] /\ Len(f) \in Nat \ {0}
  BY FrontProperties
<1>2. /\ Len(Front(g)) = Len(g) - 1 /\ (\A k \in 1 .. Len(g) - 1 : Front(g)[k] = g[k])
      /\ Last(g) = g[Len(g)] /\ Len(g) \in Nat \ {0}
  BY FrontProperties
<1>3. Len(f) = Len(g)
  BY <1>1, <1>2
<1>4. ASSUME NEW k \in 1 .. Len(f)
      PROVE  f[k] = g[k]
  <2>1. CASE k = Len(f)
    BY <1>1, <1>2, <1>3, <2>1
  <2>2. CASE k # Len(f)
    <3>1. k \in 1 .. Len(f) - 1 /\ k \in 1 .. Len(g) - 1
      BY <1>1, <1>3, <2>2
    <3>2. QED
      BY <1>1, <1>2, <3>1
  <2>3. QED
    BY <2>1, <2>2
<1>5. QED
  BY <1>3, <1>4, SeqEqual

(* deleteFile: one name and one entry less; the last name frees the inode. *)
LEMMA UnlinkKeepsTree ==
  ASSUME FsInv, NEW f \in files, Fs!Unlink(f)
  PROVE  FsInv' /\ Fs!Lost' = Fs!Lost
<1> DEFINE i == nameToInum[f]
           d == Front(f)
           n == Last(f)
           p == nameToInum[d]
           b == inodes[p].addr
           a == inodes[i].addr
           last == inodes[i].refCnt = 1
           freed == last /\ a # -1
           D == [data EXCEPT ![b].dirList = {e \in @ : e[1] # n}]
<1>1. /\ f \in Seq(Name) /\ f # << >> /\ n \in Name /\ d \in dirs
      /\ i \in Fs!InUse \ Fs!Dirs /\ inodes[i].ftype = "f"
      /\ <<n, i>> \in EntriesOf[p]
  <2>1. f \in Seq(Name) /\ f # << >> /\ i \in Fs!InUse \ Fs!Dirs
    BY TreeFacts
  <2>2. d \in dirs /\ <<n, i>> \in Fs!Entries(p) /\ inodes[i].ftype = "f"
    BY <2>1, FsTypes, SameFs DEF Fs!NamesResolve
  <2>3. n \in Name
    BY <2>1, FrontProperties
  <2>4. p \in Fs!Inum
    BY <2>2, TreeFacts
  <2> HIDE DEF p, i
  <2>5. EntriesOf[p] = Fs!Entries(p)
    BY <2>4 DEF EntriesOf
  <2>6. QED
    BY <2>1, <2>2, <2>3, <2>5
<1>2. /\ p \in Fs!Dirs /\ p \in Fs!Inum /\ b \in Fs!Bnum /\ b \in dbitmap /\ i \in Fs!Inum /\ p # i
      /\ Fs!Dirs \subseteq Fs!InUse /\ Fs!InUse \subseteq Fs!Inum
  <2>1. p \in Fs!Dirs /\ Fs!Dirs \subseteq Fs!InUse /\ Fs!InUse \subseteq Fs!Inum
    BY <1>1, TreeFacts
  <2> HIDE DEF p, i
  <2>2. b \in Fs!Bnum /\ b \in dbitmap
    BY <2>1, TreeFacts
  <2>3. p \in Fs!Inum /\ i \in Fs!Inum /\ p # i
    BY <1>1, <2>1
  <2>4. QED
    BY <2>1, <2>2, <2>3
<1>3. /\ ibitmap' = IF last THEN ibitmap \ {i} ELSE ibitmap
      /\ dbitmap' = IF freed THEN dbitmap \ {a} ELSE dbitmap
      /\ data' = IF freed THEN [D EXCEPT ![a] = Fs!FreeBlock] ELSE D
      /\ inodes' = [inodes EXCEPT ![i] = IF last THEN Fs!Inode("free", -1, 0) ELSE [inodes[i] EXCEPT !.refCnt = @ - 1],
                                  ![p].refCnt = @ - 1]
      /\ files' = files \ {f}
      /\ UNCHANGED <<dirs, nameToInum>>
  <2>1. Fs!Front(f) = d /\ Fs!Last(f) = n
    BY SameFs
  <2>2. Fs!Drop(f) = D
    BY <2>1 DEF Fs!Drop, Fs!Block
  <2>3. Fs!Unref(i, p) = [inodes EXCEPT ![i] = IF last THEN Fs!Inode("free", -1, 0)
                                               ELSE [inodes[i] EXCEPT !.refCnt = @ - 1],
                                        ![p].refCnt = @ - 1]
    BY DEF Fs!Unref
  <2> HIDE DEF D
  <2>4. QED
    BY <2>1, <2>2, <2>3 DEF Fs!Unlink
<1>4. /\ inodes \in [Fs!Inum -> InodeType] /\ data \in [Fs!Bnum -> BlockType]
      /\ inodes[i] \in InodeType /\ inodes[p] \in InodeType /\ data[b] \in BlockType
      /\ a \in Fs!Bnum \cup {-1} /\ a # b /\ Fs!BlocksExact
  <2>1. inodes \in [Fs!Inum -> InodeType] /\ data \in [Fs!Bnum -> BlockType] /\ Fs!BlocksExact
    BY FsTypes
  <2>2. inodes[i] \in InodeType /\ inodes[p] \in InodeType /\ data[b] \in BlockType
    BY <1>2, <2>1
  <2>3. a \in Fs!Bnum \cup {-1}
    BY <2>2 DEF InodeType
  <2>4. a # b
    BY <1>1, <1>2, TreeFacts, FsNumbers
  <2>5. QED
    BY <2>1, <2>2, <2>3, <2>4
<1> HIDE DEF i, d, n, p, b, a, last, freed, D
<1>5. /\ inodes[i].refCnt = Cardinality(RefsOf[i]) /\ inodes[p].refCnt = 2 + Cardinality(EntriesOf[p])
      /\ Cardinality(RefsOf[i]) \in Nat \ {0} /\ Cardinality(EntriesOf[p]) \in Nat
      /\ IsFiniteSet(RefsOf[i]) /\ IsFiniteSet(EntriesOf[p]) /\ <<p, n>> \in RefsOf[i]
  <2>1. <<p, n>> \in RefsOf[i]
    BY <1>1, <1>2 DEF RefsOf
  <2>2. /\ IsFiniteSet(RefsOf[i]) /\ IsFiniteSet(EntriesOf[p])
        /\ Cardinality(RefsOf[i]) \in Nat /\ Cardinality(EntriesOf[p]) \in Nat
    BY <1>2, CountsAreFinite
  <2>3. Cardinality(RefsOf[i]) # 0
    BY <2>1, <2>2, FS_EmptySet
  <2>4. inodes[i].refCnt = Cardinality(RefsOf[i]) /\ inodes[p].refCnt = 2 + Cardinality(EntriesOf[p])
    BY <1>1, <1>2, FsTypes, CountsMeaning DEF CountsSay
  <2>5. QED
    BY <2>1, <2>2, <2>3, <2>4
<1>6. /\ inodes' \in [Fs!Inum -> InodeType]
      /\ inodes'[p].refCnt = inodes[p].refCnt - 1 /\ inodes'[p].ftype = "d" /\ inodes'[p].addr = b
      /\ last => inodes'[i] = Fs!Inode("free", -1, 0)
      /\ ~last => inodes'[i].refCnt = inodes[i].refCnt - 1 /\ inodes'[i].ftype = "f" /\ inodes'[i].addr = a
      /\ \A j \in Fs!Inum \ {i, p} : inodes'[j] = inodes[j]
  <2>1. inodes[i].refCnt - 1 \in Nat /\ inodes[p].refCnt - 1 \in Nat /\ inodes[p].ftype = "d"
    BY <1>2, <1>5 DEF Fs!Dirs
  <2>2. /\ [inodes[p] EXCEPT !.refCnt = inodes[p].refCnt - 1] \in InodeType
        /\ [inodes[p] EXCEPT !.refCnt = inodes[p].refCnt - 1].refCnt = inodes[p].refCnt - 1
        /\ [inodes[p] EXCEPT !.refCnt = inodes[p].refCnt - 1].ftype = inodes[p].ftype
        /\ [inodes[p] EXCEPT !.refCnt = inodes[p].refCnt - 1].addr = inodes[p].addr
    BY <1>4, <2>1 DEF InodeType
  <2>3. /\ [inodes[i] EXCEPT !.refCnt = inodes[i].refCnt - 1] \in InodeType
        /\ [inodes[i] EXCEPT !.refCnt = inodes[i].refCnt - 1].refCnt = inodes[i].refCnt - 1
        /\ [inodes[i] EXCEPT !.refCnt = inodes[i].refCnt - 1].ftype = inodes[i].ftype
        /\ [inodes[i] EXCEPT !.refCnt = inodes[i].refCnt - 1].addr = inodes[i].addr
    BY <1>4, <2>1 DEF InodeType
  <2>4. Fs!Inode("free", -1, 0) \in InodeType
    BY DEF Fs!Inode, InodeType
  <2>5. /\ inodes'[p] = [inodes[p] EXCEPT !.refCnt = inodes[p].refCnt - 1]
        /\ inodes'[i] = IF last THEN Fs!Inode("free", -1, 0)
                        ELSE [inodes[i] EXCEPT !.refCnt = inodes[i].refCnt - 1]
        /\ \A j \in Fs!Inum \ {i, p} : inodes'[j] = inodes[j]
        /\ DOMAIN inodes' = Fs!Inum /\ inodes' = [j \in DOMAIN inodes' |-> inodes'[j]]
    <3>1. DOMAIN inodes = Fs!Inum
      BY <1>4
    <3>2. CASE last
      <4>1. inodes' = [inodes EXCEPT ![i] = Fs!Inode("free", -1, 0), ![p].refCnt = @ - 1]
        BY <1>3, <3>2
      <4>2. QED
        BY <1>2, <3>1, <3>2, <4>1
    <3>3. CASE ~last
      <4>1. inodes' = [inodes EXCEPT ![i].refCnt = @ - 1, ![p].refCnt = @ - 1]
        BY <1>3, <3>3
      <4>2. QED
        BY <1>2, <3>1, <3>3, <4>1
    <3>4. QED
      BY <3>2, <3>3
  <2>6. \A j \in Fs!Inum : inodes'[j] \in InodeType
    BY <1>4, <2>2, <2>3, <2>4, <2>5
  <2>7. QED
    BY <1>1, <2>1, <2>2, <2>3, <2>5, <2>6 DEF a, b
<1>7. Fs!Dirs' = Fs!Dirs /\ Fs!InUse' = (IF last THEN Fs!InUse \ {i} ELSE Fs!InUse)
  <2>1. Fs!Inode("free", -1, 0).ftype = "free"
    BY DEF Fs!Inode
  <2>2. \A j \in Fs!Inum : inodes'[j].ftype = "d" <=> inodes[j].ftype = "d"
    BY <1>1, <1>2, <1>6, <2>1 DEF Fs!Dirs
  <2>3. \A j \in Fs!Inum : inodes'[j].ftype # "free" <=> inodes[j].ftype # "free" /\ ~(last /\ j = i)
    BY <1>1, <1>2, <1>6, <2>1 DEF Fs!Dirs
  <2>4. QED
    BY <2>2, <2>3 DEF Fs!Dirs, Fs!InUse, Fs!Inum
<1>8. /\ data' \in [Fs!Bnum -> BlockType]
      /\ data'[b].dirList = {e \in data[b].dirList : e[1] # n} /\ data'[b].ftype = data[b].ftype
      /\ \A c \in Fs!Bnum \ {a, b} : data'[c] = data[c]
      /\ a # -1 => data'[a] = IF freed THEN Fs!FreeBlock ELSE data[a]
  <2>1. /\ [data[b] EXCEPT !.dirList = {e \in data[b].dirList : e[1] # n}] \in BlockType
        /\ [data[b] EXCEPT !.dirList = {e \in data[b].dirList : e[1] # n}].dirList = {e \in data[b].dirList : e[1] # n}
        /\ [data[b] EXCEPT !.dirList = {e \in data[b].dirList : e[1] # n}].ftype = data[b].ftype
    BY <1>4 DEF BlockType
  <2>2. D = [data EXCEPT ![b] = [data[b] EXCEPT !.dirList = {e \in data[b].dirList : e[1] # n}]]
    BY DEF D
  <2>3. /\ D \in [Fs!Bnum -> BlockType] /\ D[b].dirList = {e \in data[b].dirList : e[1] # n}
        /\ D[b].ftype = data[b].ftype /\ \A c \in Fs!Bnum \ {b} : D[c] = data[c]
    BY <1>2, <1>4, <2>1, <2>2
  <2>4. Fs!FreeBlock \in BlockType
    BY DEF Fs!FreeBlock, BlockType
  <2>5. QED
    BY <1>2, <1>3, <1>4, <2>3, <2>4 DEF freed
<1>9. /\ EntriesOf'[p] = EntriesOf[p] \ {<<n, i>>} /\ \A e \in EntriesOf'[p] : e[1] # n
      /\ \A j \in Fs!Dirs \ {p} : EntriesOf'[j] = EntriesOf[j]
  <2>1. EntriesOf[p] = {e \in data[b].dirList : e[1] \in Name}
    BY <1>2 DEF EntriesOf, Fs!Entries, b
  <2>2. EntriesOf'[p] = {e \in EntriesOf[p] : e[1] # n}
    BY <1>2, <1>6, <1>8, <2>1, EntriesThen
  <2>3. \A e \in EntriesOf[p] : e[1] = n => e = <<n, i>>
    BY <1>1, <1>2, TreeFacts
  <2>4. ASSUME NEW j \in Fs!Dirs \ {p}
        PROVE  EntriesOf'[j] = EntriesOf[j]
    <3>1. j \in Fs!Inum /\ j # i /\ inodes[j].addr \in Fs!Bnum /\ inodes[j].addr # b /\ inodes[j].addr # a
      BY <1>1, <1>2, TreeFacts, FsNumbers DEF a, b
    <3>2. EntriesOf[j] = {e \in data[inodes[j].addr].dirList : e[1] \in Name}
      BY <3>1 DEF EntriesOf, Fs!Entries
    <3>3. QED
      BY <1>6, <1>8, <3>1, <3>2, EntriesThen
  <2>5. QED
    BY <2>2, <2>3, <2>4
<1>10. /\ RefsOf'[i] = RefsOf[i] \ {<<p, n>>}
       /\ \A k \in Fs!Inum \ {i} : RefsOf'[k] = RefsOf[k]
  <2>1. RefsOf' = [k \in Fs!Inum |-> {e \in Fs!Dirs' \X Name : <<e[2], k>> \in EntriesOf'[e[1]]}]
    BY DEF RefsOf, Fs!Inum
  <2>2. \A k \in Fs!Inum : \A j \in Fs!Dirs, m \in Name :
          <<m, k>> \in EntriesOf'[j] <=> <<m, k>> \in EntriesOf[j] /\ ~(j = p /\ m = n /\ k = i)
    BY <1>9
  <2>3. \A k \in Fs!Inum : \A e \in Fs!Dirs \X Name :
          <<e[2], k>> \in EntriesOf'[e[1]] <=> <<e[2], k>> \in EntriesOf[e[1]] /\ ~(e = <<p, n>> /\ k = i)
    BY <2>2
  <2>4. QED
    BY <1>2, <1>7, <2>1, <2>3 DEF RefsOf
<1>11. Fs!RefCountsExact'
  <2>1. Cardinality(EntriesOf'[p]) = Cardinality(EntriesOf[p]) - 1
    <3>1. <<n, i>> \in EntriesOf[p] /\ IsFiniteSet(EntriesOf[p])
      BY <1>1, <1>5
    <3>2. EntriesOf'[p] = EntriesOf[p] \ {<<n, i>>}
      BY <1>9
    <3>3. QED
      BY <3>1, <3>2, FS_RemoveElement
  <2>2. Cardinality(RefsOf'[i]) = Cardinality(RefsOf[i]) - 1
    BY <1>5, <1>10, FS_RemoveElement
  <2>3. \A k \in Fs!InUse : k \in Fs!Inum /\
          inodes[k].refCnt = IF k \in Fs!Dirs THEN 2 + Cardinality(EntriesOf[k]) ELSE Cardinality(RefsOf[k])
    BY FsTypes, CountsMeaning, TreeFacts DEF CountsSay
  <2>4. \A k \in Fs!InUse' :
          inodes'[k].refCnt = IF k \in Fs!Dirs THEN 2 + Cardinality(EntriesOf'[k]) ELSE Cardinality(RefsOf'[k])
    <3>1. inodes'[p].refCnt = 2 + Cardinality(EntriesOf'[p])
      BY <1>5, <1>6, <2>1
    <3>2. ~last => inodes'[i].refCnt = Cardinality(RefsOf'[i])
      BY <1>5, <1>6, <2>2
    <3>3. \A k \in Fs!InUse \ {i, p} :
            inodes'[k].refCnt = IF k \in Fs!Dirs THEN 2 + Cardinality(EntriesOf'[k]) ELSE Cardinality(RefsOf'[k])
      BY <1>6, <1>9, <1>10, <2>3
    <3>4. QED
      BY <1>1, <1>2, <1>7, <3>1, <3>2, <3>3
  <2>5. QED
    BY <1>7, <2>4, CountsThen DEF CountsSay
<1>12. Fs!BlocksExact'
  <2>1. \A k \in Fs!InUse : k \in Fs!Inum /\ inodes[k].addr \in Fs!Bnum \cup {-1}
    BY <1>2, <1>4 DEF InodeType
  <2>2. \A k \in Fs!InUse' : k \in Fs!InUse /\ inodes'[k].addr = inodes[k].addr /\ inodes'[k].ftype = inodes[k].ftype
    BY <1>1, <1>2, <1>6, <1>7 DEF a, b, Fs!Dirs
  <2>3. \A j, k \in Fs!InUse : inodes[j].addr = inodes[k].addr /\ j # k => inodes[j].addr = -1
    BY <1>4 DEF Fs!BlocksExact
  <2>4. dbitmap' = {inodes'[k].addr : k \in Fs!InUse'} \ {-1}
    <3>1. dbitmap = {inodes[k].addr : k \in Fs!InUse} \ {-1}
      BY <1>4 DEF Fs!BlocksExact
    <3>2. {inodes'[k].addr : k \in Fs!InUse'} = {inodes[k].addr : k \in Fs!InUse'}
      BY <2>2
    <3>3. CASE ~last
      BY <1>3, <1>7, <3>1, <3>2, <3>3 DEF freed
    <3>4. CASE last
      <4>1. Fs!InUse' = Fs!InUse \ {i}
        BY <1>7, <3>4
      <4>2. {inodes[k].addr : k \in Fs!InUse \ {i}} \ {-1} = ({inodes[k].addr : k \in Fs!InUse} \ {-1}) \ {a}
        BY <1>1, <2>3 DEF a
      <4>3. dbitmap' = dbitmap \ {a}
        BY <1>3, <3>1, <3>4 DEF freed
      <4>4. QED
        BY <3>1, <3>2, <4>1, <4>2, <4>3
    <3>5. QED
      BY <3>3, <3>4
  <2>5. \A j, k \in Fs!InUse' : inodes'[j].addr = inodes'[k].addr /\ j # k => inodes'[j].addr = -1
    BY <2>2, <2>3
  <2>6. \A k \in Fs!InUse' : inodes'[k].addr # -1 => data'[inodes'[k].addr].ftype = inodes'[k].ftype
    <3>1. SUFFICES ASSUME NEW k \in Fs!InUse', inodes'[k].addr # -1
                   PROVE  data'[inodes'[k].addr].ftype = inodes'[k].ftype
      OBVIOUS
    <3>2. data[inodes[k].addr].ftype = inodes[k].ftype /\ inodes[k].addr \in Fs!Bnum
      BY <1>4, <2>1, <2>2, <3>1 DEF Fs!BlocksExact
    <3>3. freed => inodes[k].addr # a
      BY <1>1, <1>7, <2>2, <2>3 DEF freed, a
    <3>4. inodes'[k].addr = inodes[k].addr /\ inodes'[k].ftype = inodes[k].ftype
      BY <2>2
    <3>5. data'[inodes[k].addr].ftype = data[inodes[k].addr].ftype
      <4>1. CASE inodes[k].addr = b
        BY <1>8, <4>1
      <4>2. CASE inodes[k].addr = a
        BY <1>8, <3>2, <3>3, <4>2, FsNumbers
      <4>3. CASE inodes[k].addr # a /\ inodes[k].addr # b
        BY <1>8, <3>2, <4>3
      <4>4. QED
        BY <4>1, <4>2, <4>3
    <3>6. QED
      BY <3>2, <3>4, <3>5
  <2>7. \A c \in Fs!Bnum : c \notin dbitmap' <=> data'[c].ftype = "free"
    <3>1. \A c \in Fs!Bnum : c \notin dbitmap <=> data[c].ftype = "free"
      BY <1>4 DEF Fs!BlocksExact
    <3>2. Fs!FreeBlock.ftype = "free"
      BY DEF Fs!FreeBlock
    <3>3. ASSUME NEW c \in Fs!Bnum
          PROVE  c \notin dbitmap' <=> data'[c].ftype = "free"
      <4>1. c \in dbitmap' <=> c \in dbitmap /\ ~(freed /\ c = a)
        BY <1>3
      <4>2. CASE c = b
        BY <1>4, <1>8, <3>1, <4>1, <4>2
      <4>3. CASE c = a
        <5>1. a # -1
          BY <4>3, FsNumbers
        <5>2. QED
          BY <1>8, <3>1, <3>2, <4>1, <4>3, <5>1
      <4>4. CASE c # a /\ c # b
        BY <1>8, <3>1, <4>1, <4>4
      <4>5. QED
        BY <4>2, <4>3, <4>4
    <3>4. QED
      BY <3>3
  <2>8. Fs!InUse' \subseteq ibitmap' /\ \A k \in Fs!Inum \ Fs!InUse' : inodes'[k].addr = -1
    <3>1. Fs!InUse \subseteq ibitmap /\ \A k \in Fs!Inum \ Fs!InUse : inodes[k].addr = -1
      BY <1>4 DEF Fs!BlocksExact
    <3>2. Fs!Inode("free", -1, 0).addr = -1
      BY DEF Fs!Inode
    <3>3. QED
      BY <1>1, <1>2, <1>3, <1>6, <1>7, <3>1, <3>2
  <2>9. QED
    BY <2>4, <2>5, <2>6, <2>7, <2>8 DEF Fs!BlocksExact, Fs!Bnum, Fs!Inum
<1>13. ASSUME NEW m \in (files' \cup dirs') \ {<< >>}
       PROVE  /\ Front(m) \in dirs
              /\ <<Last(m), nameToInum[m]>> \in EntriesOf'[nameToInum[Front(m)]]
              /\ <<nameToInum[Front(m)], Last(m)>> # <<p, n>>
  <2>1. m \in files \cup dirs /\ m # << >> /\ m # f
    <3>1. f \notin dirs
      BY <1>1, TreeFacts DEF i
    <3>2. QED
      BY <1>3, <3>1
  <2>2. m \in Seq(Name)
    BY <2>1, TreeFacts
  <2>3. Front(m) \in dirs /\ <<Last(m), nameToInum[m]>> \in Fs!Entries(nameToInum[Front(m)])
    BY <2>1, FsTypes, SameFs DEF Fs!NamesResolve
  <2>4. nameToInum[Front(m)] \in Fs!Dirs /\ nameToInum[Front(m)] \in Fs!Inum
    BY <2>3, TreeFacts
  <2>5. EntriesOf[nameToInum[Front(m)]] = Fs!Entries(nameToInum[Front(m)])
    BY <2>4 DEF EntriesOf
  <2>6. nameToInum[Front(m)] = p => Last(m) # n
    <3>1. SUFFICES ASSUME nameToInum[Front(m)] = p, Last(m) = n
                   PROVE  FALSE
      OBVIOUS
    <3>2. Front(m) = d
      BY <1>1, <2>3, <3>1 DEF FsInv, p
    <3>3. QED
      BY <1>1, <2>1, <2>2, <3>1, <3>2, PathUnique DEF d, n
  <2>7. QED
    BY <1>9, <2>3, <2>4, <2>5, <2>6
<1>14. \A x \in dirs : nameToInum[x] \in Fs!Dirs /\
         \A e \in EntriesOf'[nameToInum[x]] :
           /\ Append(x, e[1]) \in files' \cup dirs'
           /\ \A g \in EntriesOf'[nameToInum[x]] : e[1] = g[1] => e = g
  <2>1. SUFFICES ASSUME NEW x \in dirs
                 PROVE  nameToInum[x] \in Fs!Dirs /\
                          \A e \in EntriesOf'[nameToInum[x]] :
                            /\ Append(x, e[1]) \in files' \cup dirs'
                            /\ \A g \in EntriesOf'[nameToInum[x]] : e[1] = g[1] => e = g
    OBVIOUS
  <2>2. nameToInum[x] \in Fs!Dirs /\ nameToInum[x] \in Fs!Inum /\ x \in Seq(Name)
    BY TreeFacts
  <2>3. EntriesOf'[nameToInum[x]] \subseteq EntriesOf[nameToInum[x]]
    BY <1>9, <2>2
  <2>4. ASSUME NEW e \in EntriesOf'[nameToInum[x]]
        PROVE  Append(x, e[1]) \in files' \cup dirs'
    <3>1. Append(x, e[1]) \in files \cup dirs
      <4>1. EntriesOf[nameToInum[x]] = Fs!Entries(nameToInum[x])
        BY <2>2 DEF EntriesOf
      <4>2. QED
        BY <2>3, <2>4, <4>1, FsTypes DEF Fs!NamesResolve
    <3>2. e[1] \in Name
      BY <2>2, <2>3, TreeFacts
    <3>3. Append(x, e[1]) # f
      <4>1. SUFFICES ASSUME Append(x, e[1]) = f
                     PROVE  FALSE
        OBVIOUS
      <4>2. x = d /\ e[1] = n
        BY <2>2, <3>2, <4>1, PathProperties DEF d, n
      <4>3. QED
        BY <1>9, <2>4, <4>2 DEF p
    <3>4. QED
      BY <1>3, <3>1, <3>3
  <2>5. \A e, g \in EntriesOf[nameToInum[x]] : e[1] = g[1] => e = g
    BY <2>2, TreeFacts
  <2>6. QED
    BY <2>2, <2>3, <2>4, <2>5
<1>15. \A m \in files' : inodes'[nameToInum[m]].ftype = "f"
  <2>1. SUFFICES ASSUME NEW m \in files'
                 PROVE  inodes'[nameToInum[m]].ftype = "f"
    OBVIOUS
  <2>2. /\ m \in files /\ m # << >> /\ nameToInum[m] \in Fs!InUse \ Fs!Dirs
        /\ inodes[nameToInum[m]].ftype = "f" /\ nameToInum[m] \in Fs!Inum
    BY <1>2, <1>3, TreeFacts, FsTypes DEF Fs!NamesResolve
  <2>3. nameToInum[m] = i => ~last
    <3>1. SUFFICES ASSUME nameToInum[m] = i, last
                   PROVE  FALSE
      OBVIOUS
    <3>2. Cardinality(RefsOf'[i]) = 0 /\ IsFiniteSet(RefsOf'[i])
      <4>1. Cardinality(RefsOf[i]) = 1
        BY <1>5, <3>1 DEF last
      <4>2. Cardinality(RefsOf'[i]) = Cardinality(RefsOf[i]) - 1
        BY <1>5, <1>10, FS_RemoveElement
      <4>3. IsFiniteSet(RefsOf'[i])
        BY <1>5, <1>10, FS_RemoveElement
      <4>4. QED
        BY <4>1, <4>2, <4>3
    <3>3. RefsOf'[i] = {}
      BY <3>2, FS_EmptySet
    <3>4. /\ Front(m) \in dirs
          /\ <<Last(m), nameToInum[m]>> \in EntriesOf'[nameToInum[Front(m)]]
          /\ <<nameToInum[Front(m)], Last(m)>> # <<p, n>>
      BY <1>13, <2>1, <2>2
    <3>5. nameToInum[Front(m)] \in Fs!Dirs /\ Last(m) \in Name
      BY <2>2, <3>4, TreeFacts, FrontProperties
    <3>6. EntriesOf'[nameToInum[Front(m)]] \subseteq EntriesOf[nameToInum[Front(m)]]
      BY <1>9, <3>5
    <3>7. <<nameToInum[Front(m)], Last(m)>> \in RefsOf[i]
      BY <1>2, <3>1, <3>4, <3>5, <3>6 DEF RefsOf
    <3>8. QED
      BY <1>10, <3>3, <3>4, <3>7
  <2>4. QED
    BY <1>1, <1>2, <1>6, <2>2, <2>3
<1>16. Fs!NamesResolve'
  <2>1. \A j \in Fs!Dirs : EntriesOf'[j] = {e \in data'[inodes'[j].addr].dirList : e[1] \in Name}
    BY <1>2, EntriesThen
  <2>2. /\ \A m \in (files' \cup dirs') \ {<< >>} :
             /\ Fs!Front(m) \in dirs'
             /\ <<Fs!Last(m), nameToInum'[m]>> \in
                  {e \in data'[inodes'[nameToInum'[Fs!Front(m)]].addr].dirList : e[1] \in Name}
    BY <1>3, <1>13, <1>14, <2>1, SameFs
  <2>3. \A x \in dirs' : \A e \in {g \in data'[inodes'[nameToInum'[x]].addr].dirList : g[1] \in Name} :
          /\ Append(x, e[1]) \in files' \cup dirs'
          /\ \A g \in {h \in data'[inodes'[nameToInum'[x]].addr].dirList : h[1] \in Name} : e[1] = g[1] => e = g
    <3>1. SUFFICES ASSUME NEW x \in dirs'
                   PROVE  \A e \in {g \in data'[inodes'[nameToInum'[x]].addr].dirList : g[1] \in Name} :
                            /\ Append(x, e[1]) \in files' \cup dirs'
                            /\ \A g \in {h \in data'[inodes'[nameToInum'[x]].addr].dirList : h[1] \in Name} :
                                 e[1] = g[1] => e = g
      OBVIOUS
    <3>2. x \in dirs /\ nameToInum'[x] = nameToInum[x] /\ nameToInum[x] \in Fs!Dirs
      BY <1>3, <1>14
    <3>3. EntriesOf'[nameToInum[x]] =
            {e \in data'[inodes'[nameToInum'[x]].addr].dirList : e[1] \in Name}
      BY <2>1, <3>2
    <3>4. QED
      BY <1>14, <3>2, <3>3
  <2>4. \A m \in dirs' : inodes'[nameToInum'[m]].ftype = "d"
    <3>1. \A m \in dirs' : nameToInum'[m] \in Fs!Dirs'
      BY <1>3, <1>7, <1>14
    <3>2. QED
      BY <3>1 DEF Fs!Dirs
  <2>5. \A m \in files' : inodes'[nameToInum'[m]].ftype = "f"
    BY <1>3, <1>15
  <2>6. QED
    BY <2>2, <2>3, <2>4, <2>5 DEF Fs!NamesResolve, Fs!Entries
<1>17. Fs!TypeOK'
  <2>1. Fs!TypeOK
    BY DEF FsInv, Fs!TreeExact
  <2>2. ibitmap' \subseteq Fs!Inum /\ dbitmap' \subseteq Fs!Bnum
    BY <1>3, FsTypes
  <2>3. QED
    BY <1>3, <1>6, <1>8, <2>1, <2>2 DEF Fs!TypeOK, InodeType, BlockType, Fs!Bnum, Fs!Inum
<1>18. \A j \in Fs!Dirs : inodes'[j].addr = inodes[j].addr
  BY <1>1, <1>2, <1>6 DEF b
<1>19. FsInv'
  <2>1. dirs' = dirs /\ Fs!Dirs' = Fs!Dirs /\ \A x \in dirs : nameToInum'[x] = nameToInum[x]
    BY <1>3, <1>7
  <2>2. QED
    BY <1>11, <1>12, <1>16, <1>17, <1>18, <2>1, SameDirectories
<1>20. QED
  BY <1>1, <1>3, <1>7, <1>19 DEF Fs!Lost

(* What a request does to the inodes that are lost.                        *)
LEMMA RequestKeepsTree == FsInv /\ Fs!Next => FsInv' /\ Fs!LosesWhenFull
BY UnlinkKeepsTree, WriteKeepsTree, CreatKeepsTree, MkdirKeepsTree, MkdirFailsKeepsTree,
   LinkKeepsTree DEF Fs!Next, Fs!LosesWhenFull

(* The file system that is made at the start.                              *)
LEMMA TreeInit ==
  ASSUME Fs!Init
  PROVE  FsInv
<1> DEFINE L == {<<".", Fs!ROOT>>, <<"..", Fs!ROOT>>}
<1>1. /\ ibitmap = {Fs!ROOT} /\ dbitmap = {0} /\ files = {} /\ dirs = {<< >>}
      /\ nameToInum = [n \in {<< >>} |-> Fs!ROOT]
      /\ inodes = [i \in Fs!Inum |-> IF i = Fs!ROOT THEN Fs!Inode("d", 0, 2) ELSE Fs!Inode("free", -1, 1)]
      /\ data = [b \in Fs!Bnum |-> IF b = 0 THEN Fs!DirBlock(L) ELSE Fs!FreeBlock]
  BY DEF Fs!Init
<1>2. /\ Fs!Inode("d", 0, 2) \in InodeType /\ Fs!Inode("free", -1, 1) \in InodeType
      /\ Fs!Inode("d", 0, 2).ftype = "d" /\ Fs!Inode("d", 0, 2).addr = 0 /\ Fs!Inode("d", 0, 2).refCnt = 2
      /\ Fs!Inode("free", -1, 1).ftype = "free" /\ Fs!Inode("free", -1, 1).addr = -1
  BY FsNumbers DEF Fs!Inode, InodeType
<1>3. /\ Fs!DirBlock(L) \in BlockType /\ Fs!FreeBlock \in BlockType
      /\ Fs!DirBlock(L).ftype = "d" /\ Fs!DirBlock(L).dirList = L /\ Fs!FreeBlock.ftype = "free"
  BY FsNumbers DEF Fs!DirBlock, Fs!FreeBlock, BlockType
<1>4. \A e \in L : e[1] \notin Name
  BY FsNumbers
<1> HIDE DEF L
<1>5. /\ inodes \in [Fs!Inum -> InodeType] /\ data \in [Fs!Bnum -> BlockType]
      /\ inodes[Fs!ROOT] = Fs!Inode("d", 0, 2) /\ data[0] = Fs!DirBlock(L)
      /\ \A i \in Fs!Inum \ {Fs!ROOT} : inodes[i] = Fs!Inode("free", -1, 1)
      /\ \A b \in Fs!Bnum \ {0} : data[b] = Fs!FreeBlock
  BY <1>1, <1>2, <1>3, FsNumbers
<1>6. Fs!Dirs = {Fs!ROOT} /\ Fs!InUse = {Fs!ROOT}
  BY <1>2, <1>5, FsNumbers DEF Fs!Dirs, Fs!InUse
<1>7. Fs!Entries(Fs!ROOT) = {}
  BY <1>2, <1>3, <1>4, <1>5 DEF Fs!Entries
<1>8. Fs!TypeOK
  <2>1. << >> \in Seq(Name) /\ DOMAIN nameToInum = {<< >>} /\ nameToInum[<< >>] = Fs!ROOT
    BY <1>1
  <2>2. QED
    BY <1>1, <1>5, <2>1, FsNumbers DEF Fs!TypeOK, InodeType, BlockType
<1>9. Fs!RefCountsExact
  BY <1>2, <1>5, <1>6, <1>7, FS_EmptySet, SameFs DEF Fs!RefCountsExact
<1>10. Fs!BlocksExact
  <2>1. {inodes[i].addr : i \in Fs!InUse} \ {-1} = {0}
    BY <1>2, <1>5, <1>6
  <2>2. QED
    BY <1>1, <1>2, <1>3, <1>5, <1>6, <2>1, FsNumbers DEF Fs!BlocksExact
<1>11. Fs!NamesResolve
  BY <1>1, <1>2, <1>5, <1>7 DEF Fs!NamesResolve
<1>12. QED
  BY <1>1, <1>2, <1>5, <1>6, <1>8, <1>9, <1>10, <1>11 DEF FsInv, Fs!TreeExact

(* What a step of the homework does to the file system.                    *)
LEMMA FsStep ==
  FsInv /\ program = "sfs" /\ [HomeworkNext]_allvars => FsInv' /\ Fs!LosesWhenFull
<1> SUFFICES ASSUME FsInv, program = "sfs", [HomeworkNext]_allvars
             PROVE  FsInv' /\ Fs!LosesWhenFull
  OBVIOUS
<1>1. CASE UNCHANGED fsvars
  <2>1. Fs!TypeOK /\ Fs!BlocksExact
    BY DEF FsInv, Fs!TreeExact
  <2>2. Fs!TypeOK'
    BY <1>1, <2>1 DEF fsvars, Fs!TypeOK, Fs!Inum, Fs!Bnum
  <2>3. Fs!InUse' = Fs!InUse
    BY <1>1 DEF fsvars, Fs!InUse, Fs!Inum
  <2>4. Fs!BlocksExact'
    BY <1>1, <2>1, <2>3 DEF fsvars, Fs!BlocksExact, Fs!Inum, Fs!Bnum
  <2>5. FsInv'
    BY <1>1, <2>2, <2>4, SameTree, FsTypes DEF fsvars
  <2>6. Fs!LosesWhenFull
    BY <1>1, <2>3 DEF fsvars, Fs!LosesWhenFull, Fs!Lost
  <2>7. QED
    BY <2>5, <2>6
<1>2. CASE Fs!Next
  BY <1>2, RequestKeepsTree
<1>3. QED
  BY <1>1, <1>2 DEF HomeworkNext, allvars

(* The file system of hw20, for any number of inodes, blocks and names:    *)
(* counts, blocks, marks and names agree whatever the requests are, those  *)
(* that find the disk full included.                                       *)
THEOREM TreeStaysExact == HomeworkSpec => []TreeExact
<1> DEFINE Inv == program = "sfs" => FsInv
<1>1. HomeworkInit => Inv
  BY TreeInit DEF HomeworkInit
<1>2. Inv /\ [HomeworkNext]_allvars => Inv'
  BY FsStep DEF HomeworkNext, allvars
<1>3. Inv => TreeExact
  BY DEF FsInv, TreeExact
<1>4. QED
  BY <1>1, <1>2, <1>3, PTL DEF HomeworkSpec
============================================================================
