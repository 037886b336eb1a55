----------------------------- MODULE FilesProofs ----------------------------
(***************************************************************************)
(* Proofs about files.  Descriptors: the reference counts of the open file *)
(* descriptions and the open ends of the pipes are exact, for any number   *)
(* of processes, entries and descriptions.                                 *)
(***************************************************************************)
EXTENDS Descriptors, FiniteSetTheorems, WellFoundedInduction, TLAPS

-----------------------------------------------------------------------------
(* Descriptors: the inductive invariant.                                   *)

(* A description without a reference is no file; one with a reference has  *)
(* been made; a pipe is named by a description that has been made, and     *)
(* only a pipe end has a pipe.                                             *)
DescsAreSound(descs, n) ==
    \A d \in Desc : /\ descs[d].refs = 0 => descs[d] = NoFile
                    /\ d > n => descs[d].refs = 0
                    /\ descs[d].pipe # NoDesc => descs[d].pipe <= n
                    /\ descs[d].type = "pipe" <=> descs[d].pipe # NoDesc

(* Who does not run has an empty table.                                    *)
DeadIsEmpty == \A p \in FdProcess, fd \in Fd :
                    fdAlive[p] = "none" => fdTable[p][fd] = NoDesc

DescriptorsInv ==
    /\ DescriptorsTypeOK /\ DescriptorsAreCounted
    /\ DescsAreSound(desc, made) /\ DeadIsEmpty

-----------------------------------------------------------------------------
(* Counting entries.                                                       *)

Tables == [FdProcess -> [Fd -> Desc \cup {NoDesc}]]

(* Why the sets that are counted are finite.                               *)
LEMMA FilesAreFinite ==
    /\ IsFiniteSet(Fd) /\ IsFiniteSet(Desc) /\ IsFiniteSet(FdProcess \X Fd)
    /\ Fd \subseteq Nat /\ NoDesc \notin Desc /\ Desc \subseteq Nat \ {0}
<1>1. IsFiniteSet(Fd) /\ IsFiniteSet(Desc)
  BY DescriptorsAssumption, FS_Interval DEF Fd, Desc
<1>2. IsFiniteSet(FdProcess \X Fd)
  BY <1>1, DescriptorsAssumption, FS_Product
<1> QED BY <1>1, <1>2, DescriptorsAssumption DEF Fd, Desc

(* So is what names a description, and the entry that names it is there.   *)
LEMMA NamingIsFinite ==
    ASSUME NEW T, NEW d
    PROVE  /\ IsFiniteSet(Naming(T, d)) /\ Cardinality(Naming(T, d)) \in Nat
           /\ Naming(T, d) # {} => Cardinality(Naming(T, d)) > 0
<1>1. Naming(T, d) \subseteq FdProcess \X Fd
  BY DEF Naming
<1>2. IsFiniteSet(Naming(T, d))
  BY <1>1, FilesAreFinite, FS_Subset
<1> HIDE DEF Naming
<1>3. Cardinality(Naming(T, d)) \in Nat
  BY <1>2, FS_CardinalityType
<1>4. Naming(T, d) # {} => Cardinality(Naming(T, d)) # 0
  BY <1>2, FS_EmptySet, Zenon
<1> QED BY <1>2, <1>3, <1>4

(* A table with one entry written.                                         *)
Written(T, p, fd, b) == [T EXCEPT ![p][fd] = b]

(* Writing one entry takes it from what it named and gives it to what it   *)
(* names now.                                                              *)
LEMMA EntryWritten ==
    ASSUME NEW T \in Tables, NEW p \in FdProcess, NEW fd \in Fd,
           NEW b \in Desc \cup {NoDesc}
    PROVE  /\ Written(T, p, fd, b) \in Tables
           /\ \A q \in FdProcess, g \in Fd :
                 Written(T, p, fd, b)[q][g] = IF q = p /\ g = fd THEN b ELSE T[q][g]
           /\ \A d \in Desc :
                 Cardinality(Naming(Written(T, p, fd, b), d)) = Cardinality(Naming(T, d))
                    - (IF T[p][fd] = d THEN 1 ELSE 0) + (IF b = d THEN 1 ELSE 0)
<1> DEFINE U == Written(T, p, fd, b)
           e == <<p, fd>>
<1>1. U \in Tables
  BY DEF Tables, Written
<1>2. \A q \in FdProcess, g \in Fd :
         U[q][g] = IF q = p /\ g = fd THEN b ELSE T[q][g]
  BY DEF Tables, Written
<1> HIDE DEF U
<1>3. ASSUME NEW d \in Desc
      PROVE  Cardinality(Naming(U, d)) = Cardinality(Naming(T, d))
                - (IF T[p][fd] = d THEN 1 ELSE 0) + (IF b = d THEN 1 ELSE 0)
  <2> DEFINE N == Naming(T, d)
             M == Naming(U, d)
             n == Cardinality(N)
             m == Cardinality(M)
             was == T[p][fd] = d
             is == b = d
  <2>1. e \in N <=> was
    BY DEF Naming
  <2>2. e \in M <=> is
    BY <1>2 DEF Naming
  <2>3. N \ {e} = M \ {e}
    <3>1. ASSUME NEW x \in FdProcess \X Fd, x # e
          PROVE  U[x[1]][x[2]] = T[x[1]][x[2]]
      BY <3>1, <1>2
    <3> QED BY <3>1 DEF Naming
  <2>4. IsFiniteSet(N) /\ IsFiniteSet(M) /\ n \in Nat /\ m \in Nat
    BY NamingIsFinite
  <2> HIDE DEF N, M, e, was, is
  <2>5. Cardinality(N \ {e}) = IF e \in N THEN n - 1 ELSE n
    BY <2>4, FS_RemoveElement
  <2>6. Cardinality(M \ {e}) = IF e \in M THEN m - 1 ELSE m
    BY <2>4, FS_RemoveElement
  <2>7. (IF was THEN n - 1 ELSE n) = (IF is THEN m - 1 ELSE m)
    BY <2>1, <2>2, <2>3, <2>5, <2>6
  <2> HIDE DEF n, m
  <2>8. m = n - (IF was THEN 1 ELSE 0) + (IF is THEN 1 ELSE 0)
    BY <2>4, <2>7
  <2> QED BY <2>8 DEF n, m, N, M, was, is
<1> QED BY <1>1, <1>2, <1>3 DEF U

(* A table copied to another process, and the entries of one process.      *)
Copied(T, p, c) == [T EXCEPT ![c] = T[p]]
FdsOf(T, p, d) == {fd \in Fd : T[p][fd] = d}

(* A table that is copied over an empty one names everything once more for *)
(* each entry.                                                             *)
LEMMA TableCopied ==
    ASSUME NEW T \in Tables, NEW p \in FdProcess, NEW c \in FdProcess,
           \A fd \in Fd : T[c][fd] = NoDesc, NEW d \in Desc
    PROVE  /\ Copied(T, p, c) \in Tables /\ Cardinality(FdsOf(T, p, d)) \in Nat
           /\ Cardinality(Naming(Copied(T, p, c), d))
                 = Cardinality(Naming(T, d)) + Cardinality(FdsOf(T, p, d))
<1> DEFINE U == Copied(T, p, c)
           F == FdsOf(T, p, d)
           G == {e \in {c} \X Fd : e[2] \in F}
           N == Naming(T, d)
           M == Naming(U, d)
           f == [fd \in F |-> <<c, fd>>]
<1>1. U \in Tables
  BY DEF Tables, Copied
<1>2. \A q \in FdProcess, g \in Fd :
         U[q][g] = IF q = c THEN T[p][g] ELSE T[q][g]
  BY DEF Tables, Copied
<1> HIDE DEF U
<1>3. IsFiniteSet(F) /\ Cardinality(F) \in Nat
  BY FilesAreFinite, FS_Subset, FS_CardinalityType DEF FdsOf
<1>4. f \in Bijection(F, G)
  BY DEF Bijection, Injection, Surjection, IsInjective, FdsOf
<1>5. IsFiniteSet(G) /\ Cardinality(G) = Cardinality(F)
  BY <1>3, <1>4, FS_Bijection DEF ExistsBijection
<1>6. N \cap G = {}
  BY FilesAreFinite DEF Naming, FdsOf
<1>7. M = N \cup G
  <2>1. ASSUME NEW e \in FdProcess \X Fd
        PROVE  e \in M <=> e \in N \/ e \in G
    <3>1. CASE e[1] = c
      <4>1. e[2] \in Fd /\ U[e[1]][e[2]] = T[p][e[2]] /\ T[e[1]][e[2]] # d
        BY <3>1, <1>2, FilesAreFinite
      <4>2. e \in G <=> T[p][e[2]] = d
        BY <3>1, <4>1 DEF FdsOf
      <4> QED BY <4>1, <4>2 DEF Naming
    <3>2. CASE e[1] # c
      BY <3>2, <1>2 DEF Naming
    <3> QED BY <3>1, <3>2
  <2>2. M \subseteq FdProcess \X Fd /\ N \subseteq FdProcess \X Fd /\ G \subseteq FdProcess \X Fd
    BY DEF Naming
  <2> QED BY <2>1, <2>2
<1>8. IsFiniteSet(N) /\ Cardinality(N) \in Nat
  BY NamingIsFinite
<1> HIDE DEF F, G, N, M, f
<1>9. Cardinality(N \cup G) = Cardinality(N) + Cardinality(G) - Cardinality(N \cap G)
  BY <1>5, <1>8, FS_Union
<1>10. Cardinality(N \cap G) = 0
  BY <1>6, FS_EmptySet
<1>11. Cardinality(M) = Cardinality(N) + Cardinality(F)
  BY <1>3, <1>5, <1>7, <1>8, <1>9, <1>10
<1> QED BY <1>1, <1>3, <1>11 DEF M, N, F, U

(* An entry that names a description holds a reference of it.              *)
LEMMA NamedHasRefs ==
    ASSUME DescriptorsInv, NEW p \in FdProcess, NEW fd \in Fd, fdTable[p][fd] # NoDesc
    PROVE  fdTable[p][fd] \in Desc /\ desc[fdTable[p][fd]].refs \in Nat \ {0}
<1> DEFINE d == fdTable[p][fd]
<1>1. d \in Desc
  BY DEF DescriptorsInv, DescriptorsTypeOK
<1>2. <<p, fd>> \in Naming(fdTable, d)
  BY DEF Naming
<1>3. Cardinality(Naming(fdTable, d)) > 0 /\ Cardinality(Naming(fdTable, d)) \in Nat
  BY <1>2, NamingIsFinite
<1>4. desc[d].refs = Cardinality(Naming(fdTable, d)) + (IF d \in lost THEN 1 ELSE 0)
  BY <1>1 DEF DescriptorsInv, DescriptorsAreCounted, RefsAreEntries
<1> QED BY <1>1, <1>3, <1>4

-----------------------------------------------------------------------------
(* Counting the ends of a pipe.                                            *)

EndsCounted(counter, descs, mode) ==
    /\ counter \in [Desc -> Int]
    /\ \A f \in Desc : counter[f] = Cardinality(Ends(descs, f, mode))

(* They are finitely many.                                                 *)
LEMMA EndsAreFinite ==
    ASSUME NEW D, NEW f, NEW m
    PROVE  IsFiniteSet(Ends(D, f, m)) /\ Cardinality(Ends(D, f, m)) \in Nat
<1>1. Ends(D, f, m) \subseteq Desc
  BY DEF Ends
<1> QED BY <1>1, FilesAreFinite, FS_Subset, FS_CardinalityType

(* A change of the reference counts alone does not touch them.             *)
LEMMA EndsUntouched ==
    ASSUME NEW C, NEW D, NEW U, NEW m, EndsCounted(C, D, m),
           \A d \in Desc : U[d].pipe = D[d].pipe /\ U[d].flags = D[d].flags
    PROVE  EndsCounted(C, U, m)
<1>1. \A f \in Desc : Ends(U, f, m) = Ends(D, f, m)
  BY DEF Ends
<1> QED BY <1>1 DEF EndsCounted

(* What closing a description does to it,                                  *)
LEMMA DescClosed ==
    ASSUME DescriptorsTypeOK, DescsAreSound(desc, made), NEW d \in Desc,
           desc[d].refs \in Nat \ {0}
    PROVE  LET U == [desc EXCEPT ![d] = DescUnref(@)]
           IN  /\ U \in [Desc -> Description] /\ DescsAreSound(U, made)
               /\ \A x \in Desc : x # d => U[x] = desc[x]
               /\ U[d].refs = desc[d].refs - 1
               /\ desc[d].refs = 1 => U[d] = NoFile
               /\ desc[d].refs # 1 =>
                     U[d].pipe = desc[d].pipe /\ U[d].flags = desc[d].flags
<1> DEFINE U == [desc EXCEPT ![d] = DescUnref(@)]
<1>1. desc \in [Desc -> Description] /\ desc[d] \in Description
  BY DEF DescriptorsTypeOK
<1>2. /\ DescUnref(desc[d]) \in Description
      /\ DescUnref(desc[d]).refs = desc[d].refs - 1
      /\ desc[d].refs = 1 => DescUnref(desc[d]) = NoFile
      /\ desc[d].refs # 1 => /\ DescUnref(desc[d]).pipe = desc[d].pipe
                             /\ DescUnref(desc[d]).flags = desc[d].flags
                             /\ DescUnref(desc[d]).type = desc[d].type
  BY <1>1 DEF DescUnref, Description, NoFile
<1>3. U \in [Desc -> Description] /\ U[d] = DescUnref(desc[d])
      /\ \A x \in Desc : x # d => U[x] = desc[x]
  BY <1>1, <1>2
<1> HIDE DEF U
<1>4. ASSUME NEW x \in Desc
      PROVE  /\ U[x].refs = 0 => U[x] = NoFile
             /\ x > made => U[x].refs = 0
             /\ U[x].pipe # NoDesc => U[x].pipe <= made
             /\ U[x].type = "pipe" <=> U[x].pipe # NoDesc
  <2>1. CASE x # d
    BY <2>1, <1>3 DEF DescsAreSound
  <2>2. CASE x = d /\ desc[d].refs = 1
    BY <2>2, <1>2, <1>3 DEF NoFile
  <2>3. CASE x = d /\ desc[d].refs # 1
    BY <2>3, <1>2, <1>3 DEF DescsAreSound
  <2> QED BY <2>1, <2>2, <2>3
<1>5. DescsAreSound(U, made)
  BY <1>4 DEF DescsAreSound
<1> QED BY <1>2, <1>3, <1>5 DEF U

(* and to the counters of its pipe.                                        *)
LEMMA EndClosed ==
    ASSUME DescriptorsTypeOK, DescsAreSound(desc, made), NEW d \in Desc,
           desc[d].refs \in Nat \ {0}, NEW m, NEW C, EndsCounted(C, desc, m)
    PROVE  EndsCounted(FifoClose(C, d, m), [desc EXCEPT ![d] = DescUnref(@)], m)
<1> DEFINE U == [desc EXCEPT ![d] = DescUnref(@)]
           K == FifoClose(C, d, m)
<1>1. /\ U \in [Desc -> Description]
      /\ \A x \in Desc : x # d => U[x] = desc[x]
      /\ desc[d].refs = 1 => U[d] = NoFile
      /\ desc[d].refs # 1 => U[d].pipe = desc[d].pipe /\ U[d].flags = desc[d].flags
  BY DescClosed
<1>2. desc[d].pipe \in Desc \cup {NoDesc} /\ (desc[d].type = "pipe" <=> desc[d].pipe # NoDesc)
  BY DEF DescriptorsTypeOK, Description, DescsAreSound
<1> HIDE DEF U
<1>3. CASE desc[d].refs # 1
  <2>1. K = C
    BY <1>3 DEF FifoClose
  <2>2. \A x \in Desc : U[x].pipe = desc[x].pipe /\ U[x].flags = desc[x].flags
    BY <1>1, <1>3
  <2>3. EndsCounted(C, U, m)
    BY <2>2, EndsUntouched
  <2> QED BY <2>1, <2>3 DEF U
<1>4. CASE desc[d].refs = 1
  <2>1. \A f \in Desc : Ends(U, f, m) = Ends(desc, f, m) \ {d}
    <3>1. ASSUME NEW f \in Desc, NEW x \in Desc
          PROVE  (U[x].pipe = f /\ m \in U[x].flags)
                   <=> (desc[x].pipe = f /\ m \in desc[x].flags) /\ x # d
      <4>1. CASE x = d
        BY <4>1, <1>1, <1>4 DEF NoFile
      <4>2. CASE x # d
        BY <4>2, <1>1
      <4> QED BY <4>1, <4>2
    <3> QED BY <3>1 DEF Ends
  <2>2. \A f \in Desc : d \in Ends(desc, f, m) <=> desc[d].pipe = f /\ m \in desc[d].flags
    BY DEF Ends
  <2>3. K \in [Desc -> Int]
    BY <1>2 DEF FifoClose, EndsCounted
  <2>4. ASSUME NEW f \in Desc
        PROVE  K[f] = IF d \in Ends(desc, f, m) THEN C[f] - 1 ELSE C[f]
    BY <2>2, <1>2, <1>4, FilesAreFinite DEF FifoClose, EndsCounted
  <2>5. ASSUME NEW f \in Desc
        PROVE  K[f] = Cardinality(Ends(U, f, m))
    <3>1. Cardinality(Ends(desc, f, m) \ {d})
             = IF d \in Ends(desc, f, m) THEN Cardinality(Ends(desc, f, m)) - 1
               ELSE Cardinality(Ends(desc, f, m))
      BY EndsAreFinite, FS_RemoveElement
    <3>2. C[f] = Cardinality(Ends(desc, f, m))
      BY DEF EndsCounted
    <3> HIDE DEF K
    <3> QED BY <3>1, <3>2, <2>1, <2>4
  <2> QED BY <2>3, <2>5 DEF EndsCounted, U
<1> QED BY <1>3, <1>4

-----------------------------------------------------------------------------
(* Descriptors: the steps.                                                 *)

(* What a step must show, part by part.                                    *)
Refs(table, descs, gone, d) ==
    descs[d].refs = Cardinality(Naming(table, d)) + (IF d \in gone THEN 1 ELSE 0)

LEMMA DescriptorsStep ==
    ASSUME DescriptorsInv, NEW T, NEW A, NEW D, NEW M, NEW L, NEW F, NEW R, NEW W,
           T \in Tables, A \in [FdProcess -> {"none", "running", "exiting"}],
           D \in [Desc -> Description], M \in 0..MaxDesc, L \subseteq 1..M, F \in BOOLEAN,
           R \in [Desc -> Int], W \in [Desc -> Int],
           DescsAreSound(D, M), \A d \in Desc : Refs(T, D, L, d),
           ~F => EndsCounted(R, D, "r") /\ EndsCounted(W, D, "w"),
           \A p \in FdProcess, fd \in Fd : A[p] = "none" => T[p][fd] = NoDesc,
           fdTable' = T, fdAlive' = A, desc' = D, made' = M, lost' = L, setfl' = F,
           pipeReaders' = R, pipeWriters' = W, fdStopped' = fdStopped
    PROVE  DescriptorsInv'
<1>1. DescriptorsTypeOK'
  BY DEF DescriptorsInv, DescriptorsTypeOK, Tables
<1>2. RefsAreEntries'
  BY DEF RefsAreEntries, Refs
<1>3. PipeEndsAreCounted'
  BY DEF PipeEndsAreCounted, EndsCounted
<1>4. DescsAreSound(desc, made)' /\ DeadIsEmpty'
  BY DEF DescsAreSound, DeadIsEmpty
<1> QED BY <1>1, <1>2, <1>3, <1>4 DEF DescriptorsInv, DescriptorsAreCounted

(* What the invariant says before the step.                                *)
LEMMA DescriptorsBefore ==
    ASSUME DescriptorsInv
    PROVE  /\ fdTable \in Tables /\ desc \in [Desc -> Description]
           /\ pipeReaders \in [Desc -> Int] /\ pipeWriters \in [Desc -> Int]
           /\ DescsAreSound(desc, made) /\ made \in 0..MaxDesc /\ lost \subseteq 1..made
           /\ setfl \in BOOLEAN /\ fdAlive \in [FdProcess -> {"none", "running", "exiting"}]
           /\ \A d \in Desc : Refs(fdTable, desc, lost, d) /\ Cardinality(Naming(fdTable, d)) \in Nat
           /\ ~setfl => EndsCounted(pipeReaders, desc, "r") /\ EndsCounted(pipeWriters, desc, "w")
           /\ \A p \in FdProcess, fd \in Fd :
                 fdAlive[p] = "none" => fdTable[p][fd] = NoDesc
<1>1. \A d \in Desc : Refs(fdTable, desc, lost, d) /\ Cardinality(Naming(fdTable, d)) \in Nat
  BY NamingIsFinite DEF DescriptorsInv, DescriptorsAreCounted, RefsAreEntries, Refs
<1>2. ~setfl => EndsCounted(pipeReaders, desc, "r") /\ EndsCounted(pipeWriters, desc, "w")
  BY DEF DescriptorsInv, DescriptorsTypeOK, DescriptorsAreCounted, PipeEndsAreCounted,
         EndsCounted
<1> QED BY <1>1, <1>2 DEF DescriptorsInv, DescriptorsTypeOK, Tables, DeadIsEmpty

(* A counter stays a number.                                               *)
LEMMA FifoCloseIsInt ==
    ASSUME DescriptorsInv, NEW d \in Desc, NEW m, NEW C \in [Desc -> Int]
    PROVE  FifoClose(C, d, m) \in [Desc -> Int]
<1>1. desc[d].type = "pipe" => desc[d].pipe \in Desc
  BY DEF DescriptorsInv, DescriptorsTypeOK, Description, DescsAreSound
<1> QED BY <1>1 DEF FifoClose

(* The counts of a description, when its entries and its references change *)
(* by the same number.                                                     *)
LEMMA RefsFollow ==
    ASSUME NEW T, NEW D, NEW T1, NEW D1, NEW L, NEW d, Refs(T, D, L, d), NEW k \in Int,
           Cardinality(Naming(T, d)) \in Nat,
           Cardinality(Naming(T1, d)) = Cardinality(Naming(T, d)) + k,
           D1[d].refs = D[d].refs + k
    PROVE  Refs(T1, D1, L, d)
<1> DEFINE n == Cardinality(Naming(T, d))
           m == Cardinality(Naming(T1, d))
           r == D[d].refs
           s == D1[d].refs
           l == IF d \in L THEN 1 ELSE 0
<1>1. r = n + l /\ n \in Nat /\ l \in Nat /\ m = n + k /\ s = r + k
  BY DEF Refs
<1> HIDE DEF n, m, r, s, l
<1>2. s = m + l
  BY <1>1
<1> QED BY <1>2 DEF s, m, l, Refs

(* What close() and exit() do with an entry.                               *)
LEMMA EntryClosed ==
    ASSUME DescriptorsInv, NEW p \in FdProcess, NEW fd \in Fd, fdTable[p][fd] # NoDesc,
           DescClose(fdTable[p][fd]), fdTable' = [fdTable EXCEPT ![p][fd] = NoDesc],
           UNCHANGED <<fdAlive, made, lost, setfl, fdStopped>>
    PROVE  DescriptorsInv'
<1> DEFINE d == fdTable[p][fd]
           T == Written(fdTable, p, fd, NoDesc)
           D == [desc EXCEPT ![d] = DescUnref(@)]
           R == FifoClose(pipeReaders, d, "r")
           W == FifoClose(pipeWriters, d, "w")
<1>1. d \in Desc /\ desc[d].refs \in Nat \ {0}
  BY NamedHasRefs
<1>2. /\ D \in [Desc -> Description] /\ DescsAreSound(D, made)
      /\ \A x \in Desc : x # d => D[x] = desc[x]
      /\ D[d].refs = desc[d].refs - 1
  BY <1>1, DescClosed DEF DescriptorsInv
<1>3. /\ T \in Tables
      /\ \A q \in FdProcess, g \in Fd :
            T[q][g] = IF q = p /\ g = fd THEN NoDesc ELSE fdTable[q][g]
      /\ \A x \in Desc : Cardinality(Naming(T, x)) = Cardinality(Naming(fdTable, x))
                     - (IF d = x THEN 1 ELSE 0) + (IF NoDesc = x THEN 1 ELSE 0)
  <2>1. fdTable \in Tables /\ NoDesc \in Desc \cup {NoDesc}
    BY DescriptorsBefore
  <2> QED BY ONLY <2>1, p \in FdProcess, fd \in Fd, EntryWritten
<1>4. R \in [Desc -> Int] /\ W \in [Desc -> Int]
  BY <1>1, FifoCloseIsInt, DescriptorsBefore
<1>5. ~setfl => EndsCounted(R, D, "r") /\ EndsCounted(W, D, "w")
  BY <1>1, EndClosed, DescriptorsBefore DEF DescriptorsInv
<1>6. fdTable' = T /\ desc' = D /\ pipeReaders' = R /\ pipeWriters' = W
  BY DEF DescClose, Written
<1> HIDE DEF T, D, R, W
<1>7. ASSUME NEW x \in Desc
      PROVE  Refs(T, D, lost, x)
  <2>1. Refs(fdTable, desc, lost, x) /\ Cardinality(Naming(fdTable, x)) \in Nat /\ NoDesc # x
    BY DescriptorsBefore, FilesAreFinite
  <2>2. CASE x = d
    <3>1. Cardinality(Naming(T, x)) = Cardinality(Naming(fdTable, x)) + (-1)
      BY <2>1, <2>2, <1>3
    <3>2. D[x].refs = desc[x].refs + (-1)
      BY <2>2, <1>1, <1>2
    <3> QED BY <2>1, <3>1, <3>2, RefsFollow
  <2>3. CASE x # d
    <3>1. Cardinality(Naming(T, x)) = Cardinality(Naming(fdTable, x))
      BY <2>1, <2>3, <1>3
    <3> QED BY <3>1, <2>1, <2>3, <1>2 DEF Refs
  <2> QED BY <2>2, <2>3
<1>8. \A q \in FdProcess, g \in Fd : fdAlive[q] = "none" => T[q][g] = NoDesc
  BY <1>3, DescriptorsBefore
<1> QED BY <1>2, <1>3, <1>4, <1>5, <1>6, <1>7, <1>8, DescriptorsBefore, DescriptorsStep

(* A panic, and a step that touches no table and no description.           *)
LEMMA DescriptorsStutter ==
    ASSUME DescriptorsInv,
           UNCHANGED <<fdTable, desc, made, lost, setfl, pipeReaders, pipeWriters>>,
           fdAlive' \in [FdProcess -> {"none", "running", "exiting"}],
           fdStopped' \in {"no", "pipe_flags", "dup2_self"},
           \A p \in FdProcess : fdAlive'[p] = "none" => \A fd \in Fd : fdTable[p][fd] = NoDesc
    PROVE  DescriptorsInv'
<1>1. DescriptorsTypeOK'
  BY DEF DescriptorsInv, DescriptorsTypeOK, Description
<1>2. RefsAreEntries'
  BY DEF DescriptorsInv, DescriptorsAreCounted, RefsAreEntries, Naming
<1>3. PipeEndsAreCounted'
  BY DEF DescriptorsInv, DescriptorsAreCounted, PipeEndsAreCounted, Ends
<1>4. DescsAreSound(desc, made)'
  BY DEF DescriptorsInv, DescsAreSound, NoFile
<1>5. DeadIsEmpty'
  BY DEF DeadIsEmpty
<1> QED BY <1>1, <1>2, <1>3, <1>4, <1>5 DEF DescriptorsInv, DescriptorsAreCounted

(* process_alloc_file_descriptor() finds an empty entry or none.           *)
LEMMA SmallestFd ==
    ASSUME NEW S \in SUBSET Fd, S # {}
    PROVE  Min(S) \in S
<1>1. S \in SUBSET Nat
  BY FilesAreFinite
<1>2. \A x, y \in Nat : y < x => <<y, x>> \in OpToRel(<, Nat)
  BY Zenon DEF OpToRel
<1>3. PICK x \in S : \A y \in S : ~(<<y, x>> \in OpToRel(<, Nat))
  BY <1>1, WFMin, NatLessThanWellFounded
<1>4. \A y \in S : ~(y < x)
  BY <1>1, <1>2, <1>3, Zenon
<1>5. \A y \in S : x =< y
  BY <1>1, <1>4
<1> QED BY <1>5, Zenon DEF Min

LEMMA FdAllocated ==
    ASSUME NEW p \in FdProcess, NEW fd \in Int
    PROVE  AllocFd(p, fd) # NoFd => AllocFd(p, fd) \in Fd /\ fdTable[p][AllocFd(p, fd)] = NoDesc
<1>1. FreeFds(p) # {} => Min(FreeFds(p)) \in FreeFds(p)
  BY SmallestFd DEF FreeFds
<1> QED BY <1>1 DEF AllocFd, FreeFds

(* A further entry for a description that an entry names: F_DUPFD, and     *)
(* dup2() to an empty entry.                                               *)
LEMMA EntryAdded ==
    ASSUME DescriptorsInv, NEW p \in FdProcess, fdAlive[p] # "none", NEW fd \in Int,
           NEW old \in Fd, fdTable[p][old] # NoDesc,
           fdTable' = Entered(p, fd, fdTable[p][old]),
           desc' = IF AllocFd(p, fd) = NoFd THEN desc
                   ELSE [desc EXCEPT ![fdTable[p][old]].refs = @ + 1],
           UNCHANGED <<fdAlive, made, lost, setfl, pipeReaders, pipeWriters, fdStopped>>
    PROVE  DescriptorsInv'
<1> DEFINE d == fdTable[p][old]
           e == AllocFd(p, fd)
           T == Written(fdTable, p, e, d)
           D == [desc EXCEPT ![d].refs = @ + 1]
<1>1. CASE e = NoFd
  <2>1. UNCHANGED descVars
    BY <1>1 DEF Entered, descVars
  <2> QED BY <2>1, DescriptorsStutter DEF descVars, DescriptorsInv, DescriptorsTypeOK,
                                          DeadIsEmpty
<1>2. CASE e # NoFd
  <2>1. e \in Fd /\ fdTable[p][e] = NoDesc
    BY <1>2, FdAllocated
  <2>2. d \in Desc /\ desc[d].refs \in Nat \ {0}
    BY NamedHasRefs
  <2>3. fdTable' = T /\ desc' = D
    BY <1>2 DEF Entered, Written
  <2>4. /\ T \in Tables
        /\ \A q \in FdProcess, g \in Fd :
              T[q][g] = IF q = p /\ g = e THEN d ELSE fdTable[q][g]
        /\ \A x \in Desc : Cardinality(Naming(T, x)) = Cardinality(Naming(fdTable, x))
                - (IF fdTable[p][e] = x THEN 1 ELSE 0) + (IF d = x THEN 1 ELSE 0)
    <3>1. fdTable \in Tables /\ d \in Desc \cup {NoDesc}
      BY <2>2, DescriptorsBefore
    <3> HIDE DEF d, e
    <3> QED BY ONLY <3>1, <2>1, p \in FdProcess, EntryWritten
  <2>5. /\ D \in [Desc -> Description] /\ D[d].refs = desc[d].refs + 1
        /\ \A x \in Desc : x # d => D[x] = desc[x]
        /\ \A x \in Desc : D[x].pipe = desc[x].pipe /\ D[x].flags = desc[x].flags
        /\ D[d].type = desc[d].type
    BY <2>2, DescriptorsBefore DEF Description
  <2> HIDE DEF T, D, d, e
  <2>6. ASSUME NEW x \in Desc
        PROVE  Refs(T, D, lost, x)
    <3>1. Refs(fdTable, desc, lost, x) /\ Cardinality(Naming(fdTable, x)) \in Nat /\ NoDesc # x
      BY DescriptorsBefore, FilesAreFinite
    <3>2. CASE x = d
      <4>1. Cardinality(Naming(T, x)) = Cardinality(Naming(fdTable, x)) + 1
        BY <3>1, <3>2, <2>1, <2>4
      <4> QED BY <3>1, <3>2, <4>1, <2>5, RefsFollow
    <3>3. CASE x # d
      <4>1. Cardinality(Naming(T, x)) = Cardinality(Naming(fdTable, x))
        BY <3>1, <3>3, <2>1, <2>4
      <4> QED BY <4>1, <3>1, <3>3, <2>5 DEF Refs
    <3> QED BY <3>2, <3>3
  <2>7. DescsAreSound(D, made)
    <3>1. ASSUME NEW x \in Desc
          PROVE  /\ D[x].refs = 0 => D[x] = NoFile
                 /\ x > made => D[x].refs = 0
                 /\ D[x].pipe # NoDesc => D[x].pipe <= made
                 /\ D[x].type = "pipe" <=> D[x].pipe # NoDesc
      <4>1. /\ desc[x].refs = 0 => desc[x] = NoFile
            /\ x > made => desc[x].refs = 0
            /\ desc[x].pipe # NoDesc => desc[x].pipe <= made
            /\ desc[x].type = "pipe" <=> desc[x].pipe # NoDesc
        BY DescriptorsBefore DEF DescsAreSound
      <4>2. CASE x = d
        BY <4>1, <4>2, <2>2, <2>5
      <4>3. CASE x # d
        BY <4>1, <4>3, <2>5
      <4> QED BY <4>2, <4>3
    <3> QED BY <3>1 DEF DescsAreSound
  <2>8. ~setfl => EndsCounted(pipeReaders, D, "r") /\ EndsCounted(pipeWriters, D, "w")
    BY <2>5, EndsUntouched, DescriptorsBefore
  <2>9. \A q \in FdProcess, g \in Fd : fdAlive[q] = "none" => T[q][g] = NoDesc
    BY <2>4, DescriptorsBefore
  <2>10. pipeReaders \in [Desc -> Int] /\ pipeWriters \in [Desc -> Int]
    BY DescriptorsBefore
  <2> QED BY <2>3, <2>4, <2>5, <2>6, <2>7, <2>8, <2>9, <2>10, DescriptorsBefore,
             DescriptorsStep
<1> QED BY <1>1, <1>2

(* dup2() to an open entry of another description.                         *)
LEMMA EntryReplaced ==
    ASSUME DescriptorsInv, NEW p \in FdProcess, fdAlive[p] # "none",
           NEW old \in Fd, fdTable[p][old] # NoDesc,
           NEW fd \in Fd, fdTable[p][fd] # NoDesc, fdTable[p][fd] # fdTable[p][old],
           fdTable' = [fdTable EXCEPT ![p][fd] = fdTable[p][old]],
           desc' = [[desc EXCEPT ![fdTable[p][fd]] = DescUnref(@)]
                       EXCEPT ![fdTable[p][old]].refs = @ + 1],
           pipeReaders' = FifoClose(pipeReaders, fdTable[p][fd], "r"),
           pipeWriters' = FifoClose(pipeWriters, fdTable[p][fd], "w"),
           UNCHANGED <<fdAlive, made, lost, setfl, fdStopped>>
    PROVE  DescriptorsInv'
<1> DEFINE d == fdTable[p][old]
           v == fdTable[p][fd]
           T == Written(fdTable, p, fd, d)
           C == [desc EXCEPT ![v] = DescUnref(@)]
           D == [C EXCEPT ![d].refs = @ + 1]
           R == FifoClose(pipeReaders, v, "r")
           W == FifoClose(pipeWriters, v, "w")
<1>1. /\ d \in Desc /\ desc[d].refs \in Nat \ {0}
      /\ v \in Desc /\ desc[v].refs \in Nat \ {0}
  BY NamedHasRefs
<1>2. /\ C \in [Desc -> Description] /\ DescsAreSound(C, made)
      /\ \A x \in Desc : x # v => C[x] = desc[x]
      /\ C[v].refs = desc[v].refs - 1
  BY <1>1, DescClosed DEF DescriptorsInv
<1>3. /\ T \in Tables
      /\ \A q \in FdProcess, g \in Fd :
            T[q][g] = IF q = p /\ g = fd THEN d ELSE fdTable[q][g]
      /\ \A x \in Desc : Cardinality(Naming(T, x)) = Cardinality(Naming(fdTable, x))
                     - (IF v = x THEN 1 ELSE 0) + (IF d = x THEN 1 ELSE 0)
  <2>1. fdTable \in Tables /\ d \in Desc \cup {NoDesc}
    BY <1>1, DescriptorsBefore
  <2> HIDE DEF d
  <2> QED BY ONLY <2>1, p \in FdProcess, fd \in Fd, EntryWritten
<1>4. R \in [Desc -> Int] /\ W \in [Desc -> Int]
  BY <1>1, FifoCloseIsInt, DescriptorsBefore
<1>5. ~setfl => EndsCounted(R, C, "r") /\ EndsCounted(W, C, "w")
  BY <1>1, EndClosed, DescriptorsBefore DEF DescriptorsInv
<1>6. fdTable' = T /\ desc' = D /\ pipeReaders' = R /\ pipeWriters' = W
  BY DEF Written
<1>7. v # d
  OBVIOUS
<1> HIDE DEF T, C, R, W, d, v
<1>8. /\ D \in [Desc -> Description] /\ D[d].refs = desc[d].refs + 1
      /\ \A x \in Desc : x # d => D[x] = C[x]
      /\ \A x \in Desc : D[x].pipe = C[x].pipe /\ D[x].flags = C[x].flags
      /\ D[d].type = C[d].type
  BY <1>1, <1>2, <1>7 DEF Description
<1> HIDE DEF D
<1>9. ASSUME NEW x \in Desc
      PROVE  Refs(T, D, lost, x)
  <2>1. Refs(fdTable, desc, lost, x) /\ Cardinality(Naming(fdTable, x)) \in Nat
    BY DescriptorsBefore
  <2>2. CASE x = v
    <3>1. Cardinality(Naming(T, x)) = Cardinality(Naming(fdTable, x)) + (-1)
      BY <2>1, <2>2, <1>3, <1>7
    <3>2. D[x].refs = desc[x].refs + (-1)
      BY <2>2, <1>1, <1>2, <1>7, <1>8
    <3> QED BY <2>1, <3>1, <3>2, RefsFollow
  <2>3. CASE x = d
    <3>1. Cardinality(Naming(T, x)) = Cardinality(Naming(fdTable, x)) + 1
      BY <2>1, <2>3, <1>3, <1>7
    <3> QED BY <2>1, <2>3, <3>1, <1>8, RefsFollow
  <2>4. CASE x # v /\ x # d
    <3>1. Cardinality(Naming(T, x)) = Cardinality(Naming(fdTable, x))
      BY <2>1, <2>4, <1>3
    <3> QED BY <3>1, <2>1, <2>4, <1>2, <1>8 DEF Refs
  <2> QED BY <2>2, <2>3, <2>4
<1>10. DescsAreSound(D, made)
  <2>1. ASSUME NEW x \in Desc
        PROVE  /\ D[x].refs = 0 => D[x] = NoFile
               /\ x > made => D[x].refs = 0
               /\ D[x].pipe # NoDesc => D[x].pipe <= made
               /\ D[x].type = "pipe" <=> D[x].pipe # NoDesc
    <3>1. /\ C[x].refs = 0 => C[x] = NoFile
          /\ x > made => C[x].refs = 0
          /\ C[x].pipe # NoDesc => C[x].pipe <= made
          /\ C[x].type = "pipe" <=> C[x].pipe # NoDesc
      BY <1>2 DEF DescsAreSound
    <3>2. C[d] = desc[d]
      BY <1>1, <1>2, <1>7
    <3>3. CASE x = d
      BY <3>1, <3>2, <3>3, <1>1, <1>8
    <3>4. CASE x # d
      BY <3>1, <3>4, <1>8
    <3> QED BY <3>3, <3>4
  <2> QED BY <2>1 DEF DescsAreSound
<1>11. ~setfl => EndsCounted(R, D, "r") /\ EndsCounted(W, D, "w")
  BY <1>5, <1>8, EndsUntouched
<1>12. \A q \in FdProcess, g \in Fd : fdAlive[q] = "none" => T[q][g] = NoDesc
  BY <1>3, DescriptorsBefore
<1> QED BY <1>3, <1>4, <1>6, <1>8, <1>9, <1>10, <1>11, <1>12, DescriptorsBefore,
           DescriptorsStep

(* dup2() of an entry to an entry of the same description, which stays.    *)
LEMMA EntryReplacedBySame ==
    ASSUME DescriptorsInv, NEW p \in FdProcess, NEW fd \in Fd,
           fdTable[p][fd] # NoDesc, desc[fdTable[p][fd]].refs > 1,
           fdTable' = [fdTable EXCEPT ![p][fd] = fdTable[p][fd]],
           desc' = [[desc EXCEPT ![fdTable[p][fd]] = DescUnref(@)]
                       EXCEPT ![fdTable[p][fd]].refs = @ + 1],
           pipeReaders' = FifoClose(pipeReaders, fdTable[p][fd], "r"),
           pipeWriters' = FifoClose(pipeWriters, fdTable[p][fd], "w"),
           UNCHANGED <<fdAlive, made, lost, setfl, fdStopped>>
    PROVE  DescriptorsInv'
<1> DEFINE d == fdTable[p][fd]
<1>1. d \in Desc /\ desc[d] \in Description /\ desc \in [Desc -> Description]
  BY NamedHasRefs, DescriptorsBefore
<1>2. fdTable' = fdTable
  BY DescriptorsBefore DEF Tables
<1>3. [DescUnref(desc[d]) EXCEPT !.refs = @ + 1] = desc[d]
  BY <1>1 DEF DescUnref, Description
<1>4. desc' = desc
  BY <1>1, <1>3
<1>5. pipeReaders' = pipeReaders /\ pipeWriters' = pipeWriters
  BY DEF FifoClose
<1> QED BY <1>2, <1>4, <1>5, DescriptorsStutter
        DEF DescriptorsInv, DescriptorsTypeOK, DeadIsEmpty

(* F_SETFL: from here on nothing is said about the ends of pipes.          *)
LEMMA FlagsSet ==
    ASSUME DescriptorsInv, NEW d \in Desc, NEW fl \in SUBSET {"r", "w"},
           desc[d].refs \in Nat \ {0}, desc' = [desc EXCEPT ![d].flags = fl], setfl' = TRUE,
           UNCHANGED <<fdTable, fdAlive, made, lost, pipeReaders, pipeWriters, fdStopped>>
    PROVE  DescriptorsInv'
<1> DEFINE D == [desc EXCEPT ![d].flags = fl]
<1>1. desc \in [Desc -> Description] /\ DescsAreSound(desc, made)
  BY DescriptorsBefore
<1>2. D \in [Desc -> Description]
  BY <1>1 DEF Description
<1>3. /\ \A x \in Desc : D[x].refs = desc[x].refs /\ D[x].type = desc[x].type
                          /\ D[x].pipe = desc[x].pipe
      /\ \A x \in Desc : x # d => D[x] = desc[x]
  BY <1>1 DEF Description
<1> HIDE DEF D
<1>4. DescsAreSound(D, made)
  <2>1. ASSUME NEW x \in Desc
        PROVE  /\ D[x].refs = 0 => D[x] = NoFile
               /\ x > made => D[x].refs = 0
               /\ D[x].pipe # NoDesc => D[x].pipe <= made
               /\ D[x].type = "pipe" <=> D[x].pipe # NoDesc
    <3>1. /\ desc[x].refs = 0 => desc[x] = NoFile
          /\ x > made => desc[x].refs = 0
          /\ desc[x].pipe # NoDesc => desc[x].pipe <= made
          /\ desc[x].type = "pipe" <=> desc[x].pipe # NoDesc
      BY <1>1 DEF DescsAreSound
    <3>2. CASE x = d
      BY <3>1, <3>2, <1>3
    <3>3. CASE x # d
      BY <3>1, <3>3, <1>3
    <3> QED BY <3>2, <3>3
  <2> QED BY <2>1 DEF DescsAreSound
<1>5. \A x \in Desc : Refs(fdTable, D, lost, x)
  BY <1>3, DescriptorsBefore DEF Refs
<1> QED BY <1>2, <1>4, <1>5, DescriptorsBefore, DescriptorsStep DEF D

(* A number that no description has had.                                   *)
LEMMA FreshDesc ==
    ASSUME DescriptorsInv, NEW n \in Desc, n > made
    PROVE  /\ desc[n] = NoFile /\ Cardinality(Naming(fdTable, n)) = 0 /\ n \notin lost
           /\ \A d \in Desc : desc[d].pipe # n
           /\ Naming(fdTable, n) = {}
<1>1. desc[n].refs = 0 /\ desc[n] = NoFile
  BY DescriptorsBefore DEF DescsAreSound
<1>2. Refs(fdTable, desc, lost, n) /\ Cardinality(Naming(fdTable, n)) \in Nat
  BY DescriptorsBefore
<1>3. n \notin lost
  BY DescriptorsBefore DEF Desc
<1>4. Cardinality(Naming(fdTable, n)) = 0
  BY <1>1, <1>2, <1>3 DEF Refs
<1>5. Naming(fdTable, n) = {}
  BY <1>4, NamingIsFinite, FS_EmptySet
<1>6. \A d \in Desc : desc[d].pipe # n
  <2>1. ASSUME NEW d \in Desc, desc[d].pipe = n
        PROVE  FALSE
    <3>1. n # NoDesc
      BY FilesAreFinite
    <3>2. n <= made
      BY <2>1, <3>1, DescriptorsBefore DEF DescsAreSound
    <3> QED BY <3>2, DescriptorsBefore DEF Desc
  <2> QED BY <2>1
<1> QED BY <1>1, <1>3, <1>4, <1>5, <1>6

(* open(): the new description has an entry, or is lost.                   *)
LEMMA SysOpenStep ==
    ASSUME DescriptorsInv, NEW p \in FdProcess, SysOpen(p)
    PROVE  DescriptorsInv'
<1> DEFINE n == made + 1
           e == AllocFd(p, -1)
           T == Entered(p, -1, n)
           L == IF e = NoFd THEN lost \cup {n} ELSE lost
<1>1. PICK fl \in {{"r"}, {"r", "w"}} :
         desc' = [desc EXCEPT ![n] = [refs |-> 1, type |-> "file", flags |-> fl,
                                      pipe |-> NoDesc]]
  BY DEF SysOpen
<1> DEFINE X == [refs |-> 1, type |-> "file", flags |-> fl, pipe |-> NoDesc]
           D == [desc EXCEPT ![n] = X]
<1>2. n \in Desc /\ n > made /\ n \in 0..MaxDesc /\ made \in Nat /\ fdAlive[p] = "running"
  BY DescriptorsBefore, DescriptorsAssumption DEF SysOpen, Desc, FdRuns
<1>3. /\ desc[n] = NoFile /\ Cardinality(Naming(fdTable, n)) = 0 /\ n \notin lost
      /\ \A d \in Desc : desc[d].pipe # n
  BY <1>2, FreshDesc
<1>4. X \in Description
  BY DEF Description
<1>5. /\ D \in [Desc -> Description] /\ D[n] = X
      /\ \A x \in Desc : x # n => D[x] = desc[x]
  BY <1>2, <1>4, DescriptorsBefore
<1>6. ASSUME e = NoFd
      PROVE  T \in Tables /\ (\A x \in Desc : Refs(T, D, L, x))
              /\ \A q \in FdProcess, g \in Fd : fdAlive[q] = "none" => T[q][g] = NoDesc
  <2>1. T = fdTable
    BY <1>6 DEF Entered
  <2>2. ASSUME NEW x \in Desc
        PROVE  Refs(T, D, L, x)
    <3>1. Refs(fdTable, desc, lost, x)
      BY DescriptorsBefore
    <3> QED BY <3>1, <2>1, <1>3, <1>5, <1>6 DEF Refs
  <2> QED BY <2>1, <2>2, DescriptorsBefore
<1>7. ASSUME e # NoFd
      PROVE  T \in Tables /\ (\A x \in Desc : Refs(T, D, L, x))
              /\ \A q \in FdProcess, g \in Fd : fdAlive[q] = "none" => T[q][g] = NoDesc
  <2>1. e \in Fd /\ fdTable[p][e] = NoDesc
    BY <1>7, FdAllocated
  <2>2. T = Written(fdTable, p, e, n)
    BY <1>7 DEF Entered, Written
  <2>3. fdTable \in Tables /\ n \in Desc \cup {NoDesc}
    BY <1>2, DescriptorsBefore
  <2> HIDE DEF n, e
  <2>4. /\ Written(fdTable, p, e, n) \in Tables
        /\ \A q \in FdProcess, g \in Fd :
              Written(fdTable, p, e, n)[q][g] = IF q = p /\ g = e THEN n ELSE fdTable[q][g]
        /\ \A x \in Desc : Cardinality(Naming(Written(fdTable, p, e, n), x))
              = Cardinality(Naming(fdTable, x))
                - (IF fdTable[p][e] = x THEN 1 ELSE 0) + (IF n = x THEN 1 ELSE 0)
    BY ONLY <2>1, <2>3, p \in FdProcess, EntryWritten
  <2> HIDE DEF T, D, X
  <2>5. ASSUME NEW x \in Desc
        PROVE  Refs(T, D, lost, x)
    <3>1. Refs(fdTable, desc, lost, x) /\ Cardinality(Naming(fdTable, x)) \in Nat /\ NoDesc # x
      BY DescriptorsBefore, FilesAreFinite
    <3>2. CASE x = n
      <4>1. Cardinality(Naming(T, x)) = 1
        BY <3>1, <3>2, <2>1, <2>2, <2>4, <1>3
      <4> QED BY <3>2, <4>1, <1>3, <1>5 DEF Refs, X
    <3>3. CASE x # n
      <4>1. Cardinality(Naming(T, x)) = Cardinality(Naming(fdTable, x))
        BY <3>1, <3>3, <2>1, <2>2, <2>4
      <4> QED BY <3>1, <3>3, <4>1, <1>5 DEF Refs
    <3> QED BY <3>2, <3>3
  <2>6. \A q \in FdProcess, g \in Fd : fdAlive[q] = "none" => T[q][g] = NoDesc
    BY <2>2, <2>4, <1>2, DescriptorsBefore
  <2> QED BY <2>2, <2>4, <2>5, <2>6, <1>7
<1>8. DescsAreSound(D, n)
  <2>1. ASSUME NEW x \in Desc
        PROVE  /\ D[x].refs = 0 => D[x] = NoFile
               /\ x > n => D[x].refs = 0
               /\ D[x].pipe # NoDesc => D[x].pipe <= n
               /\ D[x].type = "pipe" <=> D[x].pipe # NoDesc
    <3>1. CASE x = n
      BY <3>1, <1>5, <1>2
    <3>2. CASE x # n
      <4>1. /\ desc[x].refs = 0 => desc[x] = NoFile
            /\ x > made => desc[x].refs = 0
            /\ desc[x].pipe # NoDesc => desc[x].pipe <= made
            /\ desc[x].type = "pipe" <=> desc[x].pipe # NoDesc
        BY DescriptorsBefore DEF DescsAreSound
      <4>2. x > n => x > made
        BY <1>2 DEF Desc
      <4>3. desc[x].pipe # NoDesc => desc[x].pipe <= n
        <5> SUFFICES ASSUME desc[x].pipe # NoDesc PROVE desc[x].pipe <= n
          OBVIOUS
        <5>1. desc[x].pipe \in Nat /\ desc[x].pipe <= made
          BY <4>1, DescriptorsBefore, FilesAreFinite DEF Description
        <5> QED BY <5>1, <1>2
      <4> QED BY <3>2, <4>1, <4>2, <4>3, <1>5
    <3> QED BY <3>1, <3>2
  <2> QED BY <2>1 DEF DescsAreSound
<1>9. ~setfl => EndsCounted(pipeReaders, D, "r") /\ EndsCounted(pipeWriters, D, "w")
  <2>1. ASSUME NEW f \in Desc, NEW m
        PROVE  Ends(D, f, m) = Ends(desc, f, m)
    <3>1. \A x \in Desc : x = n => D[x].pipe # f /\ desc[x].pipe # f
      BY <1>3, <1>5, FilesAreFinite DEF NoFile
    <3> QED BY <3>1, <1>5 DEF Ends
  <2> QED BY <2>1, DescriptorsBefore DEF EndsCounted
<1>10. L \subseteq 1..n
  BY <1>2, DescriptorsBefore
<1>11. /\ fdTable' = T /\ fdAlive' = fdAlive /\ desc' = D /\ made' = n /\ lost' = L
       /\ setfl' = setfl /\ pipeReaders' = pipeReaders /\ pipeWriters' = pipeWriters
       /\ fdStopped' = fdStopped
  BY <1>1 DEF SysOpen
<1>12. T \in Tables /\ (\A x \in Desc : Refs(T, D, L, x))
       /\ \A q \in FdProcess, g \in Fd : fdAlive[q] = "none" => T[q][g] = NoDesc
  BY <1>6, <1>7
<1> HIDE DEF T, D, L, n
<1>13. /\ fdAlive \in [FdProcess -> {"none", "running", "exiting"}] /\ setfl \in BOOLEAN
       /\ pipeReaders \in [Desc -> Int] /\ pipeWriters \in [Desc -> Int]
       /\ D \in [Desc -> Description] /\ n \in 0..MaxDesc
  BY <1>2, <1>5, DescriptorsBefore
<1> QED BY ONLY DescriptorsInv, <1>8, <1>9, <1>10, <1>11, <1>12, <1>13, DescriptorsStep

(* fork(): every entry of the copy is a further reference.                 *)
LEMMA CloneTableStep ==
    ASSUME DescriptorsInv, NEW p \in FdProcess, NEW child \in FdProcess, CloneTable(p, child)
    PROVE  DescriptorsInv'
<1> DEFINE F(d) == FdsOf(fdTable, p, d)
           T == Copied(fdTable, p, child)
           A == [fdAlive EXCEPT ![child] = "running"]
           D == [d \in Desc |-> [desc[d] EXCEPT !.refs = @ + Cardinality(F(d))]]
<1>1. fdTable \in Tables /\ \A fd \in Fd : fdTable[child][fd] = NoDesc
  BY DescriptorsBefore DEF CloneTable
<1>2. /\ T \in Tables
      /\ \A d \in Desc : /\ Cardinality(F(d)) \in Nat
                         /\ Cardinality(Naming(T, d))
                               = Cardinality(Naming(fdTable, d)) + Cardinality(F(d))
  <2>1. T \in Tables
    BY <1>1 DEF Copied, Tables
  <2>2. ASSUME NEW d \in Desc
        PROVE  /\ Cardinality(F(d)) \in Nat
               /\ Cardinality(Naming(T, d))
                     = Cardinality(Naming(fdTable, d)) + Cardinality(F(d))
    BY ONLY <1>1, p \in FdProcess, child \in FdProcess, d \in Desc, TableCopied, Zenon
  <2> QED BY <2>1, <2>2
<1>3. A \in [FdProcess -> {"none", "running", "exiting"}]
  BY DescriptorsBefore
<1>4. ASSUME NEW d \in Desc, desc[d].refs = 0
      PROVE  Cardinality(F(d)) = 0
  <2>1. F(d) = {}
    BY <1>4, NamedHasRefs, FilesAreFinite DEF FdsOf
  <2> QED BY <2>1, FS_EmptySet
<1>5. D \in [Desc -> Description]
  BY <1>2, DescriptorsBefore DEF Description
<1>6. \A d \in Desc : /\ D[d].refs = desc[d].refs + Cardinality(F(d))
                      /\ D[d].pipe = desc[d].pipe /\ D[d].flags = desc[d].flags
                      /\ D[d].type = desc[d].type
  BY <1>2, DescriptorsBefore DEF Description
<1>7. \A q \in FdProcess, g \in Fd : A[q] = "none" => T[q][g] = NoDesc
  BY DescriptorsBefore DEF Tables, Copied
<1>8. ASSUME NEW d \in Desc, desc[d].refs = 0
      PROVE  D[d] = NoFile
  <2>1. desc[d] = NoFile
    BY <1>8, DescriptorsBefore DEF DescsAreSound
  <2>2. Cardinality(F(d)) = 0
    BY <1>4, <1>8
  <2> QED BY <2>1, <2>2 DEF NoFile
<1>9. fdTable' = T /\ fdAlive' = A /\ desc' = D
  BY DEF CloneTable, Copied, FdsOf
<1> DEFINE c == [d \in Desc |-> Cardinality(F(d))]
<1>10. \A d \in Desc : c[d] = Cardinality(F(d)) /\ c[d] \in Nat /\ desc[d].refs \in Nat
  BY <1>2, DescriptorsBefore DEF Description
<1> HIDE DEF T, A, D, F, c
<1>11. ASSUME NEW d \in Desc
       PROVE  Refs(T, D, lost, d)
  <2>1. Refs(fdTable, desc, lost, d) /\ Cardinality(Naming(fdTable, d)) \in Nat
    BY DescriptorsBefore
  <2>2. Cardinality(Naming(T, d)) = Cardinality(Naming(fdTable, d)) + c[d] /\ c[d] \in Int
    BY <1>2, <1>10
  <2>3. D[d].refs = desc[d].refs + c[d]
    BY <1>6, <1>10
  <2> QED BY <2>1, <2>2, <2>3, RefsFollow
<1>12. DescsAreSound(D, made)
  <2>1. ASSUME NEW d \in Desc
        PROVE  /\ D[d].refs = 0 => D[d] = NoFile
               /\ d > made => D[d].refs = 0
               /\ D[d].pipe # NoDesc => D[d].pipe <= made
               /\ D[d].type = "pipe" <=> D[d].pipe # NoDesc
    <3>1. /\ d > made => desc[d].refs = 0
          /\ desc[d].pipe # NoDesc => desc[d].pipe <= made
          /\ desc[d].type = "pipe" <=> desc[d].pipe # NoDesc
      BY DescriptorsBefore DEF DescsAreSound
    <3>2. D[d].refs = desc[d].refs + c[d] /\ c[d] \in Nat /\ desc[d].refs \in Nat
      BY <1>6, <1>10
    <3>3. desc[d].refs = 0 => c[d] = 0 /\ D[d] = NoFile
      BY <1>4, <1>8, <1>10
    <3>4. D[d].refs = 0 <=> desc[d].refs = 0
      <4> DEFINE r == desc[d].refs
                 s == D[d].refs
                 k == c[d]
      <4>1. s = r + k /\ k \in Nat /\ r \in Nat /\ (r = 0 => k = 0)
        BY <3>2, <3>3
      <4> HIDE DEF r, s, k
      <4>2. s = 0 <=> r = 0
        BY <4>1
      <4> QED BY <4>2 DEF r, s
    <3>5. D[d].pipe = desc[d].pipe /\ D[d].type = desc[d].type
      BY <1>6
    <3> QED BY ONLY <3>1, <3>3, <3>4, <3>5
  <2> QED BY <2>1 DEF DescsAreSound
<1>13. ~setfl => EndsCounted(pipeReaders, D, "r") /\ EndsCounted(pipeWriters, D, "w")
  BY <1>6, EndsUntouched, DescriptorsBefore
<1>14. /\ made \in 0..MaxDesc /\ lost \subseteq 1..made /\ setfl \in BOOLEAN
       /\ pipeReaders \in [Desc -> Int] /\ pipeWriters \in [Desc -> Int]
       /\ made' = made /\ lost' = lost /\ setfl' = setfl /\ fdStopped' = fdStopped
       /\ pipeReaders' = pipeReaders /\ pipeWriters' = pipeWriters
  BY DescriptorsBefore DEF CloneTable
<1> QED BY ONLY DescriptorsInv, <1>2, <1>3, <1>5, <1>7, <1>9, <1>11, <1>12, <1>13, <1>14,
                DescriptorsStep

(* Two free entries are two.                                               *)
LEMMA TwoFreeFds ==
    ASSUME NEW p \in FdProcess, ~(Cardinality(FreeFds(p)) < 2)
    PROVE  LET rfd == Min(FreeFds(p))
               wfd == Min(FreeFds(p) \ {rfd})
           IN  /\ rfd \in Fd /\ wfd \in Fd /\ rfd # wfd
               /\ fdTable[p][rfd] = NoDesc /\ fdTable[p][wfd] = NoDesc
<1> DEFINE S == FreeFds(p)
           r == Min(S)
<1>1. S \in SUBSET Fd
  BY DEF FreeFds
<1>2. IsFiniteSet(S) /\ Cardinality(S) \in Nat
  BY <1>1, FilesAreFinite, FS_Subset, FS_CardinalityType
<1>3. S # {} /\ S # {r}
  BY <1>2, FS_EmptySet, FS_Singleton
<1>4. r \in S
  BY <1>1, <1>3, SmallestFd
<1>5. S \ {r} # {} /\ S \ {r} \in SUBSET Fd
  BY <1>1, <1>3, <1>4
<1>6. Min(S \ {r}) \in S \ {r}
  BY <1>5, SmallestFd
<1> QED BY <1>1, <1>4, <1>6 DEF FreeFds

(* pipe(): two descriptions, each with one entry and one end.              *)
LEMMA SysPipeStep ==
    ASSUME DescriptorsInv, NEW p \in FdProcess, SysPipe(p)
    PROVE  DescriptorsInv'
<1>1. CASE Cardinality(FreeFds(p)) < 2
  <2>1. UNCHANGED descVars
    BY <1>1 DEF SysPipe, descVars
  <2> QED BY <2>1, DescriptorsStutter DEF descVars, DescriptorsInv, DescriptorsTypeOK,
                                          DeadIsEmpty
<1>2. CASE ~(Cardinality(FreeFds(p)) < 2)
  <2> DEFINE r == made + 1
             w == made + 2
             rfd == Min(FreeFds(p))
             wfd == Min(FreeFds(p) \ {rfd})
             RE == [refs |-> 1, type |-> "pipe", flags |-> {"r"}, pipe |-> r]
             WE == [refs |-> 1, type |-> "pipe", flags |-> {"w"}, pipe |-> r]
             D == [desc EXCEPT ![r] = RE, ![w] = WE]
             T1 == Written(fdTable, p, rfd, r)
             T == Written(T1, p, wfd, w)
             R == [pipeReaders EXCEPT ![r] = 1]
             W == [pipeWriters EXCEPT ![r] = 1]
  <2>1. /\ r \in Desc /\ w \in Desc /\ r > made /\ w > made /\ r # w /\ made \in Nat
        /\ w \in 0..MaxDesc /\ fdAlive[p] = "running" /\ r < w
    BY DescriptorsBefore, DescriptorsAssumption DEF SysPipe, Desc, FdRuns
  <2>2. /\ rfd \in Fd /\ wfd \in Fd /\ rfd # wfd
        /\ fdTable[p][rfd] = NoDesc /\ fdTable[p][wfd] = NoDesc
    BY <1>2, TwoFreeFds
  <2>3. /\ fdTable' = T /\ fdAlive' = fdAlive /\ desc' = D /\ made' = w /\ lost' = lost
        /\ setfl' = setfl /\ pipeReaders' = R /\ pipeWriters' = W /\ fdStopped' = fdStopped
    <3>1. fdTable' = [fdTable EXCEPT ![p][rfd] = r, ![p][wfd] = w]
      BY <1>2 DEF SysPipe
    <3>2. fdTable' = T
      BY <3>1 DEF Written
    <3> QED BY <1>2, <3>2 DEF SysPipe
  <2>4. \A n \in {r, w} : /\ desc[n] = NoFile /\ Cardinality(Naming(fdTable, n)) = 0
                          /\ n \notin lost /\ \A d \in Desc : desc[d].pipe # n
    BY <2>1, FreshDesc
  <2>5. RE \in Description /\ WE \in Description
    BY <2>1 DEF Description
  <2>6. /\ D \in [Desc -> Description] /\ D[r] = RE /\ D[w] = WE
        /\ \A x \in Desc : x # r /\ x # w => D[x] = desc[x]
    BY <2>1, <2>5, DescriptorsBefore
  <2>7. R \in [Desc -> Int] /\ W \in [Desc -> Int]
    <3>1. pipeReaders \in [Desc -> Int] /\ pipeWriters \in [Desc -> Int]
      BY DescriptorsBefore
    <3>2. ASSUME NEW C \in [Desc -> Int], NEW x, NEW y \in Int
          PROVE  [C EXCEPT ![x] = y] \in [Desc -> Int]
      OBVIOUS
    <3>3. 1 \in Int
      OBVIOUS
    <3> QED BY ONLY <3>1, <3>2, <3>3
  <2>8. \A f \in Desc : /\ R[f] = IF f = r THEN 1 ELSE pipeReaders[f]
                        /\ W[f] = IF f = r THEN 1 ELSE pipeWriters[f]
    BY DescriptorsBefore
  <2>9. fdTable \in Tables /\ r \in Desc \cup {NoDesc} /\ w \in Desc \cup {NoDesc}
    BY <2>1, DescriptorsBefore
  <2> HIDE DEF r, w, rfd, wfd, D, R, W
  <2>10. /\ T1 \in Tables
         /\ \A q \in FdProcess, g \in Fd :
               T1[q][g] = IF q = p /\ g = rfd THEN r ELSE fdTable[q][g]
         /\ \A x \in Desc : Cardinality(Naming(T1, x)) = Cardinality(Naming(fdTable, x))
                - (IF fdTable[p][rfd] = x THEN 1 ELSE 0) + (IF r = x THEN 1 ELSE 0)
    BY ONLY <2>2, <2>9, p \in FdProcess, EntryWritten
  <2> HIDE DEF T1
  <2>11. /\ T \in Tables
         /\ \A q \in FdProcess, g \in Fd :
               T[q][g] = IF q = p /\ g = wfd THEN w ELSE T1[q][g]
         /\ \A x \in Desc : Cardinality(Naming(T, x)) = Cardinality(Naming(T1, x))
                - (IF T1[p][wfd] = x THEN 1 ELSE 0) + (IF w = x THEN 1 ELSE 0)
    BY ONLY <2>2, <2>9, <2>10, p \in FdProcess, EntryWritten
  <2> HIDE DEF T
  <2>12. T1[p][wfd] = NoDesc
    BY <2>2, <2>10
  <2>13. ASSUME NEW x \in Desc
         PROVE  Refs(T, D, lost, x)
    <3>1. Refs(fdTable, desc, lost, x) /\ Cardinality(Naming(fdTable, x)) \in Nat /\ NoDesc # x
      BY DescriptorsBefore, FilesAreFinite
    <3>2. CASE x = r \/ x = w
      <4>1. Cardinality(Naming(T, x)) = 1
        BY <3>1, <3>2, <2>1, <2>2, <2>4, <2>10, <2>11, <2>12
      <4> QED BY <3>2, <4>1, <2>4, <2>6 DEF Refs
    <3>3. CASE x # r /\ x # w
      <4>1. Cardinality(Naming(T, x)) = Cardinality(Naming(fdTable, x))
        BY <3>1, <3>3, <2>2, <2>10, <2>11, <2>12
      <4> QED BY <3>1, <3>3, <4>1, <2>6 DEF Refs
    <3> QED BY <3>2, <3>3
  <2>14. DescsAreSound(D, w)
    <3>1. ASSUME NEW x \in Desc
          PROVE  /\ D[x].refs = 0 => D[x] = NoFile
                 /\ x > w => D[x].refs = 0
                 /\ D[x].pipe # NoDesc => D[x].pipe <= w
                 /\ D[x].type = "pipe" <=> D[x].pipe # NoDesc
      <4>1. CASE x = r \/ x = w
        BY <4>1, <2>1, <2>6, FilesAreFinite DEF Desc
      <4>2. CASE x # r /\ x # w
        <5>1. /\ desc[x].refs = 0 => desc[x] = NoFile
              /\ x > made => desc[x].refs = 0
              /\ desc[x].pipe # NoDesc => desc[x].pipe <= made
              /\ desc[x].type = "pipe" <=> desc[x].pipe # NoDesc
          BY DescriptorsBefore DEF DescsAreSound
        <5>2. x > w => x > made
          BY <2>1 DEF Desc
        <5>3. ASSUME desc[x].pipe # NoDesc
              PROVE  desc[x].pipe <= w
          <6>1. desc[x].pipe \in Nat /\ desc[x].pipe <= made
            BY <5>1, <5>3, DescriptorsBefore, FilesAreFinite DEF Description
          <6> QED BY <6>1, <2>1 DEF Desc
        <5> QED BY <4>2, <5>1, <5>2, <5>3, <2>6
      <4> QED BY <4>1, <4>2
    <3> QED BY <3>1 DEF DescsAreSound
  <2>15. ASSUME ~setfl
         PROVE  EndsCounted(R, D, "r") /\ EndsCounted(W, D, "w")
    <3>1. ASSUME NEW f \in Desc, f # r, NEW m
          PROVE  Ends(D, f, m) = Ends(desc, f, m)
      <4>1. \A x \in Desc : x = r \/ x = w => D[x].pipe # f /\ desc[x].pipe # f
        BY <3>1, <2>4, <2>6, FilesAreFinite DEF NoFile
      <4> QED BY <4>1, <2>6 DEF Ends
    <3>2. Ends(D, r, "r") = {r} /\ Ends(D, r, "w") = {w}
      <4>1. \A x \in Desc : (D[x].pipe = r /\ "r" \in D[x].flags) <=> x = r
        BY <2>1, <2>4, <2>6
      <4>2. \A x \in Desc : (D[x].pipe = r /\ "w" \in D[x].flags) <=> x = w
        BY <2>1, <2>4, <2>6
      <4> QED BY ONLY <2>1, <4>1, <4>2 DEF Ends
    <3>3. Cardinality({r}) = 1 /\ Cardinality({w}) = 1
      BY FS_Singleton
    <3>4. EndsCounted(pipeReaders, desc, "r") /\ EndsCounted(pipeWriters, desc, "w")
      BY <2>15, DescriptorsBefore
    <3> QED BY <3>1, <3>2, <3>3, <3>4, <2>7, <2>8 DEF EndsCounted
  <2>16. \A q \in FdProcess, g \in Fd : fdAlive[q] = "none" => T[q][g] = NoDesc
    BY <2>1, <2>10, <2>11, DescriptorsBefore
  <2>17. /\ fdAlive \in [FdProcess -> {"none", "running", "exiting"}] /\ setfl \in BOOLEAN
         /\ lost \subseteq 1..w /\ w \in 0..MaxDesc
    BY <2>1, DescriptorsBefore DEF Desc
  <2>18. /\ T \in Tables /\ D \in [Desc -> Description]
         /\ \A x \in Desc : Refs(T, D, lost, x)
    BY <2>6, <2>11, <2>13
  <2>19. ~setfl => EndsCounted(R, D, "r") /\ EndsCounted(W, D, "w")
    BY <2>15
  <2> QED BY ONLY DescriptorsInv, <2>3, <2>7, <2>14, <2>16, <2>17, <2>18, <2>19,
                  DescriptorsStep
<1> QED BY <1>1, <1>2

-----------------------------------------------------------------------------
(* Descriptors: the theorem.                                               *)

(* A process has an empty table at the beginning.                          *)
LEMMA DescriptorsInvInit == DescriptorsInit => DescriptorsInv
<1> SUFFICES ASSUME DescriptorsInit PROVE DescriptorsInv
  OBVIOUS
<1>1. DescriptorsTypeOK
  <2>1. NoFile \in Description /\ NewTable \in [Fd -> Desc \cup {NoDesc}]
    BY DEF NewTable, NoFile, Description
  <2>2. made \in 0..MaxDesc /\ lost \subseteq 1..made
    BY DescriptorsAssumption DEF DescriptorsInit
  <2>3. fdTable \in [FdProcess -> [Fd -> Desc \cup {NoDesc}]] /\ desc \in [Desc -> Description]
    BY <2>1 DEF DescriptorsInit
  <2>4. fdAlive \in [FdProcess -> {"none", "running", "exiting"}]
    BY DEF DescriptorsInit
  <2>5. pipeReaders \in [Desc -> Int] /\ pipeWriters \in [Desc -> Int]
    BY DEF DescriptorsInit
  <2> QED BY <2>2, <2>3, <2>4, <2>5 DEF DescriptorsInit, DescriptorsTypeOK
<1>2. \A d \in Desc : Naming(fdTable, d) = {} /\ desc[d] = NoFile
  BY FilesAreFinite DEF DescriptorsInit, Naming, NewTable
<1>3. \A f \in Desc : Ends(desc, f, "r") = {} /\ Ends(desc, f, "w") = {}
  <2>1. \A d \in Desc : desc[d].flags = {}
    BY <1>2 DEF NoFile
  <2> QED BY ONLY <2>1 DEF Ends
<1>4. DescriptorsAreCounted
  <2>1. Cardinality({}) = 0
    BY FS_EmptySet
  <2>2. RefsAreEntries
    <3>1. \A d \in Desc : desc[d].refs = 0 /\ d \notin lost
      BY <1>2 DEF NoFile, DescriptorsInit
    <3> QED BY <2>1, <1>2, <3>1 DEF RefsAreEntries
  <2>3. PipeEndsAreCounted
    BY <2>1, <1>3 DEF PipeEndsAreCounted, DescriptorsInit
  <2> QED BY <2>2, <2>3 DEF DescriptorsAreCounted
<1>5. DescsAreSound(desc, made) /\ DeadIsEmpty
  BY <1>2 DEF DescsAreSound, DeadIsEmpty, DescriptorsInit, NewTable, NoFile
<1> QED BY <1>1, <1>4, <1>5 DEF DescriptorsInv

(* A panic changes nothing but that.                                       *)
LEMMA PanicStep ==
    ASSUME DescriptorsInv, NEW why \in {"pipe_flags", "dup2_self"}, FdPanic(why)
    PROVE  DescriptorsInv'
BY DescriptorsStutter DEF FdPanic, DescriptorsInv, DescriptorsTypeOK, DeadIsEmpty

(* One step per call.                                                      *)
LEMMA DescriptorsInvNext ==
    ASSUME DescriptorsInv, [DescriptorsNext]_descVars
    PROVE  DescriptorsInv'
<1>1. ASSUME NEW p \in FdProcess, SysClose(p)
      PROVE  DescriptorsInv'
  <2>1. PICK fd \in Fd \ FreeFds(p) :
          IF CloseAsserts(fdTable[p][fd]) THEN FdPanic("pipe_flags")
          ELSE /\ DescClose(fdTable[p][fd])
               /\ fdTable' = [fdTable EXCEPT ![p][fd] = NoDesc]
               /\ UNCHANGED <<fdAlive, made, lost, setfl, fdStopped>>
    BY <1>1 DEF SysClose
  <2>2. fd \in Fd /\ fdTable[p][fd] # NoDesc
    BY DEF FreeFds
  <2> QED BY <2>1, <2>2, EntryClosed, PanicStep
<1>2. ASSUME NEW p \in FdProcess, FcntlDupFd(p)
      PROVE  DescriptorsInv'
  <2>1. PICK fd \in Fd \ FreeFds(p) :
          /\ fdTable' = Entered(p, -1, fdTable[p][fd])
          /\ desc' = IF AllocFd(p, -1) = NoFd THEN desc
                     ELSE [desc EXCEPT ![fdTable[p][fd]].refs = @ + 1]
    BY <1>2 DEF FcntlDupFd
  <2>2. fd \in Fd /\ fdTable[p][fd] # NoDesc /\ fdAlive[p] # "none" /\ -1 \in Int
    BY <1>2 DEF FreeFds, FcntlDupFd, FdRuns
  <2>3. UNCHANGED <<fdAlive, made, lost, setfl, pipeReaders, pipeWriters, fdStopped>>
    BY <1>2 DEF FcntlDupFd
  <2> QED BY <2>1, <2>2, <2>3, EntryAdded
<1>3. ASSUME NEW p \in FdProcess, FcntlSetFl(p)
      PROVE  DescriptorsInv'
  <2>1. PICK fd \in Fd \ FreeFds(p), fl \in {{}, {"r"}, {"r", "w"}} :
          desc' = [desc EXCEPT ![fdTable[p][fd]].flags = fl]
    BY <1>3 DEF FcntlSetFl
  <2>2. fdTable[p][fd] \in Desc /\ desc[fdTable[p][fd]].refs \in Nat \ {0}
    BY NamedHasRefs DEF FreeFds
  <2> QED BY <1>3, <2>1, <2>2, FlagsSet DEF FcntlSetFl
<1>4. ASSUME NEW p \in FdProcess, SysDup2(p)
      PROVE  DescriptorsInv'
  <2>1. PICK old \in Fd \ FreeFds(p), new \in -1..OPEN_MAX :
         LET d == fdTable[p][old]
             victim == IF new \in Fd THEN fdTable[p][new] ELSE NoDesc
         IN  \/ /\ victim = NoDesc
                /\ fdTable' = Entered(p, new, d)
                /\ desc' = IF AllocFd(p, new) = NoFd THEN desc
                           ELSE [desc EXCEPT ![d].refs = @ + 1]
                /\ UNCHANGED <<fdAlive, made, lost, setfl, pipeReaders,
                               pipeWriters, fdStopped>>
             \/ FdPanic("pipe_flags")
             \/ FdPanic("dup2_self")
             \/ /\ victim # NoDesc
                /\ victim = d => desc[d].refs > 1
                /\ fdTable' = [fdTable EXCEPT ![p][new] = d]
                /\ desc' = [[desc EXCEPT ![victim] = DescUnref(@)] EXCEPT ![d].refs = @ + 1]
                /\ pipeReaders' = FifoClose(pipeReaders, victim, "r")
                /\ pipeWriters' = FifoClose(pipeWriters, victim, "w")
                /\ UNCHANGED <<fdAlive, made, lost, setfl, fdStopped>>
    BY <1>4, Zenon DEF SysDup2
  <2> DEFINE d == fdTable[p][old]
             victim == IF new \in Fd THEN fdTable[p][new] ELSE NoDesc
  <2>2. old \in Fd /\ d # NoDesc /\ fdAlive[p] # "none" /\ new \in Int
    BY <1>4, DescriptorsAssumption DEF FreeFds, SysDup2, FdRuns
  <2>3. CASE /\ victim = NoDesc
             /\ fdTable' = Entered(p, new, d)
             /\ desc' = IF AllocFd(p, new) = NoFd THEN desc
                        ELSE [desc EXCEPT ![d].refs = @ + 1]
             /\ UNCHANGED <<fdAlive, made, lost, setfl, pipeReaders, pipeWriters, fdStopped>>
    BY <2>2, <2>3, EntryAdded
  <2>4. CASE FdPanic("pipe_flags") \/ FdPanic("dup2_self")
    BY <2>4, PanicStep
  <2>5. CASE /\ victim # NoDesc
             /\ victim = d => desc[d].refs > 1
             /\ fdTable' = [fdTable EXCEPT ![p][new] = d]
             /\ desc' = [[desc EXCEPT ![victim] = DescUnref(@)] EXCEPT ![d].refs = @ + 1]
             /\ pipeReaders' = FifoClose(pipeReaders, victim, "r")
             /\ pipeWriters' = FifoClose(pipeWriters, victim, "w")
             /\ UNCHANGED <<fdAlive, made, lost, setfl, fdStopped>>
    <3>1. new \in Fd /\ victim = fdTable[p][new]
      BY <2>5
    <3>2. CASE victim # d
      BY ONLY DescriptorsInv, p \in FdProcess, <2>2, <2>5, <3>1, <3>2, EntryReplaced
    <3>3. CASE victim = d
      BY ONLY DescriptorsInv, p \in FdProcess, <2>2, <2>5, <3>1, <3>3, EntryReplacedBySame
    <3> QED BY <3>2, <3>3
  <2> HIDE DEF d, victim
  <2> QED BY <2>1, <2>3, <2>4, <2>5, Zenon DEF d, victim
<1>5. ASSUME NEW p \in FdProcess, BeginExit(p)
      PROVE  DescriptorsInv'
  <2>1. fdAlive' \in [FdProcess -> {"none", "running", "exiting"}]
        /\ \A q \in FdProcess : fdAlive'[q] = "none" => fdAlive[q] = "none"
    BY <1>5, DescriptorsBefore DEF BeginExit
  <2> QED BY <1>5, <2>1, DescriptorsStutter DEF BeginExit, DescriptorsInv, DescriptorsTypeOK,
                                               DeadIsEmpty
<1>6. ASSUME NEW p \in FdProcess, DestroyTable(p)
      PROVE  DescriptorsInv'
  <2>1. CASE FreeFds(p) = Fd
    <3>1. /\ fdAlive' = [fdAlive EXCEPT ![p] = "none"]
          /\ UNCHANGED <<fdTable, desc, made, lost, setfl, pipeReaders, pipeWriters, fdStopped>>
      BY <1>6, <2>1 DEF DestroyTable
    <3>2. \A fd \in Fd : fdTable[p][fd] = NoDesc
      BY <2>1 DEF FreeFds
    <3>3. fdAlive' \in [FdProcess -> {"none", "running", "exiting"}]
          /\ \A q \in FdProcess : fdAlive'[q] = "none" =>
                 \A fd \in Fd : fdTable[q][fd] = NoDesc
      BY <3>1, <3>2, DescriptorsBefore
    <3> QED BY <3>1, <3>3, DescriptorsStutter DEF DescriptorsInv, DescriptorsTypeOK
  <2>2. CASE FreeFds(p) # Fd
    <3> DEFINE fd == Min(Fd \ FreeFds(p))
    <3>1. fd \in Fd \ FreeFds(p)
      <4>1. Fd \ FreeFds(p) # {} /\ Fd \ FreeFds(p) \in SUBSET Fd
        BY <2>2 DEF FreeFds
      <4> QED BY <4>1, SmallestFd
    <3>2. fd \in Fd /\ fdTable[p][fd] # NoDesc
      BY <3>1 DEF FreeFds
    <3>3. \/ FdPanic("pipe_flags")
          \/ /\ DescClose(fdTable[p][fd])
             /\ fdTable' = [fdTable EXCEPT ![p][fd] = NoDesc]
             /\ UNCHANGED <<fdAlive, made, lost, setfl, fdStopped>>
      BY <1>6, <2>2 DEF DestroyTable
    <3> HIDE DEF fd
    <3> QED BY <3>2, <3>3, EntryClosed, PanicStep
  <2> QED BY <2>1, <2>2
<1>7. CASE UNCHANGED descVars
  BY <1>7, DescriptorsStutter DEF descVars, DescriptorsInv, DescriptorsTypeOK, DeadIsEmpty
<1> QED BY <1>1, <1>2, <1>3, <1>4, <1>5, <1>6, <1>7, SysOpenStep, SysPipeStep,
           CloneTableStep DEF DescriptorsNext

(* A description's ref_count is the number of table entries that name it,  *)
(* and a pipe's num_readers and num_writers the numbers of its open ends,  *)
(* whatever the processes open, dup, inherit and close.                    *)
THEOREM DescriptionsAreCounted == DescriptorsSpec => []DescriptorsAreCounted
<1>1. DescriptorsInit => DescriptorsInv
  BY DescriptorsInvInit
<1>2. DescriptorsInv /\ [DescriptorsNext]_descVars => DescriptorsInv'
  BY DescriptorsInvNext
<1>3. DescriptorsInv => DescriptorsAreCounted
  BY DEF DescriptorsInv
<1> QED BY <1>1, <1>2, <1>3, PTL DEF DescriptorsSpec
=============================================================================
