----------------------------- MODULE UnitProofs -----------------------------
(***************************************************************************)
(* Proofs about the installation of unit files, the loading of units and   *)
(* mount units, for the whole of them (MSpec).                             *)
(*                                                                         *)
(* BaseInv is what every result rests on: the types, the links, and UInv,  *)
(* which ties the calls of dispatch_load_queue to the manager's queues,    *)
(* the records to the manager, and the last unit and frames to the calls.  *)
(* Each result adds its own part: HeldInv, MountsInv with MonInv, and      *)
(* OrderInv.                                                               *)
(***************************************************************************)
EXTENDS Mount, Induction, FiniteSetTheorems, SequenceTheorems

-----------------------------------------------------------------------------
(* Links and the files they lead to. *)

Found == {n \in Name : File[n] # NoFile}

CanonAt(k, g) ==
  [d \in Dest |->
     IF d[1] = "lib" THEN IF File[d[2]] # NoFile THEN d[2] ELSE NoFile
     ELSE IF d[1] = "null" \/ k = 0 \/ TopLinks(d[2]) = {} THEN NoFile
     ELSE g[(CHOOSE l \in TopLinks(d[2]) : TRUE).to]]

LEMMA DestType ==
  ASSUME NEW d \in Dest
  PROVE  /\ d[1] \in {"lib", "etc", "null"}
         /\ d[1] # "null" => d[2] \in Name
         /\ d[1] = "lib" => d = <<"lib", d[2]>>
         /\ d[1] = "etc" => d = <<"etc", d[2]>>
  BY DEF Dest

LEMMA TopLinkType ==
  ASSUME links \subseteq Link, NEW n, TopLinks(n) # {}
  PROVE  /\ (CHOOSE l \in TopLinks(n) : TRUE) \in links
         /\ (CHOOSE l \in TopLinks(n) : TRUE).to \in Dest
  <1>1. (CHOOSE l \in TopLinks(n) : TRUE) \in TopLinks(n)
    OBVIOUS
  <1>2. QED
    BY <1>1 DEF TopLinks, Link

LEMMA CanonAtType ==
  ASSUME links \subseteq Link, NEW k, NEW g \in [Dest -> Found \cup {NoFile}]
  PROVE  CanonAt(k, g) \in [Dest -> Found \cup {NoFile}]
  BY DestType, TopLinkType DEF CanonAt, Found

LEMMA CanonDef ==
  ASSUME links \subseteq Link
  PROVE  /\ Canon \in [Nat -> [Dest -> Found \cup {NoFile}]]
         /\ \A k \in Nat : Canon[k] = CanonAt(k, Canon[k - 1])
  <1> DEFINE T == [Dest -> Found \cup {NoFile}]
             g0 == [d \in Dest |-> NoFile]
             base == CanonAt(0, g0)
             step == [n \in Nat |-> [g \in T |-> CanonAt(n, g)]]
  <1>1. base \in T /\ step \in Steps(T)
    BY CanonAtType DEF Steps
  <1>2. PICK f : Iterates(f, T, base, step)
    <2> HIDE DEF T, base, step
    <2>1. QED
      BY <1>1, Recursion
  <1>3. ASSUME NEW k \in Nat
        PROVE  f[k] = CanonAt(k, f[k - 1])
    <2>1. CASE k = 0
      <3>1. CanonAt(0, g0) = CanonAt(0, f[0 - 1])
        BY DEF CanonAt
      <3>2. QED
        BY <1>2, <2>1, <3>1 DEF Iterates
    <2>2. CASE k # 0
      <3>1. k - 1 \in Nat /\ (k - 1) + 1 = k
        BY <2>2
      <3>2. f[(k - 1) + 1] = step[(k - 1) + 1][f[k - 1]]
        BY <1>2, <3>1 DEF Iterates
      <3>3. f[k - 1] \in T
        BY <1>2, <3>1 DEF Iterates
      <3> HIDE DEF T
      <3>4. QED
        BY <3>1, <3>2, <3>3
    <2>3. QED
      BY <2>1, <2>2
  <1>4. f = [k \in Nat |-> CanonAt(k, f[k - 1])]
    <2>1. f = [k \in Nat |-> f[k]]
      BY <1>2 DEF Iterates
    <2> HIDE DEF T, base, step
    <2>2. QED
      BY <1>3, <2>1
  <1>5. Canon = [k \in Nat |-> CanonAt(k, Canon[k - 1])]
    <2> DEFINE D(c) == [k \in Nat |->
          [d \in Dest |->
             IF d[1] = "lib" THEN IF File[d[2]] # NoFile THEN d[2] ELSE NoFile
             ELSE IF d[1] = "null" \/ k = 0 \/ TopLinks(d[2]) = {} THEN NoFile
             ELSE c[k - 1][(CHOOSE l \in TopLinks(d[2]) : TRUE).to]]]
    <2>1. f = D(f)
      BY <1>4 DEF CanonAt
    <2>2. Canon = CHOOSE c : c = D(c)
      BY DEF Canon
    <2> HIDE DEF D
    <2>3. Canon = D(Canon)
      BY <2>1, <2>2
    <2>4. QED
      BY <2>3 DEF D, CanonAt
  <1>6. \A k \in Nat : Canon[k] = CanonAt(k, Canon[k - 1])
    BY <1>5
  <1> DEFINE P == {k \in Nat : Canon[k] \in T}
  <1>7. 0 \in P
    <2>1. CanonAt(0, g0) = CanonAt(0, Canon[0 - 1])
      BY DEF CanonAt
    <2>2. Canon[0] \in T
      BY <1>1, <1>6, <2>1
    <2>3. QED
      BY <2>2
  <1>8. ASSUME NEW k \in P
        PROVE  k + 1 \in P
    <2>1. k + 1 \in Nat /\ (k + 1) - 1 = k /\ Canon[k] \in T
      OBVIOUS
    <2>2. Canon[k + 1] = CanonAt(k + 1, Canon[k])
      BY <1>6, <2>1
    <2>3. QED
      BY <2>1, <2>2, CanonAtType
  <1>9. P = Nat
    BY <1>7, <1>8, NatSet
  <1>10. QED
    BY <1>5, <1>6, <1>9

\* A file is reached only by a link that points to it.
LEMMA CanonReaches ==
  ASSUME links \subseteq Link, NEW n \in Name, \A l \in links : l.to # <<"lib", n>>,
         NEW d \in Dest, d # <<"lib", n>>
  PROVE  canonicalize(d) # n
  <1> DEFINE P == {k \in Nat : \A c \in Dest : c # <<"lib", n>> => Canon[k][c] # n}
  <1>1. ASSUME NEW k \in Nat, k = 0 \/ \A c \in Dest : c # <<"lib", n>> => Canon[k - 1][c] # n,
               NEW c \in Dest, c # <<"lib", n>>
        PROVE  Canon[k][c] # n
    <2>1. Canon[k][c] = CanonAt(k, Canon[k - 1])[c]
      BY CanonDef
    <2>2. n # NoFile
      BY InstallAssumption
    <2>3. CASE c[1] = "lib"
      BY <1>1, <2>1, <2>2, <2>3, DestType DEF CanonAt
    <2>4. CASE c[1] # "lib" /\ (c[1] = "null" \/ k = 0 \/ TopLinks(c[2]) = {})
      BY <2>1, <2>2, <2>4 DEF CanonAt
    <2>5. CASE c[1] # "lib" /\ ~ (c[1] = "null" \/ k = 0 \/ TopLinks(c[2]) = {})
      <3> DEFINE l == CHOOSE l \in TopLinks(c[2]) : TRUE
      <3>1. l \in links /\ l.to \in Dest
        BY <2>5, TopLinkType
      <3>2. Canon[k][c] = Canon[k - 1][l.to]
        BY <2>1, <2>5 DEF CanonAt
      <3> HIDE DEF l
      <3>3. QED
        BY <1>1, <2>5, <3>1, <3>2
    <2>6. QED
      BY <2>3, <2>4, <2>5
  <1>2. 0 \in P
    BY <1>1
  <1>3. ASSUME NEW k \in P
        PROVE  k + 1 \in P
    <2>1. k + 1 \in Nat /\ (k + 1) - 1 = k
      OBVIOUS
    <2>2. QED
      BY <1>1, <2>1
  <1>4. P = Nat
    BY <1>2, <1>3, NatSet
  <1>5. Cardinality(Name) \in Nat
    BY InstallAssumption, FS_CardinalityType
  <1>6. QED
    BY <1>4, <1>5 DEF canonicalize

LEMMA CanonicalizeType ==
  ASSUME links \subseteq Link, NEW d \in Dest
  PROVE  canonicalize(d) \in Found \cup {NoFile}
  <1>1. Cardinality(Name) \in Nat
    BY InstallAssumption, FS_CardinalityType
  <1>2. QED
    BY <1>1, CanonDef DEF canonicalize

-----------------------------------------------------------------------------
(* What enabling and disabling does to the links. *)

LEMMA FilesType ==
  ASSUME links \subseteq Link, NEW n \in Name
  PROVE  /\ files(n) \subseteq Found /\ path(n) \in Dest
         /\ path(n) = <<"lib", n>> \/ path(n) = <<"etc", n>>
  <1>1. <<"etc", n>> \in Dest /\ <<"lib", n>> \in Dest
    BY DEF Dest
  <1>2. Etc(n) \in Found \cup {NoFile}
    BY <1>1, CanonicalizeType DEF Etc
  <1>3. files(n) \subseteq Found
    BY <1>2 DEF files, Found
  <1>4. path(n) \in Dest /\ (path(n) = <<"lib", n>> \/ path(n) = <<"etc", n>>)
    BY <1>1 DEF path
  <1>5. QED
    BY <1>3, <1>4

LEMMA SectionType ==
  ASSUME links \subseteq Link, NEW n \in Name, NEW field \in {"WantedBy", "RequiredBy", "Also", "Alias"}
  PROVE  section(n, field) \subseteq Name
  <1>1. ASSUME NEW f \in files(n)
        PROVE  File[f].install[field] \subseteq Name
    <2>1. File[f].install \in InstallSection
      BY FilesType, InstallAssumption DEF Found
    <2>2. QED
      BY <2>1 DEF InstallSection
  <1>2. QED
    BY <1>1 DEF section

ReachAt(k, g) ==
  [S \in SUBSET Name |-> LET T == also(S) IN IF k = 0 \/ T = S THEN S ELSE g[T]]

LEMMA ReachAtType ==
  ASSUME links \subseteq Link, NEW k, NEW g \in [SUBSET Name -> SUBSET Name]
  PROVE  ReachAt(k, g) \in [SUBSET Name -> SUBSET Name]
  <1>1. \A S \in SUBSET Name : also(S) \in SUBSET Name
    BY SectionType DEF also
  <1>2. QED
    BY <1>1 DEF ReachAt

\* unit_install_discover finds names.
LEMMA DiscoverType ==
  ASSUME links \subseteq Link, NEW n \in Name
  PROVE  unit_install_discover(n) \subseteq Name
  <1> DEFINE T == [SUBSET Name -> SUBSET Name]
             g0 == [S \in SUBSET Name |-> S]
             base == ReachAt(0, g0)
             step == [k \in Nat |-> [g \in T |-> ReachAt(k, g)]]
  <1>1. base \in T /\ step \in Steps(T)
    BY ReachAtType DEF Steps
  <1>2. PICK f : Iterates(f, T, base, step)
    <2> HIDE DEF T, base, step
    <2>1. QED
      BY <1>1, Recursion
  <1>3. ASSUME NEW k \in Nat
        PROVE  f[k] = ReachAt(k, f[k - 1])
    <2>1. CASE k = 0
      <3>1. ReachAt(0, g0) = ReachAt(0, f[0 - 1])
        BY DEF ReachAt
      <3>2. QED
        BY <1>2, <2>1, <3>1 DEF Iterates
    <2>2. CASE k # 0
      <3>1. k - 1 \in Nat /\ (k - 1) + 1 = k
        BY <2>2
      <3>2. f[(k - 1) + 1] = step[(k - 1) + 1][f[k - 1]]
        BY <1>2, <3>1 DEF Iterates
      <3>3. f[k - 1] \in T
        BY <1>2, <3>1 DEF Iterates
      <3> HIDE DEF T
      <3>4. QED
        BY <3>1, <3>2, <3>3
    <2>3. QED
      BY <2>1, <2>2
  <1>4. f = [k \in Nat |-> ReachAt(k, f[k - 1])]
    <2>1. f = [k \in Nat |-> f[k]]
      BY <1>2 DEF Iterates
    <2> HIDE DEF T, base, step
    <2>2. QED
      BY <1>3, <2>1
  <1>5. Reach = [k \in Nat |-> ReachAt(k, Reach[k - 1])]
    <2> DEFINE D(r) == [k \in Nat |->
          [S \in SUBSET Name |-> LET X == also(S) IN IF k = 0 \/ X = S THEN S ELSE r[k - 1][X]]]
    <2>1. f = D(f)
      BY <1>4 DEF ReachAt
    <2>2. Reach = CHOOSE r : r = D(r)
      BY DEF Reach
    <2> HIDE DEF D
    <2>3. Reach = D(Reach)
      BY <2>1, <2>2
    <2>4. QED
      BY <2>3 DEF D, ReachAt
  <1> DEFINE P == {k \in Nat : Reach[k] \in T}
  <1>6. \A k \in Nat : Reach[k] = ReachAt(k, Reach[k - 1])
    BY <1>5
  <1>7. 0 \in P
    <2>1. ReachAt(0, g0) = ReachAt(0, Reach[0 - 1])
      BY DEF ReachAt
    <2>2. Reach[0] \in T
      BY <1>1, <1>6, <2>1
    <2>3. QED
      BY <2>2
  <1>8. ASSUME NEW k \in P
        PROVE  k + 1 \in P
    <2>1. k + 1 \in Nat /\ (k + 1) - 1 = k /\ Reach[k] \in T
      OBVIOUS
    <2>2. Reach[k + 1] = ReachAt(k + 1, Reach[k])
      BY <1>6, <2>1
    <2>3. ReachAt(k + 1, Reach[k]) \in T
      BY <2>1, ReachAtType
    <2> HIDE DEF T
    <2>4. QED
      BY <2>1, <2>2, <2>3
  <1>9. P = Nat
    BY <1>7, <1>8, NatSet
  <1>10. Cardinality(Name) \in Nat
    BY InstallAssumption, FS_CardinalityType
  <1>11. QED
    BY <1>9, <1>10 DEF unit_install_discover

\* The new links lead to the units that are enabled.
LEMMA EnableLinks ==
  ASSUME links \subseteq Link, NEW S \in SUBSET Name, NEW L \in apply_enable(S)
  PROVE  /\ L \subseteq Link
         /\ \A l \in L : l \in links \/ \E n \in S : l.to = <<"lib", n>> \/ l.to = <<"etc", n>>
  <1>1. ASSUME NEW n \in S, NEW l \in install_symlinks(n)
        PROVE  l \in Link /\ (l.to = <<"lib", n>> \/ l.to = <<"etc", n>>)
    BY FilesType, SectionType DEF install_symlinks, Link, Dir
  <1>2. QED
    BY <1>1 DEF apply_enable

LEMMA PresetType ==
  ASSUME links \subseteq Link, NEW S \in preset_all
  PROVE  S \subseteq Name
  BY DiscoverType DEF preset_all

-----------------------------------------------------------------------------
(* No link leads to the file of a unit that is disabled. *)

LinkInv ==
  /\ ITypeOK
  /\ \A n \in disabled : \A l \in links : l.to # <<"lib", n>>

LEMMA Enabling ==
  ASSUME LinkInv, NEW S \in SUBSET Name, links' \in apply_enable(S), disabled' = disabled \ S
  PROVE  /\ links' \subseteq Link /\ disabled' \subseteq Name
         /\ \A n \in disabled' : \A l \in links' : l.to # <<"lib", n>>
  <1>1. links' \subseteq Link
    BY EnableLinks DEF LinkInv, ITypeOK
  <1>2. ASSUME NEW n \in disabled', NEW l \in links'
        PROVE  l.to # <<"lib", n>>
    <2>1. l \in links \/ \E x \in S : l.to = <<"lib", x>> \/ l.to = <<"etc", x>>
      BY EnableLinks DEF LinkInv, ITypeOK
    <2>2. QED
      BY <2>1 DEF LinkInv
  <1>3. QED
    BY <1>1, <1>2 DEF LinkInv, ITypeOK

LEMMA FileCommandLinks ==
  ASSUME LinkInv, FileCommand
  PROVE  LinkInv'
  <1>1. PICK n \in Asked : unit_enable_files(n) \/ unit_disable_files(n) \/ mask_unit(n) \/ unmask_unit(n)
    BY DEF FileCommand
  <1>2. n \in Name /\ unit_install_discover(n) \in SUBSET Name
    BY InstallAssumption, DiscoverType DEF LinkInv, ITypeOK
  <1>3. cmds' \in 0..MaxCmds
    BY <1>1, InstallAssumption DEF LinkInv, ITypeOK, Command,
       unit_enable_files, unit_disable_files, mask_unit, unmask_unit
  <1>4. CASE unit_enable_files(n)
    BY <1>2, <1>3, <1>4, Enabling DEF unit_enable_files, LinkInv, ITypeOK
  <1>5. CASE unit_disable_files(n)
    <2> DEFINE S == unit_install_discover(n)
    <2>1. links' = remove_symlinks(S) /\ disabled' = disabled \cup S
      BY <1>5 DEF unit_disable_files
    <2> HIDE DEF S
    <2>2. links' \subseteq links /\ \A l \in links' : ~ (l.to[1] # "null" /\ l.to[2] \in S)
      BY <2>1 DEF remove_symlinks
    <2>3. \A x \in S : \A l \in links' : l.to # <<"lib", x>>
      BY <2>2
    <2>4. S \subseteq Name
      BY <1>2 DEF S
    <2>5. QED
      BY <1>3, <2>1, <2>2, <2>3, <2>4 DEF LinkInv, ITypeOK
  <1>6. CASE mask_unit(n)
    <2>1. MaskLink(n) \in Link /\ \A x : MaskLink(n).to # <<"lib", x>>
      BY <1>2 DEF MaskLink, Link, Dir, Dest
    <2>2. QED
      BY <1>3, <1>6, <2>1 DEF mask_unit, LinkInv, ITypeOK
  <1>7. CASE unmask_unit(n)
    BY <1>3, <1>7 DEF unmask_unit, LinkInv, ITypeOK
  <1>8. QED
    BY <1>1, <1>4, <1>5, <1>6, <1>7

LEMMA PresetLinks ==
  ASSUME LinkInv, PresetAll, UNCHANGED cmds
  PROVE  LinkInv'
  <1>1. PICK S \in preset_all : links' \in apply_enable(S) /\ disabled' = disabled \ S
    BY DEF PresetAll
  <1>2. S \in SUBSET Name
    BY PresetType DEF LinkInv, ITypeOK
  <1>3. QED
    BY <1>1, <1>2, Enabling DEF LinkInv, ITypeOK

LEMMA LinkStep ==
  ASSUME LinkInv, [MNext]_allvars
  PROVE  LinkInv'
  <1>1. CASE UNCHANGED ivars
    BY <1>1 DEF ivars, LinkInv, ITypeOK
  <1>2. CASE FileCommand
    BY <1>2, FileCommandLinks
  <1>3. CASE MCrash
    BY <1>3, PresetLinks DEF MCrash, CrashRecover
  <1>4. CASE Move
    BY <1>4, InstallAssumption DEF Move, Command, LinkInv, ITypeOK
  <1>5. QED
    BY <1>1, <1>2, <1>3, <1>4
       DEF MNext, allvars, KernelMount, ByHand, MonitorIo, MonitorDefer, ReadTable, KnownPoint, LoadPoint,
           StartPoint, AllStarted, StopPoint, MonitorDone, MReload, Reload

LEMMA LinkImplies ==
  ASSUME LinkInv
  PROVE  DisabledNotPulled
  <1>1. ASSUME NEW n \in disabled, NEW l \in links
        PROVE  canonicalize(l.to) # n
    <2>1. l.to \in Dest /\ n \in Name /\ l.to # <<"lib", n>>
      BY DEF LinkInv, ITypeOK, Link
    <2>2. QED
      BY <2>1, CanonReaches DEF LinkInv, ITypeOK
  <1>2. QED
    BY <1>1 DEF DisabledNotPulled, dropin

\* For any unit files and presets: however a unit was enabled, and by whichever of its
\* names, once the administrator has disabled it no target pulls it in until something
\* enables it again (unit_install_discover, remove_symlinks, build_id_dropin).
THEOREM DisabledStaysOut == MSpec => []DisabledNotPulled
  <1>1. MInit => LinkInv
    BY InstallAssumption DEF MInit, UInit, IInit, LinkInv, ITypeOK
  <1>2. LinkInv /\ [MNext]_allvars => LinkInv'
    BY LinkStep
  <1>3. LinkInv => DisabledNotPulled
    BY LinkImplies
  <1>4. QED
    BY <1>1, <1>2, <1>3, PTL DEF MSpec

-----------------------------------------------------------------------------
(* Queues: sequences without repetition and their sets. *)

NoDup(s) == \A i, j \in 1..Len(s) : i # j => s[i] # s[j]

LEMMA ToSetEmpty == ToSet(<<>>) = {}
  BY DEF ToSet

LEMMA ToSetIn ==
  ASSUME NEW S, NEW s \in Seq(S)
  PROVE  ToSet(s) \subseteq S /\ (ToSet(s) = {} => s = <<>>)
         /\ \A x : x \in ToSet(s) <=> \E i \in 1..Len(s) : s[i] = x
  BY DEF ToSet

LEMMA ToSetAppend ==
  ASSUME NEW S, NEW s \in Seq(S), NEW x \in S
  PROVE  /\ Append(s, x) \in Seq(S)
         /\ ToSet(Append(s, x)) = ToSet(s) \cup {x}
         /\ NoDup(s) /\ x \notin ToSet(s) => NoDup(Append(s, x))
  <1>1. Append(s, x) \in Seq(S) /\ Len(Append(s, x)) = Len(s) + 1 /\ Append(s, x)[Len(s) + 1] = x
        /\ \A i \in 1..Len(s) : Append(s, x)[i] = s[i]
    OBVIOUS
  <1>2. DOMAIN s = 1..Len(s) /\ DOMAIN Append(s, x) = 1..(Len(s) + 1) /\ Len(s) \in Nat
    BY <1>1
  <1>3. ToSet(Append(s, x)) = ToSet(s) \cup {x}
    <2>1. \A i \in 1..(Len(s) + 1) : i \in 1..Len(s) \/ i = Len(s) + 1
      BY <1>2
    <2>2. 1..Len(s) \subseteq 1..(Len(s) + 1) /\ Len(s) + 1 \in 1..(Len(s) + 1)
      BY <1>2
    <2>3. QED
      BY <1>1, <1>2, <2>1, <2>2 DEF ToSet
  <1>4. ASSUME NoDup(s), x \notin ToSet(s)
        PROVE  NoDup(Append(s, x))
    <2>1. \A i \in 1..Len(s) : s[i] # x
      BY <1>4, <1>2 DEF ToSet
    <2>2. \A i \in 1..(Len(s) + 1) : i \in 1..Len(s) \/ i = Len(s) + 1
      BY <1>2
    <2>3. QED
      BY <1>1, <1>2, <1>4, <2>1, <2>2 DEF NoDup
  <1>5. QED
    BY <1>1, <1>3, <1>4

LEMMA ToSetTail ==
  ASSUME NEW S, NEW s \in Seq(S), s # <<>>
  PROVE  /\ Head(s) \in S /\ Head(s) \in ToSet(s) /\ Tail(s) \in Seq(S)
         /\ ToSet(s) = ToSet(Tail(s)) \cup {Head(s)}
         /\ NoDup(s) => NoDup(Tail(s)) /\ Head(s) \notin ToSet(Tail(s))
  <1>1. /\ Len(s) \in Nat /\ Len(s) >= 1 /\ Head(s) = s[1] /\ Tail(s) \in Seq(S)
        /\ Len(Tail(s)) = Len(s) - 1 /\ \A i \in 1..(Len(s) - 1) : Tail(s)[i] = s[i + 1]
    OBVIOUS
  <1>2. DOMAIN s = 1..Len(s) /\ DOMAIN Tail(s) = 1..(Len(s) - 1)
    BY <1>1
  <1>3. \A i \in 1..Len(s) : i = 1 \/ (i - 1 \in 1..(Len(s) - 1) /\ (i - 1) + 1 = i)
    BY <1>1
  <1>4. \A i \in 1..(Len(s) - 1) : i + 1 \in 1..Len(s) /\ i + 1 # 1
    BY <1>1
  <1>5. 1 \in 1..Len(s)
    BY <1>1
  <1>6. ToSet(s) = ToSet(Tail(s)) \cup {Head(s)}
    <2>1. ToSet(Tail(s)) \subseteq ToSet(s)
      BY <1>1, <1>2, <1>4 DEF ToSet
    <2>2. ASSUME NEW i \in 1..Len(s)
          PROVE  s[i] \in ToSet(Tail(s)) \cup {Head(s)}
      <3>1. CASE i = 1
        BY <3>1, <1>1
      <3>2. CASE i # 1
        <4>1. i - 1 \in 1..(Len(s) - 1) /\ Tail(s)[i - 1] = s[i]
          BY <3>2, <1>3, <1>1
        <4>2. QED
          BY <4>1, <1>2 DEF ToSet
      <3>3. QED
        BY <3>1, <3>2
    <2>3. QED
      BY <1>1, <1>2, <1>5, <2>1, <2>2 DEF ToSet
  <1>7. ASSUME NoDup(s)
        PROVE  NoDup(Tail(s)) /\ Head(s) \notin ToSet(Tail(s))
    <2>1. NoDup(Tail(s))
      <3>1. \A i, j \in 1..(Len(s) - 1) : i # j => i + 1 # j + 1
        BY <1>1
      <3>2. QED
        BY <1>1, <1>4, <1>7, <3>1 DEF NoDup
    <2>2. Head(s) \notin ToSet(Tail(s))
      BY <1>1, <1>2, <1>4, <1>5, <1>7 DEF NoDup, ToSet
    <2>3. QED
      BY <2>1, <2>2
  <1>8. Head(s) \in S
    OBVIOUS
  <1>9. Head(s) \in ToSet(s)
    BY <1>6
  <1>10. QED
    BY <1>1, <1>6, <1>7, <1>8, <1>9

LEMMA SetToSeqsFacts ==
  ASSUME NEW S \in SUBSET Name, NEW s \in SetToSeqs(S)
  PROVE  s \in Seq(Name) /\ s \in Seq(S) /\ ToSet(s) = S /\ NoDup(s)
  <1>1. IsFiniteSet(S) /\ Cardinality(S) \in Nat
    BY InstallAssumption, FS_Subset, FS_CardinalityType
  <1> DEFINE n == Cardinality(S)
  <1>2. n \in Nat
    BY <1>1
  <1>3. s \in [1..n -> S] /\ \A i, j \in 1..n : i # j => s[i] # s[j]
    BY DEF SetToSeqs
  <1>4. IsFiniteSet(1..n) /\ Cardinality(1..n) = n
    BY <1>2, FS_Interval
  <1>5. s \in Injection(1..n, S)
    BY <1>3 DEF Injection, IsInjective
  <1>6. s \in Surjection(1..n, S)
    BY <1>1, <1>4, <1>5, FS_Injection
  <1>7. s \in Seq(S) /\ s \in Seq(Name)
    <2> HIDE DEF n
    <2>1. QED
      BY <1>2, <1>3
  <1>8. Len(s) = n /\ DOMAIN s = 1..n
    <2> HIDE DEF n
    <2>1. QED
      BY <1>2, <1>3, <1>7
  <1>9. ToSet(s) = S
    BY <1>3, <1>6, <1>8 DEF ToSet, Surjection
  <1>10. NoDup(s)
    BY <1>3, <1>8 DEF NoDup
  <1>11. QED
    BY <1>7, <1>9, <1>10

LEMMA SetToSeqFacts ==
  ASSUME NEW S \in SUBSET Name
  PROVE  SetToSeq(S) \in SetToSeqs(S)
  <1>1. IsFiniteSet(S) /\ Cardinality(S) \in Nat /\ ExistsBijection(1..Cardinality(S), S)
    BY InstallAssumption, FS_Subset, FS_CardinalityType
  <1>2. \E f \in [1..Cardinality(S) -> S] : IsInjective(f)
    BY <1>1 DEF ExistsBijection, Bijection, Injection
  <1>3. SetToSeq(S) \in [1..Cardinality(S) -> S] /\ IsInjective(SetToSeq(S))
    BY <1>2 DEF SetToSeq
  <1>4. QED
    BY <1>3 DEF SetToSeqs, IsInjective

-----------------------------------------------------------------------------
(* The operations of the manager. *)

Deps == Name \X Relation \X Name

\* The fields of a manager, without the record.
LEMMA UnitsType ==
  ASSUME NEW mm \in Units
  PROVE  /\ mm.units \in SUBSET Name /\ mm.state \in [Name -> LoadState] /\ mm.read \in SUBSET Name
         /\ mm.deps \in SUBSET Deps /\ mm.lq \in Seq(Name) /\ mm.tq \in Seq(Name)
         /\ mm = [units |-> mm.units, state |-> mm.state, read |-> mm.read, deps |-> mm.deps,
                  lq |-> mm.lq, tq |-> mm.tq]
  BY DEF Units, Deps

Lqs(mm) == ToSet(mm.lq)
Tqs(mm) == ToSet(mm.tq)

\* b is a with more units, queued for their load, and more dependencies.
Grown(a, b) ==
  /\ b.state = a.state /\ b.read = a.read /\ b.tq = a.tq
  /\ a.units \subseteq b.units /\ a.deps \subseteq b.deps
  /\ Lqs(b) = Lqs(a) \cup (b.units \ a.units)
  /\ NoDup(a.lq) => NoDup(b.lq)

LEMMA PrepareFacts ==
  ASSUME NEW mm \in Units, NEW u \in Name, Lqs(mm) \subseteq mm.units
  PROVE  /\ prepare_unit(mm, u) \in Units
         /\ Grown(mm, prepare_unit(mm, u))
         /\ prepare_unit(mm, u).units = mm.units \cup {u}
         /\ prepare_unit(mm, u).deps = mm.deps
  <1>1. CASE u \in mm.units
    BY <1>1 DEF prepare_unit, Grown
  <1>2. CASE u \notin mm.units
    <2> DEFINE x == [mm EXCEPT !.units = @ \cup {u}]
    <2>1. /\ x.units = mm.units \cup {u} /\ x.state = mm.state /\ x.read = mm.read /\ x.deps = mm.deps
          /\ x.lq = mm.lq /\ x.tq = mm.tq /\ x \in Units
      BY DEF Units
    <2>2. u \notin ToSet(x.lq)
      BY <1>2, <2>1 DEF Lqs
    <2> DEFINE y == [x EXCEPT !.lq = Append(@, u)]
    <2>3. prepare_unit(mm, u) = y
      BY <1>2, <2>2 DEF prepare_unit, push_load_queue
    <2> HIDE DEF x
    <2>4. x.lq \in Seq(Name)
      BY <2>1 DEF Units
    <2>5. Append(x.lq, u) \in Seq(Name) /\ ToSet(Append(x.lq, u)) = ToSet(x.lq) \cup {u}
          /\ (NoDup(x.lq) => NoDup(Append(x.lq, u)))
      BY <2>2, <2>4, ToSetAppend
    <2>6. /\ y.units = x.units /\ y.state = x.state /\ y.read = x.read /\ y.deps = x.deps
          /\ y.lq = Append(x.lq, u) /\ y.tq = x.tq /\ y \in Units
      BY <2>1, <2>5 DEF Units
    <2> HIDE DEF y
    <2>7. Grown(mm, y)
      BY <1>2, <2>1, <2>5, <2>6 DEF Grown, Lqs
    <2>8. QED
      BY <2>1, <2>3, <2>6, <2>7
  <1>3. QED
    BY <1>1, <1>2

LEMMA GrownTrans ==
  ASSUME NEW a, NEW b, NEW c, Grown(a, b), Grown(b, c)
  PROVE  Grown(a, c)
  BY DEF Grown

\* The relations by which a unit pulls another one in, and how the other one sees them.
Pull == {"Wants", "Requires", "BindsTo", "Requisite", "UpHolds"}
By(p) == Inverse_[p]

LEMMA RelationFacts ==
  /\ Listed \subseteq DOMAIN Inverse_
  /\ \A r \in Listed : /\ r \in Relation
                       /\ unit_relation_to_inverse(r) = Inverse_[r]
                       /\ Inverse_[r] \in Relation
                       /\ \A p \in Pull : /\ Inverse_[r] = By(p) => r = p
                                         /\ r # By(p) /\ Inverse_[r] # p
  /\ {"References", "ReferencedBy"} \subseteq Relation
  /\ \A p \in Pull : p \notin {"References", "ReferencedBy"} /\ By(p) \notin {"References", "ReferencedBy"}
  <1>1. DOMAIN Inverse_ = {"Wants", "Requires", "BindsTo", "Requisite", "UpHolds", "OnFailure", "OnSuccess",
                           "After", "Before", "Conflicts", "PartOf", "References"}
    BY DEF Inverse_
  <1>2. Listed \subseteq DOMAIN Inverse_
    BY <1>1 DEF Listed
  <1>3. ASSUME NEW r \in Listed, NEW p \in Pull
        PROVE  (Inverse_[r] = By(p) => r = p) /\ r # By(p) /\ Inverse_[r] # p
    BY DEF Listed, Inverse_, Pull, By
  <1>4. "References" \in DOMAIN Inverse_ /\ Inverse_["References"] = "ReferencedBy"
    BY DEF Inverse_
  <1>5. \A p \in Pull : p \notin {"References", "ReferencedBy"} /\ By(p) \notin {"References", "ReferencedBy"}
    BY DEF Inverse_, Pull, By
  <1>6. QED
    BY <1>2, <1>3, <1>4, <1>5 DEF Relation, unit_relation_to_inverse

LEMMA AtomFacts ==
  /\ DefaultTargetDependencies = {By(p) : p \in Pull}
  /\ Pull \subseteq AddDefaultTargetDependencyQueue
  <1>1. /\ By("Wants") = "WantsBy" /\ By("Requires") = "RequiresBy" /\ By("BindsTo") = "BoundBy"
        /\ By("Requisite") = "RequisiteOf" /\ By("UpHolds") = "UpHeldBy"
    BY DEF By, Inverse_
  <1>2. QED
    BY <1>1 DEF DefaultTargetDependencies, AddDefaultTargetDependencyQueue, Pull

\* What a new dependency adds to the table.
Inserted(d, e, s, r, t) ==
  /\ e \in SUBSET Deps
  /\ d \subseteq e
  /\ s # t => <<s, r, t>> \in e
  /\ \A x, y \in Name, p \in Pull :
       /\ <<x, By(p), y>> \in e \ d => y = s /\ x # y /\ r = p /\ <<y, p, x>> \in e
       /\ <<x, p, y>> \in e \ d => x = s /\ r = p

LEMMA DepInsertFacts ==
  ASSUME NEW d \in SUBSET Deps, NEW s \in Name, NEW t \in Name, NEW r \in Listed
  PROVE  Inserted(d, dep_insert(d, s, r, t), s, r, t)
  <1>1. CASE s = t
    BY <1>1 DEF dep_insert, Inserted
  <1>2. CASE s # t
    <2> DEFINE q == Inverse_[r]
    <2>1. dep_insert(d, s, r, t) = d \cup {<<s, r, t>>, <<t, q, s>>, <<s, "References", t>>, <<t, "ReferencedBy", s>>}
      BY <1>2, RelationFacts DEF dep_insert
    <2>2. /\ r \in Relation /\ q \in Relation /\ "References" \in Relation /\ "ReferencedBy" \in Relation
          /\ \A p \in Pull : (q = By(p) => r = p) /\ r # By(p) /\ q # p
      BY RelationFacts
    <2> HIDE DEF q
    <2>3. dep_insert(d, s, r, t) \in SUBSET Deps
      BY <2>1, <2>2 DEF Deps
    <2>4. ASSUME NEW x \in Name, NEW y \in Name, NEW z, <<x, z, y>> \in dep_insert(d, s, r, t) \ d
          PROVE  \/ x = s /\ y = t /\ z = r
                 \/ x = t /\ y = s /\ z = q
                 \/ z \in {"References", "ReferencedBy"}
      BY <2>1, <2>4
    <2>5. /\ <<s, r, t>> \in dep_insert(d, s, r, t) /\ d \subseteq dep_insert(d, s, r, t)
          /\ <<t, q, s>> \in dep_insert(d, s, r, t)
      BY <2>1
    <2>6. ASSUME NEW x \in Name, NEW y \in Name, NEW p \in Pull, <<x, By(p), y>> \in dep_insert(d, s, r, t) \ d
          PROVE  x = t /\ y = s /\ r = p
      BY <2>2, <2>4, <2>6, RelationFacts
    <2>7. ASSUME NEW x \in Name, NEW y \in Name, NEW p \in Pull, <<x, p, y>> \in dep_insert(d, s, r, t) \ d
          PROVE  x = s /\ r = p
      BY <2>2, <2>4, <2>7, RelationFacts
    <2>8. ASSUME NEW x \in Name, NEW y \in Name, NEW p \in Pull, <<x, By(p), y>> \in dep_insert(d, s, r, t) \ d
          PROVE  y = s /\ x # y /\ r = p /\ <<y, p, x>> \in dep_insert(d, s, r, t)
      BY <1>2, <2>5, <2>6, <2>8
    <2>9. QED
      BY <2>3, <2>5, <2>7, <2>8 DEF Inserted
  <1>3. QED
    BY <1>1, <1>2

-----------------------------------------------------------------------------
(* insert_udconf: the loops over the relations and their lists. *)

\* Who pulls a unit in has read its own configuration, and has the dependency too.
Edges(mm) ==
  \A x, y \in Name, p \in Pull :
    <<x, By(p), y>> \in mm.deps => <<y, p, x>> \in mm.deps /\ y \in mm.read /\ x # y

\* Only u has come to pull in more units.
PullsOf(d, e, u) ==
  \A x, y \in Name, p \in Pull : <<x, By(p), y>> \in e \ d => y = u

\* What the loops keep: a manager grown from b.
Loop(b, u) == {a \in [mm : Units, cut : BOOLEAN] : Grown(b, a.mm) /\ Edges(a.mm) /\ PullsOf(b.deps, a.mm.deps, u)}

LEMMA EdgesInsert ==
  ASSUME NEW mm \in Units, Edges(mm), NEW s \in mm.read, NEW t \in Name, NEW r \in Listed
  PROVE  Edges([mm EXCEPT !.deps = dep_insert(@, s, r, t)])
  <1> DEFINE d == dep_insert(mm.deps, s, r, t)
             w == [mm EXCEPT !.deps = dep_insert(@, s, r, t)]
  <1>1. w.deps = d /\ w.read = mm.read /\ s \in Name
    BY DEF Units
  <1>2. mm.deps \in SUBSET Deps
    BY UnitsType
  <1>3. Inserted(mm.deps, d, s, r, t)
    BY <1>1, <1>2, DepInsertFacts
  <1> HIDE DEF d, w
  <1>4. mm.deps \subseteq d
    BY <1>3 DEF Inserted
  <1>5. ASSUME NEW x \in Name, NEW y \in Name, NEW p \in Pull, <<x, By(p), y>> \in d
        PROVE  <<y, p, x>> \in d /\ y \in mm.read /\ x # y
    <2>1. CASE <<x, By(p), y>> \in mm.deps
      BY <1>4, <2>1 DEF Edges
    <2>2. CASE <<x, By(p), y>> \notin mm.deps
      BY <1>3, <1>5, <2>2 DEF Inserted
    <2>3. QED
      BY <2>1, <2>2
  <1>6. Edges(w)
    BY <1>1, <1>5 DEF Edges
  <1>7. QED
    BY <1>6 DEF w

LEMMA InsertOne ==
  ASSUME NEW b \in Units, Lqs(b) \subseteq b.units, NEW u \in b.read,
         NEW a \in Loop(b, u), NEW r \in Listed, NEW n \in Name
  PROVE  insert_one(a, u, r, n) \in Loop(b, u)
  <1>1. a.mm \in Units /\ a.cut \in BOOLEAN /\ a = [mm |-> a.mm, cut |-> a.cut] /\ Grown(b, a.mm) /\ Edges(a.mm)
        /\ PullsOf(b.deps, a.mm.deps, u)
    BY DEF Loop
  <1>2. CASE a.cut \/ ~ try_new_unit(n)
    <2>1. insert_one(a, u, r, n) = [a EXCEPT !.cut = TRUE]
      BY <1>2 DEF insert_one
    <2>2. [a EXCEPT !.cut = TRUE].mm = a.mm /\ [a EXCEPT !.cut = TRUE] \in [mm : Units, cut : BOOLEAN]
      BY <1>1
    <2>3. QED
      BY <1>1, <2>1, <2>2 DEF Loop
  <1>3. CASE ~ (a.cut \/ ~ try_new_unit(n))
    <2> DEFINE p == prepare_unit(a.mm, n)
               q == [p EXCEPT !.deps = dep_insert(@, u, r, n)]
    <2>1. insert_one(a, u, r, n) = [a EXCEPT !.mm = q]
      BY <1>3 DEF insert_one
    <2>2. Lqs(a.mm) \subseteq a.mm.units
      BY <1>1 DEF Grown
    <2>3. p \in Units /\ Grown(a.mm, p) /\ p.deps = a.mm.deps
      BY <1>1, <2>2, PrepareFacts
    <2>4. u \in p.read /\ u \in Name
      BY <1>1, <2>3 DEF Grown, Units
    <2>5. Edges(p)
      BY <1>1, <2>3 DEF Edges, Grown
    <2> HIDE DEF p
    <2>6. Edges(q)
      BY <2>3, <2>4, <2>5, EdgesInsert
    <2>7. /\ dep_insert(p.deps, u, r, n) \in SUBSET Deps /\ p.deps \subseteq dep_insert(p.deps, u, r, n)
          /\ PullsOf(p.deps, dep_insert(p.deps, u, r, n), u)
      <3>1. p.deps \in SUBSET Deps
        BY <2>3, UnitsType
      <3>2. Inserted(p.deps, dep_insert(p.deps, u, r, n), u, r, n)
        BY <2>4, <3>1, DepInsertFacts
      <3>3. QED
        BY <3>2 DEF Inserted, PullsOf
    <2>8. q \in Units /\ Grown(p, q) /\ q.deps = dep_insert(p.deps, u, r, n)
      BY <2>3, <2>7 DEF Units, Deps, Grown, Lqs
    <2> HIDE DEF q
    <2>9. Grown(b, q)
      BY <1>1, <2>3, <2>8, GrownTrans
    <2>10. [a EXCEPT !.mm = q].mm = q /\ [a EXCEPT !.mm = q] \in [mm : Units, cut : BOOLEAN]
      BY <1>1, <2>8
    <2>11. PullsOf(b.deps, q.deps, u)
      BY <1>1, <2>3, <2>7, <2>8 DEF PullsOf
    <2>12. QED
      BY <2>1, <2>6, <2>9, <2>10, <2>11 DEF Loop
  <1>4. QED
    BY <1>2, <1>3

LEMMA InsertList ==
  ASSUME NEW b \in Units, Lqs(b) \subseteq b.units, NEW u \in b.read,
         NEW a \in Loop(b, u), NEW r \in Listed, NEW s \in Seq(Name)
  PROVE  insert_list(a, u, r, s) \in Loop(b, u)
  <1> DEFINE D(f) == [j \in 0..Len(s) |-> IF j = 0 THEN a ELSE insert_one(f[j - 1], u, r, s[j])]
             F == CHOOSE f : f = D(f)
             T == Loop(b, u)
             step == [k \in Nat |-> [x \in T |-> IF k \in 1..Len(s) THEN insert_one(x, u, r, s[k]) ELSE x]]
  <1>1. insert_list(a, u, r, s) = F[Len(s)]
    BY DEF insert_list
  <1>2. Len(s) \in Nat
    OBVIOUS
  <1>3. \A k \in 1..Len(s), x \in T : insert_one(x, u, r, s[k]) \in T
    <2>1. ASSUME NEW k \in 1..Len(s), NEW x \in T PROVE insert_one(x, u, r, s[k]) \in T
      <3>1. s[k] \in Name
        OBVIOUS
      <3>2. QED
        BY <3>1, InsertOne
    <2>2. QED
      BY <2>1
  <1> HIDE DEF T
  <1>4. step \in Steps(T) /\ a \in T
    BY <1>3 DEF Steps, T
  <1>5. PICK f : Iterates(f, T, a, step)
    <2> HIDE DEF step
    <2>1. QED
      BY <1>4, Recursion
  <1> DEFINE g == [j \in 0..Len(s) |-> f[j]]
  <1>6. g = D(g)
    <2>1. ASSUME NEW j \in 0..Len(s)
          PROVE  g[j] = IF j = 0 THEN a ELSE insert_one(g[j - 1], u, r, s[j])
      <3>1. CASE j = 0
        BY <1>2, <1>5, <3>1 DEF Iterates
      <3>2. CASE j # 0
        <4>1. j - 1 \in Nat /\ (j - 1) + 1 = j /\ j \in 1..Len(s) /\ j - 1 \in 0..Len(s)
          BY <1>2, <3>2
        <4>2. f[(j - 1) + 1] = step[(j - 1) + 1][f[j - 1]] /\ f[j - 1] \in T
          BY <1>5, <4>1 DEF Iterates
        <4>3. f[j] = insert_one(f[j - 1], u, r, s[j])
          BY <4>1, <4>2
        <4>4. QED
          BY <3>2, <4>1, <4>3
      <3>3. QED
        BY <3>1, <3>2
    <2>2. QED
      BY <2>1
  <1>7. F = D(F)
    <2> HIDE DEF D, g
    <2>1. QED
      BY <1>6
  <1> HIDE DEF F
  <1>8. F[0] = a /\ \A j \in 1..Len(s) : F[j] = insert_one(F[j - 1], u, r, s[j])
    <2>1. \A j \in 0..Len(s) : F[j] = IF j = 0 THEN a ELSE insert_one(F[j - 1], u, r, s[j])
      BY <1>7
    <2> HIDE DEF D
    <2>2. QED
      BY <1>2, <2>1
  <1> HIDE DEF D
  <1> DEFINE P == {k \in Nat : k \in 0..Len(s) => F[k] \in T}
  <1>9. 0 \in P
    BY <1>4, <1>8
  <1>10. ASSUME NEW k \in P
         PROVE  k + 1 \in P
    <2>1. CASE k + 1 \in 0..Len(s)
      <3>1. k \in 0..Len(s) /\ k + 1 \in 1..Len(s) /\ (k + 1) - 1 = k /\ F[k] \in T
        BY <1>2, <2>1
      <3>2. F[k + 1] = insert_one(F[k], u, r, s[k + 1])
        BY <1>8, <3>1
      <3>3. QED
        BY <1>3, <3>1, <3>2
    <2>2. QED
      BY <2>1
  <1>11. P = Nat
    BY <1>9, <1>10, NatSet
  <1>12. F[Len(s)] \in T
    BY <1>2, <1>11
  <1>13. QED
    BY <1>1, <1>12 DEF T

LEMMA InsertLists ==
  ASSUME NEW b \in Units, Lqs(b) \subseteq b.units, NEW u \in b.read, NEW a \in Loop(b, u),
         NEW C, DOMAIN C \subseteq Listed, \A r \in DOMAIN C : C[r] \in Seq(Name), NEW o \in Seq(DOMAIN C)
  PROVE  insert_lists(a, u, C, o) \in Loop(b, u)
  <1> DEFINE D(f) == [j \in 0..Len(o) |-> IF j = 0 THEN a ELSE insert_list(f[j - 1], u, o[j], C[o[j]])]
             F == CHOOSE f : f = D(f)
             T == Loop(b, u)
             step == [k \in Nat |-> [x \in T |-> IF k \in 1..Len(o) THEN insert_list(x, u, o[k], C[o[k]]) ELSE x]]
  <1>1. insert_lists(a, u, C, o) = F[Len(o)]
    BY DEF insert_lists
  <1>2. Len(o) \in Nat
    OBVIOUS
  <1>3. \A k \in 1..Len(o), x \in T : insert_list(x, u, o[k], C[o[k]]) \in T
    <2>1. ASSUME NEW k \in 1..Len(o), NEW x \in T PROVE insert_list(x, u, o[k], C[o[k]]) \in T
      <3>1. o[k] \in DOMAIN C
        OBVIOUS
      <3>2. o[k] \in Listed /\ C[o[k]] \in Seq(Name)
        BY <3>1
      <3>3. QED
        BY <3>2, InsertList
    <2>2. QED
      BY <2>1
  <1> HIDE DEF T
  <1>4. step \in Steps(T) /\ a \in T
    BY <1>3 DEF Steps, T
  <1>5. PICK f : Iterates(f, T, a, step)
    <2> HIDE DEF step
    <2>1. QED
      BY <1>4, Recursion
  <1> DEFINE g == [j \in 0..Len(o) |-> f[j]]
  <1>6. g = D(g)
    <2>1. ASSUME NEW j \in 0..Len(o)
          PROVE  g[j] = IF j = 0 THEN a ELSE insert_list(g[j - 1], u, o[j], C[o[j]])
      <3>1. CASE j = 0
        BY <1>2, <1>5, <3>1 DEF Iterates
      <3>2. CASE j # 0
        <4>1. j - 1 \in Nat /\ (j - 1) + 1 = j /\ j \in 1..Len(o) /\ j - 1 \in 0..Len(o)
          BY <1>2, <3>2
        <4>2. f[(j - 1) + 1] = step[(j - 1) + 1][f[j - 1]] /\ f[j - 1] \in T
          BY <1>5, <4>1 DEF Iterates
        <4>3. f[j] = insert_list(f[j - 1], u, o[j], C[o[j]])
          BY <4>1, <4>2
        <4>4. QED
          BY <3>2, <4>1, <4>3
      <3>3. QED
        BY <3>1, <3>2
    <2>2. QED
      BY <2>1
  <1>7. F = D(F)
    <2> HIDE DEF D, g
    <2>1. QED
      BY <1>6
  <1> HIDE DEF F
  <1>8. F[0] = a /\ \A j \in 1..Len(o) : F[j] = insert_list(F[j - 1], u, o[j], C[o[j]])
    <2>1. \A j \in 0..Len(o) : F[j] = IF j = 0 THEN a ELSE insert_list(F[j - 1], u, o[j], C[o[j]])
      BY <1>7
    <2> HIDE DEF D
    <2>2. QED
      BY <1>2, <2>1
  <1> HIDE DEF D
  <1> DEFINE P == {k \in Nat : k \in 0..Len(o) => F[k] \in T}
  <1>9. 0 \in P
    BY <1>4, <1>8
  <1>10. ASSUME NEW k \in P
         PROVE  k + 1 \in P
    <2>1. CASE k + 1 \in 0..Len(o)
      <3>1. k \in 0..Len(o) /\ k + 1 \in 1..Len(o) /\ (k + 1) - 1 = k /\ F[k] \in T
        BY <1>2, <2>1
      <3>2. F[k + 1] = insert_list(F[k], u, o[k + 1], C[o[k + 1]])
        BY <1>8, <3>1
      <3>3. QED
        BY <1>3, <3>1, <3>2
    <2>2. QED
      BY <2>1
  <1>11. P = Nat
    BY <1>9, <1>10, NatSet
  <1>12. F[Len(o)] \in T
    BY <1>2, <1>11
  <1>13. QED
    BY <1>1, <1>12 DEF T

LEMMA ConfType ==
  ASSUME links \subseteq Link, NEW u \in Name, File[u] # NoFile
  PROVE  /\ DOMAIN ConfRelations(u) \subseteq Listed
         /\ \A r \in DOMAIN ConfRelations(u) : ConfRelations(u)[r] \in Seq(Name)
  <1> DEFINE d == SetToSeq(dropin("wants", u))
             q == SetToSeq(dropin("requires", u))
             list(r) == IF r \in DOMAIN File[u].list THEN File[u].list[r] ELSE <<>>
             all(r) == CASE r = "Wants" -> list(r) \o d
                         [] r = "Requires" -> list(r) \o q
                         [] r = "After" -> list(r) \o d \o q
                         [] OTHER -> list(r)
  <1>1. ConfRelations(u) = [r \in {x \in Listed : all(x) # <<>>} |-> all(r)]
    BY DEF ConfRelations
  <1>2. dropin("wants", u) \in SUBSET Name /\ dropin("requires", u) \in SUBSET Name
    <2>1. ASSUME NEW l \in links PROVE canonicalize(l.to) \in Name \cup {NoFile}
      <3>1. l.to \in Dest
        BY DEF Link
      <3>2. QED
        BY <3>1, CanonicalizeType DEF Found
    <2>2. QED
      BY <2>1 DEF dropin
  <1>3. d \in Seq(Name) /\ q \in Seq(Name)
    BY <1>2, SetToSeqFacts, SetToSeqsFacts
  <1>4. \A r : list(r) \in Seq(Name)
    BY LoadAssumption
  <1> HIDE DEF d, q, list
  <1>5. \A r : all(r) \in Seq(Name)
    <2>1. ASSUME NEW r PROVE all(r) \in Seq(Name)
      <3>1. list(r) \in Seq(Name)
        BY <1>4
      <3>2. CASE r = "Wants"
        BY <1>3, <3>1, <3>2
      <3>3. CASE r = "Requires"
        BY <1>3, <3>1, <3>3
      <3>4. CASE r = "After"
        BY <1>3, <3>1, <3>4
      <3>5. CASE r \notin {"Wants", "Requires", "After"}
        BY <1>3, <3>1, <3>5
      <3>6. QED
        BY <3>2, <3>3, <3>4, <3>5
    <2>2. QED
      BY <2>1
  <1> HIDE DEF all
  <1>6. QED
    BY <1>1, <1>5

LEMMA InsertConf ==
  ASSUME links \subseteq Link, NEW b \in Units, Lqs(b) \subseteq b.units, NEW u \in b.read, File[u] # NoFile,
         Edges(b), NEW r \in insert_udconf(b, u)
  PROVE  r \in Units /\ Grown(b, r) /\ Edges(r) /\ PullsOf(b.deps, r.deps, u)
  <1> DEFINE C == ConfRelations(u)
             a == [mm |-> b, cut |-> FALSE]
  <1>1. u \in Name
    BY UnitsType
  <1>2. DOMAIN C \subseteq Listed /\ \A x \in DOMAIN C : C[x] \in Seq(Name)
    BY <1>1, ConfType
  <1>3. PICK o \in SetToSeqs(DOMAIN C) : r = insert_lists(a, u, C, o).mm
    BY DEF insert_udconf
  <1>4. o \in Seq(DOMAIN C)
    <2>1. o \in [1..Cardinality(DOMAIN C) -> DOMAIN C]
      BY <1>3 DEF SetToSeqs
    <2>2. IsFiniteSet(Listed)
      <3>1. /\ IsFiniteSet({}) /\ Listed = ((((((((({} \cup {"Wants"}) \cup {"Requires"}) \cup {"After"}) \cup {"Before"}) \cup {"Conflicts"}) \cup {"PartOf"})
               \cup {"BindsTo"}) \cup {"Requisite"}) \cup {"OnFailure"}) \cup {"OnSuccess"}
        BY FS_EmptySet DEF Listed
      <3>2. QED
        BY <3>1, FS_AddElement
    <2>3. Cardinality(DOMAIN C) \in Nat
      BY <1>2, <2>2, FS_Subset, FS_CardinalityType
    <2> HIDE DEF C
    <2>4. QED
      BY <2>1, <2>3
  <1>5. a \in Loop(b, u)
    BY DEF Loop, Grown, PullsOf
  <1> HIDE DEF C, a
  <1>6. insert_lists(a, u, C, o) \in Loop(b, u)
    BY <1>2, <1>4, <1>5, InsertLists
  <1>7. QED
    BY <1>3, <1>6 DEF Loop

-----------------------------------------------------------------------------
(* The calls of dispatch_load_queue. *)

\* The dependencies a unit adds to itself.
Own == {"After", "Requires", "Before", "Conflicts"}
Owns(todo) == \A k \in 1..Len(todo) : todo[k][1] \in Own /\ todo[k][2] \in Name

\* The unit in hand is being loaded.
InHand(c) == c.ph # "tdep" /\ c.cur # None

\* Call i of n: one that waits for a nested call is between the dependencies of a unit
\* that is not a target; a unit in hand is a stub, and in its load in no queue.
CallOK(c, i, n, mm) ==
  /\ i < n => InHand(c) /\ c.at = "extras" /\ Type[c.cur] # "target"
  /\ c.at = "extras" => InHand(c) /\ c.cur \in mm.read /\ Type[c.cur] # "mount" /\ Owns(c.todo)
  /\ c.ph = "comp" => i = 1 /\ InHand(c)
  /\ InHand(c) => c.cur \in mm.units /\ mm.state[c.cur] = "UnitStub"
  /\ InHand(c) /\ (c.at = "extras" \/ c.ph = "comp") => c.cur \notin Lqs(mm)
  /\ InHand(c) /\ c.at = "popped" /\ c.ph = "load" => mm.lq # <<>> /\ c.cur = Head(mm.lq)
  /\ c.ph = "tdep" => mm.lq = <<>> /\ (c.cur # None => mm.tq # <<>> /\ c.cur = Head(mm.tq))

Calls(st, mm) ==
  /\ st \in Seq(Call)
  /\ \A i \in 1..Len(st) : CallOK(st[i], i, Len(st), mm)
  /\ \A i, j \in 1..Len(st) : i # j /\ InHand(st[i]) /\ InHand(st[j]) => st[i].cur # st[j].cur

LEMMA TopFacts ==
  ASSUME NEW st \in Seq(Call), st # <<>>
  PROVE  /\ Len(st) \in Nat /\ Len(st) >= 1 /\ Len(st) \in 1..Len(st) /\ 1 \in 1..Len(st)
         /\ Last(st) = st[Len(st)] /\ Last(st) \in Call
  BY DEF Last

LEMMA SetTop ==
  ASSUME NEW st \in Seq(Call), st # <<>>, NEW c \in Call
  PROVE  /\ [st EXCEPT ![Len(st)] = c] \in Seq(Call)
         /\ Len([st EXCEPT ![Len(st)] = c]) = Len(st)
         /\ [st EXCEPT ![Len(st)] = c] # <<>>
         /\ Last([st EXCEPT ![Len(st)] = c]) = c
         /\ [st EXCEPT ![Len(st)] = c][Len(st)] = c
         /\ \A i \in 1..Len(st) : i # Len(st) => [st EXCEPT ![Len(st)] = c][i] = st[i]
  <1>1. Len(st) \in 1..Len(st)
    BY TopFacts
  <1> DEFINE x == [st EXCEPT ![Len(st)] = c]
  <1>2. x \in Seq(Call) /\ Len(x) = Len(st)
        /\ \A j \in 1..Len(st) : x[j] = IF j = Len(st) THEN c ELSE st[j]
    BY <1>1, ExceptSeq
  <1> HIDE DEF x
  <1>3. x # <<>>
    BY <1>1, <1>2
  <1>4. QED
    BY <1>1, <1>2, <1>3 DEF Last, x

LEMMA CallsSetTop ==
  ASSUME NEW st, NEW mm, NEW nn, Calls(st, mm), st # <<>>, NEW c \in Call,
         CallOK(c, Len(st), Len(st), nn),
         \A i \in 1..Len(st) : i # Len(st) => CallOK(st[i], i, Len(st), nn),
         InHand(c) => \A i \in 1..Len(st) : i # Len(st) /\ InHand(st[i]) => st[i].cur # c.cur
  PROVE  Calls([st EXCEPT ![Len(st)] = c], nn)
  <1> DEFINE x == [st EXCEPT ![Len(st)] = c]
  <1>1. st \in Seq(Call)
    BY DEF Calls
  <1>2. x \in Seq(Call) /\ Len(x) = Len(st) /\ x[Len(st)] = c /\ \A i \in 1..Len(st) : i # Len(st) => x[i] = st[i]
    BY <1>1, SetTop
  <1> HIDE DEF x
  <1>3. \A i \in 1..Len(x) : CallOK(x[i], i, Len(x), nn)
    BY <1>2
  <1>4. \A i, j \in 1..Len(x) : i # j /\ InHand(x[i]) /\ InHand(x[j]) => x[i].cur # x[j].cur
    BY <1>2 DEF Calls
  <1>5. Calls(x, nn)
    BY <1>2, <1>3, <1>4 DEF Calls
  <1>6. QED
    BY <1>5 DEF x

LEMMA CallsPush ==
  ASSUME NEW st, NEW mm, NEW nn, Calls(st, mm), NEW c \in Call, ~ InHand(c),
         CallOK(c, Len(st) + 1, Len(st) + 1, nn),
         \A i \in 1..Len(st) : CallOK(st[i], i, Len(st) + 1, nn)
  PROVE  Calls(Append(st, c), nn)
  <1> DEFINE x == Append(st, c)
  <1>1. st \in Seq(Call)
    BY DEF Calls
  <1>2. x \in Seq(Call) /\ Len(x) = Len(st) + 1 /\ x[Len(st) + 1] = c /\ \A i \in 1..Len(st) : x[i] = st[i]
    BY <1>1
  <1>3. \A i \in 1..(Len(st) + 1) : i \in 1..Len(st) \/ i = Len(st) + 1
    BY <1>1
  <1> HIDE DEF x
  <1>4. \A i \in 1..Len(x) : CallOK(x[i], i, Len(x), nn)
    BY <1>2, <1>3
  <1>5. \A i, j \in 1..Len(x) : i # j /\ InHand(x[i]) /\ InHand(x[j]) => x[i].cur # x[j].cur
    BY <1>2, <1>3 DEF Calls
  <1>6. Calls(x, nn)
    BY <1>2, <1>4, <1>5 DEF Calls
  <1>7. QED
    BY <1>6 DEF x

LEMMA FrontFacts ==
  ASSUME NEW S, NEW st \in Seq(S), st # <<>>
  PROVE  /\ Front(st) \in Seq(S) /\ Len(Front(st)) = Len(st) - 1
         /\ \A i \in 1..(Len(st) - 1) : i \in 1..Len(st) /\ Front(st)[i] = st[i]
  <1>1. Len(st) \in Nat /\ Len(st) >= 1
    OBVIOUS
  <1>2. \A i \in 1..(Len(st) - 1) : i \in 1..Len(st) /\ st[i] \in S
    BY <1>1
  <1> DEFINE n == Len(st) - 1
  <1>3. Front(st) = SubSeq(st, 1, n) /\ n \in Int /\ 1 \in Int /\ n \in Nat
    BY <1>1 DEF Front
  <1>4. \A i \in 1..n : i \in 1..Len(st) /\ st[i] \in S
    BY <1>2
  <1> HIDE DEF n
  <1>5. /\ SubSeq(st, 1, n) \in Seq(S)
        /\ Len(SubSeq(st, 1, n)) = IF 1 <= n THEN n - 1 + 1 ELSE 0
        /\ \A i \in 1..(n - 1 + 1) : SubSeq(st, 1, n)[i] = st[1 + i - 1]
    BY <1>3, <1>4, SubSeqProperties
  <1>6. n - 1 + 1 = n /\ (~ (1 <= n) => n = 0) /\ \A i \in 1..n : 1 + i - 1 = i
    BY <1>3
  <1>7. /\ SubSeq(st, 1, n) \in Seq(S) /\ Len(SubSeq(st, 1, n)) = n
        /\ \A i \in 1..n : SubSeq(st, 1, n)[i] = st[i]
    BY <1>5, <1>6
  <1>8. QED
    BY <1>3, <1>4, <1>7 DEF n

LEMMA CallsPop ==
  ASSUME NEW st, NEW mm, NEW nn, Calls(st, mm), st # <<>>,
         \A i \in 1..Len(st) : i # Len(st) => CallOK(st[i], i, Len(st) - 1, nn)
  PROVE  Calls(Front(st), nn)
  <1>1. st \in Seq(Call)
    BY DEF Calls
  <1>2. Front(st) \in Seq(Call) /\ Len(Front(st)) = Len(st) - 1
        /\ \A i \in 1..(Len(st) - 1) : i \in 1..Len(st) /\ i # Len(st) /\ Front(st)[i] = st[i]
    BY <1>1, FrontFacts
  <1>3. \A i \in 1..Len(Front(st)) : CallOK(Front(st)[i], i, Len(Front(st)), nn)
    BY <1>2
  <1>4. \A i, j \in 1..Len(Front(st)) :
          i # j /\ InHand(Front(st)[i]) /\ InHand(Front(st)[j]) => Front(st)[i].cur # Front(st)[j].cur
    BY <1>2 DEF Calls
  <1>5. QED
    BY <1>2, <1>3, <1>4 DEF Calls

LEMMA CalledType ==
  /\ \A ph \in {"load", "tdep", "comp"}, u \in Name \cup {None} :
       /\ Called(ph, u) \in Call /\ Called(ph, u).ph = ph /\ Called(ph, u).cur = u
       /\ Called(ph, u).at = "popped" /\ Called(ph, u).todo = <<>>
  BY DEF Called, Call

-----------------------------------------------------------------------------
(* The dependencies a unit adds to itself. *)

\* What is left to add: for a target, among the units that exist, and to every unit it
\* pulls in that has default dependencies, unless one of the two orders is there.
TodoOK(mm, u, todo) ==
  Type[u] = "target" =>
    /\ \A k \in 1..Len(todo) : todo[k][1] = "After" /\ todo[k][2] \in mm.units
    /\ default_dependencies(mm, u) =>
         \A n \in mm.units :
           default_dependencies(mm, n) /\ (\E p \in Pull : <<u, p, n>> \in mm.deps)
           => \/ <<u, "Before", n>> \in mm.deps \/ <<u, "After", n>> \in mm.deps \/ u = n
              \/ \E k \in 1..Len(todo) : todo[k] = <<"After", n>>

TopTodo(st, mm) == st # <<>> /\ Last(st).at = "extras" => TodoOK(mm, Last(st).cur, Last(st).todo)

LEMMA ExtrasFacts ==
  ASSUME NEW mm \in Units, NEW u \in Name
  PROVE  extras(mm, u) \in Seq(Relation \X Name) /\ Owns(extras(mm, u)) /\ TodoOK(mm, u, extras(mm, u))
  <1>1. Own \subseteq Relation
    BY RelationFacts DEF Own, Listed
  <1>2. {SYSINIT_TARGET, BASIC_TARGET, SHUTDOWN_TARGET} \subseteq Name
    BY LoadAssumption
  <1>3. CASE Type[u] = "service"
    <2>1. extras(mm, u) = service_add_default_dependencies(mm, u)
      BY <1>3 DEF extras
    <2>2. CASE ~ default_dependencies(mm, u)
      BY <1>3, <2>1, <2>2 DEF service_add_default_dependencies, TodoOK, Owns
    <2>3. CASE default_dependencies(mm, u)
      <3> DEFINE s == << <<"After", SYSINIT_TARGET>>, <<"Requires", SYSINIT_TARGET>>, <<"After", BASIC_TARGET>>,
                         <<"Before", SHUTDOWN_TARGET>>, <<"Conflicts", SHUTDOWN_TARGET>> >>
      <3>1. extras(mm, u) = s
        BY <2>1, <2>3 DEF service_add_default_dependencies
      <3>2. s \in Seq(Own \X Name)
        BY <1>2 DEF Own
      <3> HIDE DEF s
      <3>3. s \in Seq(Relation \X Name)
        BY <1>1, <3>2
      <3>4. \A k \in 1..Len(s) : s[k] \in Own \X Name
        BY <3>2
      <3>5. QED
        BY <1>3, <3>1, <3>3, <3>4 DEF TodoOK, Owns
    <2>4. QED
      BY <2>2, <2>3
  <1>4. CASE Type[u] = "target"
    <2>1. extras(mm, u) = target_add_default_dependencies(mm, u)
      BY <1>4 DEF extras
    <2>2. CASE ~ default_dependencies(mm, u)
      BY <1>4, <2>1, <2>2 DEF target_add_default_dependencies, TodoOK, Owns
    <2>3. CASE default_dependencies(mm, u)
      <3> DEFINE D == {n \in dep_gets_atom(mm, u, AddDefaultTargetDependencyQueue) :
                         default_dependencies(mm, n) /\ ~ is_dep_atom_with(mm, u, {"Before"}, n)}
                 q == SetToSeq(D)
                 s == [i \in 1..Cardinality(D) |-> <<"After", q[i]>>]
      <3>1. extras(mm, u) = s
        BY <2>1, <2>3 DEF target_add_default_dependencies
      <3>2. D \in SUBSET mm.units /\ D \in SUBSET Name
        BY UnitsType DEF dep_gets_atom
      <3>3. q \in SetToSeqs(D)
        BY <3>2, SetToSeqFacts
      <3>4. q \in [1..Cardinality(D) -> D] /\ q \in Seq(D) /\ ToSet(q) = D
        BY <3>2, <3>3, SetToSeqsFacts DEF SetToSeqs
      <3>5. Cardinality(D) \in Nat
        BY <3>2, InstallAssumption, FS_Subset, FS_CardinalityType
      <3>6. \A n \in mm.units : default_dependencies(mm, n)
                                /\ (\E p \in Pull : <<u, p, n>> \in mm.deps)
                                => <<u, "Before", n>> \in mm.deps \/ n \in D
        BY AtomFacts DEF dep_gets_atom, is_dep_atom_with
      <3> HIDE DEF D, q
      <3>7. s \in Seq(Relation \X Name) /\ Len(s) = Cardinality(D)
        <4>1. \A i \in 1..Cardinality(D) : <<"After", q[i]>> \in Relation \X Name
          BY <1>1, <3>2, <3>4 DEF Own
        <4>2. QED
          BY <3>5, <4>1
      <3>8. \A k \in 1..Cardinality(D) : s[k] = <<"After", q[k]>> /\ q[k] \in D
        BY <3>4
      <3>9. \A n \in D : \E k \in 1..Cardinality(D) : q[k] = n
        BY <3>4 DEF ToSet
      <3> HIDE DEF s
      <3>10. \A k \in 1..Len(s) : s[k][1] = "After" /\ s[k][2] \in mm.units /\ s[k][2] \in Name /\ s[k][1] \in Own
        BY <3>2, <3>7, <3>8 DEF Own
      <3>11. \A n \in D : \E k \in 1..Len(s) : s[k] = <<"After", n>>
        BY <3>7, <3>8, <3>9
      <3>12. QED
        BY <3>1, <3>6, <3>7, <3>10, <3>11 DEF TodoOK, Owns
    <2>4. QED
      BY <2>2, <2>3
  <1>5. CASE Type[u] \notin {"service", "target"}
    <2>1. extras(mm, u) = <<>>
      BY <1>5 DEF extras
    <2>2. QED
      BY <1>5, <2>1 DEF TodoOK, Owns
  <1>6. QED
    BY <1>3, <1>4, <1>5

-----------------------------------------------------------------------------
(* The manager in memory, its records, and the last unit and frames. *)

\* Every stub in a queue waits for its load, every unit in the other one is loaded, and
\* what was read has a file.
Sound(mm, lq, tq) ==
  /\ \A u \in lq : u \in mm.units /\ mm.state[u] = "UnitStub"
  /\ \A u \in tq : u \in mm.units /\ mm.state[u] = "UnitLoaded"
  /\ \A u \in Name \ mm.units : mm.state[u] = "UnitStub" /\ u \notin mm.read
  /\ \A u \in mm.read : File[u] # NoFile

MemOK(mm) == mm \in Units /\ NoDup(mm.lq) /\ Sound(mm, Lqs(mm), Tqs(mm)) /\ Edges(mm)

Saved(mm) == [mm EXCEPT !.lq = ToSet(@), !.tq = ToSet(@)]

Records == [units : SUBSET Name, state : [Name -> LoadState], read : SUBSET Name,
            deps : SUBSET (Name \X Relation \X Name), lq : SUBSET Name, tq : SUBSET Name]

DiskOK(d) == d \in Records /\ Sound(d, d.lq, d.tq) /\ Edges(d)

Behind(mm, d) ==
  /\ d.units \subseteq mm.units
  /\ \A u \in Name : d.state[u] # "UnitStub" => mm.state[u] = d.state[u]

LastType == [unit : Name \cup {None}, frames : Seq({"Load", "TargetDeps"})]
HistType == [redone : SUBSET Name, lost : SUBSET Name]

Frame(ph) == IF ph = "tdep" THEN "TargetDeps" ELSE "Load"
Rec(st) == st # <<>> /\ st[1].ph = "comp"

\* In a recovery the last unit is the one that is loaded again.  Otherwise every call has
\* its frame, and the last unit is in a call of the kind of the innermost one.
LastOK(st, l, redone, mm) ==
  /\ Rec(st) => /\ l.unit = st[1].cur /\ st[1].cur \in redone
                /\ l.frames # <<>> /\ Last(l.frames) = "Load"
  /\ ~ Rec(st) =>
       /\ Len(st) <= Len(l.frames)
       /\ \A i \in 1..Len(st) : l.frames[Len(l.frames) - Len(st) + i] = Frame(st[i].ph)
       /\ l.unit # None =>
            /\ \E i \in 1..Len(st) : st[i].cur = l.unit /\ Frame(st[i].ph) = Frame(Last(st).ph)
            /\ Last(st).cur = None => Last(st).ph = "load" /\ mm.lq # <<>>

UInv ==
  /\ last \in LastType /\ hist \in HistType
  /\ MemOK(m) /\ DiskOK(disk) /\ Behind(m, disk)
  /\ Calls(stack, m) /\ LastOK(stack, last, hist.redone, m) /\ TopTodo(stack, m)

LEMMA NoneType == None \notin Name
  BY LoadAssumption

LEMMA SavedFacts ==
  ASSUME NEW mm, MemOK(mm)
  PROVE  /\ DiskOK(Saved(mm)) /\ Behind(mm, Saved(mm))
         /\ Saved(mm).units = mm.units /\ Saved(mm).state = mm.state /\ Saved(mm).read = mm.read
         /\ Saved(mm).deps = mm.deps /\ Saved(mm).lq = Lqs(mm) /\ Saved(mm).tq = Tqs(mm)
  <1>1. mm \in Units
    BY DEF MemOK
  <1>2. /\ Saved(mm).units = mm.units /\ Saved(mm).state = mm.state /\ Saved(mm).read = mm.read
        /\ Saved(mm).deps = mm.deps /\ Saved(mm).lq = Lqs(mm) /\ Saved(mm).tq = Tqs(mm)
    BY <1>1 DEF Saved, Units, Lqs, Tqs
  <1>3. Lqs(mm) \in SUBSET Name /\ Tqs(mm) \in SUBSET Name
    BY <1>1, UnitsType, ToSetIn DEF Lqs, Tqs
  <1>4. Saved(mm) \in Records
    BY <1>1, <1>3 DEF Saved, Records, Units, Lqs, Tqs
  <1>5. Sound(Saved(mm), Saved(mm).lq, Saved(mm).tq) /\ Edges(Saved(mm))
    BY <1>2 DEF MemOK, Sound, Edges
  <1>6. QED
    BY <1>2, <1>4, <1>5 DEF DiskOK, Behind

LEMMA RecFacts == Recovering = Rec(stack)
  BY DEF Recovering, Rec

LEMMA LastTop ==
  ASSUME NEW st \in Seq(Call), st # <<>>, NEW c \in Call, NEW mm, NEW nn, NEW R, NEW l, NEW l2,
         LastOK(st, l, R, mm), c.ph = Last(st).ph, l2.frames = l.frames, Rec(st) => l2 = l,
         c.ph = "comp" => c.cur = Last(st).cur,
         ~ Rec(st) => \/ l2.unit = None
                      \/ l2.unit = c.cur
                      \/ l2.unit = l.unit /\ c.cur = Last(st).cur /\ c.cur # None
  PROVE  LastOK([st EXCEPT ![Len(st)] = c], l2, R, nn)
  <1> DEFINE x == [st EXCEPT ![Len(st)] = c]
  <1>1. /\ x \in Seq(Call) /\ Len(x) = Len(st) /\ x # <<>> /\ Last(x) = c /\ x[Len(st)] = c
        /\ \A i \in 1..Len(st) : i # Len(st) => x[i] = st[i]
    BY SetTop
  <1>2. Len(st) \in Nat /\ Len(st) \in 1..Len(st) /\ 1 \in 1..Len(st) /\ Last(st) = st[Len(st)]
    BY TopFacts
  <1> HIDE DEF x
  <1>3. \A i \in 1..Len(st) : x[i].ph = st[i].ph
    BY <1>1, <1>2
  <1>4. Rec(x) = Rec(st)
    BY <1>1, <1>2, <1>3 DEF Rec
  <1>5. CASE Rec(st)
    <2>1. x[1].cur = st[1].cur
      BY <1>1, <1>2, <1>5 DEF Rec
    <2>2. QED
      BY <1>4, <1>5, <2>1 DEF LastOK, x
  <1>6. CASE ~ Rec(st)
    <2>1. Len(x) <= Len(l2.frames) /\ \A i \in 1..Len(x) : l2.frames[Len(l2.frames) - Len(x) + i] = Frame(x[i].ph)
      BY <1>1, <1>3, <1>6 DEF LastOK
    <2>2. ASSUME l2.unit # None
          PROVE  /\ \E i \in 1..Len(x) : x[i].cur = l2.unit /\ Frame(x[i].ph) = Frame(Last(x).ph)
                 /\ Last(x).cur # None
      <3>1. CASE l2.unit = c.cur
        BY <1>1, <1>2, <2>2, <3>1
      <3>2. CASE l2.unit = l.unit /\ c.cur = Last(st).cur /\ c.cur # None
        <4>1. PICK i \in 1..Len(st) : st[i].cur = l.unit /\ Frame(st[i].ph) = Frame(Last(st).ph)
          BY <1>6, <2>2, <3>2 DEF LastOK
        <4>2. x[i].cur = st[i].cur
          BY <1>1, <1>2, <3>2, <4>1
        <4>3. QED
          BY <1>1, <1>2, <1>3, <3>2, <4>1, <4>2
      <3>3. QED
        BY <1>6, <2>2, <3>1, <3>2
    <2>3. QED
      BY <1>4, <1>6, <2>1, <2>2 DEF LastOK, x
  <1>7. QED
    BY <1>5, <1>6

-----------------------------------------------------------------------------
(* Each step keeps UInv. *)

LEMMA GrownOK ==
  ASSUME NEW a, NEW b \in Units, MemOK(a), Grown(a, b), Edges(b)
  PROVE  MemOK(b) /\ \A d : Behind(a, d) => Behind(b, d)
  <1>1. a \in Units /\ b.units \subseteq Name /\ Sound(a, Lqs(a), Tqs(a)) /\ NoDup(b.lq)
    BY UnitsType DEF MemOK, Grown
  <1>2. Tqs(b) = Tqs(a)
    BY DEF Grown, Tqs
  <1>3. Sound(b, Lqs(b), Tqs(b))
    BY <1>1, <1>2 DEF Grown, Sound
  <1>4. QED
    BY <1>1, <1>3 DEF MemOK, Grown, Behind

LEMMA SettledFacts ==
  ASSUME UInv, Settled
  PROVE  stack = <<>> /\ m.lq = <<>> /\ m.tq = <<>> /\ Lqs(m) = {} /\ Tqs(m) = {}
  <1>1. m.lq \in Seq(Name) /\ m.tq \in Seq(Name) /\ m.lq \o m.tq = <<>> /\ stack = <<>>
    BY UnitsType DEF UInv, MemOK, Settled, Idle
  <1>2. QED
    BY <1>1, ConcatEqualIffEmpty, ToSetEmpty DEF Lqs, Tqs

\* A call from the manager's loop.
LEMMA FirstCall ==
  ASSUME NEW l \in LastType, NEW R, NEW mm, NEW nn, LastOK(<<>>, l, R, mm)
  PROVE  /\ Calls(<<Called("load", None)>>, nn)
         /\ [l EXCEPT !.frames = Append(@, "Load")] \in LastType
         /\ LastOK(<<Called("load", None)>>, [l EXCEPT !.frames = Append(@, "Load")], R, nn)
         /\ l.unit = None /\ TopTodo(<<Called("load", None)>>, nn)
  <1> DEFINE c == Called("load", None)
             st == <<c>>
             l2 == [l EXCEPT !.frames = Append(@, "Load")]
  <1>1. c \in Call /\ c.ph = "load" /\ c.cur = None /\ c.at = "popped"
    BY CalledType
  <1> HIDE DEF c
  <1>2. st \in Seq(Call) /\ Len(st) = 1 /\ st[1] = c
    BY <1>1
  <1>3. Calls(st, nn)
    BY <1>1, <1>2 DEF Calls, CallOK, InHand
  <1>4. l.unit = None
    BY DEF LastOK, Rec
  <1>5. l.frames \in Seq({"Load", "TargetDeps"}) /\ l2.unit = None /\ l2.frames = Append(l.frames, "Load")
    BY <1>4 DEF LastType
  <1>6. l2 \in LastType
    BY <1>5 DEF LastType
  <1>7. Len(l2.frames) = Len(l.frames) + 1 /\ Len(l.frames) \in Nat /\ l2.frames[Len(l2.frames)] = "Load"
    BY <1>5
  <1> HIDE DEF l2
  <1>8. Len(l2.frames) - Len(st) + 1 = Len(l2.frames) /\ Len(st) <= Len(l2.frames)
    BY <1>2, <1>7
  <1>9. \A i \in 1..Len(st) : l2.frames[Len(l2.frames) - Len(st) + i] = Frame(st[i].ph)
    BY <1>1, <1>2, <1>7, <1>8 DEF Frame
  <1>10. LastOK(st, l2, R, nn)
    BY <1>1, <1>2, <1>5, <1>8, <1>9 DEF LastOK, Rec
  <1>11. TopTodo(st, nn)
    BY <1>1, <1>2 DEF TopTodo, Last
  <1>12. QED
    BY <1>3, <1>4, <1>6, <1>10, <1>11 DEF c, l2

LEMMA ULoadUnit ==
  ASSUME UInv, NEW u \in Name, LoadUnit(u)
  PROVE  /\ UInv' /\ Grown(m, m') /\ stack = <<>> /\ m'.units = m.units \cup {u} /\ m'.deps = m.deps
         /\ stack' = <<Called("load", None)>> /\ UNCHANGED <<disk, hist>>
  <1>1. stack = <<>> /\ Lqs(m) = {}
    BY SettledFacts DEF LoadUnit
  <1>2. m' = prepare_unit(m, u) /\ stack' = <<Called("load", None)>> /\ disk' = disk /\ hist' = hist
        /\ last' = [last EXCEPT !.frames = Append(@, "Load")]
    BY DEF LoadUnit
  <1>3. m' \in Units /\ Grown(m, m') /\ m'.deps = m.deps /\ m'.units = m.units \cup {u}
    BY <1>1, <1>2, PrepareFacts DEF UInv, MemOK
  <1>4. Edges(m')
    BY <1>3 DEF UInv, MemOK, Edges, Grown
  <1>5. MemOK(m') /\ Behind(m', disk)
    BY <1>3, <1>4, GrownOK DEF UInv
  <1>6. Calls(stack', m') /\ last' \in LastType /\ LastOK(stack', last', hist.redone, m') /\ TopTodo(stack', m')
    BY <1>1, <1>2, FirstCall DEF UInv
  <1>7. UInv'
    BY <1>2, <1>5, <1>6 DEF UInv
  <1>8. QED
    BY <1>1, <1>2, <1>3, <1>7

LEMMA URloop ==
  ASSUME UInv, rloop
  PROVE  UInv' /\ stack = <<>> /\ stack' = <<Called("load", None)>> /\ UNCHANGED <<m, disk, hist>>
  <1>1. stack = <<>> /\ stack' = <<Called("load", None)>> /\ disk' = disk /\ hist' = hist /\ m' = m
        /\ last' = [last EXCEPT !.frames = Append(@, "Load")]
    BY DEF rloop, Idle
  <1>2. Calls(stack', m) /\ last' \in LastType /\ LastOK(stack', last', hist.redone, m) /\ TopTodo(stack', m)
    BY <1>1, FirstCall DEF UInv
  <1>3. QED
    BY <1>1, <1>2 DEF UInv

\* The facts about the innermost call.
LEMMA ThisFacts ==
  ASSUME UInv, ~ Idle
  PROVE  /\ stack \in Seq(Call) /\ stack # <<>> /\ Len(stack) \in Nat /\ Len(stack) >= 1
         /\ Len(stack) \in 1..Len(stack) /\ 1 \in 1..Len(stack)
         /\ This = stack[Len(stack)] /\ This = Last(stack) /\ This \in Call
         /\ CallOK(This, Len(stack), Len(stack), m)
         /\ \A i \in 1..Len(stack) : i # Len(stack) =>
              /\ CallOK(stack[i], i, Len(stack), m) /\ i < Len(stack)
              /\ InHand(stack[i]) /\ stack[i].at = "extras" /\ Type[stack[i].cur] # "target"
              /\ InHand(This) => stack[i].cur # This.cur
         /\ m \in Units /\ m.lq \in Seq(Name) /\ m.tq \in Seq(Name)
         /\ This.ph \in {"load", "tdep", "comp"} /\ This.cur \in Name \cup {None}
         /\ This.at \in {"popped", "extras"} /\ This.todo \in Seq(Relation \X Name)
         /\ This = [ph |-> This.ph, cur |-> This.cur, at |-> This.at, todo |-> This.todo]
         /\ This.ph = "comp" => Len(stack) = 1 /\ Rec(stack)
         /\ Rec(stack) /\ This.ph # "comp" => Len(stack) # 1
  <1>1. stack \in Seq(Call) /\ stack # <<>>
    BY DEF UInv, Calls, Idle
  <1>2. /\ Len(stack) \in Nat /\ Len(stack) >= 1 /\ Len(stack) \in 1..Len(stack) /\ 1 \in 1..Len(stack)
        /\ This = stack[Len(stack)] /\ This = Last(stack) /\ This \in Call
    BY <1>1, TopFacts DEF This
  <1>3. \A i \in 1..Len(stack) : CallOK(stack[i], i, Len(stack), m)
    BY DEF UInv, Calls
  <1>4. \A i \in 1..Len(stack) : i # Len(stack) => i < Len(stack)
    BY <1>2
  <1>5. \A i \in 1..Len(stack) : i # Len(stack) =>
          InHand(stack[i]) /\ stack[i].at = "extras" /\ Type[stack[i].cur] # "target"
    BY <1>3, <1>4 DEF CallOK
  <1>6. \A i \in 1..Len(stack) : i # Len(stack) => (InHand(This) => stack[i].cur # This.cur)
    BY <1>2, <1>5 DEF UInv, Calls
  <1>7. m \in Units /\ m.lq \in Seq(Name) /\ m.tq \in Seq(Name)
    BY UnitsType DEF UInv, MemOK
  <1>8. /\ This.ph \in {"load", "tdep", "comp"} /\ This.cur \in Name \cup {None}
        /\ This.at \in {"popped", "extras"} /\ This.todo \in Seq(Relation \X Name)
        /\ This = [ph |-> This.ph, cur |-> This.cur, at |-> This.at, todo |-> This.todo]
    <2>1. \A c \in Call : /\ c.ph \in {"load", "tdep", "comp"} /\ c.cur \in Name \cup {None}
                          /\ c.at \in {"popped", "extras"} /\ c.todo \in Seq(Relation \X Name)
                          /\ c = [ph |-> c.ph, cur |-> c.cur, at |-> c.at, todo |-> c.todo]
      BY DEF Call
    <2>2. QED
      BY <1>2, <2>1
  <1>9. This.ph = "comp" => Len(stack) = 1 /\ Rec(stack)
    BY <1>1, <1>2, <1>3 DEF CallOK, Rec
  <1>10. Rec(stack) /\ This.ph # "comp" => Len(stack) # 1
    BY <1>2 DEF Rec
  <1>11. QED
    BY <1>1, <1>2, <1>3, <1>4, <1>5, <1>6, <1>7, <1>8, <1>9, <1>10

\* The calls that wait.
LEMMA LowerKeep ==
  ASSUME UInv, ~ Idle, InHand(This), NEW b, m.units \subseteq b.units, m.read \subseteq b.read,
         Lqs(b) \cap m.units \subseteq Lqs(m), \A x \in m.units : x # This.cur => b.state[x] = m.state[x]
  PROVE  \A i \in 1..Len(stack) : i # Len(stack) => CallOK(stack[i], i, Len(stack), b)
  <1>1. SUFFICES ASSUME NEW i \in 1..Len(stack), i # Len(stack) PROVE CallOK(stack[i], i, Len(stack), b)
    OBVIOUS
  <1>2. /\ CallOK(stack[i], i, Len(stack), m) /\ stack[i].at = "extras" /\ stack[i].cur # This.cur
        /\ InHand(stack[i]) /\ i < Len(stack) /\ Len(stack) \in Nat
    BY <1>1, ThisFacts
  <1>3. stack[i].cur \in m.units
    BY <1>2 DEF CallOK
  <1>4. b.state[stack[i].cur] = m.state[stack[i].cur]
    BY <1>2, <1>3
  <1>5. QED
    BY <1>2, <1>3, <1>4 DEF CallOK, InHand

LEMMA UPopLoad ==
  ASSUME UInv, PopLoad
  PROVE  /\ UInv' /\ UNCHANGED <<m, disk, hist>> /\ m.lq # <<>> /\ ~ Idle
         /\ stack' = [stack EXCEPT ![Len(stack)] = Called("load", Head(m.lq))]
         /\ This.ph = "load" /\ This.cur = None
  <1> DEFINE u == Head(m.lq)
             c == Called("load", u)
  <1>1. /\ ~ Idle /\ This.ph = "load" /\ This.cur = None /\ m.lq # <<>> /\ m' = m /\ disk' = disk /\ hist' = hist
        /\ stack' = [stack EXCEPT ![Len(stack)] = c]
        /\ last' = IF Rec(stack) THEN last ELSE [last EXCEPT !.unit = u]
    BY RecFacts DEF PopLoad, SetThis, set_last_unit
  <1>2. u \in Name /\ u \in Lqs(m)
    BY <1>1, ThisFacts, ToSetTail DEF Lqs
  <1>3. c \in Call /\ c.ph = "load" /\ c.cur = u /\ c.at = "popped" /\ u # None
    BY <1>2, CalledType, NoneType
  <1>4. u \in m.units /\ m.state[u] = "UnitStub"
    BY <1>2 DEF UInv, MemOK, Sound
  <1>5. CallOK(c, Len(stack), Len(stack), m)
    <2>1. ~ (Len(stack) < Len(stack))
      BY <1>1, ThisFacts
    <2>2. QED
      BY <1>1, <1>3, <1>4, <2>1 DEF CallOK, InHand
  <1>6. \A i \in 1..Len(stack) : i # Len(stack) /\ InHand(stack[i]) => stack[i].cur # c.cur
    BY <1>1, <1>2, <1>3, ThisFacts DEF CallOK
  <1> HIDE DEF c, u
  <1>7. Calls(stack', m)
    <2>1. Calls(stack, m) /\ stack # <<>>
      BY <1>1 DEF UInv, Idle
    <2>2. \A i \in 1..Len(stack) : i # Len(stack) => CallOK(stack[i], i, Len(stack), m)
      BY <1>1, ThisFacts
    <2>3. QED
      BY <1>1, <1>3, <1>5, <1>6, <2>1, <2>2, CallsSetTop
  <1>8. last' \in LastType /\ last'.frames = last.frames /\ (~ Rec(stack) => last'.unit = u)
    BY <1>1, <1>2 DEF UInv, LastType
  <1>9. LastOK(stack', last', hist.redone, m)
    <2>1. stack \in Seq(Call) /\ stack # <<>> /\ Last(stack).ph = "load" /\ LastOK(stack, last, hist.redone, m)
      BY <1>1, ThisFacts DEF UInv
    <2>2. QED
      BY <1>1, <1>3, <1>8, <2>1, LastTop
  <1>10. TopTodo(stack', m)
    BY <1>1, <1>3, ThisFacts, SetTop DEF TopTodo
  <1>11. QED
    BY <1>1, <1>7, <1>8, <1>9, <1>10 DEF UInv, u, c

\* The load of u ends: only its own state changes, and it leaves the load queue.
Ends(a, b, u) ==
  /\ b \in Units /\ NoDup(b.lq) /\ b.units = a.units /\ b.read = a.read /\ b.deps = a.deps
  /\ Lqs(b) = Lqs(a) \ {u} /\ \A x \in Name : x # u => b.state[x] = a.state[x]
  /\ Tqs(a) \subseteq Tqs(b) /\ Tqs(b) \subseteq Tqs(a) \cup {u}
  /\ u \in Tqs(b) => b.state[u] = "UnitLoaded"

LEMMA EndsOK ==
  ASSUME NEW a, NEW b, NEW u \in a.units, MemOK(a), Ends(a, b, u)
  PROVE  MemOK(b)
  <1>1. a \in Units /\ a.units \subseteq Name /\ Sound(a, Lqs(a), Tqs(a)) /\ Edges(a)
    BY UnitsType DEF MemOK
  <1>2. \A x \in Lqs(b) : x \in b.units /\ b.state[x] = "UnitStub"
    BY <1>1 DEF Ends, Sound
  <1>3. \A x \in Tqs(b) : x \in b.units /\ b.state[x] = "UnitLoaded"
    BY <1>1 DEF Ends, Sound
  <1>4. Sound(b, Lqs(b), Tqs(b))
    BY <1>1, <1>2, <1>3 DEF Ends, Sound
  <1>5. Edges(b)
    BY <1>1 DEF Ends, Edges
  <1>6. QED
    BY <1>4, <1>5 DEF Ends, MemOK

LEMMA UFinish ==
  ASSUME UInv, ~ Idle, InHand(This), NEW mm, Ends(m, mm, This.cur), Finish(mm), hist' = hist
  PROVE  /\ UInv' /\ m' = mm /\ disk' = Saved(mm)
         /\ This.ph = "comp" => stack' = <<>>
         /\ This.ph # "comp" => stack' = [stack EXCEPT ![Len(stack)] = Called("load", None)]
  <1> DEFINE u == This.cur
             n == Len(stack)
  <1>1. m' = mm /\ disk' = Saved(mm)
    BY DEF Finish, commit, Saved
  <1>2. u \in Name /\ u \in m.units /\ m.state[u] = "UnitStub"
    BY ThisFacts DEF CallOK, InHand
  <1>3. MemOK(mm)
    BY <1>2, EndsOK DEF UInv
  <1>4. DiskOK(disk') /\ Behind(m', disk')
    BY <1>1, <1>3, SavedFacts
  <1>5. CASE This.ph = "comp"
    <2>1. n = 1 /\ stack' = Front(stack) /\ stack \in Seq(Call)
      BY <1>5, ThisFacts DEF Finish
    <2>2. stack' = <<>>
      <3>1. stack' \in Seq(Call) /\ Len(stack') = 0
        BY <2>1, ThisFacts, FrontFacts
      <3>2. QED
        BY <3>1
    <2>3. last' = [unit |-> None, frames |-> PopFrame(PopFrame(last.frames))]
      BY <1>5 DEF Finish
    <2>4. \A s \in Seq({"Load", "TargetDeps"}) : PopFrame(s) \in Seq({"Load", "TargetDeps"})
      BY FrontFacts DEF PopFrame
    <2>5. last' \in LastType /\ last'.unit = None /\ Len(last'.frames) \in Nat
      BY <2>3, <2>4 DEF UInv, LastType
    <2>6. Calls(stack', m') /\ LastOK(stack', last', hist.redone, m') /\ TopTodo(stack', m')
      BY <2>2, <2>5 DEF Calls, LastOK, Rec, TopTodo
    <2>7. QED
      BY <1>1, <1>3, <1>4, <1>5, <2>2, <2>5, <2>6 DEF UInv
  <1>6. CASE This.ph # "comp"
    <2> DEFINE c == Called("load", None)
    <2>1. This.ph = "load" /\ stack' = [stack EXCEPT ![n] = c]
          /\ last' = IF Rec(stack) THEN last ELSE [last EXCEPT !.unit = None]
      BY <1>6, RecFacts, ThisFacts DEF Finish, SetThis, set_last_unit, InHand
    <2>2. c \in Call /\ c.ph = "load" /\ c.cur = None /\ c.at = "popped"
      BY CalledType
    <2> HIDE DEF c
    <2>3. CallOK(c, n, n, mm) /\ ~ InHand(c)
      <3>1. ~ (n < n)
        BY ThisFacts
      <3>2. QED
        BY <2>2, <3>1 DEF CallOK, InHand
    <2>4. \A i \in 1..n : i # n => CallOK(stack[i], i, n, mm)
      <3>1. m.units \subseteq Name
        BY UnitsType DEF UInv, MemOK
      <3>2. QED
        BY <3>1, LowerKeep DEF Ends
    <2>5. Calls(stack', mm)
      <3>1. Calls(stack, m) /\ stack # <<>>
        BY DEF UInv, Idle
      <3>2. QED
        BY <2>1, <2>2, <2>3, <2>4, <3>1, CallsSetTop
    <2>6. last' \in LastType /\ last'.frames = last.frames /\ (~ Rec(stack) => last'.unit = None)
      BY <2>1 DEF UInv, LastType
    <2>7. LastOK(stack', last', hist.redone, mm)
      <3>1. stack \in Seq(Call) /\ stack # <<>> /\ Last(stack).ph = "load" /\ LastOK(stack, last, hist.redone, m)
        BY <2>1, ThisFacts DEF UInv
      <3>2. QED
        BY <2>1, <2>2, <2>6, <3>1, LastTop
    <2>8. TopTodo(stack', mm)
      BY <2>1, <2>2, ThisFacts, SetTop DEF TopTodo
    <2>9. QED
      BY <1>1, <1>3, <1>4, <1>6, <2>1, <2>5, <2>6, <2>7, <2>8 DEF UInv, c
  <1>7. QED
    BY <1>5, <1>6

LEMMA DequeuedFacts ==
  ASSUME UInv, ~ Idle, InHand(This), This.at = "popped"
  PROVE  LET d == Dequeued(m, This.cur)
         IN  /\ d \in Units /\ NoDup(d.lq) /\ d.units = m.units /\ d.read = m.read /\ d.deps = m.deps
             /\ d.state = m.state /\ d.tq = m.tq /\ Lqs(d) = Lqs(m) \ {This.cur}
  <1> DEFINE u == This.cur
             q == IF m.lq # <<>> /\ Head(m.lq) = u THEN Tail(m.lq) ELSE m.lq
             d == Dequeued(m, u)
  <1>1. m \in Units /\ m.lq \in Seq(Name) /\ NoDup(m.lq)
    BY UnitsType DEF UInv, MemOK
  <1>2. q \in Seq(Name) /\ NoDup(q) /\ ToSet(q) = ToSet(m.lq) \ {u}
    <2>1. CASE This.ph = "comp"
      <3>1. u \notin ToSet(m.lq)
        BY <2>1, ThisFacts DEF CallOK, Lqs
      <3>2. ~ (m.lq # <<>> /\ Head(m.lq) = u)
        BY <1>1, <3>1, ToSetTail
      <3>3. QED
        BY <1>1, <3>1, <3>2
    <2>2. CASE This.ph # "comp"
      <3>1. m.lq # <<>> /\ Head(m.lq) = u
        BY <2>2, ThisFacts DEF CallOK, InHand
      <3>2. QED
        BY <1>1, <3>1, ToSetTail
    <2>3. QED
      BY <2>1, <2>2
  <1>3. d = [m EXCEPT !.lq = q]
    BY DEF Dequeued
  <1> HIDE DEF q
  <1>4. /\ d \in Units /\ d.lq = q /\ d.units = m.units /\ d.read = m.read /\ d.deps = m.deps
        /\ d.state = m.state /\ d.tq = m.tq
    BY <1>1, <1>2, <1>3 DEF Units
  <1> HIDE DEF d
  <1>5. QED
    BY <1>2, <1>4 DEF Lqs, d

\* The unit gets its state, and goes to the other queue when it is loaded.
WithState(d, u, s) == [d EXCEPT !.state[u] = s]
EndsIn(a, l, u, s) ==
  /\ Ends(a, l, u) /\ l.state[u] = s /\ Tqs(l) = Tqs(a)
  /\ s = "UnitLoaded" => /\ Ends(a, push_target_dep_queue(l, u), u)
                         /\ push_target_dep_queue(l, u).state[u] = s
                         /\ Tqs(push_target_dep_queue(l, u)) = Tqs(a) \cup {u}

LEMMA LoadedEnds ==
  ASSUME NEW a \in Units, NEW d \in Units, NoDup(d.lq), d.units = a.units, d.read = a.read, d.deps = a.deps,
         d.state = a.state, d.tq = a.tq, NEW u \in Name, Lqs(d) = Lqs(a) \ {u}, u \notin Tqs(a),
         NEW s \in LoadState
  PROVE  EndsIn(a, WithState(d, u, s), u, s)
  <1> DEFINE l == WithState(d, u, s)
             p == push_target_dep_queue(l, u)
  <1>1. /\ l \in Units /\ l.units = d.units /\ l.read = d.read /\ l.deps = d.deps /\ l.lq = d.lq /\ l.tq = d.tq
        /\ l.state[u] = s /\ \A x \in Name : x # u => l.state[x] = d.state[x]
    BY DEF Units, WithState
  <1> HIDE DEF l
  <1>2. Lqs(l) = Lqs(d) /\ Tqs(l) = Tqs(a)
    BY <1>1 DEF Lqs, Tqs
  <1>3. Ends(a, l, u)
    BY <1>1, <1>2 DEF Ends
  <1>4. ASSUME s = "UnitLoaded"
        PROVE  Ends(a, p, u) /\ p.state[u] = s /\ Tqs(p) = Tqs(a) \cup {u}
    <2>1. p = [l EXCEPT !.tq = Append(@, u)]
      BY <1>2 DEF push_target_dep_queue, Tqs
    <2>2. l.tq \in Seq(Name)
      BY <1>1, UnitsType
    <2>3. Append(l.tq, u) \in Seq(Name) /\ ToSet(Append(l.tq, u)) = ToSet(l.tq) \cup {u}
      BY <2>2, ToSetAppend
    <2>4. /\ p \in Units /\ p.units = l.units /\ p.read = l.read /\ p.deps = l.deps /\ p.lq = l.lq
          /\ p.state = l.state /\ p.tq = Append(l.tq, u)
      BY <1>1, <2>1, <2>3 DEF Units
    <2> HIDE DEF p
    <2>5. Lqs(p) = Lqs(l) /\ Tqs(p) = Tqs(a) \cup {u}
      BY <1>2, <2>3, <2>4 DEF Lqs, Tqs
    <2>6. QED
      BY <1>1, <1>2, <1>4, <2>4, <2>5 DEF Ends
  <1>5. QED
    BY <1>1, <1>2, <1>3, <1>4 DEF l, EndsIn

\* A step that ends the load of the unit in hand, and one that reads its configuration.
EndStep(u) ==
  /\ Ends(m, m', u) /\ disk' = Saved(m') /\ hist' = hist
  /\ This.ph = "comp" => stack' = <<>>
  /\ This.ph # "comp" => stack' = [stack EXCEPT ![Len(stack)] = Called("load", None)]

ReadStep(u) ==
  /\ m' \in Units /\ m'.state = m.state /\ m'.read = m.read \cup {u} /\ m'.tq = m.tq
  /\ m.units \subseteq m'.units /\ m.deps \subseteq m'.deps /\ Edges(m') /\ PullsOf(m.deps, m'.deps, u)
  /\ NoDup(m'.lq) /\ Lqs(m') = (Lqs(m) \ {u}) \cup (m'.units \ m.units)
  /\ stack' = [stack EXCEPT ![Len(stack)] = [This EXCEPT !.at = "extras", !.todo = extras(m', u)]]
  /\ UNCHANGED <<disk, last, hist>>

LEMMA ReadOK ==
  ASSUME UInv, LinkInv, ~ Idle, InHand(This), This.at = "popped", Type[This.cur] # "mount",
         File[This.cur] # NoFile, NEW r \in insert_udconf([Dequeued(m, This.cur) EXCEPT !.read = @ \cup {This.cur}], This.cur)
  PROVE  /\ r \in Units /\ r.state = m.state /\ r.read = m.read \cup {This.cur} /\ r.tq = m.tq
         /\ m.units \subseteq r.units /\ m.deps \subseteq r.deps /\ Edges(r)
         /\ PullsOf(m.deps, r.deps, This.cur)
         /\ NoDup(r.lq) /\ Lqs(r) = (Lqs(m) \ {This.cur}) \cup (r.units \ m.units)
  <1> DEFINE u == This.cur
             d == Dequeued(m, u)
             b == [d EXCEPT !.read = @ \cup {u}]
  <1>1. /\ d \in Units /\ NoDup(d.lq) /\ d.units = m.units /\ d.read = m.read /\ d.deps = m.deps
        /\ d.state = m.state /\ d.tq = m.tq /\ Lqs(d) = Lqs(m) \ {u}
    BY DequeuedFacts
  <1>2. u \in Name
    BY ThisFacts DEF InHand
  <1> HIDE DEF d
  <1>3. /\ b \in Units /\ b.lq = d.lq /\ b.units = d.units /\ b.read = d.read \cup {u} /\ b.deps = d.deps
        /\ b.state = d.state /\ b.tq = d.tq
    BY <1>1, <1>2 DEF Units
  <1>4. r \in insert_udconf(b, u)
    BY DEF d
  <1> HIDE DEF b
  <1>5. Edges(b)
    BY <1>1, <1>3 DEF UInv, MemOK, Edges
  <1>6. Lqs(b) = Lqs(d) /\ Lqs(b) \subseteq b.units
    BY <1>1, <1>3 DEF Lqs, UInv, MemOK, Sound
  <1>7. links \subseteq Link
    BY DEF LinkInv, ITypeOK
  <1>8. u \in b.read
    BY <1>3
  <1> HIDE DEF u
  <1>9. File[u] # NoFile
    BY DEF u
  <1>10. r \in Units /\ Grown(b, r) /\ Edges(r) /\ PullsOf(b.deps, r.deps, u)
    BY <1>3, <1>4, <1>5, <1>6, <1>7, <1>8, <1>9, InsertConf
  <1>11. QED
    BY <1>1, <1>3, <1>6, <1>10 DEF Grown, u

LEMMA ULoad ==
  ASSUME UInv, LinkInv, load_unit
  PROVE  /\ UInv' /\ ~ Idle /\ InHand(This) /\ This.at = "popped" /\ hist' = hist
         /\ \/ /\ EndStep(This.cur) /\ Type[This.cur] = "mount" /\ m'.state[This.cur] = "UnitLoaded"
               /\ This.ph # "comp" => This.cur \in Tqs(m')
            \/ /\ EndStep(This.cur) /\ Type[This.cur] # "mount" /\ m'.state[This.cur] = "UnitNotFound"
            \/ /\ ReadStep(This.cur) /\ Type[This.cur] # "mount" /\ File[This.cur] # NoFile
               /\ TodoOK(m', This.cur, extras(m', This.cur))
  <1> DEFINE u == This.cur
             n == Len(stack)
             d == Dequeued(m, u)
  <1>1. ~ Idle /\ InHand(This) /\ This.at = "popped" /\ hist' = hist
    BY DEF load_unit, InLoad, InHand
  <1>2. u \in Name /\ u \in m.units /\ m.state[u] = "UnitStub" /\ m \in Units /\ u \notin Tqs(m)
    BY <1>1, ThisFacts DEF CallOK, InHand, UInv, MemOK, Sound
  <1>3. /\ d \in Units /\ NoDup(d.lq) /\ d.units = m.units /\ d.read = m.read /\ d.deps = m.deps
        /\ d.state = m.state /\ d.tq = m.tq /\ Lqs(d) = Lqs(m) \ {u}
    BY <1>1, DequeuedFacts
  <1>4. CASE Type[u] = "mount"
    <2> DEFINE l == WithState(d, u, "UnitLoaded")
               f == IF This.ph = "comp" THEN l ELSE push_target_dep_queue(l, u)
    <2>1. Finish(f)
      BY <1>4 DEF load_unit, WithState
    <2> HIDE DEF d
    <2>2. Ends(m, l, u) /\ l.state[u] = "UnitLoaded" /\ Ends(m, push_target_dep_queue(l, u), u)
          /\ push_target_dep_queue(l, u).state[u] = "UnitLoaded" /\ u \in Tqs(push_target_dep_queue(l, u))
      <3>1. "UnitLoaded" \in LoadState
        BY DEF LoadState
      <3>2. EndsIn(m, l, u, "UnitLoaded")
        BY <1>2, <1>3, <3>1, LoadedEnds
      <3>3. QED
        BY <3>2 DEF EndsIn
    <2>3. Ends(m, f, u) /\ f.state[u] = "UnitLoaded" /\ (This.ph # "comp" => u \in Tqs(f))
      BY <2>2
    <2> HIDE DEF f
    <2>4. /\ UInv' /\ m' = f /\ disk' = Saved(f)
          /\ This.ph = "comp" => stack' = <<>>
          /\ This.ph # "comp" => stack' = [stack EXCEPT ![Len(stack)] = Called("load", None)]
      BY <1>1, <2>1, <2>3, UFinish
    <2>5. QED
      BY <1>1, <1>4, <2>3, <2>4 DEF EndStep
  <1>5. CASE Type[u] # "mount" /\ File[u] = NoFile
    <2> DEFINE l == WithState(d, u, "UnitNotFound")
    <2>1. Finish(l)
      BY <1>5 DEF load_unit, WithState
    <2> HIDE DEF d
    <2>2. Ends(m, l, u) /\ l.state[u] = "UnitNotFound"
      <3>1. "UnitNotFound" \in LoadState
        BY DEF LoadState
      <3>2. EndsIn(m, l, u, "UnitNotFound")
        BY <1>2, <1>3, <3>1, LoadedEnds
      <3>3. QED
        BY <3>2 DEF EndsIn
    <2> HIDE DEF l
    <2>3. /\ UInv' /\ m' = l /\ disk' = Saved(l)
          /\ This.ph = "comp" => stack' = <<>>
          /\ This.ph # "comp" => stack' = [stack EXCEPT ![Len(stack)] = Called("load", None)]
      BY <1>1, <2>1, <2>2, UFinish
    <2>4. QED
      BY <1>1, <1>5, <2>2, <2>3 DEF EndStep
  <1>6. CASE Type[u] # "mount" /\ File[u] # NoFile
    <2>1. PICK r \in insert_udconf([d EXCEPT !.read = @ \cup {u}], u) :
            /\ m' = r
            /\ SetThis([This EXCEPT !.at = "extras", !.todo = extras(r, u)])
            /\ UNCHANGED <<disk, last>>
      BY <1>6 DEF load_unit
    <2> DEFINE c == [This EXCEPT !.at = "extras", !.todo = extras(m', u)]
    <2>2. /\ m' \in Units /\ m'.state = m.state /\ m'.read = m.read \cup {u} /\ m'.tq = m.tq
          /\ m.units \subseteq m'.units /\ m.deps \subseteq m'.deps /\ Edges(m') /\ PullsOf(m.deps, m'.deps, u)
          /\ NoDup(m'.lq) /\ Lqs(m') = (Lqs(m) \ {u}) \cup (m'.units \ m.units)
      BY <1>1, <1>6, <2>1, ReadOK
    <2> HIDE DEF d
    <2>3. stack' = [stack EXCEPT ![n] = c] /\ disk' = disk /\ last' = last
      BY <2>1 DEF SetThis
    <2>4. extras(m', u) \in Seq(Relation \X Name) /\ Owns(extras(m', u)) /\ TodoOK(m', u, extras(m', u))
      BY <1>2, <2>2, ExtrasFacts
    <2>5. c \in Call /\ c.ph = This.ph /\ c.cur = u /\ c.at = "extras" /\ c.todo = extras(m', u)
      BY <1>1, <2>4, ThisFacts DEF Call
    <2> HIDE DEF c
    <2>6. MemOK(m')
      <3>1. Sound(m, Lqs(m), Tqs(m)) /\ m.units \subseteq Name /\ m'.units \subseteq Name
        BY <1>2, <2>2, UnitsType DEF UInv, MemOK
      <3>2. Tqs(m') = Tqs(m)
        BY <2>2 DEF Tqs
      <3>3. Sound(m', Lqs(m'), Tqs(m'))
        BY <1>2, <1>6, <2>2, <3>1, <3>2 DEF Sound
      <3>4. QED
        BY <2>2, <3>3 DEF MemOK
    <2>7. Behind(m', disk')
      BY <2>2, <2>3 DEF UInv, Behind
    <2>8. u \notin Lqs(m')
      BY <1>2, <2>2
    <2>9. CallOK(c, n, n, m')
      <3>1. ~ (n < n) /\ InHand(c) /\ (This.ph = "comp" => n = 1)
        BY <1>1, <2>5, ThisFacts DEF InHand
      <3>2. QED
        BY <1>1, <1>2, <1>6, <2>2, <2>4, <2>5, <2>8, <3>1 DEF CallOK, InHand
    <2>10. \A i \in 1..n : i # n => CallOK(stack[i], i, n, m')
      BY <1>1, <2>2, LowerKeep
    <2>11. \A i \in 1..n : i # n /\ InHand(stack[i]) => stack[i].cur # c.cur
      BY <1>1, <2>5, ThisFacts
    <2>12. Calls(stack', m')
      <3>1. Calls(stack, m) /\ stack # <<>>
        BY <1>1 DEF UInv, Idle
      <3>2. QED
        BY <2>3, <2>5, <2>9, <2>10, <2>11, <3>1, CallsSetTop
    <2>13. LastOK(stack', last', hist.redone, m')
      <3>1. /\ stack \in Seq(Call) /\ stack # <<>> /\ LastOK(stack, last, hist.redone, m)
            /\ c.ph = Last(stack).ph /\ c.cur = Last(stack).cur /\ c.cur # None
        BY <1>1, <2>5, ThisFacts DEF UInv, InHand
      <3>2. QED
        BY <2>3, <2>5, <3>1, LastTop
    <2>14. TopTodo(stack', m')
      <3>1. Last(stack') = c
        BY <1>1, <2>3, <2>5, ThisFacts, SetTop
      <3>2. QED
        BY <2>4, <2>5, <3>1 DEF TopTodo
    <2>15. UInv'
      BY <1>1, <2>3, <2>6, <2>7, <2>12, <2>13, <2>14 DEF UInv
    <2>16. ReadStep(u)
      BY <1>1, <2>2, <2>3 DEF ReadStep, c
    <2>17. QED
      BY <1>1, <1>6, <2>4, <2>15, <2>16
  <1>7. QED
    BY <1>4, <1>5, <1>6

\* A dependency on a unit that exists is added, or the unit it needs is to be loaded.
AddStep(u, r, t) ==
  /\ m' \in Units /\ m'.units = m.units /\ m'.state = m.state /\ m'.read = m.read /\ m'.lq = m.lq /\ m'.tq = m.tq
  /\ Inserted(m.deps, m'.deps, u, r, t) /\ r \in Own /\ t \in m.units
  /\ stack' = [stack EXCEPT ![Len(stack)] = [This EXCEPT !.todo = Tail(@)]]
  /\ UNCHANGED <<disk, hist>>

NestStep(u, t) ==
  /\ m' \in Units /\ Grown(m, m') /\ m'.units = m.units \cup {t} /\ m'.deps = m.deps /\ Type[u] # "target"
  /\ stack' = Append(stack, Called("load", None))
  /\ UNCHANGED <<disk, hist>>

LEMMA TodoTail ==
  ASSUME NEW a \in Units, NEW b \in Units, b.units = a.units, b.read = a.read, NEW u \in Name,
         NEW todo \in Seq(Relation \X Name), todo # <<>>, Owns(todo), TodoOK(a, u, todo),
         Inserted(a.deps, b.deps, u, Head(todo)[1], Head(todo)[2])
  PROVE  Tail(todo) \in Seq(Relation \X Name) /\ Owns(Tail(todo)) /\ TodoOK(b, u, Tail(todo))
  <1> DEFINE s == Tail(todo)
  <1>1. /\ Len(todo) \in Nat /\ Len(todo) >= 1 /\ Head(todo) = todo[1] /\ s \in Seq(Relation \X Name)
        /\ Len(s) = Len(todo) - 1 /\ \A k \in 1..(Len(todo) - 1) : s[k] = todo[k + 1]
    OBVIOUS
  <1>2. \A k \in 1..Len(s) : k + 1 \in 1..Len(todo) /\ s[k] = todo[k + 1]
    BY <1>1
  <1>3. \A k \in 1..Len(todo) : k = 1 \/ (k - 1 \in 1..Len(s) /\ s[k - 1] = todo[k])
    BY <1>1
  <1>4. 1 \in 1..Len(todo) /\ Head(todo) = todo[1]
    BY <1>1
  <1> HIDE DEF s
  <1>5. Owns(s)
    BY <1>2 DEF Owns
  <1>6. ASSUME Type[u] = "target"
        PROVE  TodoOK(b, u, s)
    <2>1. \A k \in 1..Len(todo) : todo[k][1] = "After" /\ todo[k][2] \in a.units
      BY <1>6 DEF TodoOK
    <2>2. \A k \in 1..Len(s) : s[k][1] = "After" /\ s[k][2] \in b.units
      BY <1>2, <2>1
    <2>3. ASSUME default_dependencies(b, u), NEW n \in b.units, default_dependencies(b, n),
                 \E p \in Pull : <<u, p, n>> \in b.deps
          PROVE  \/ <<u, "Before", n>> \in b.deps \/ <<u, "After", n>> \in b.deps \/ u = n
                 \/ \E k \in 1..Len(s) : s[k] = <<"After", n>>
      <3>1. Head(todo)[1] = "After" /\ n \in Name
        BY <1>4, <2>1, UnitsType
      <3>2. \E p \in Pull : <<u, p, n>> \in a.deps
        BY <2>3, <3>1 DEF Inserted, Pull
      <3>3. default_dependencies(a, u) /\ default_dependencies(a, n)
        BY <2>3 DEF default_dependencies
      <3>4. \/ <<u, "Before", n>> \in a.deps \/ <<u, "After", n>> \in a.deps \/ u = n
            \/ \E k \in 1..Len(todo) : todo[k] = <<"After", n>>
        BY <1>6, <3>2, <3>3 DEF TodoOK
      <3>5. a.deps \subseteq b.deps
        BY DEF Inserted
      <3>6. ASSUME NEW k \in 1..Len(todo), todo[k] = <<"After", n>>, u # n
            PROVE  <<u, "After", n>> \in b.deps \/ \E j \in 1..Len(s) : s[j] = <<"After", n>>
        <4>1. CASE k = 1
          <5>1. Head(todo)[1] = "After" /\ Head(todo)[2] = n
            BY <1>4, <3>6, <4>1
          <5>2. QED
            BY <3>6, <5>1 DEF Inserted
        <4>2. CASE k # 1
          BY <1>3, <3>6, <4>2
        <4>3. QED
          BY <4>1, <4>2
      <3>7. QED
        BY <3>4, <3>5, <3>6
    <2>4. QED
      BY <2>2, <2>3 DEF TodoOK
  <1>7. TodoOK(b, u, s)
    BY <1>6 DEF TodoOK
  <1>8. QED
    BY <1>1, <1>5, <1>7 DEF s

LEMMA UAdd ==
  ASSUME UInv, unit_add_dependency
  PROVE  /\ UInv' /\ ~ Idle /\ InHand(This) /\ This.at = "extras" /\ This.todo # <<>>
         /\ \/ AddStep(This.cur, Head(This.todo)[1], Head(This.todo)[2])
            \/ NestStep(This.cur, Head(This.todo)[2])
  <1> DEFINE u == This.cur
             n == Len(stack)
             r == Head(This.todo)[1]
             t == Head(This.todo)[2]
  <1>1. ~ Idle /\ InHand(This) /\ This.at = "extras" /\ This.todo # <<>> /\ disk' = disk /\ hist' = hist
    BY DEF unit_add_dependency, InLoad, InHand
  <1>2. /\ u \in Name /\ u \in m.units /\ u \in m.read /\ m.state[u] = "UnitStub" /\ m \in Units
        /\ Owns(This.todo) /\ TodoOK(m, u, This.todo) /\ This.todo \in Seq(Relation \X Name)
    BY <1>1, ThisFacts DEF CallOK, InHand, UInv, TopTodo
  <1>3. 1 \in 1..Len(This.todo) /\ Head(This.todo) = This.todo[1]
    BY <1>1, <1>2
  <1>4. r \in Own /\ t \in Name /\ r \in Listed
    BY <1>2, <1>3 DEF Owns, Own, Listed
  <1>5. CASE t \in m.units
    <2> DEFINE c == [This EXCEPT !.todo = Tail(@)]
    <2>1. /\ m' = [m EXCEPT !.deps = dep_insert(@, u, r, t)] /\ stack' = [stack EXCEPT ![n] = c] /\ last' = last
      BY <1>5 DEF unit_add_dependency, SetThis
    <2>2. m.deps \in SUBSET Deps
      BY <1>2, UnitsType
    <2>3. Inserted(m.deps, dep_insert(m.deps, u, r, t), u, r, t)
      BY <1>2, <1>4, <2>2, DepInsertFacts
    <2>4. dep_insert(m.deps, u, r, t) \in SUBSET Deps
      BY <2>3 DEF Inserted
    <2> HIDE DEF r, t, u
    <2>5. /\ m' \in Units /\ m'.units = m.units /\ m'.state = m.state /\ m'.read = m.read /\ m'.lq = m.lq
          /\ m'.tq = m.tq /\ m'.deps = dep_insert(m.deps, u, r, t)
      BY <1>2, <2>1, <2>4 DEF Units, Deps
    <2>6. Edges(m')
      BY <1>2, <1>4, <2>1, EdgesInsert DEF UInv, MemOK
    <2>7. Lqs(m') = Lqs(m) /\ Tqs(m') = Tqs(m)
      BY <2>5 DEF Lqs, Tqs
    <2>8. MemOK(m') /\ Behind(m', disk)
      BY <2>5, <2>6, <2>7 DEF MemOK, Sound, UInv, Behind
    <2>9. Tail(This.todo) \in Seq(Relation \X Name) /\ Owns(Tail(This.todo)) /\ TodoOK(m', u, Tail(This.todo))
      <3>1. Inserted(m.deps, m'.deps, u, Head(This.todo)[1], Head(This.todo)[2])
        BY <2>3, <2>5 DEF r, t
      <3>2. QED
        BY <1>1, <1>2, <2>5, <3>1, TodoTail
    <2>10. c \in Call /\ c.ph = This.ph /\ c.cur = This.cur /\ c.at = This.at /\ c.todo = Tail(This.todo)
      BY <1>1, <2>9, ThisFacts DEF Call
    <2> HIDE DEF c
    <2>11. CallOK(c, n, n, m')
      <3>1. CallOK(This, n, n, m)
        BY <1>1, ThisFacts
      <3>2. QED
        BY <2>5, <2>7, <2>9, <2>10, <3>1 DEF CallOK, InHand
    <2>12. \A i \in 1..n : i # n => CallOK(stack[i], i, n, m')
      BY <1>1, <2>5, <2>7, LowerKeep
    <2>13. \A i \in 1..n : i # n /\ InHand(stack[i]) => stack[i].cur # c.cur
      BY <1>1, <2>10, ThisFacts
    <2>14. Calls(stack', m')
      <3>1. Calls(stack, m) /\ stack # <<>>
        BY <1>1 DEF UInv, Idle
      <3>2. QED
        BY <2>1, <2>10, <2>11, <2>12, <2>13, <3>1, CallsSetTop
    <2>15. LastOK(stack', last', hist.redone, m')
      <3>1. /\ stack \in Seq(Call) /\ stack # <<>> /\ LastOK(stack, last, hist.redone, m)
            /\ c.ph = Last(stack).ph /\ c.cur = Last(stack).cur /\ c.cur # None
        BY <1>1, <2>10, ThisFacts DEF UInv, InHand
      <3>2. QED
        BY <2>1, <2>10, <3>1, LastTop
    <2>16. TopTodo(stack', m')
      <3>1. Last(stack') = c
        BY <1>1, <2>1, <2>10, ThisFacts, SetTop
      <3>2. QED
        BY <2>9, <2>10, <3>1 DEF TopTodo, u
    <2>17. UInv'
      BY <1>1, <2>1, <2>8, <2>14, <2>15, <2>16 DEF UInv
    <2>18. AddStep(u, r, t)
      BY <1>1, <1>4, <1>5, <2>1, <2>3, <2>5 DEF AddStep, c
    <2>19. QED
      BY <1>1, <2>17, <2>18 DEF u, r, t
  <1>6. CASE t \notin m.units
    <2> DEFINE c == Called("load", None)
    <2>1. /\ m' = prepare_unit(m, t) /\ stack' = Append(stack, c)
          /\ last' = IF Rec(stack) THEN last ELSE [last EXCEPT !.frames = Append(@, "Load")]
      BY <1>6, RecFacts DEF unit_add_dependency
    <2>2. Lqs(m) \subseteq m.units
      BY DEF UInv, MemOK, Sound
    <2> HIDE DEF t
    <2>3. m' \in Units /\ Grown(m, m') /\ m'.units = m.units \cup {t} /\ m'.deps = m.deps
      BY <1>2, <1>4, <2>1, <2>2, PrepareFacts
    <2>4. Edges(m')
      BY <2>3 DEF UInv, MemOK, Edges, Grown
    <2>5. MemOK(m') /\ Behind(m', disk)
      BY <2>3, <2>4, GrownOK DEF UInv
    <2>6. t \in Lqs(m') /\ m'.lq # <<>>
      <3>1. t \in Lqs(m')
        BY <1>6, <2>3 DEF Grown
      <3>2. QED
        BY <3>1, ToSetEmpty DEF Lqs
    <2>7. Type[u] # "target"
      BY <1>2, <1>3, <1>6 DEF TodoOK, t
    <2>8. c \in Call /\ c.ph = "load" /\ c.cur = None /\ c.at = "popped"
      BY CalledType
    <2> HIDE DEF c
    <2>9. n \in Nat /\ n >= 1
      BY <1>1, ThisFacts
    <2>10. CallOK(c, n + 1, n + 1, m') /\ ~ InHand(c)
      <3>1. ~ (n + 1 < n + 1)
        BY <2>9
      <3>2. QED
        BY <2>8, <3>1 DEF CallOK, InHand
    <2>11. m.units \subseteq m'.units /\ m.read \subseteq m'.read /\ Lqs(m') \cap m.units \subseteq Lqs(m)
           /\ m'.state = m.state
      BY <2>3 DEF Grown
    <2>12. ASSUME NEW i \in 1..n
           PROVE  CallOK(stack[i], i, n + 1, m')
      <3>1. CASE i = n
        <4>1. CallOK(This, n, n, m) /\ stack[n] = This /\ Len(stack) = n
          BY <1>1, ThisFacts
        <4>2. QED
          BY <1>1, <1>2, <2>7, <2>9, <2>11, <3>1, <4>1 DEF CallOK, InHand
      <3>2. CASE i # n
        <4>1. CallOK(stack[i], i, n, m) /\ i < n
          BY <1>1, <3>2, ThisFacts
        <4>2. QED
          BY <2>9, <2>11, <4>1 DEF CallOK, InHand
      <3>3. QED
        BY <3>1, <3>2
    <2>13. Calls(stack', m')
      <3>1. Calls(stack, m)
        BY DEF UInv
      <3>2. QED
        BY <2>1, <2>8, <2>10, <2>12, <3>1, CallsPush
    <2>14. /\ stack' \in Seq(Call) /\ Len(stack') = n + 1 /\ stack'[n + 1] = c /\ Last(stack') = c /\ stack' # <<>>
           /\ \A i \in 1..n : stack'[i] = stack[i]
      BY <1>1, <2>1, <2>8, ThisFacts DEF Last
    <2>15. last' \in LastType
      <3>1. last.frames \in Seq({"Load", "TargetDeps"}) /\ last \in LastType
        BY DEF UInv, LastType
      <3>2. Append(last.frames, "Load") \in Seq({"Load", "TargetDeps"})
        BY <3>1
      <3>3. [last EXCEPT !.frames = Append(@, "Load")] \in LastType
        BY <3>1, <3>2 DEF LastType
      <3>4. QED
        BY <2>1, <3>1, <3>3
    <2>16. LastOK(stack', last', hist.redone, m')
      <3>1. Rec(stack') = Rec(stack) /\ stack'[1] = stack[1]
        BY <1>1, <2>14, ThisFacts DEF Rec
      <3>2. CASE Rec(stack)
        BY <2>1, <3>1, <3>2 DEF LastOK, UInv
      <3>3. CASE ~ Rec(stack)
        <4> DEFINE f == last.frames
        <4>1. /\ last'.unit = last.unit /\ last'.frames = Append(f, "Load") /\ f \in Seq({"Load", "TargetDeps"})
          BY <2>1, <3>3 DEF UInv, LastType
        <4>2. n <= Len(f) /\ \A i \in 1..n : f[Len(f) - n + i] = Frame(stack[i].ph)
          BY <3>3 DEF LastOK, UInv
        <4> HIDE DEF f
        <4>3. Len(last'.frames) = Len(f) + 1 /\ Len(f) \in Nat /\ last'.frames[Len(f) + 1] = "Load"
              /\ \A j \in 1..Len(f) : last'.frames[j] = f[j]
          BY <4>1
        <4>4. ASSUME NEW i \in 1..(n + 1)
              PROVE  last'.frames[Len(last'.frames) - Len(stack') + i] = Frame(stack'[i].ph)
          <5>1. CASE i = n + 1
            <6>1. Len(last'.frames) - Len(stack') + i = Len(f) + 1
              BY <2>9, <2>14, <4>3, <5>1
            <6>2. QED
              BY <2>8, <2>14, <4>3, <5>1, <6>1 DEF Frame
          <5>2. CASE i # n + 1
            <6>1. i \in 1..n /\ Len(last'.frames) - Len(stack') + i = Len(f) - n + i /\ Len(f) - n + i \in 1..Len(f)
              BY <2>9, <2>14, <4>2, <4>3, <5>2
            <6>2. QED
              BY <2>14, <4>2, <4>3, <6>1
          <5>3. QED
            BY <5>1, <5>2
        <4>5. Len(stack') <= Len(last'.frames)
          BY <2>9, <2>14, <4>2, <4>3
        <4>6. ASSUME last'.unit # None
              PROVE  \E i \in 1..Len(stack') : stack'[i].cur = last'.unit /\ Frame(stack'[i].ph) = Frame(Last(stack').ph)
          <5>1. PICK i \in 1..n : stack[i].cur = last.unit /\ Frame(stack[i].ph) = Frame(Last(stack).ph)
            BY <3>3, <4>1, <4>6 DEF LastOK, UInv
          <5>2. Frame(Last(stack).ph) = "Load" /\ Frame(c.ph) = "Load"
            BY <1>1, <2>8, ThisFacts DEF Frame, InHand
          <5>3. i \in 1..Len(stack')
            BY <2>9, <2>14
          <5>4. QED
            BY <2>14, <4>1, <5>1, <5>2, <5>3
        <4>7. QED
          BY <2>6, <2>8, <2>14, <3>1, <3>3, <4>4, <4>5, <4>6 DEF LastOK
      <3>4. QED
        BY <3>2, <3>3
    <2>17. TopTodo(stack', m')
      BY <2>8, <2>14 DEF TopTodo
    <2>18. UInv'
      BY <1>1, <2>5, <2>13, <2>15, <2>16, <2>17 DEF UInv
    <2>19. NestStep(u, t)
      BY <1>1, <2>1, <2>3, <2>7 DEF NestStep, c
    <2>20. QED
      BY <1>1, <2>18, <2>19 DEF t
  <1>7. QED
    BY <1>5, <1>6

LEMMA ULoadDone ==
  ASSUME UInv, LoadDone
  PROVE  /\ UInv' /\ ~ Idle /\ InHand(This) /\ This.at = "extras" /\ This.todo = <<>> /\ EndStep(This.cur)
         /\ File[This.cur].ok => /\ m'.state[This.cur] = "UnitLoaded"
                                 /\ This.ph # "comp" => This.cur \in Tqs(m')
         /\ ~ File[This.cur].ok => m' = m
  <1> DEFINE u == This.cur
             l == WithState(m, u, "UnitLoaded")
             f == IF ~ File[u].ok THEN m ELSE IF This.ph = "comp" THEN l ELSE push_target_dep_queue(l, u)
  <1>1. ~ Idle /\ InHand(This) /\ This.at = "extras" /\ This.todo = <<>> /\ hist' = hist /\ Finish(f)
    BY DEF LoadDone, InLoad, InHand, WithState
  <1>2. u \in Name /\ u \in m.units /\ m.state[u] = "UnitStub" /\ m \in Units /\ u \notin Tqs(m) /\ u \notin Lqs(m)
    BY <1>1, ThisFacts DEF CallOK, InHand, UInv, MemOK, Sound
  <1>3. Ends(m, m, u)
    BY <1>2 DEF Ends, UInv, MemOK
  <1>4. EndsIn(m, l, u, "UnitLoaded")
    <2>1. "UnitLoaded" \in LoadState /\ NoDup(m.lq) /\ Lqs(m) = Lqs(m) \ {u}
      BY <1>2 DEF LoadState, UInv, MemOK
    <2>2. QED
      BY <1>2, <2>1, LoadedEnds
  <1>5. /\ Ends(m, f, u)
        /\ File[u].ok => f.state[u] = "UnitLoaded" /\ (This.ph # "comp" => u \in Tqs(f))
        /\ ~ File[u].ok => f = m
    BY <1>3, <1>4 DEF EndsIn
  <1> HIDE DEF f
  <1>6. /\ UInv' /\ m' = f /\ disk' = Saved(f)
        /\ This.ph = "comp" => stack' = <<>>
        /\ This.ph # "comp" => stack' = [stack EXCEPT ![Len(stack)] = Called("load", None)]
    BY <1>1, <1>5, UFinish
  <1>7. QED
    BY <1>1, <1>5, <1>6 DEF EndStep

LEMMA ULoadQueueEmpty ==
  ASSUME UInv, LoadQueueEmpty
  PROVE  /\ UInv' /\ ~ Idle /\ This.ph = "load" /\ This.cur = None /\ m.lq = <<>> /\ disk' = Saved(m)
         /\ stack' = [stack EXCEPT ![Len(stack)] = Called("tdep", None)] /\ UNCHANGED <<m, hist>>
  <1> DEFINE c == Called("tdep", None)
             n == Len(stack)
  <1>1. /\ ~ Idle /\ This.ph = "load" /\ This.cur = None /\ m.lq = <<>> /\ m' = m /\ hist' = hist
        /\ stack' = [stack EXCEPT ![n] = c] /\ disk' = Saved(m)
        /\ last' = IF Rec(stack) THEN last ELSE [last EXCEPT !.frames = Append(PopFrame(@), "TargetDeps")]
    BY RecFacts DEF LoadQueueEmpty, SetThis, commit, Saved
  <1>2. c \in Call /\ c.ph = "tdep" /\ c.cur = None /\ c.at = "popped"
    BY CalledType
  <1> HIDE DEF c
  <1>3. /\ n \in Nat /\ n >= 1 /\ stack \in Seq(Call) /\ stack # <<>> /\ n \in 1..n /\ 1 \in 1..n
        /\ Last(stack) = This /\ This = stack[n] /\ (Rec(stack) => n # 1)
    BY <1>1, ThisFacts
  <1>4. CallOK(c, n, n, m) /\ ~ InHand(c)
    <2>1. ~ (n < n)
      BY <1>3
    <2>2. QED
      BY <1>1, <1>2, <2>1 DEF CallOK, InHand
  <1>5. Calls(stack', m)
    <2>1. Calls(stack, m) /\ stack # <<>> /\ \A i \in 1..n : i # n => CallOK(stack[i], i, n, m)
      BY <1>1, ThisFacts DEF UInv
    <2>2. QED
      BY <1>1, <1>2, <1>4, <2>1, CallsSetTop
  <1>6. /\ stack' \in Seq(Call) /\ Len(stack') = n /\ stack' # <<>> /\ Last(stack') = c /\ stack'[n] = c
        /\ \A i \in 1..n : i # n => stack'[i] = stack[i]
    <2> DEFINE x == [stack EXCEPT ![n] = c]
    <2>1. /\ x \in Seq(Call) /\ Len(x) = n /\ x # <<>> /\ Last(x) = c /\ x[n] = c
          /\ \A i \in 1..n : i # n => x[i] = stack[i]
      BY <1>2, <1>3, SetTop
    <2>2. stack' = x
      BY <1>1
    <2> HIDE DEF x, n
    <2>3. QED
      BY <2>1, <2>2
  <1>7. TopTodo(stack', m)
    BY <1>2, <1>6 DEF TopTodo
  <1>8. Rec(stack') = Rec(stack)
    BY <1>1, <1>2, <1>3, <1>6 DEF Rec
  <1>9. last' \in LastType /\ LastOK(stack', last', hist.redone, m)
    <2>1. CASE Rec(stack)
      BY <1>1, <1>3, <1>6, <1>8, <2>1 DEF LastOK, UInv
    <2>2. CASE ~ Rec(stack)
      <3> DEFINE f == last.frames
                 g == Append(PopFrame(f), "TargetDeps")
      <3>1. f \in Seq({"Load", "TargetDeps"}) /\ last.unit = None
        BY <1>1, <1>3, <2>2 DEF UInv, LastType, LastOK
      <3>2. n <= Len(f) /\ \A i \in 1..n : f[Len(f) - n + i] = Frame(stack[i].ph)
        BY <2>2 DEF LastOK, UInv
      <3> HIDE DEF f
      <3>3. f # <<>> /\ Len(f) \in Nat
        BY <1>3, <3>1, <3>2
      <3>4. /\ Front(f) \in Seq({"Load", "TargetDeps"}) /\ Len(Front(f)) = Len(f) - 1
            /\ \A i \in 1..(Len(f) - 1) : Front(f)[i] = f[i]
        BY <3>1, <3>3, FrontFacts
      <3>5. g = Append(Front(f), "TargetDeps")
        BY <3>3 DEF PopFrame
      <3>6. /\ g \in Seq({"Load", "TargetDeps"}) /\ Len(g) = Len(f) /\ g[Len(f)] = "TargetDeps"
            /\ \A i \in 1..(Len(f) - 1) : g[i] = f[i]
        <4>1. /\ g \in Seq({"Load", "TargetDeps"}) /\ Len(g) = Len(Front(f)) + 1
              /\ g[Len(Front(f)) + 1] = "TargetDeps" /\ \A i \in 1..Len(Front(f)) : g[i] = Front(f)[i]
          <5> DEFINE h == Front(f)
          <5>1. h \in Seq({"Load", "TargetDeps"}) /\ g = Append(h, "TargetDeps")
            BY <3>4, <3>5
          <5> HIDE DEF h, g
          <5>2. /\ g \in Seq({"Load", "TargetDeps"}) /\ Len(g) = Len(h) + 1
                /\ g[Len(h) + 1] = "TargetDeps" /\ \A i \in 1..Len(h) : g[i] = h[i]
            BY <5>1
          <5>3. QED
            BY <5>2 DEF h
        <4> HIDE DEF g
        <4>2. QED
          BY <3>3, <3>4, <4>1
      <3>7. last' = [last EXCEPT !.frames = g]
        BY <1>1, <2>2 DEF f
      <3> HIDE DEF g
      <3>8. last' \in LastType /\ last'.frames = g /\ last'.unit = None
        BY <3>1, <3>6, <3>7 DEF UInv, LastType
      <3>9. ASSUME NEW i \in 1..n
            PROVE  g[Len(g) - n + i] = Frame(stack'[i].ph)
        <4>1. CASE i = n
          <5>1. Len(g) - n + i = Len(f)
            BY <1>3, <3>3, <3>6, <4>1
          <5>2. QED
            BY <1>2, <1>6, <3>6, <4>1, <5>1 DEF Frame
        <4>2. CASE i # n
          <5>1. Len(g) - n + i = Len(f) - n + i /\ Len(f) - n + i \in 1..(Len(f) - 1)
            BY <1>3, <3>2, <3>3, <3>6, <4>2
          <5>2. QED
            BY <1>6, <3>2, <3>6, <4>2, <5>1
        <4>3. QED
          BY <4>1, <4>2
      <3>10. QED
        BY <1>6, <1>8, <2>2, <3>2, <3>6, <3>8, <3>9 DEF LastOK
    <2>3. QED
      BY <2>1, <2>2
  <1>10. DiskOK(disk') /\ Behind(m, disk')
    BY <1>1, SavedFacts DEF UInv
  <1>11. QED
    BY <1>1, <1>5, <1>7, <1>9, <1>10 DEF UInv, c

LEMMA UPopTargetDep ==
  ASSUME UInv, PopTargetDep
  PROVE  /\ UInv' /\ ~ Idle /\ This.ph = "tdep" /\ m.tq # <<>> /\ UNCHANGED <<m, disk, hist>>
         /\ stack' = [stack EXCEPT ![Len(stack)] = Called("tdep", Head(m.tq))]
  <1> DEFINE u == Head(m.tq)
             c == Called("tdep", u)
  <1>1. /\ ~ Idle /\ This.ph = "tdep" /\ This.cur = None /\ m.tq # <<>> /\ m' = m /\ disk' = disk /\ hist' = hist
        /\ stack' = [stack EXCEPT ![Len(stack)] = c]
        /\ last' = IF Rec(stack) THEN last ELSE [last EXCEPT !.unit = u]
    BY RecFacts DEF PopTargetDep, SetThis, set_last_unit
  <1>2. u \in Name
    BY <1>1, ThisFacts, ToSetTail
  <1>3. c \in Call /\ c.ph = "tdep" /\ c.cur = u /\ c.at = "popped"
    BY <1>2, CalledType
  <1>4. CallOK(c, Len(stack), Len(stack), m) /\ ~ InHand(c)
    <2>1. ~ (Len(stack) < Len(stack)) /\ CallOK(This, Len(stack), Len(stack), m)
      BY <1>1, ThisFacts
    <2>2. QED
      BY <1>1, <1>3, <2>1 DEF CallOK, InHand
  <1> HIDE DEF c, u
  <1>5. Calls(stack', m)
    <2>1. Calls(stack, m) /\ stack # <<>>
      BY <1>1 DEF UInv, Idle
    <2>2. \A i \in 1..Len(stack) : i # Len(stack) => CallOK(stack[i], i, Len(stack), m)
      BY <1>1, ThisFacts
    <2>3. QED
      BY <1>1, <1>3, <1>4, <2>1, <2>2, CallsSetTop
  <1>6. last' \in LastType /\ last'.frames = last.frames /\ (~ Rec(stack) => last'.unit = u)
    BY <1>1, <1>2 DEF UInv, LastType
  <1>7. LastOK(stack', last', hist.redone, m)
    <2>1. stack \in Seq(Call) /\ stack # <<>> /\ Last(stack).ph = "tdep" /\ LastOK(stack, last, hist.redone, m)
      BY <1>1, ThisFacts DEF UInv
    <2>2. QED
      BY <1>1, <1>3, <1>6, <2>1, LastTop
  <1>8. TopTodo(stack', m)
    BY <1>1, <1>3, ThisFacts, SetTop DEF TopTodo
  <1>9. QED
    BY <1>1, <1>5, <1>6, <1>7, <1>8 DEF UInv, u, c

LEMMA UTargetQueueEmpty ==
  ASSUME UInv, TargetQueueEmpty
  PROVE  /\ UInv' /\ ~ Idle /\ This.ph = "tdep" /\ This.cur = None /\ stack' = Front(stack) /\ disk' = Saved(m)
         /\ m.lq = <<>> /\ UNCHANGED <<m, hist>>
  <1> DEFINE n == Len(stack)
  <1>1. /\ ~ Idle /\ This.ph = "tdep" /\ This.cur = None /\ m' = m /\ hist' = hist
        /\ stack' = Front(stack) /\ disk' = Saved(m)
        /\ last' = IF Rec(stack) THEN last ELSE [last EXCEPT !.frames = PopFrame(@)]
    BY RecFacts DEF TargetQueueEmpty, commit, Saved
  <1>2. /\ n \in Nat /\ n >= 1 /\ stack \in Seq(Call) /\ stack # <<>> /\ n \in 1..n /\ 1 \in 1..n
        /\ Last(stack) = This /\ This = stack[n] /\ (Rec(stack) => n # 1)
    BY <1>1, ThisFacts
  <1>3. m.lq = <<>>
    BY <1>1, ThisFacts DEF CallOK
  <1>4. ASSUME NEW i \in 1..n, i # n
        PROVE  CallOK(stack[i], i, n - 1, m)
    <2>1. CallOK(stack[i], i, n, m) /\ i < n
      BY <1>1, <1>4, ThisFacts
    <2>2. QED
      BY <1>2, <2>1 DEF CallOK
  <1>5. Calls(stack', m)
    <2>1. Calls(stack, m)
      BY DEF UInv
    <2>2. QED
      BY <1>1, <1>2, <1>4, <2>1, CallsPop
  <1>6. stack' \in Seq(Call) /\ Len(stack') = n - 1 /\ \A i \in 1..(n - 1) : i \in 1..n /\ i # n /\ stack'[i] = stack[i]
    BY <1>1, <1>2, FrontFacts
  <1>7. stack' # <<>> => n - 1 \in 1..(n - 1) /\ Last(stack') = stack[n - 1] /\ stack'[1] = stack[1] /\ n # 1
    BY <1>2, <1>6 DEF Last
  <1>8. TopTodo(stack', m)
    <2>1. stack' # <<>> => Type[Last(stack').cur] # "target"
      BY <1>1, <1>6, <1>7, ThisFacts
    <2>2. QED
      BY <2>1 DEF TopTodo, TodoOK
  <1>9. Rec(stack') = Rec(stack)
    <2>1. n # 1 => stack' # <<>>
      BY <1>2, <1>6
    <2>2. QED
      BY <1>2, <1>7, <2>1 DEF Rec
  <1>10. last' \in LastType /\ LastOK(stack', last', hist.redone, m)
    <2>1. CASE Rec(stack)
      <3>1. stack'[1] = stack[1]
        BY <1>7, <1>9, <2>1 DEF Rec
      <3>2. QED
        BY <1>1, <1>9, <2>1, <3>1 DEF LastOK, UInv
    <2>2. CASE ~ Rec(stack)
      <3> DEFINE f == last.frames
      <3>1. f \in Seq({"Load", "TargetDeps"}) /\ last.unit = None
        BY <1>1, <1>2, <2>2 DEF UInv, LastType, LastOK
      <3>2. n <= Len(f) /\ \A i \in 1..n : f[Len(f) - n + i] = Frame(stack[i].ph)
        BY <2>2 DEF LastOK, UInv
      <3> HIDE DEF f
      <3>3. f # <<>> /\ Len(f) \in Nat
        BY <1>2, <3>1, <3>2
      <3>4. /\ Front(f) \in Seq({"Load", "TargetDeps"}) /\ Len(Front(f)) = Len(f) - 1
            /\ \A i \in 1..(Len(f) - 1) : Front(f)[i] = f[i]
        BY <3>1, <3>3, FrontFacts
      <3>5. last' = [last EXCEPT !.frames = Front(f)]
        BY <1>1, <2>2, <3>3 DEF PopFrame, f
      <3>6. last' \in LastType /\ last'.frames = Front(f) /\ last'.unit = None
        BY <3>1, <3>4, <3>5 DEF UInv, LastType
      <3>7. ASSUME NEW i \in 1..Len(stack')
            PROVE  last'.frames[Len(last'.frames) - Len(stack') + i] = Frame(stack'[i].ph)
        <4>1. i \in 1..(n - 1) /\ i \in 1..n /\ Len(last'.frames) - Len(stack') + i = Len(f) - n + i
          <5>1. Len(last'.frames) = Len(f) - 1 /\ Len(stack') = n - 1 /\ n \in Nat /\ Len(f) \in Nat
            BY <1>2, <1>6, <3>3, <3>4, <3>6
          <5>2. i \in 1..(n - 1) /\ i \in 1..n
            BY <1>6, <5>1
          <5> HIDE DEF n
          <5>3. (Len(f) - 1) - (n - 1) + i = Len(f) - n + i
            BY <5>1, <5>2
          <5>4. QED
            BY <5>1, <5>2, <5>3
        <4>2. Len(f) - n + i \in 1..(Len(f) - 1)
          BY <1>2, <3>2, <3>3, <4>1
        <4>3. QED
          BY <1>6, <3>2, <3>4, <3>6, <4>1, <4>2
      <3>8. Len(stack') <= Len(last'.frames)
        BY <1>2, <1>6, <3>2, <3>3, <3>4, <3>6
      <3>9. QED
        BY <1>9, <2>2, <3>6, <3>7, <3>8 DEF LastOK
    <2>3. QED
      BY <2>1, <2>2
  <1>11. DiskOK(disk') /\ Behind(m, disk')
    BY <1>1, SavedFacts DEF UInv
  <1>12. QED
    BY <1>1, <1>3, <1>5, <1>8, <1>10, <1>11 DEF UInv

\* dispatch_target_dep_unit only adds orders, and all of them when every unit that pulls
\* u in is a target that is loaded and has no order yet.
Pulling(mm, u) == dep_gets_atom(mm, u, DefaultTargetDependencies)

Good(mm, t, u) ==
  /\ Type[t] = "target" /\ mm.state[u] = "UnitLoaded" /\ mm.state[t] = "UnitLoaded"
  /\ default_dependencies(mm, u) /\ default_dependencies(mm, t)
  /\ ~ is_dep_atom_with(mm, t, {"Before"}, u)

Dispatched(a, b, u) ==
  /\ b \in Units /\ b.units = a.units /\ b.state = a.state /\ b.read = a.read /\ b.lq = a.lq /\ b.tq = a.tq
  /\ a.deps \subseteq b.deps /\ Edges(b) /\ Pulling(b, u) = Pulling(a, u)
  /\ \A x \in Name : Pulling(b, x) = Pulling(a, x)
  /\ (\A t \in Pulling(a, u) : Good(a, t, u)) => \A t \in Pulling(a, u) : <<t, "After", u>> \in b.deps

LEMMA DispatchFacts ==
  ASSUME NEW mm \in Units, Edges(mm), NEW u \in Name, NEW x \in dispatch_target_dep_unit(mm, u)
  PROVE  Dispatched(mm, x, u)
  <1> DEFINE D == Pulling(mm, u)
             G == {t \in D : Good(mm, t, u)}
             add(S) == UNION {dep_insert({}, t, "After", u) : t \in S}
             with(S) == [mm EXCEPT !.deps = @ \cup add(S)]
  <1>1. x \in IF G = D THEN {with(D)} ELSE {with(S) : S \in SUBSET G}
    BY DEF dispatch_target_dep_unit, Good, Pulling
  <1>2. PICK S \in SUBSET D : x = with(S) /\ (G = D => S = D)
    <2>1. CASE G = D
      <3>1. x = with(D)
        BY <1>1, <2>1
      <3>2. QED
        BY <3>1
    <2>2. CASE G # D
      <3>1. PICK S \in SUBSET G : x = with(S)
        BY <1>1, <2>2
      <3>2. S \in SUBSET D
        OBVIOUS
      <3>3. QED
        BY <2>2, <3>1, <3>2
    <2>3. QED
      BY <2>1, <2>2
  <1>3. D \subseteq Name
    BY UnitsType DEF Pulling, dep_gets_atom
  <1>4. ASSUME NEW t \in S
        PROVE  Inserted({}, dep_insert({}, t, "After", u), t, "After", u)
    <2>1. t \in Name /\ {} \in SUBSET Deps /\ "After" \in Listed
      BY <1>3 DEF Listed
    <2>2. QED
      BY <2>1, DepInsertFacts
  <1>5. add(S) \in SUBSET Deps
    <2>1. ASSUME NEW t \in S PROVE dep_insert({}, t, "After", u) \subseteq Deps
      BY <1>4 DEF Inserted
    <2>2. QED
      BY <2>1, Zenon
  <1>6. \A y, z \in Name, p \in Pull : <<y, By(p), z>> \notin add(S)
    <2>1. ASSUME NEW t \in S, NEW y \in Name, NEW z \in Name, NEW p \in Pull
          PROVE  <<y, By(p), z>> \notin dep_insert({}, t, "After", u)
      <3>1. Inserted({}, dep_insert({}, t, "After", u), t, "After", u)
        BY <1>4
      <3>2. "After" # p
        BY DEF Pull
      <3>3. QED
        BY <3>1, <3>2 DEF Inserted
    <2>2. QED
      BY <2>1
  <1>7. \A t \in S : t # u => <<t, "After", u>> \in add(S)
    BY <1>4 DEF Inserted
  <1> HIDE DEF add
  <1>8. mm.deps \in SUBSET Deps
    BY UnitsType
  <1>9. mm.deps \cup add(S) \in SUBSET (Name \X Relation \X Name)
    BY <1>5, <1>8 DEF Deps
  <1>10. /\ x \in Units /\ x.units = mm.units /\ x.state = mm.state /\ x.read = mm.read /\ x.lq = mm.lq
         /\ x.tq = mm.tq /\ x.deps = mm.deps \cup add(S)
    BY <1>2, <1>9 DEF Units
  <1> HIDE DEF with
  <1>11. \A y, z \in Name, p \in Pull : <<y, By(p), z>> \in x.deps <=> <<y, By(p), z>> \in mm.deps
    BY <1>6, <1>10
  <1>12. mm.deps \subseteq x.deps
    BY <1>10
  <1>13. Edges(x)
    BY <1>10, <1>11, <1>12 DEF Edges
  <1>14. \A y \in Name : Pulling(x, y) = Pulling(mm, y)
    <2>1. mm.units \subseteq Name
      BY UnitsType
    <2>2. QED
      BY <1>10, <1>11, <2>1, AtomFacts DEF Pulling, dep_gets_atom
  <1>15. ASSUME \A t \in D : Good(mm, t, u), NEW t \in D
         PROVE  <<t, "After", u>> \in x.deps
    <2>1. S = D
      BY <1>2, <1>15
    <2>2. t # u
      BY <1>3, AtomFacts DEF Edges, Pulling, dep_gets_atom
    <2>3. QED
      BY <1>7, <1>10, <2>1, <2>2
  <1>16. QED
    BY <1>10, <1>12, <1>13, <1>14, <1>15 DEF Dispatched

LEMMA DispatchOK ==
  ASSUME NEW a, NEW b, NEW u, MemOK(a), Dispatched(a, b, u)
  PROVE  MemOK(b) /\ Lqs(b) = Lqs(a) /\ Tqs(b) = Tqs(a)
  <1>1. Lqs(b) = Lqs(a) /\ Tqs(b) = Tqs(a)
    BY DEF Dispatched, Lqs, Tqs
  <1>2. Sound(b, Lqs(b), Tqs(b)) /\ NoDup(b.lq)
    BY <1>1 DEF MemOK, Sound, Dispatched
  <1>3. QED
    BY <1>1, <1>2 DEF MemOK, Dispatched

\* The manager with the head of the other queue removed.
Next_(a, b, u) ==
  /\ b \in Units /\ b.units = a.units /\ b.state = a.state /\ b.read = a.read /\ b.lq = a.lq /\ b.deps = a.deps
  /\ Tqs(a) = Tqs(b) \cup {u} /\ MemOK(b)

LEMMA UTargetDep ==
  ASSUME UInv, TargetDep
  PROVE  /\ UInv' /\ ~ Idle /\ This.ph = "tdep" /\ This.cur \in Name /\ disk' = Saved(m') /\ hist' = hist
         /\ stack' = [stack EXCEPT ![Len(stack)] = Called("tdep", None)]
         /\ \E b : Next_(m, b, This.cur) /\ Dispatched(b, m', This.cur)
         /\ MemOK(m') /\ m'.lq = <<>>
  <1> DEFINE u == This.cur
             n == Len(stack)
             b == [m EXCEPT !.tq = Tail(@)]
             c == Called("tdep", None)
  <1>1. /\ ~ Idle /\ This.ph = "tdep" /\ u # None /\ hist' = hist
        /\ stack' = [stack EXCEPT ![n] = c]
        /\ last' = IF Rec(stack) THEN last ELSE [last EXCEPT !.unit = None]
        /\ m' \in dispatch_target_dep_unit(b, u) /\ disk' = Saved(m')
    BY RecFacts DEF TargetDep, InLoad, SetThis, set_last_unit, commit, Saved
  <1>2. u \in Name /\ m \in Units /\ m.tq # <<>> /\ u = Head(m.tq) /\ m.lq = <<>> /\ m.tq \in Seq(Name)
    BY <1>1, ThisFacts DEF CallOK
  <1>3. Tail(m.tq) \in Seq(Name) /\ ToSet(m.tq) = ToSet(Tail(m.tq)) \cup {u}
    BY <1>2, ToSetTail
  <1>4. /\ b \in Units /\ b.units = m.units /\ b.state = m.state /\ b.read = m.read /\ b.lq = m.lq
        /\ b.deps = m.deps /\ b.tq = Tail(m.tq)
    BY <1>2, <1>3 DEF Units
  <1> HIDE DEF b
  <1>5. Tqs(m) = Tqs(b) \cup {u} /\ Lqs(b) = Lqs(m)
    BY <1>3, <1>4 DEF Tqs, Lqs
  <1>6. Sound(b, Lqs(b), Tqs(b)) /\ NoDup(b.lq) /\ Edges(b)
    BY <1>4, <1>5 DEF UInv, MemOK, Sound, Edges
  <1>7. MemOK(b)
    BY <1>4, <1>6 DEF MemOK
  <1>8. Next_(m, b, u)
    BY <1>4, <1>5, <1>7 DEF Next_
  <1>9. Dispatched(b, m', u)
    BY <1>1, <1>2, <1>4, <1>6, DispatchFacts
  <1>10. MemOK(m') /\ Lqs(m') = Lqs(m)
    BY <1>5, <1>7, <1>9, DispatchOK
  <1>11. m'.lq = <<>> /\ m'.units = m.units /\ m'.read = m.read /\ m'.state = m.state
    BY <1>2, <1>4, <1>9 DEF Dispatched
  <1>12. DiskOK(disk') /\ Behind(m', disk')
    BY <1>1, <1>10, SavedFacts
  <1>13. c \in Call /\ c.ph = "tdep" /\ c.cur = None /\ c.at = "popped"
    BY CalledType
  <1> HIDE DEF c
  <1>14. CallOK(c, n, n, m') /\ ~ InHand(c)
    <2>1. ~ (n < n)
      BY <1>1, ThisFacts
    <2>2. QED
      BY <1>11, <1>13, <2>1 DEF CallOK, InHand
  <1>15. \A i \in 1..n : i # n => CallOK(stack[i], i, n, m')
    <2>1. SUFFICES ASSUME NEW i \in 1..n, i # n PROVE CallOK(stack[i], i, n, m')
      OBVIOUS
    <2>2. CallOK(stack[i], i, n, m) /\ stack[i].at = "extras" /\ InHand(stack[i])
      BY <1>1, <2>1, ThisFacts
    <2>3. QED
      BY <1>10, <1>11, <2>2 DEF CallOK, InHand
  <1>16. Calls(stack', m')
    <2>1. Calls(stack, m) /\ stack # <<>>
      BY <1>1 DEF UInv, Idle
    <2>2. QED
      BY <1>1, <1>13, <1>14, <1>15, <2>1, CallsSetTop
  <1>17. last' \in LastType /\ last'.frames = last.frames /\ (~ Rec(stack) => last'.unit = None)
    BY <1>1 DEF UInv, LastType
  <1>18. LastOK(stack', last', hist.redone, m')
    <2>1. stack \in Seq(Call) /\ stack # <<>> /\ Last(stack).ph = "tdep" /\ LastOK(stack, last, hist.redone, m)
      BY <1>1, ThisFacts DEF UInv
    <2>2. QED
      BY <1>1, <1>13, <1>17, <2>1, LastTop
  <1>19. TopTodo(stack', m')
    BY <1>1, <1>13, ThisFacts, SetTop DEF TopTodo
  <1>20. UInv'
    BY <1>1, <1>10, <1>12, <1>16, <1>17, <1>18, <1>19 DEF UInv
  <1>21. QED
    BY <1>1, <1>2, <1>8, <1>9, <1>10, <1>11, <1>20 DEF c

-----------------------------------------------------------------------------
(* A crash, or a reload, and the recovery. *)

\* The last unit is one whose load is under way when the last frame says so, and none
\* of those otherwise.
LEMMA LastInHand ==
  ASSUME UInv, last.unit \in disk.units
  PROVE  /\ LastFrame = "Load" => /\ \E i \in 1..Len(stack) : InHand(stack[i]) /\ stack[i].cur = last.unit
                                  /\ disk.state[last.unit] = "UnitStub"
         /\ LastFrame # "Load" => \A i \in 1..Len(stack) : InHand(stack[i]) => stack[i].cur # last.unit
  <1>1. /\ last.unit \in Name /\ last.unit # None /\ last.frames \in Seq({"Load", "TargetDeps"})
        /\ stack \in Seq(Call) /\ Len(last.frames) \in Nat
    BY NoneType DEF UInv, DiskOK, Records, LastType, Calls
  <1>2. CASE Rec(stack)
    <2>1. 1 \in 1..Len(stack) /\ stack[1].ph = "comp" /\ CallOK(stack[1], 1, Len(stack), m)
      BY <1>1, <1>2, TopFacts DEF Rec, UInv, Calls
    <2>2. InHand(stack[1]) /\ stack[1].cur = last.unit /\ LastFrame = "Load"
      BY <1>2, <2>1 DEF CallOK, UInv, LastOK, LastFrame
    <2>3. m.state[last.unit] = "UnitStub"
      BY <2>1, <2>2 DEF CallOK
    <2>4. disk.state[last.unit] = "UnitStub"
      BY <1>1, <2>3 DEF UInv, Behind
    <2>5. QED
      BY <2>1, <2>2, <2>4
  <1>3. CASE ~ Rec(stack)
    <2>1. PICK i \in 1..Len(stack) : stack[i].cur = last.unit /\ Frame(stack[i].ph) = Frame(Last(stack).ph)
      BY <1>1, <1>3 DEF UInv, LastOK
    <2>2. stack # <<>> /\ Len(stack) \in Nat /\ Len(stack) \in 1..Len(stack) /\ Last(stack) = stack[Len(stack)]
          /\ Len(stack) >= 1
      <3>1. stack # <<>>
        BY <1>1, <2>1
      <3>2. QED
        BY <1>1, <3>1, TopFacts
    <2>3. Len(stack) <= Len(last.frames)
          /\ last.frames[Len(last.frames) - Len(stack) + Len(stack)] = Frame(Last(stack).ph)
      BY <1>3, <2>2 DEF UInv, LastOK
    <2>4. Len(last.frames) - Len(stack) + Len(stack) = Len(last.frames) /\ last.frames # <<>>
      BY <1>1, <2>2, <2>3
    <2>5. LastFrame = Frame(stack[i].ph)
      BY <2>1, <2>3, <2>4 DEF LastFrame, Last
    <2>6. CallOK(stack[i], i, Len(stack), m)
      BY DEF UInv, Calls
    <2>7. CASE LastFrame = "Load"
      <3>1. InHand(stack[i])
        BY <1>1, <2>1, <2>5, <2>7 DEF InHand, Frame
      <3>2. m.state[last.unit] = "UnitStub"
        BY <2>1, <2>6, <3>1 DEF CallOK
      <3>3. disk.state[last.unit] = "UnitStub"
        BY <1>1, <3>2 DEF UInv, Behind
      <3>4. QED
        BY <2>1, <2>7, <3>1, <3>3
    <2>8. CASE LastFrame # "Load"
      <3>1. stack[i].ph = "tdep"
        BY <2>5, <2>8 DEF Frame
      <3>2. m.tq # <<>> /\ last.unit = Head(m.tq) /\ m.tq \in Seq(Name)
        BY <1>1, <2>1, <2>6, <3>1, UnitsType DEF CallOK, UInv, MemOK
      <3>3. last.unit \in Tqs(m)
        BY <3>2, ToSetTail DEF Tqs
      <3>4. m.state[last.unit] = "UnitLoaded"
        BY <3>3 DEF UInv, MemOK, Sound
      <3>5. \A j \in 1..Len(stack) : InHand(stack[j]) => m.state[stack[j].cur] = "UnitStub"
        BY DEF UInv, Calls, CallOK
      <3>6. QED
        BY <2>8, <3>4, <3>5
    <2>9. QED
      BY <2>7, <2>8
  <1>4. QED
    BY <1>2, <1>3

\* The manager rebuilt from the records.
Restored(a, lq, tq) ==
  /\ MemOK(a) /\ a.units = disk.units /\ a.state = disk.state /\ a.read = disk.read /\ a.deps = disk.deps
  /\ Lqs(a) = lq /\ Tqs(a) = tq

LEMMA RestoredFacts ==
  ASSUME UInv, NEW lq \in SUBSET disk.lq, NEW tq \in SUBSET disk.tq,
         NEW s \in SetToSeqs(lq), NEW t \in SetToSeqs(tq)
  PROVE  Restored([disk EXCEPT !.lq = s, !.tq = t], lq, tq)
  <1> DEFINE a == [disk EXCEPT !.lq = s, !.tq = t]
  <1>1. disk \in Records /\ Sound(disk, disk.lq, disk.tq) /\ Edges(disk) /\ disk.lq \subseteq Name /\ disk.tq \subseteq Name
    BY DEF UInv, DiskOK, Records
  <1>2. s \in Seq(Name) /\ ToSet(s) = lq /\ NoDup(s) /\ t \in Seq(Name) /\ ToSet(t) = tq
    BY <1>1, SetToSeqsFacts
  <1>3. a \in Units
    BY <1>1, <1>2 DEF Records, Units
  <1>4. /\ a.units = disk.units /\ a.state = disk.state /\ a.read = disk.read /\ a.deps = disk.deps
        /\ a.lq = s /\ a.tq = t
    BY <1>1 DEF Records
  <1> HIDE DEF a
  <1>5. Lqs(a) = lq /\ Tqs(a) = tq
    BY <1>2, <1>4 DEF Lqs, Tqs
  <1>6. Sound(a, lq, tq)
    BY <1>1, <1>4 DEF Sound
  <1>7. Edges(a)
    BY <1>1, <1>4 DEF Edges
  <1>8. QED
    BY <1>2, <1>3, <1>4, <1>5, <1>6, <1>7 DEF Restored, MemOK, a

\* The units whose loads the crash cut and the records do not tell.
Deep == ({stack[i].cur : i \in 1..Len(stack)} \cap disk.units) \ ({last.unit} \cup disk.lq)

\* The unit in hand is loaded again, or the recovery is over at once.
Again(u) ==
  /\ u \in disk.units /\ last.unit = u /\ LastFrame = "Load"
  /\ disk.state[u] = "UnitStub" /\ hist'.redone = hist.redone \cup {u}
  /\ Restored(m', disk.lq \ {u}, disk.tq)
  /\ disk' = [disk EXCEPT !.lq = @ \ {u}] /\ stack' = <<Called("comp", u)>>

Back ==
  /\ ~ (LastFrame = "Load" /\ last.unit \in disk.units)
  /\ hist'.redone = hist.redone /\ disk' = Saved(m') /\ stack' = <<>>
  /\ \/ Restored(m', disk.lq, disk.tq)
     \/ \E a : Restored(a, disk.lq, disk.tq \ {last.unit}) /\ Dispatched(a, m', last.unit) /\ last.unit \in disk.units

LEMMA UAgain ==
  ASSUME UInv, Recover, LastFrame = "Load", last.unit \in disk.units
  PROVE  UInv' /\ Again(last.unit) /\ hist'.lost = hist.lost \cup Deep
  <1> DEFINE u == last.unit
             c == Called("comp", u)
  <1>1. u \in Name /\ u # None /\ disk.state[u] = "UnitStub"
    BY LastInHand, NoneType DEF UInv, DiskOK, Records
  <1>2. Compensated("Load") = {u} /\ Compensated("TargetDeps") = {}
    BY DEF Compensated
  <1>3. PICK q \in SetToSeqs(disk.lq \ {u}) \X SetToSeqs(disk.tq) :
          /\ hist' = [redone |-> hist.redone \cup {u}, lost |-> hist.lost \cup Deep]
          /\ m' = [disk EXCEPT !.lq = q[1], !.tq = q[2]]
          /\ stack' = <<c>> /\ disk' = [disk EXCEPT !.lq = @ \ {u}] /\ last' = last
    <2>1. disk.tq \ {} = disk.tq /\ {u} # {}
      OBVIOUS
    <2>2. QED
      BY <1>2, <2>1 DEF Recover, rt_db_map, Deep
  <1>4. Restored(m', disk.lq \ {u}, disk.tq)
    <2>1. q[1] \in SetToSeqs(disk.lq \ {u}) /\ q[2] \in SetToSeqs(disk.tq)
          /\ disk.lq \ {u} \in SUBSET disk.lq /\ disk.tq \in SUBSET disk.tq
      OBVIOUS
    <2>2. QED
      BY <1>3, <2>1, RestoredFacts
  <1>5. hist'.redone = hist.redone \cup {u} /\ hist'.lost = hist.lost \cup Deep /\ hist' \in HistType
    <2>1. hist.redone \subseteq Name /\ hist.lost \subseteq Name /\ disk.units \subseteq Name
      BY DEF UInv, HistType, DiskOK, Records
    <2>2. Deep \subseteq Name
      BY <2>1 DEF Deep
    <2>3. QED
      BY <1>1, <1>3, <2>1, <2>2 DEF HistType
  <1>6. Again(u)
    BY <1>1, <1>3, <1>4, <1>5 DEF Again
  <1>7. /\ disk'.units = disk.units /\ disk'.state = disk.state /\ disk'.read = disk.read
        /\ disk'.deps = disk.deps /\ disk'.lq = disk.lq \ {u} /\ disk'.tq = disk.tq /\ disk' \in Records
    BY <1>3 DEF UInv, DiskOK, Records
  <1>8. DiskOK(disk') /\ Behind(m', disk')
    <2>1. Sound(disk', disk'.lq, disk'.tq) /\ Edges(disk')
      BY <1>7 DEF UInv, DiskOK, Sound, Edges
    <2>2. Behind(m', disk')
      BY <1>4, <1>7 DEF Restored, Behind
    <2>3. QED
      BY <1>7, <2>1, <2>2 DEF DiskOK
  <1>9. c \in Call /\ c.ph = "comp" /\ c.cur = u /\ c.at = "popped"
    BY <1>1, CalledType
  <1> HIDE DEF c
  <1>10. stack' \in Seq(Call) /\ Len(stack') = 1 /\ stack'[1] = c /\ Last(stack') = c /\ stack' # <<>>
    BY <1>3, <1>9 DEF Last
  <1>11. CallOK(c, 1, 1, m')
    BY <1>1, <1>4, <1>9 DEF CallOK, InHand, Restored
  <1>12. Calls(stack', m')
    BY <1>10, <1>11 DEF Calls
  <1>13. LastOK(stack', last', hist'.redone, m') /\ TopTodo(stack', m')
    <2>1. Rec(stack')
      BY <1>9, <1>10 DEF Rec
    <2>2. last.frames # <<>> /\ Last(last.frames) = "Load"
      <3>1. None # "Load"
        BY LoadAssumption
      <3>2. QED
        BY <3>1 DEF LastFrame
    <2>3. QED
      BY <1>3, <1>5, <1>9, <1>10, <2>1, <2>2 DEF LastOK, TopTodo
  <1>14. QED
    BY <1>3, <1>4, <1>5, <1>6, <1>8, <1>12, <1>13 DEF UInv, Restored

LEMMA UBack ==
  ASSUME UInv, Recover, ~ (LastFrame = "Load" /\ last.unit \in disk.units)
  PROVE  UInv' /\ Back /\ hist'.lost = hist.lost \cup Deep
  <1> DEFINE td == Compensated("TargetDeps")
  <1>1. Compensated("Load") = {} /\ td \subseteq {last.unit} /\ (td # {} => td = {last.unit} /\ last.unit \in disk.units)
    BY DEF Compensated
  <1> HIDE DEF td
  <1>2. PICK q \in SetToSeqs(disk.lq) \X SetToSeqs(disk.tq \ td) :
          /\ hist' = [redone |-> hist.redone, lost |-> hist.lost \cup Deep]
          /\ \/ td # {} /\ m' \in dispatch_target_dep_unit([disk EXCEPT !.lq = q[1], !.tq = q[2]], last.unit)
             \/ td = {} /\ m' = [disk EXCEPT !.lq = q[1], !.tq = q[2]]
          /\ stack' = <<>> /\ disk' = Saved(m')
          /\ last' = [unit |-> None, frames |-> PopFrame(PopFrame(last.frames))]
    <2>1. disk.lq \ {} = disk.lq /\ hist.redone \cup {} = hist.redone
      OBVIOUS
    <2>2. QED
      BY <1>1, <2>1 DEF Recover, rt_db_map, Deep, commit, Saved, td
  <1> DEFINE a == [disk EXCEPT !.lq = q[1], !.tq = q[2]]
  <1>3. Restored(a, disk.lq, disk.tq \ td)
    <2>1. q[1] \in SetToSeqs(disk.lq) /\ q[2] \in SetToSeqs(disk.tq \ td)
          /\ disk.lq \in SUBSET disk.lq /\ disk.tq \ td \in SUBSET disk.tq
      OBVIOUS
    <2>2. QED
      BY <2>1, RestoredFacts
  <1>4. (td # {} /\ m' \in dispatch_target_dep_unit(a, last.unit)) \/ (td = {} /\ m' = a)
    BY <1>2
  <1> HIDE DEF a
  <1>5. /\ MemOK(m')
        /\ \/ Restored(m', disk.lq, disk.tq)
           \/ /\ Restored(a, disk.lq, disk.tq \ {last.unit}) /\ Dispatched(a, m', last.unit)
              /\ last.unit \in disk.units
    <2>1. CASE td = {}
      <3>1. disk.tq \ td = disk.tq /\ m' = a
        BY <1>4, <2>1
      <3>2. QED
        BY <1>3, <3>1 DEF Restored
    <2>2. CASE td # {}
      <3>1. m' \in dispatch_target_dep_unit(a, last.unit) /\ td = {last.unit} /\ last.unit \in disk.units
        BY <1>1, <1>4, <2>2
      <3>2. MemOK(a) /\ a \in Units /\ Edges(a) /\ last.unit \in Name
        BY <1>3, <3>1 DEF Restored, MemOK, UInv, DiskOK, Records
      <3>3. Dispatched(a, m', last.unit)
        BY <3>1, <3>2, DispatchFacts
      <3>4. MemOK(m')
        BY <3>2, <3>3, DispatchOK
      <3>5. QED
        BY <1>3, <3>1, <3>3, <3>4
    <2>3. QED
      BY <2>1, <2>2
  <1>6. hist'.redone = hist.redone /\ hist'.lost = hist.lost \cup Deep /\ hist' \in HistType
    <2>1. hist.redone \subseteq Name /\ hist.lost \subseteq Name /\ disk.units \subseteq Name
      BY DEF UInv, HistType, DiskOK, Records
    <2>2. Deep \subseteq Name
      BY <2>1 DEF Deep
    <2>3. QED
      BY <1>2, <2>1, <2>2 DEF HistType
  <1>7. Back
    BY <1>2, <1>5, <1>6 DEF Back
  <1>8. DiskOK(disk') /\ Behind(m', disk')
    BY <1>2, <1>5, SavedFacts
  <1>9. \A s \in Seq({"Load", "TargetDeps"}) : PopFrame(s) \in Seq({"Load", "TargetDeps"})
    BY FrontFacts DEF PopFrame
  <1>10. last' \in LastType /\ last'.unit = None /\ Len(last'.frames) \in Nat
    BY <1>2, <1>9 DEF UInv, LastType
  <1>11. Calls(stack', m') /\ LastOK(stack', last', hist'.redone, m') /\ TopTodo(stack', m')
    BY <1>2, <1>10 DEF Calls, LastOK, Rec, TopTodo
  <1>12. QED
    BY <1>2, <1>5, <1>6, <1>7, <1>8, <1>10, <1>11 DEF UInv

\* Either way the units that are lost are the ones of Deep.
LEMMA URecover ==
  ASSUME UInv, Recover
  PROVE  UInv' /\ hist'.lost = hist.lost \cup Deep /\ ((\E u \in disk.units : Again(u)) \/ Back)
  BY UAgain, UBack

-----------------------------------------------------------------------------
(* The steps of the whole specification, by what they do to the unit manager. *)

\* A step of dispatch_load_queue, or of one of its callers.
Queues ==
  \/ \E u \in Name : LoadUnit(u)
  \/ rloop \/ PopLoad \/ load_unit \/ unit_add_dependency \/ LoadDone \/ LoadQueueEmpty
  \/ PopTargetDep \/ TargetDep \/ TargetQueueEmpty

\* A commit of the records and nothing else.
Commits == Idle /\ disk' = Saved(m) /\ UNCHANGED <<m, stack, last, hist>>

LEMMA UKinds ==
  ASSUME MTypeOK, [MNext]_allvars
  PROVE  Queues \/ Commits \/ Recover \/ UNCHANGED <<m, stack, disk, last, hist>>
  <1>1. Asked \subseteq Name /\ MountName \subseteq Name
    BY InstallAssumption, MountAssumption DEF MountName
  <1>2. CASE UNCHANGED allvars
    BY <1>2 DEF allvars, uvars
  <1>3. CASE mon.ph = "idle" /\ Begin /\ UNCHANGED <<ivars, mvars>>
    BY <1>1, <1>3 DEF Begin, Queues
  <1>4. CASE Continue /\ UNCHANGED <<ivars, mvars>>
    BY <1>4 DEF Continue, Queues
  <1>5. CASE mon.ph = "idle" /\ FileCommand /\ UNCHANGED mvars
    BY <1>5 DEF FileCommand, uvars
  <1>6. CASE KernelMount \/ ByHand \/ MonitorIo \/ MonitorDefer \/ ReadTable \/ KnownPoint
             \/ AllStarted \/ StopPoint \/ MonitorDone
    BY <1>6 DEF KernelMount, ByHand, MonitorIo, MonitorDefer, ReadTable, KnownPoint, AllStarted, StopPoint,
                MonitorDone, uvars
  <1>7. CASE StartPoint
    BY <1>7 DEF StartPoint, commit, Saved, Commits
  <1>8. CASE MCrash \/ MReload
    BY <1>8 DEF MCrash, MReload, CrashRecover, Reload, Restart
  <1>9. CASE LoadPoint
    <2>1. PICK n \in mon.todo \ mon.dead : LoadUnit(n)
      BY <1>9 DEF LoadPoint
    <2>2. n \in Name
      BY <1>1 DEF MTypeOK
    <2>3. QED
      BY <2>1, <2>2 DEF Queues
  <1>10. QED
    BY <1>2, <1>3, <1>4, <1>5, <1>6, <1>7, <1>8, <1>9 DEF MNext

LEMMA UQueues ==
  ASSUME UInv, LinkInv, Queues
  PROVE  UInv'
  BY ULoadUnit, URloop, UPopLoad, ULoad, UAdd, ULoadDone, ULoadQueueEmpty, UPopTargetDep, UTargetDep,
     UTargetQueueEmpty DEF Queues

LEMMA UCommits ==
  ASSUME UInv, Commits
  PROVE  UInv'
  <1>1. DiskOK(disk') /\ Behind(m, disk') /\ m' = m /\ stack' = stack /\ last' = last /\ hist' = hist
    BY SavedFacts DEF UInv, Commits
  <1>2. QED
    BY <1>1 DEF UInv

LEMMA UInitial ==
  ASSUME MInit
  PROVE  UInv
  <1>1. /\ m = NoUnits /\ stack = <<>> /\ disk = [NoUnits EXCEPT !.lq = {}, !.tq = {}]
        /\ last = [unit |-> None, frames |-> <<>>] /\ hist = [redone |-> {}, lost |-> {}]
    BY DEF MInit, UInit
  <1>2. /\ m.units = {} /\ m.state = [n \in Name |-> "UnitStub"] /\ m.read = {} /\ m.deps = {}
        /\ m.lq = <<>> /\ m.tq = <<>> /\ m \in Units
    BY <1>1 DEF NoUnits, Units, LoadState
  <1>3. Lqs(m) = {} /\ Tqs(m) = {} /\ NoDup(m.lq)
    BY <1>2, ToSetEmpty DEF Lqs, Tqs, NoDup
  <1>4. MemOK(m)
    BY <1>2, <1>3 DEF MemOK, Sound, Edges
  <1>5. disk = Saved(m)
    BY <1>1, ToSetEmpty DEF Saved, NoUnits
  <1>6. DiskOK(disk) /\ Behind(m, disk)
    BY <1>4, <1>5, SavedFacts
  <1>7. last \in LastType /\ hist \in HistType /\ last.unit = None /\ last.frames = <<>>
    BY <1>1 DEF LastType, HistType
  <1>8. Calls(stack, m) /\ LastOK(stack, last, hist.redone, m) /\ TopTodo(stack, m)
    BY <1>1, <1>7 DEF Calls, LastOK, Rec, TopTodo
  <1>9. QED
    BY <1>4, <1>6, <1>7, <1>8 DEF UInv

LEMMA MTypeStep ==
  ASSUME MTypeOK, [MNext]_allvars
  PROVE  MTypeOK'
  <1>1. \A p \in Point : PointName[p] \in MountName
    BY DEF MountName
  <1>2. CASE UNCHANGED mvars
    BY <1>2 DEF MTypeOK, mvars
  <1>3. CASE KernelMount
    BY <1>3 DEF KernelMount, MTypeOK
  <1>4. CASE ByHand
    BY <1>4 DEF ByHand, MTypeOK
  <1>5. CASE MonitorIo \/ MonitorDefer
    BY <1>5 DEF MonitorIo, MonitorDefer, MTypeOK
  <1>6. CASE ReadTable
    <2>1. {PointName[p] : p \in mnt} \subseteq MountName
      BY <1>1 DEF MTypeOK
    <2>2. QED
      BY <1>6, <2>1 DEF ReadTable, MTypeOK
  <1>7. CASE KnownPoint \/ StartPoint \/ AllStarted \/ StopPoint
    BY <1>7 DEF KnownPoint, StartPoint, AllStarted, StopPoint, MTypeOK
  <1>8. CASE MonitorDone \/ MCrash \/ MReload
    <2>1. (mon' = MonIdle \/ mon' = mon) /\ act' = act /\ mnt' = mnt /\ pend' \in BOOLEAN /\ defer' \in BOOLEAN
          /\ byhand' \subseteq MountName
      BY <1>8 DEF MonitorDone, MCrash, MReload, MTypeOK
    <2>2. QED
      BY <2>1 DEF MonIdle, MTypeOK
  <1>9. QED
    BY <1>2, <1>3, <1>4, <1>5, <1>6, <1>7, <1>8 DEF MNext, LoadPoint, allvars, mvars

\* What every state of the specification satisfies.
BaseInv == LinkInv /\ MTypeOK /\ UInv

LEMMA BaseStep ==
  ASSUME BaseInv, [MNext]_allvars
  PROVE  BaseInv'
  <1>1. LinkInv' /\ MTypeOK'
    BY LinkStep, MTypeStep DEF BaseInv
  <1>2. UInv'
    <2>1. CASE UNCHANGED <<m, stack, disk, last, hist>>
      BY <2>1 DEF BaseInv, UInv
    <2>2. QED
      BY <2>1, UKinds, UQueues, UCommits, URecover DEF BaseInv
  <1>3. QED
    BY <1>1, <1>2 DEF BaseInv

LEMMA BaseInitial ==
  ASSUME MInit
  PROVE  BaseInv
  <1>1. LinkInv
    BY InstallAssumption DEF MInit, UInit, IInit, LinkInv, ITypeOK
  <1>2. MTypeOK
    BY DEF MInit, MonIdle, MTypeOK
  <1>3. UInv
    BY UInitial
  <1>4. QED
    BY <1>1, <1>2, <1>3 DEF BaseInv

-----------------------------------------------------------------------------
(* No unit is forgotten. *)

\* The units whose loads are under way.
Hands(st) == {st[i].cur : i \in {j \in 1..Len(st) : InHand(st[j])}}

LEMMA HandsFacts ==
  ASSUME NEW st, NEW u
  PROVE  u \in Hands(st) <=> \E i \in 1..Len(st) : InHand(st[i]) /\ st[i].cur = u
  BY DEF Hands

LEMMA HandsEmpty == Hands(<<>>) = {}
  BY DEF Hands

LEMMA HandsTop ==
  ASSUME NEW st \in Seq(Call), st # <<>>, NEW c \in Call
  PROVE  /\ InHand(c) => c.cur \in Hands([st EXCEPT ![Len(st)] = c])
         /\ \A u \in Hands(st) : \/ u \in Hands([st EXCEPT ![Len(st)] = c])
                                 \/ (InHand(Last(st)) /\ u = Last(st).cur)
         /\ \A u \in Hands([st EXCEPT ![Len(st)] = c]) : u \in Hands(st) \/ (InHand(c) /\ u = c.cur)
  <1> DEFINE x == [st EXCEPT ![Len(st)] = c]
  <1>1. /\ Len(x) = Len(st) /\ x[Len(st)] = c /\ \A i \in 1..Len(st) : i # Len(st) => x[i] = st[i]
        /\ Len(st) \in 1..Len(st) /\ Last(st) = st[Len(st)]
    BY SetTop, TopFacts
  <1> HIDE DEF x
  <1>2. InHand(c) => c.cur \in Hands(x)
    BY <1>1, HandsFacts
  <1>3. ASSUME NEW u \in Hands(st)
        PROVE  u \in Hands(x) \/ (InHand(Last(st)) /\ u = Last(st).cur)
    <2>1. PICK i \in 1..Len(st) : InHand(st[i]) /\ st[i].cur = u
      BY HandsFacts
    <2>2. CASE i = Len(st)
      BY <1>1, <2>1, <2>2
    <2>3. CASE i # Len(st)
      <3>1. i \in 1..Len(x) /\ InHand(x[i]) /\ x[i].cur = u
        BY <1>1, <2>1, <2>3
      <3>2. QED
        BY <3>1, HandsFacts
    <2>4. QED
      BY <2>2, <2>3
  <1>4. ASSUME NEW u \in Hands(x)
        PROVE  u \in Hands(st) \/ (InHand(c) /\ u = c.cur)
    <2>1. PICK i \in 1..Len(x) : InHand(x[i]) /\ x[i].cur = u
      BY HandsFacts
    <2>2. CASE i = Len(st)
      BY <1>1, <2>1, <2>2
    <2>3. CASE i # Len(st)
      <3>1. i \in 1..Len(st) /\ InHand(st[i]) /\ st[i].cur = u
        BY <1>1, <2>1, <2>3
      <3>2. QED
        BY <3>1, HandsFacts
    <2>4. QED
      BY <2>2, <2>3
  <1>5. QED
    BY <1>2, <1>3, <1>4 DEF x

LEMMA HandsPush ==
  ASSUME NEW st \in Seq(Call), NEW c \in Call
  PROVE  \A u \in Hands(st) : u \in Hands(Append(st, c))
  <1> DEFINE x == Append(st, c)
  <1>1. Len(x) = Len(st) + 1 /\ Len(st) \in Nat /\ \A i \in 1..Len(st) : x[i] = st[i] /\ i \in 1..(Len(st) + 1)
    OBVIOUS
  <1> HIDE DEF x
  <1>2. SUFFICES ASSUME NEW u \in Hands(st) PROVE u \in Hands(x)
    BY DEF x
  <1>3. PICK i \in 1..Len(st) : InHand(st[i]) /\ st[i].cur = u
    BY <1>2, HandsFacts
  <1>4. i \in 1..Len(x) /\ InHand(x[i]) /\ x[i].cur = u
    BY <1>1, <1>3
  <1>5. QED
    BY <1>4, HandsFacts

LEMMA HandsPop ==
  ASSUME NEW st \in Seq(Call), st # <<>>
  PROVE  \A u \in Hands(st) : u \in Hands(Front(st)) \/ (InHand(Last(st)) /\ u = Last(st).cur)
  <1> DEFINE x == Front(st)
  <1>1. /\ Len(x) = Len(st) - 1 /\ Len(st) \in Nat /\ \A i \in 1..(Len(st) - 1) : x[i] = st[i]
        /\ Last(st) = st[Len(st)]
    BY FrontFacts, TopFacts
  <1> HIDE DEF x
  <1>2. SUFFICES ASSUME NEW u \in Hands(st) PROVE u \in Hands(x) \/ (InHand(Last(st)) /\ u = Last(st).cur)
    BY DEF x
  <1>3. PICK i \in 1..Len(st) : InHand(st[i]) /\ st[i].cur = u
    BY <1>2, HandsFacts
  <1>4. CASE i = Len(st)
    BY <1>1, <1>3, <1>4
  <1>5. CASE i # Len(st)
    <2>1. i \in 1..(Len(st) - 1)
      BY <1>1, <1>5
    <2>2. i \in 1..Len(x) /\ InHand(x[i]) /\ x[i].cur = u
      BY <1>1, <1>3, <2>1
    <2>3. QED
      BY <2>2, HandsFacts
  <1>6. QED
    BY <1>4, <1>5

\* A unit that is still a stub is queued, or has refused its section, or its load is
\* under way; a crash may have lost it.
Held(mm, lq, st, lost) ==
  \A u \in mm.units \ lost :
    mm.state[u] = "UnitStub" => u \in lq \/ (u \in mm.read /\ ~ File[u].ok) \/ u \in Hands(st)

HeldInv == Held(m, Lqs(m), stack, hist.lost) /\ Held(disk, disk.lq, stack, hist.lost)

LEMMA HeldHands ==
  ASSUME NEW mm, NEW lq, NEW st, NEW st2, NEW lost, Held(mm, lq, st, lost), Hands(st) \subseteq Hands(st2)
  PROVE  Held(mm, lq, st2, lost)
  BY DEF Held

LEMMA HeldSaved ==
  ASSUME NEW mm, MemOK(mm), NEW st, NEW lost, Held(mm, Lqs(mm), st, lost)
  PROVE  Held(Saved(mm), Saved(mm).lq, st, lost)
  BY SavedFacts DEF Held

LEMMA HeldGrown ==
  ASSUME NEW a, NEW b, Grown(a, b), NEW st, NEW lost, Held(a, Lqs(a), st, lost)
  PROVE  Held(b, Lqs(b), st, lost)
  BY DEF Held, Grown

\* The innermost call is replaced by one for the same unit, or by any when it had none.
LEMMA HandsKept ==
  ASSUME UInv, ~ Idle, NEW c \in Call, InHand(This) => InHand(c) /\ c.cur = This.cur
  PROVE  Hands(stack) \subseteq Hands([stack EXCEPT ![Len(stack)] = c])
  <1>1. stack \in Seq(Call) /\ stack # <<>> /\ This = Last(stack)
    BY ThisFacts
  <1>2. QED
    BY <1>1, HandsTop

LEMMA HeldEnd ==
  ASSUME BaseInv, BaseInv', HeldInv, ~ Idle, InHand(This), EndStep(This.cur),
         m'.state[This.cur] # "UnitStub" \/ (This.cur \in m'.read /\ ~ File[This.cur].ok)
  PROVE  HeldInv'
  <1> DEFINE u == This.cur
  <1>1. Ends(m, m', u) /\ disk' = Saved(m') /\ hist' = hist /\ MemOK(m')
    BY DEF EndStep, BaseInv, UInv
  <1>2. \A x \in Hands(stack) : x \in Hands(stack') \/ x = u
    <2>0. UInv /\ stack \in Seq(Call) /\ stack # <<>> /\ This = Last(stack) /\ Len(stack) \in 1..Len(stack)
      BY ThisFacts DEF BaseInv
    <2>1. CASE This.ph = "comp"
      <3>1. Len(stack) = 1
        BY <2>0, <2>1, ThisFacts
      <3>2. ASSUME NEW x \in Hands(stack)
            PROVE  x = u
        <4>1. PICK i \in 1..Len(stack) : InHand(stack[i]) /\ stack[i].cur = x
          BY <3>2, HandsFacts
        <4>2. i = 1
          BY <3>1
        <4>3. QED
          BY <2>0, <3>1, <4>1, <4>2, ThisFacts
      <3>3. QED
        BY <3>2
    <2>2. CASE This.ph # "comp"
      <3>1. stack' = [stack EXCEPT ![Len(stack)] = Called("load", None)]
        BY <2>2 DEF EndStep
      <3>2. Called("load", None) \in Call
        BY CalledType
      <3>3. QED
        BY <2>0, <3>1, <3>2, HandsTop
    <2>3. QED
      BY <2>1, <2>2
  <1>3. Held(m', Lqs(m'), stack', hist.lost)
    <2>1. SUFFICES ASSUME NEW x \in m'.units \ hist.lost, m'.state[x] = "UnitStub"
                   PROVE  x \in Lqs(m') \/ (x \in m'.read /\ ~ File[x].ok) \/ x \in Hands(stack')
      BY DEF Held
    <2>2. CASE x = u
      BY <2>1, <2>2
    <2>3. CASE x # u
      <3>1. x \in m.units \ hist.lost /\ x \in Name
        BY <1>1, <2>1, UnitsType DEF Ends
      <3>2. m.state[x] = "UnitStub"
        BY <1>1, <2>1, <2>3, <3>1 DEF Ends
      <3>3. QED
        BY <1>1, <1>2, <2>3, <3>1, <3>2 DEF HeldInv, Held, Ends
    <2>4. QED
      BY <2>2, <2>3
  <1>4. QED
    BY <1>1, <1>3, HeldSaved DEF HeldInv

LEMMA HeldRead ==
  ASSUME BaseInv, HeldInv, ~ Idle, InHand(This), ReadStep(This.cur)
  PROVE  HeldInv'
  <1> DEFINE u == This.cur
             c == [This EXCEPT !.at = "extras", !.todo = extras(m', u)]
  <1>1. UInv /\ u \in Name /\ m' \in Units /\ This \in Call
    BY ThisFacts DEF BaseInv, ReadStep, InHand
  <1>2. c \in Call /\ InHand(c) /\ c.cur = u
    BY <1>1, ExtrasFacts DEF Call, InHand
  <1>3. stack' = [stack EXCEPT ![Len(stack)] = c] /\ disk' = disk /\ hist' = hist
    BY DEF ReadStep
  <1> HIDE DEF c
  <1>4. Hands(stack) \subseteq Hands(stack') /\ u \in Hands(stack')
    <2>1. stack \in Seq(Call) /\ stack # <<>>
      BY <1>1, ThisFacts
    <2>2. QED
      BY <1>1, <1>2, <1>3, <2>1, HandsKept, HandsTop
  <1>5. Held(disk', disk'.lq, stack', hist'.lost)
    BY <1>3, <1>4, HeldHands DEF HeldInv
  <1>6. Held(m', Lqs(m'), stack', hist'.lost)
    <2>1. SUFFICES ASSUME NEW x \in m'.units \ hist.lost, m'.state[x] = "UnitStub"
                   PROVE  x \in Lqs(m') \/ (x \in m'.read /\ ~ File[x].ok) \/ x \in Hands(stack')
      BY <1>3 DEF Held
    <2>2. CASE x \in m.units
      BY <1>4, <2>1, <2>2 DEF HeldInv, Held, ReadStep
    <2>3. CASE x \notin m.units
      BY <2>1, <2>3 DEF ReadStep
    <2>4. QED
      BY <2>2, <2>3
  <1>7. QED
    BY <1>5, <1>6 DEF HeldInv

LEMMA HeldQueues ==
  ASSUME BaseInv, BaseInv', HeldInv, Queues
  PROVE  HeldInv'
  <1>0. UInv /\ LinkInv
    BY DEF BaseInv
  <1>1. ASSUME UNCHANGED <<m, disk, hist>>, Hands(stack) \subseteq Hands(stack')
        PROVE  HeldInv'
    BY <1>1, HeldHands DEF HeldInv, Lqs
  <1>2. ASSUME UNCHANGED <<m, hist>>, disk' = Saved(m), Hands(stack) \subseteq Hands(stack')
        PROVE  HeldInv'
    <2>1. MemOK(m) /\ Held(m, Lqs(m), stack', hist.lost)
      BY <1>0, <1>2, HeldHands DEF HeldInv, UInv
    <2>2. QED
      BY <1>2, <2>1, HeldSaved DEF HeldInv, Lqs
  <1>3. ASSUME Grown(m, m'), UNCHANGED <<disk, hist>>, Hands(stack) \subseteq Hands(stack')
        PROVE  HeldInv'
    <2>1. Held(m, Lqs(m), stack', hist.lost) /\ Held(disk, disk.lq, stack', hist.lost)
      BY <1>3, HeldHands DEF HeldInv
    <2>2. QED
      BY <1>3, <2>1, HeldGrown DEF HeldInv
  <1>4. \A ph \in {"load", "tdep"}, u \in Name \cup {None} : Called(ph, u) \in Call
    BY CalledType
  <1>5. CASE \E u \in Name : LoadUnit(u)
    <2>1. Grown(m, m') /\ UNCHANGED <<disk, hist>> /\ stack = <<>>
      BY <1>0, <1>5, ULoadUnit
    <2>2. QED
      BY <1>3, <2>1, HandsEmpty
  <1>6. CASE rloop
    <2>1. UNCHANGED <<m, disk, hist>> /\ stack = <<>>
      BY <1>0, <1>6, URloop
    <2>2. QED
      BY <1>1, <2>1, HandsEmpty
  <1>7. CASE PopLoad
    <2>1. UNCHANGED <<m, disk, hist>> /\ ~ Idle /\ ~ InHand(This) /\ m.lq # <<>>
          /\ stack' = [stack EXCEPT ![Len(stack)] = Called("load", Head(m.lq))]
      BY <1>0, <1>7, UPopLoad DEF InHand
    <2>2. Head(m.lq) \in Name
      BY <1>0, <2>1, ThisFacts, ToSetTail
    <2>3. QED
      BY <1>0, <1>1, <1>4, <2>1, <2>2, HandsKept
  <1>8. CASE load_unit
    <2>1. /\ ~ Idle /\ InHand(This)
          /\ \/ EndStep(This.cur) /\ m'.state[This.cur] \in {"UnitLoaded", "UnitNotFound"}
             \/ ReadStep(This.cur)
      BY <1>0, <1>8, ULoad
    <2>2. QED
      BY <2>1, HeldEnd, HeldRead
  <1>9. CASE unit_add_dependency
    <2>1. /\ ~ Idle /\ InHand(This) /\ This.todo # <<>>
          /\ \/ AddStep(This.cur, Head(This.todo)[1], Head(This.todo)[2])
             \/ NestStep(This.cur, Head(This.todo)[2])
      BY <1>0, <1>9, UAdd
    <2>2. stack \in Seq(Call) /\ stack # <<>> /\ This \in Call /\ This.todo \in Seq(Relation \X Name)
      BY <1>0, <2>1, ThisFacts
    <2>3. CASE AddStep(This.cur, Head(This.todo)[1], Head(This.todo)[2])
      <3> DEFINE c == [This EXCEPT !.todo = Tail(@)]
      <3>1. c \in Call /\ InHand(c) /\ c.cur = This.cur
        <4>1. Tail(This.todo) \in Seq(Relation \X Name)
          BY <2>1, <2>2
        <4>2. QED
          BY <2>1, <2>2, <4>1 DEF Call, InHand
      <3>2. stack' = [stack EXCEPT ![Len(stack)] = c] /\ UNCHANGED <<disk, hist>>
        BY <2>3 DEF AddStep
      <3> HIDE DEF c
      <3>3. Hands(stack) \subseteq Hands(stack')
        BY <1>0, <2>1, <3>1, <3>2, HandsKept
      <3>4. Held(m, Lqs(m), stack', hist.lost) /\ Held(disk, disk.lq, stack', hist.lost)
        BY <3>3, HeldHands DEF HeldInv
      <3>5. Held(m', Lqs(m'), stack', hist.lost)
        BY <2>3, <3>4 DEF AddStep, Held, Lqs
      <3>6. QED
        BY <3>2, <3>4, <3>5 DEF HeldInv
    <2>4. CASE NestStep(This.cur, Head(This.todo)[2])
      <3>1. Grown(m, m') /\ UNCHANGED <<disk, hist>> /\ stack' = Append(stack, Called("load", None))
        BY <2>4 DEF NestStep
      <3>2. Hands(stack) \subseteq Hands(stack')
        BY <1>4, <2>2, <3>1, HandsPush
      <3>3. QED
        BY <1>3, <3>1, <3>2
    <2>5. QED
      BY <2>1, <2>3, <2>4
  <1>10. CASE LoadDone
    <2>1. /\ ~ Idle /\ InHand(This) /\ This.at = "extras" /\ EndStep(This.cur)
          /\ m'.state[This.cur] = "UnitLoaded" \/ ~ File[This.cur].ok
      BY <1>0, <1>10, ULoadDone
    <2>2. This.cur \in m.read
      BY <1>0, <2>1, ThisFacts DEF CallOK
    <2>3. This.cur \in m'.read
      BY <2>1, <2>2 DEF EndStep, Ends
    <2>4. QED
      BY <2>1, <2>3, HeldEnd
  <1>11. CASE LoadQueueEmpty
    <2>1. /\ ~ Idle /\ ~ InHand(This) /\ UNCHANGED <<m, hist>> /\ disk' = Saved(m)
          /\ stack' = [stack EXCEPT ![Len(stack)] = Called("tdep", None)]
      BY <1>0, <1>11, ULoadQueueEmpty DEF InHand
    <2>2. QED
      BY <1>0, <1>2, <1>4, <2>1, HandsKept
  <1>12. CASE PopTargetDep
    <2>1. /\ ~ Idle /\ ~ InHand(This) /\ UNCHANGED <<m, disk, hist>> /\ m.tq # <<>>
          /\ stack' = [stack EXCEPT ![Len(stack)] = Called("tdep", Head(m.tq))]
      BY <1>0, <1>12, UPopTargetDep DEF InHand
    <2>2. Head(m.tq) \in Name
      BY <1>0, <2>1, ThisFacts, ToSetTail
    <2>3. QED
      BY <1>0, <1>1, <1>4, <2>1, <2>2, HandsKept
  <1>13. CASE TargetDep
    <2>1. /\ ~ Idle /\ ~ InHand(This) /\ hist' = hist /\ disk' = Saved(m')
          /\ stack' = [stack EXCEPT ![Len(stack)] = Called("tdep", None)]
          /\ \E b : Next_(m, b, This.cur) /\ Dispatched(b, m', This.cur)
          /\ MemOK(m')
      BY <1>0, <1>13, UTargetDep DEF InHand
    <2>2. m'.units = m.units /\ m'.state = m.state /\ m'.read = m.read /\ Lqs(m') = Lqs(m)
      BY <2>1 DEF Next_, Dispatched, Lqs
    <2>3. Hands(stack) \subseteq Hands(stack')
      BY <1>0, <1>4, <2>1, HandsKept
    <2>4. Held(m', Lqs(m'), stack', hist.lost)
      BY <2>2, <2>3 DEF HeldInv, Held
    <2>5. QED
      BY <2>1, <2>4, HeldSaved DEF HeldInv
  <1>14. CASE TargetQueueEmpty
    <2>1. ~ Idle /\ ~ InHand(This) /\ UNCHANGED <<m, hist>> /\ disk' = Saved(m) /\ stack' = Front(stack)
      BY <1>0, <1>14, UTargetQueueEmpty DEF InHand
    <2>2. stack \in Seq(Call) /\ stack # <<>> /\ This = Last(stack)
      BY <1>0, <2>1, ThisFacts
    <2>3. Hands(stack) \subseteq Hands(stack')
      BY <2>1, <2>2, HandsPop
    <2>4. QED
      BY <1>2, <2>1, <2>3
  <1>15. QED
    BY <1>5, <1>6, <1>7, <1>8, <1>9, <1>10, <1>11, <1>12, <1>13, <1>14 DEF Queues

\* What a crash cuts is in the records' queue, or loaded again, or counted as lost.
LEMMA HeldRecover ==
  ASSUME BaseInv, BaseInv', HeldInv, Recover
  PROVE  HeldInv'
  <1>1. UInv /\ hist'.lost = hist.lost \cup Deep /\ ((\E u \in disk.units : Again(u)) \/ Back)
    BY URecover DEF BaseInv
  <1>2. ASSUME NEW x \in disk.units \ hist'.lost, disk.state[x] = "UnitStub"
        PROVE  x \in disk.lq \/ (x \in disk.read /\ ~ File[x].ok) \/ (x = last.unit /\ x \in Hands(stack))
    <2>1. x \in disk.lq \/ (x \in disk.read /\ ~ File[x].ok) \/ x \in Hands(stack)
      BY <1>1, <1>2 DEF HeldInv, Held
    <2>2. ASSUME x \in Hands(stack), x \notin disk.lq
          PROVE  x = last.unit
      <3>1. PICK i \in 1..Len(stack) : stack[i].cur = x
        BY <2>2, HandsFacts
      <3>2. x \notin Deep
        BY <1>1, <1>2
      <3>3. QED
        BY <1>2, <2>2, <3>1, <3>2 DEF Deep
    <2>3. QED
      BY <2>1, <2>2
  <1>3. ASSUME NEW u \in disk.units, Again(u)
        PROVE  HeldInv'
    <2>1. u \in Name /\ stack' = <<Called("comp", u)>> /\ u = last.unit /\ u # None
      BY <1>1, <1>3, NoneType DEF Again, UInv, DiskOK, Records
    <2>2. u \in Hands(stack')
      <3>1. Called("comp", u).ph = "comp" /\ Called("comp", u).cur = u
        BY <2>1, CalledType
      <3>2. Len(stack') = 1 /\ stack'[1] = Called("comp", u) /\ 1 \in 1..Len(stack')
        BY <2>1
      <3>3. QED
        BY <2>1, <3>1, <3>2, HandsFacts DEF InHand
    <2>3. Held(m', Lqs(m'), stack', hist'.lost)
      BY <1>2, <1>3, <2>1, <2>2 DEF Again, Restored, Held
    <2>4. disk'.units = disk.units /\ disk'.state = disk.state /\ disk'.read = disk.read /\ disk'.lq = disk.lq \ {u}
      BY <1>1, <1>3 DEF Again, UInv, DiskOK, Records
    <2>5. Held(disk', disk'.lq, stack', hist'.lost)
      BY <1>2, <2>1, <2>2, <2>4 DEF Held
    <2>6. QED
      BY <2>3, <2>5 DEF HeldInv
  <1>4. ASSUME Back
        PROVE  HeldInv'
    <2>1. m'.units = disk.units /\ m'.state = disk.state /\ m'.read = disk.read /\ Lqs(m') = disk.lq
      BY <1>4 DEF Back, Restored, Dispatched, Lqs
    <2>2. ASSUME NEW x \in disk.units, x = last.unit
          PROVE  x \notin Hands(stack)
      <3>1. LastFrame # "Load"
        BY <1>4, <2>2 DEF Back
      <3>2. QED
        BY <1>1, <2>2, <3>1, LastInHand, HandsFacts
    <2>3. Held(m', Lqs(m'), stack', hist'.lost)
      BY <1>2, <2>1, <2>2 DEF Held
    <2>4. MemOK(m') /\ disk' = Saved(m')
      BY <1>4 DEF Back, BaseInv, UInv
    <2>5. QED
      BY <2>3, <2>4, HeldSaved DEF HeldInv
  <1>5. QED
    BY <1>1, <1>3, <1>4

LEMMA HeldStep ==
  ASSUME BaseInv, HeldInv, [MNext]_allvars
  PROVE  HeldInv'
  <1>1. BaseInv' /\ MTypeOK
    BY BaseStep DEF BaseInv
  <1>2. CASE UNCHANGED <<m, stack, disk, last, hist>>
    BY <1>2 DEF HeldInv, Lqs
  <1>3. CASE Commits
    <2>1. MemOK(m)
      BY DEF BaseInv, UInv
    <2>2. QED
      BY <1>3, <2>1, HeldSaved DEF Commits, HeldInv, Lqs
  <1>4. QED
    BY <1>1, <1>2, <1>3, UKinds, HeldQueues, HeldRecover

\* For any set of units, files and presets: when the queues are at rest, a unit that was
\* created is loaded or its load has failed, wherever a crash or a reload came; the only
\* units lost are those a crash met in the middle of the load of a unit they need
\* (dispatch_load_queue, set_last_unit, UnitRT's db_map and do_compensate_last).
THEOREM NoneForgotten == MSpec => []NoUnitForgotten
  <1>1. MInit => BaseInv /\ HeldInv
    <2>1. SUFFICES ASSUME MInit PROVE BaseInv /\ HeldInv
      OBVIOUS
    <2>2. m.units = {} /\ disk.units = {}
      BY <2>1 DEF MInit, UInit, NoUnits
    <2>3. HeldInv
      BY <2>2 DEF HeldInv, Held
    <2>4. QED
      BY <2>1, <2>3, BaseInitial
  <1>2. BaseInv /\ HeldInv /\ [MNext]_allvars => (BaseInv /\ HeldInv)'
    BY BaseStep, HeldStep
  <1>3. BaseInv /\ HeldInv => NoUnitForgotten
    <2>1. SUFFICES ASSUME BaseInv, HeldInv, Settled PROVE NoUnitForgotten
      BY DEF NoUnitForgotten
    <2>2. stack = <<>> /\ Lqs(m) = {}
      BY <2>1, SettledFacts DEF BaseInv
    <2>3. QED
      BY <2>1, <2>2, HandsEmpty DEF HeldInv, Held, NoUnitForgotten
  <1>4. QED
    BY <1>1, <1>2, <1>3, PTL DEF MSpec

-----------------------------------------------------------------------------
(* Mount units. *)

LEMMA RecTop ==
  ASSUME UInv, ~ Idle, NEW c \in Call, c.ph = "comp" <=> This.ph = "comp"
  PROVE  /\ Rec([stack EXCEPT ![Len(stack)] = c]) <=> Rec(stack)
         /\ (This.ph = "comp" => c.cur = This.cur) /\ Rec(stack) =>
              [stack EXCEPT ![Len(stack)] = c][1].cur = stack[1].cur
         /\ [stack EXCEPT ![Len(stack)] = c] # <<>>
  <1> DEFINE x == [stack EXCEPT ![Len(stack)] = c]
  <1>1. /\ stack \in Seq(Call) /\ stack # <<>> /\ This = stack[Len(stack)] /\ 1 \in 1..Len(stack)
        /\ This.ph = "comp" => Len(stack) = 1
    BY ThisFacts
  <1>2. x # <<>> /\ x[Len(stack)] = c /\ \A i \in 1..Len(stack) : i # Len(stack) => x[i] = stack[i]
    BY <1>1, SetTop
  <1> HIDE DEF x
  <1>3. CASE Len(stack) = 1
    BY <1>1, <1>2, <1>3 DEF Rec, x
  <1>4. CASE Len(stack) # 1
    BY <1>1, <1>2, <1>4 DEF Rec, x
  <1>5. QED
    BY <1>3, <1>4

\* What the step does to the recovery's call, which is the outermost: it stays until the
\* unit it loads has ended its load, and no other step makes one.
Outer(u) ==
  /\ Rec(stack') => Rec(stack)
  /\ Rec(stack) => (Rec(stack') /\ stack'[1].cur = stack[1].cur) \/ ((load_unit \/ LoadDone) /\ stack[1].cur = u)
  /\ ~ Rec(stack) /\ stack' = <<>> => m'.lq = <<>>

LEMMA OuterTop ==
  ASSUME UInv, ~ Idle, NEW c \in Call, c.ph = "comp" <=> This.ph = "comp", This.ph = "comp" => c.cur = This.cur,
         stack' = [stack EXCEPT ![Len(stack)] = c]
  PROVE  Outer(This.cur)
  <1>1. /\ Rec(stack') <=> Rec(stack)
        /\ Rec(stack) => stack'[1].cur = stack[1].cur
        /\ stack' # <<>>
    BY RecTop
  <1>2. QED
    BY <1>1 DEF Outer

LEMMA OuterEnd ==
  ASSUME UInv, ~ Idle, InHand(This), EndStep(This.cur), load_unit \/ LoadDone
  PROVE  Outer(This.cur)
  <1>1. CASE This.ph = "comp"
    <2>1. stack' = <<>> /\ Rec(stack) /\ Len(stack) = 1 /\ This = stack[Len(stack)]
      BY <1>1, ThisFacts DEF EndStep
    <2>2. QED
      BY <2>1 DEF Outer, Rec
  <1>2. CASE This.ph # "comp"
    <2>1. stack' = [stack EXCEPT ![Len(stack)] = Called("load", None)]
      BY <1>2 DEF EndStep
    <2>2. Called("load", None) \in Call /\ Called("load", None).ph = "load"
      BY CalledType
    <2>3. QED
      BY <1>2, <2>1, <2>2, OuterTop
  <1>3. QED
    BY <1>1, <1>2

LEMMA OuterQueues ==
  ASSUME BaseInv, Queues
  PROVE  Outer(This.cur)
  <1>0. UInv /\ LinkInv
    BY DEF BaseInv
  <1>1. \A ph \in {"load", "tdep"}, u \in Name \cup {None} : Called(ph, u) \in Call /\ Called(ph, u).ph = ph
    BY CalledType
  <1>2. CASE (\E u \in Name : LoadUnit(u)) \/ rloop
    <2>1. stack = <<>> /\ stack' = <<Called("load", None)>>
      BY <1>0, <1>2, ULoadUnit, URloop
    <2>2. stack' # <<>> /\ stack'[1].ph = "load"
      BY <1>1, <2>1
    <2>3. QED
      BY <2>1, <2>2 DEF Outer, Rec
  <1>3. CASE PopLoad
    <2>1. ~ Idle /\ This.ph = "load" /\ m.lq # <<>>
          /\ stack' = [stack EXCEPT ![Len(stack)] = Called("load", Head(m.lq))]
      BY <1>0, <1>3, UPopLoad
    <2>2. Head(m.lq) \in Name
      BY <1>0, <2>1, ThisFacts, ToSetTail
    <2>3. QED
      BY <1>0, <1>1, <2>1, <2>2, OuterTop
  <1>4. CASE load_unit
    <2>1. ~ Idle /\ InHand(This) /\ (EndStep(This.cur) \/ ReadStep(This.cur))
      BY <1>0, <1>4, ULoad
    <2>2. CASE ReadStep(This.cur)
      <3> DEFINE c == [This EXCEPT !.at = "extras", !.todo = extras(m', This.cur)]
      <3>1. c \in Call /\ c.ph = This.ph /\ c.cur = This.cur
        <4>1. This \in Call /\ This.cur \in Name /\ m' \in Units
          BY <1>0, <2>1, <2>2, ThisFacts DEF ReadStep, InHand
        <4>2. QED
          BY <4>1, ExtrasFacts DEF Call
      <3>2. stack' = [stack EXCEPT ![Len(stack)] = c]
        BY <2>2 DEF ReadStep
      <3> HIDE DEF c
      <3>3. QED
        BY <1>0, <2>1, <3>1, <3>2, OuterTop
    <2>3. QED
      BY <1>0, <1>4, <2>1, <2>2, OuterEnd
  <1>5. CASE unit_add_dependency
    <2>1. /\ ~ Idle /\ InHand(This) /\ This.todo # <<>>
          /\ \/ AddStep(This.cur, Head(This.todo)[1], Head(This.todo)[2])
             \/ NestStep(This.cur, Head(This.todo)[2])
      BY <1>0, <1>5, UAdd
    <2>2. stack \in Seq(Call) /\ stack # <<>> /\ This \in Call /\ This.todo \in Seq(Relation \X Name) /\ 1 \in 1..Len(stack)
      BY <1>0, <2>1, ThisFacts
    <2>3. CASE AddStep(This.cur, Head(This.todo)[1], Head(This.todo)[2])
      <3> DEFINE c == [This EXCEPT !.todo = Tail(@)]
      <3>1. c \in Call /\ c.ph = This.ph /\ c.cur = This.cur
        <4>1. Tail(This.todo) \in Seq(Relation \X Name)
          BY <2>1, <2>2
        <4>2. QED
          BY <2>1, <2>2, <4>1 DEF Call, InHand
      <3>2. stack' = [stack EXCEPT ![Len(stack)] = c]
        BY <2>3 DEF AddStep
      <3> HIDE DEF c
      <3>3. QED
        BY <1>0, <2>1, <3>1, <3>2, OuterTop
    <2>4. CASE NestStep(This.cur, Head(This.todo)[2])
      <3>1. stack' = Append(stack, Called("load", None)) /\ Called("load", None) \in Call
        BY <1>1, <2>4 DEF NestStep
      <3>2. stack' # <<>> /\ stack'[1] = stack[1]
        BY <2>2, <3>1
      <3>3. QED
        BY <2>2, <3>2 DEF Outer, Rec
    <2>5. QED
      BY <2>1, <2>3, <2>4
  <1>6. CASE LoadDone
    BY <1>0, <1>6, ULoadDone, OuterEnd
  <1>7. CASE LoadQueueEmpty
    <2>1. ~ Idle /\ This.ph = "load" /\ stack' = [stack EXCEPT ![Len(stack)] = Called("tdep", None)]
      BY <1>0, <1>7, ULoadQueueEmpty
    <2>2. QED
      BY <1>0, <1>1, <2>1, OuterTop
  <1>8. CASE PopTargetDep
    <2>1. ~ Idle /\ This.ph = "tdep" /\ m.tq # <<>> /\ stack' = [stack EXCEPT ![Len(stack)] = Called("tdep", Head(m.tq))]
      BY <1>0, <1>8, UPopTargetDep
    <2>2. Head(m.tq) \in Name
      BY <1>0, <2>1, ThisFacts, ToSetTail
    <2>3. QED
      BY <1>0, <1>1, <2>1, <2>2, OuterTop
  <1>9. CASE TargetDep
    <2>1. ~ Idle /\ This.ph = "tdep" /\ stack' = [stack EXCEPT ![Len(stack)] = Called("tdep", None)]
      BY <1>0, <1>9, UTargetDep
    <2>2. QED
      BY <1>0, <1>1, <2>1, OuterTop
  <1>10. CASE TargetQueueEmpty
    <2>1. ~ Idle /\ This.ph = "tdep" /\ m' = m /\ m.lq = <<>> /\ stack' = Front(stack)
      BY <1>0, <1>10, UTargetQueueEmpty
    <2>2. /\ stack \in Seq(Call) /\ stack # <<>> /\ This = stack[Len(stack)] /\ 1 \in 1..Len(stack)
          /\ Len(stack) \in Nat
      BY <1>0, <2>1, ThisFacts
    <2>3. Front(stack) \in Seq(Call) /\ Len(Front(stack)) = Len(stack) - 1
          /\ \A i \in 1..(Len(stack) - 1) : Front(stack)[i] = stack[i]
      BY <2>2, FrontFacts
    <2>4. CASE Len(stack) = 1
      <3>1. stack' = <<>>
        BY <2>1, <2>3, <2>4
      <3>2. ~ Rec(stack)
        BY <2>1, <2>2, <2>4 DEF Rec
      <3>3. QED
        BY <2>1, <3>1, <3>2 DEF Outer, Rec
    <2>5. CASE Len(stack) # 1
      <3>0. Len(stack) \in Nat /\ Len(stack) >= 1
        BY <1>0, <2>1, ThisFacts
      <3>1. 1 \in 1..(Len(stack) - 1)
        BY <2>5, <3>0
      <3>2. stack' # <<>> /\ stack'[1] = stack[1]
        BY <2>1, <2>3, <3>1
      <3>3. QED
        BY <2>2, <3>2 DEF Outer, Rec
    <2>6. QED
      BY <2>4, <2>5
  <1>11. QED
    BY <1>2, <1>3, <1>4, <1>5, <1>6, <1>7, <1>8, <1>9, <1>10 DEF Queues

\* A mount unit's load cannot fail: it is loaded, or queued, or the one the recovery
\* loads again.
Mounts(mm, lq, st) ==
  \A u \in mm.units : Type[u] = "mount" =>
    /\ mm.state[u] # "UnitNotFound"
    /\ mm.state[u] = "UnitStub" => u \in lq \/ (Rec(st) /\ st[1].cur = u)

MountsInv == Mounts(m, Lqs(m), stack) /\ Mounts(disk, disk.lq, stack)

LEMMA MountsSaved ==
  ASSUME NEW mm, MemOK(mm), NEW st, Mounts(mm, Lqs(mm), st)
  PROVE  Mounts(Saved(mm), Saved(mm).lq, st)
  BY SavedFacts DEF Mounts

\* The recovery's call is still there: nothing is lost while the queue only grows.
LEMMA MountsKept ==
  ASSUME NEW a, NEW b, NEW p, NEW q, NEW st, NEW st2, Mounts(a, p, st),
         Rec(st) => Rec(st2) /\ st2[1].cur = st[1].cur,
         a.units \subseteq b.units, b.state = a.state, p \subseteq q, b.units \ a.units \subseteq q,
         \A u \in b.units \ a.units : b.state[u] = "UnitStub"
  PROVE  Mounts(b, q, st2)
  BY DEF Mounts

LEMMA MountsEnd ==
  ASSUME BaseInv, BaseInv', MountsInv, ~ Idle, InHand(This), EndStep(This.cur), load_unit \/ LoadDone,
         Type[This.cur] = "mount" => m'.state[This.cur] = "UnitLoaded"
  PROVE  MountsInv'
  <1> DEFINE u == This.cur
  <1>1. Ends(m, m', u) /\ disk' = Saved(m') /\ MemOK(m') /\ Outer(u) /\ m.units \subseteq Name
    BY OuterEnd, UnitsType DEF EndStep, BaseInv, UInv, MemOK
  <1>2. Rec(stack) => (Rec(stack') /\ stack'[1].cur = stack[1].cur) \/ stack[1].cur = u
    BY <1>1 DEF Outer
  <1>3. ASSUME NEW x \in m'.units, Type[x] = "mount"
        PROVE  /\ m'.state[x] # "UnitNotFound"
               /\ m'.state[x] = "UnitStub" => x \in Lqs(m') \/ (Rec(stack') /\ stack'[1].cur = x)
    <2>1. CASE x = u
      BY <1>3, <2>1
    <2>2. CASE x # u
      <3>1. x \in m.units /\ m'.state[x] = m.state[x] /\ (x \in Lqs(m) => x \in Lqs(m'))
        BY <1>1, <1>3, <2>2 DEF Ends
      <3>2. QED
        BY <1>2, <1>3, <2>2, <3>1 DEF MountsInv, Mounts
    <2>3. QED
      BY <2>1, <2>2
  <1>4. Mounts(m', Lqs(m'), stack')
    BY <1>3 DEF Mounts
  <1>5. QED
    BY <1>1, <1>4, MountsSaved DEF MountsInv

LEMMA MountsQueues ==
  ASSUME BaseInv, BaseInv', MountsInv, Queues
  PROVE  MountsInv'
  <1>0. UInv /\ LinkInv /\ UInv' /\ MemOK(m) /\ MemOK(m') /\ Outer(This.cur)
    BY OuterQueues DEF BaseInv, UInv
  <1>1. m \in Units /\ \A u \in Name \ m.units : m.state[u] = "UnitStub"
    BY <1>0 DEF MemOK, Sound
  <1>2. ASSUME Rec(stack) => Rec(stack') /\ stack'[1].cur = stack[1].cur, disk' = disk,
               m.units \subseteq m'.units, m'.state = m.state, Lqs(m) \cup (m'.units \ m.units) \subseteq Lqs(m')
        PROVE  MountsInv'
    <2>1. m'.units \subseteq Name
      BY <1>0, UnitsType DEF MemOK
    <2>2. Mounts(m', Lqs(m'), stack')
      BY <1>1, <1>2, <2>1, MountsKept DEF MountsInv
    <2>3. Mounts(disk', disk'.lq, stack')
      BY <1>2, MountsKept DEF MountsInv
    <2>4. QED
      BY <2>2, <2>3 DEF MountsInv
  <1>3. ASSUME Rec(stack) => Rec(stack') /\ stack'[1].cur = stack[1].cur, disk' = Saved(m'),
               m'.units = m.units, m'.state = m.state, Lqs(m') = Lqs(m)
        PROVE  MountsInv'
    <2>1. Mounts(m', Lqs(m'), stack')
      BY <1>3, MountsKept DEF MountsInv
    <2>2. QED
      BY <1>0, <1>3, <2>1, MountsSaved DEF MountsInv
  <1>4. CASE load_unit
    <2>1. /\ ~ Idle /\ InHand(This)
          /\ \/ EndStep(This.cur) /\ (Type[This.cur] = "mount" => m'.state[This.cur] = "UnitLoaded")
             \/ ReadStep(This.cur) /\ Type[This.cur] # "mount"
      BY <1>0, <1>4, ULoad
    <2>2. CASE ReadStep(This.cur) /\ Type[This.cur] # "mount"
      <3> DEFINE u == This.cur
                 c == [This EXCEPT !.at = "extras", !.todo = extras(m', u)]
      <3>1. Rec(stack) => Rec(stack') /\ stack'[1].cur = stack[1].cur
        <4>1. This \in Call /\ u \in Name /\ m' \in Units
          BY <1>0, <2>1, <2>2, ThisFacts DEF ReadStep, InHand
        <4>2. c \in Call /\ c.ph = This.ph /\ c.cur = This.cur
          BY <4>1, ExtrasFacts DEF Call
        <4>3. stack' = [stack EXCEPT ![Len(stack)] = c]
          BY <2>2 DEF ReadStep
        <4> HIDE DEF c
        <4>4. QED
          BY <1>0, <2>1, <4>2, <4>3, RecTop
      <3>2. /\ disk' = disk /\ m.units \subseteq m'.units /\ m'.state = m.state /\ m'.units \subseteq Name
            /\ Lqs(m') = (Lqs(m) \ {u}) \cup (m'.units \ m.units)
        BY <2>2, UnitsType DEF ReadStep
      <3>3. ASSUME NEW x \in m'.units, Type[x] = "mount"
            PROVE  /\ m'.state[x] # "UnitNotFound"
                   /\ m'.state[x] = "UnitStub" => x \in Lqs(m') \/ (Rec(stack') /\ stack'[1].cur = x)
        <4>1. CASE x \in m.units
          BY <2>2, <3>1, <3>2, <3>3, <4>1 DEF MountsInv, Mounts
        <4>2. CASE x \notin m.units
          BY <1>1, <3>2, <4>2
        <4>3. QED
          BY <4>1, <4>2
      <3>4. Mounts(m', Lqs(m'), stack')
        BY <3>3 DEF Mounts
      <3>5. Mounts(disk', disk'.lq, stack')
        BY <3>1, <3>2, MountsKept DEF MountsInv
      <3>6. QED
        BY <3>4, <3>5 DEF MountsInv
    <2>3. QED
      BY <1>4, <2>1, <2>2, MountsEnd
  <1>5. CASE LoadDone
    <2>1. ~ Idle /\ InHand(This) /\ This.at = "extras" /\ EndStep(This.cur)
      BY <1>0, <1>5, ULoadDone
    <2>2. Type[This.cur] # "mount"
      BY <1>0, <2>1, ThisFacts DEF CallOK
    <2>3. QED
      BY <1>5, <2>1, <2>2, MountsEnd
  <1>6. ASSUME Rec(stack) => Rec(stack') /\ stack'[1].cur = stack[1].cur, ~ load_unit, ~ LoadDone
        PROVE  MountsInv'
    <2>1. CASE (\E u \in Name : LoadUnit(u)) \/ rloop \/ PopLoad \/ unit_add_dependency \/ PopTargetDep
      <3>1. \/ m' = m /\ disk' = disk
            \/ Grown(m, m') /\ disk' = disk
            \/ /\ m'.units = m.units /\ m'.state = m.state /\ m'.lq = m.lq /\ disk' = disk
        BY <1>0, <2>1, ULoadUnit, URloop, UPopLoad, UAdd, UPopTargetDep DEF AddStep, NestStep
      <3>2. disk' = disk /\ m.units \subseteq m'.units /\ m'.state = m.state
            /\ Lqs(m) \cup (m'.units \ m.units) \subseteq Lqs(m')
        BY <3>1 DEF Grown, Lqs
      <3>3. QED
        BY <1>2, <1>6, <3>2
    <2>2. CASE LoadQueueEmpty \/ TargetDep \/ TargetQueueEmpty
      <3>1. disk' = Saved(m') /\ m'.units = m.units /\ m'.state = m.state /\ Lqs(m') = Lqs(m)
        BY <1>0, <2>2, ULoadQueueEmpty, UTargetDep, UTargetQueueEmpty DEF Next_, Dispatched, Lqs
      <3>2. QED
        BY <1>3, <1>6, <3>1
    <2>3. QED
      BY <1>6, <2>1, <2>2 DEF Queues
  <1>7. QED
    BY <1>0, <1>4, <1>5, <1>6 DEF Outer

LEMMA MountsRecover ==
  ASSUME BaseInv, BaseInv', MountsInv, Recover
  PROVE  MountsInv'
  <1>1. UInv /\ ((\E u \in disk.units : Again(u)) \/ Back)
    BY URecover DEF BaseInv
  <1>2. Rec(stack) => last.unit = stack[1].cur /\ LastFrame = "Load"
    BY <1>1 DEF UInv, LastOK, LastFrame
  <1>3. ASSUME NEW u \in disk.units, Again(u)
        PROVE  MountsInv'
    <2>1. u \in Name /\ stack' = <<Called("comp", u)>> /\ u = last.unit
      BY <1>1, <1>3 DEF Again, UInv, DiskOK, Records
    <2>2. Rec(stack') /\ stack'[1].cur = u
      <3>1. Called("comp", u).ph = "comp" /\ Called("comp", u).cur = u
        BY <2>1, CalledType
      <3>2. stack' # <<>> /\ stack'[1] = Called("comp", u)
        BY <2>1
      <3>3. QED
        BY <3>1, <3>2 DEF Rec
    <2>3. ASSUME NEW mm, NEW lq, mm.units = disk.units, mm.state = disk.state, lq = disk.lq \ {u}
          PROVE  Mounts(mm, lq, stack')
      BY <1>2, <2>1, <2>2, <2>3 DEF MountsInv, Mounts
    <2>4. m'.units = disk.units /\ m'.state = disk.state /\ Lqs(m') = disk.lq \ {u}
      BY <1>3 DEF Again, Restored
    <2>5. disk'.units = disk.units /\ disk'.state = disk.state /\ disk'.lq = disk.lq \ {u}
      BY <1>1, <1>3 DEF Again, UInv, DiskOK, Records
    <2>6. QED
      BY <2>3, <2>4, <2>5 DEF MountsInv
  <1>4. ASSUME Back
        PROVE  MountsInv'
    <2>1. m'.units = disk.units /\ m'.state = disk.state /\ Lqs(m') = disk.lq
      BY <1>4 DEF Back, Restored, Dispatched, Lqs
    <2>2. \A x \in disk.units : ~ (Rec(stack) /\ stack[1].cur = x)
      BY <1>2, <1>4 DEF Back
    <2>3. Mounts(m', Lqs(m'), stack')
      BY <2>1, <2>2 DEF MountsInv, Mounts
    <2>4. MemOK(m') /\ disk' = Saved(m')
      BY <1>4 DEF Back, BaseInv, UInv
    <2>5. QED
      BY <2>3, <2>4, MountsSaved DEF MountsInv
  <1>5. QED
    BY <1>1, <1>3, <1>4

LEMMA MountsStep ==
  ASSUME BaseInv, MountsInv, [MNext]_allvars
  PROVE  MountsInv'
  <1>1. BaseInv' /\ MTypeOK
    BY BaseStep DEF BaseInv
  <1>2. CASE UNCHANGED <<m, stack, disk, last, hist>>
    BY <1>2 DEF MountsInv, Lqs
  <1>3. CASE Commits
    <2>1. MemOK(m)
      BY DEF BaseInv, UInv
    <2>2. QED
      BY <1>3, <2>1, MountsSaved DEF Commits, MountsInv, Lqs
  <1>4. QED
    BY <1>1, <1>2, <1>3, UKinds, MountsQueues, MountsRecover

-----------------------------------------------------------------------------
(* The monitor of the mount table. *)

Live(n) == \E p \in mnt : PointName[p] = n

\* While no event is pending the table has not changed since it was read: what the
\* monitor still has to start is mounted, what it may still have to stop is Mounted, and
\* what is in neither set agrees with the table.
Watched(n) ==
  /\ n \in mon.todo => Live(n)
  /\ n \in mon.dead => n \in act
  /\ n \in mon.dead \ mon.todo => ~ Live(n)
  /\ n \in act \ mon.dead => Live(n)
  /\ Live(n) /\ n \notin mon.todo => n \in act \ mon.dead

MonInv ==
  /\ mon.ph # "idle" => ~ Rec(stack) /\ (stack = <<>> => m.lq = <<>>)
  /\ mon.ph = "read" => mon.dead = act
  /\ mon.ph = "stop" => mon.todo = {}
  /\ ~ pend /\ mon.ph = "idle" => \A n \in MountName \ byhand : n \in act <=> Live(n)
  /\ ~ pend /\ mon.ph \in {"start", "stop"} => \A n \in MountName : Watched(n)

LEMMA MonQueues ==
  ASSUME BaseInv, MonInv, Queues, UNCHANGED mvars
  PROVE  MonInv'
  <1>1. mnt' = mnt /\ pend' = pend /\ mon' = mon /\ act' = act /\ byhand' = byhand
    BY DEF mvars
  <1>2. Outer(This.cur)
    BY OuterQueues
  <1>3. \A n : (Live(n))' = Live(n) /\ (Watched(n))' = Watched(n)
    BY <1>1 DEF Live, Watched
  <1>4. QED
    BY <1>1, <1>2, <1>3 DEF MonInv, Outer

\* A step of the monitor, the kernel or the administrator that leaves the unit manager.
LEMMA MonAlone ==
  ASSUME BaseInv, MountsInv, MonInv, m' = m, stack' = stack,
         KernelMount \/ ByHand \/ MonitorIo \/ MonitorDefer \/ ReadTable \/ KnownPoint
         \/ StartPoint \/ AllStarted \/ StopPoint \/ MonitorDone
  PROVE  MonInv'
  <1>0. MTypeOK
    BY DEF BaseInv
  <1>1. CASE KernelMount
    <2>1. pend' = TRUE /\ mon' = mon /\ act' = act
      BY <1>1 DEF KernelMount
    <2>2. QED
      BY <2>1 DEF MonInv
  <1>2. CASE ByHand
    <2>1. PICK n \in MountName : act' = (IF n \in act THEN act \ {n} ELSE act \cup {n}) /\ byhand' = byhand \cup {n}
      BY <1>2 DEF ByHand
    <2>2. mnt' = mnt /\ pend' = pend /\ mon' = mon /\ mon.ph = "idle"
      BY <1>2 DEF ByHand
    <2>3. \A k : (Live(k))' = Live(k)
      BY <2>2 DEF Live
    <2>4. \A k \in MountName \ byhand' : k \in act' <=> k \in act
      BY <2>1
    <2>5. QED
      BY <2>1, <2>2, <2>3, <2>4 DEF MonInv
  <1>3. CASE MonitorIo \/ MonitorDefer
    <2>1. mon'.ph = "read" /\ mon'.dead = act /\ act' = act /\ Settled
      BY <1>0, <1>3 DEF MonitorIo, MonitorDefer, MTypeOK
    <2>2. stack = <<>> /\ m.lq = <<>>
      BY <2>1, SettledFacts DEF BaseInv
    <2>3. QED
      BY <2>1, <2>2 DEF MonInv, Rec
  <1>4. CASE ReadTable
    <2>1. /\ mon.ph = "read" /\ mon'.ph = "start" /\ mon'.dead = mon.dead /\ mon'.todo = {PointName[p] : p \in mnt}
          /\ mnt' = mnt /\ act' = act /\ pend' = pend
      BY <1>0, <1>4 DEF ReadTable, MTypeOK
    <2>2. mon'.dead = act'
      BY <2>1 DEF MonInv
    <2>3. \A n : n \in mon'.todo <=> (Live(n))'
      BY <2>1 DEF Live
    <2>4. \A n \in MountName : (Watched(n))'
      BY <2>2, <2>3 DEF Watched
    <2>5. QED
      BY <2>1, <2>2, <2>4 DEF MonInv
  <1>5. CASE KnownPoint
    <2>1. PICK n \in mon.todo \cap mon.dead : mon' = [mon EXCEPT !.dead = @ \ {n}, !.todo = @ \ {n}]
      BY <1>5 DEF KnownPoint
    <2>2. /\ mon.ph = "start" /\ mon'.ph = "start" /\ mon'.dead = mon.dead \ {n} /\ mon'.todo = mon.todo \ {n}
          /\ mnt' = mnt /\ act' = act /\ pend' = pend
      BY <1>0, <1>5, <2>1 DEF KnownPoint, MTypeOK
    <2>3. \A k : (Live(k))' = Live(k)
      BY <2>2 DEF Live
    <2>4. ASSUME NEW k \in MountName, Watched(k) PROVE (Watched(k))'
      BY <2>1, <2>2, <2>3, <2>4 DEF Watched
    <2>5. QED
      BY <2>2, <2>4 DEF MonInv
  <1>6. CASE StartPoint
    <2>1. PICK n \in (mon.todo \ mon.dead) \cap m.units :
            /\ act' = IF m.state[n] = "UnitLoaded" THEN act \cup {n} ELSE act
            /\ mon' = [mon EXCEPT !.todo = @ \ {n}]
      BY <1>6 DEF StartPoint
    <2>2. /\ mon.ph = "start" /\ mon'.ph = "start" /\ mon'.dead = mon.dead /\ mon'.todo = mon.todo \ {n}
          /\ mnt' = mnt /\ pend' = pend /\ stack = <<>>
      BY <1>0, <1>6, <2>1 DEF StartPoint, MTypeOK, Idle
    <2>3. act' = act \cup {n}
      <3>1. n \in MountName /\ Type[n] = "mount" /\ n \in Name
        BY <1>0, <2>1, MountAssumption DEF MTypeOK, MountName
      <3>2. Lqs(m) = {} /\ ~ Rec(stack)
        BY <2>2, ToSetEmpty DEF MonInv, Rec, Lqs
      <3>3. m.state[n] \in LoadState
        BY <3>1 DEF BaseInv, UInv, MemOK, Units
      <3>4. m.state[n] = "UnitLoaded"
        BY <2>1, <3>1, <3>2, <3>3 DEF MountsInv, Mounts, LoadState
      <3>5. QED
        BY <2>1, <3>4
    <2>4. \A k : (Live(k))' = Live(k)
      BY <2>2 DEF Live
    <2>5. ASSUME NEW k \in MountName, Watched(k), Watched(n) PROVE (Watched(k))'
      BY <2>1, <2>2, <2>3, <2>4, <2>5 DEF Watched
    <2>6. n \in MountName
      BY <1>0, <2>1 DEF MTypeOK
    <2>7. QED
      BY <2>2, <2>5, <2>6 DEF MonInv
  <1>7. CASE AllStarted
    <2>1. /\ mon.ph = "start" /\ mon'.ph = "stop" /\ mon'.dead = mon.dead /\ mon'.todo = mon.todo /\ mon.todo = {}
          /\ mnt' = mnt /\ act' = act /\ pend' = pend
      BY <1>0, <1>7 DEF AllStarted, MTypeOK
    <2>2. \A k : (Watched(k))' = Watched(k)
      BY <2>1 DEF Watched, Live
    <2>3. QED
      BY <2>1, <2>2 DEF MonInv
  <1>8. CASE StopPoint
    <2>1. PICK n \in mon.dead : act' = act \ {n} /\ mon' = [mon EXCEPT !.dead = @ \ {n}]
      BY <1>8 DEF StopPoint
    <2>2. /\ mon.ph = "stop" /\ mon'.ph = "stop" /\ mon'.dead = mon.dead \ {n} /\ mon'.todo = mon.todo
          /\ mnt' = mnt /\ pend' = pend
      BY <1>0, <1>8, <2>1 DEF StopPoint, MTypeOK
    <2>3. mon.todo = {}
      BY <2>2 DEF MonInv
    <2>4. \A k : (Live(k))' = Live(k)
      BY <2>2 DEF Live
    <2>5. ASSUME NEW k \in MountName, Watched(k), Watched(n) PROVE (Watched(k))'
      BY <2>1, <2>2, <2>3, <2>4, <2>5 DEF Watched
    <2>6. n \in MountName
      BY <1>0, <2>1 DEF MTypeOK
    <2>7. QED
      BY <2>2, <2>3, <2>5, <2>6 DEF MonInv
  <1>9. CASE MonitorDone
    <2>1. /\ mon.ph = "stop" /\ mon.dead = {} /\ mon'.ph = "idle" /\ mnt' = mnt /\ act' = act /\ pend' = pend
      BY <1>9 DEF MonitorDone, MonIdle
    <2>2. mon.todo = {}
      BY <2>1 DEF MonInv
    <2>3. \A k : (Live(k))' = Live(k)
      BY <2>1 DEF Live
    <2>4. ~ pend => \A k \in MountName : k \in act <=> Live(k)
      BY <2>1, <2>2 DEF MonInv, Watched
    <2>5. QED
      BY <2>1, <2>3, <2>4 DEF MonInv
  <1>10. QED
    BY <1>1, <1>2, <1>3, <1>4, <1>5, <1>6, <1>7, <1>8, <1>9

LEMMA MonStep ==
  ASSUME BaseInv, MountsInv, MonInv, [MNext]_allvars
  PROVE  MonInv'
  <1>1. MTypeOK /\ Asked \subseteq Name /\ MountName \subseteq Name
    BY InstallAssumption, MountAssumption DEF BaseInv, MountName
  <1>2. CASE UNCHANGED <<m, stack, mvars>>
    <2>1. m' = m /\ stack' = stack /\ mnt' = mnt /\ pend' = pend /\ mon' = mon /\ act' = act /\ byhand' = byhand
      BY <1>2 DEF mvars
    <2>2. \A n : (Live(n))' = Live(n) /\ (Watched(n))' = Watched(n)
      BY <2>1 DEF Live, Watched
    <2>3. QED
      BY <2>1, <2>2 DEF MonInv
  <1>3. CASE Begin /\ UNCHANGED <<ivars, mvars>>
    <2>1. Queues /\ UNCHANGED mvars
      BY <1>1, <1>3 DEF Begin, Queues
    <2>2. QED
      BY <2>1, MonQueues
  <1>4. CASE Continue /\ UNCHANGED <<ivars, mvars>>
    <2>1. Queues /\ UNCHANGED mvars
      BY <1>4 DEF Continue, Queues
    <2>2. QED
      BY <2>1, MonQueues
  <1>5. CASE LoadPoint
    <2>1. PICK n \in mon.todo \ mon.dead : LoadUnit(n)
      BY <1>5 DEF LoadPoint
    <2>2. n \in Name /\ UNCHANGED mvars
      BY <1>1, <1>5 DEF MTypeOK, LoadPoint
    <2>3. Queues
      BY <2>1, <2>2 DEF Queues
    <2>4. QED
      BY <2>2, <2>3, MonQueues
  <1>6. CASE FileCommand /\ UNCHANGED mvars
    BY <1>2, <1>6 DEF FileCommand, uvars
  <1>7. CASE KernelMount \/ ByHand \/ MonitorIo \/ MonitorDefer \/ ReadTable \/ KnownPoint
             \/ StartPoint \/ AllStarted \/ StopPoint \/ MonitorDone
    <2>1. m' = m /\ stack' = stack
      BY <1>7 DEF KernelMount, ByHand, MonitorIo, MonitorDefer, ReadTable, KnownPoint,
         StartPoint, AllStarted, StopPoint, MonitorDone, uvars
    <2>2. QED
      BY <1>7, <2>1, MonAlone
  <1>8. CASE MCrash
    <2>1. pend' = TRUE /\ mon'.ph = "idle"
      BY <1>8 DEF MCrash, MonIdle
    <2>2. QED
      BY <2>1 DEF MonInv
  <1>9. CASE MReload
    <2>1. mon.ph = "idle" /\ mnt' = mnt /\ pend' = pend /\ mon' = mon /\ act' = act /\ byhand' = byhand
      BY <1>9 DEF MReload
    <2>2. \A n : (Live(n))' = Live(n)
      BY <2>1 DEF Live
    <2>3. QED
      BY <2>1, <2>2 DEF MonInv
  <1>10. QED
    BY <1>2, <1>3, <1>4, <1>5, <1>6, <1>7, <1>8, <1>9 DEF MNext, allvars, uvars

\* For any mount points and names, however many points share a name: once no event of the
\* table is pending and the monitor rests, a mount unit is Mounted exactly when one of its
\* points is mounted, whatever changed while the monitor worked and wherever a crash cut
\* it (drain_out before dispatch_mountinfo, the dead set, input_rebuild).
THEOREM MountsFollowTable == MSpec => []MountInSync
  <1>1. MInit => BaseInv /\ MountsInv /\ MonInv
    <2>1. SUFFICES ASSUME MInit PROVE BaseInv /\ MountsInv /\ MonInv
      OBVIOUS
    <2>2. BaseInv
      BY <2>1, BaseInitial
    <2>3. m.units = {} /\ disk.units = {}
      BY <2>1 DEF MInit, UInit, NoUnits
    <2>4. MountsInv
      BY <2>3 DEF MountsInv, Mounts
    <2>5. MonInv
      BY <2>1 DEF MonInv, MInit, MonIdle
    <2>6. QED
      BY <2>2, <2>4, <2>5
  <1>2. BaseInv /\ MountsInv /\ MonInv /\ [MNext]_allvars => (BaseInv /\ MountsInv /\ MonInv)'
    BY BaseStep, MountsStep, MonStep
  <1>3. MonInv => MountInSync
    BY DEF MonInv, MountInSync, Live
  <1>4. QED
    BY <1>1, <1>2, <1>3, PTL DEF MSpec

-----------------------------------------------------------------------------
(* Targets are ordered after what they pull in. *)

\* The innermost call is between the dependencies of t.
Busy(st, t) == st # <<>> /\ Last(st).at = "extras" /\ Last(st).cur = t

\* A target whose file was read is loaded, has refused its section, or is being loaded
\* this very moment; one that is loaded has not refused.
TargetsOK(mm, st) ==
  \A t \in Name : Type[t] = "target" =>
    /\ t \in mm.read => mm.state[t] = "UnitLoaded" \/ ~ File[t].ok \/ Busy(st, t)
    /\ mm.state[t] = "UnitLoaded" => File[t].ok

\* A unit for which the order is not promised: one of the units that pull it in is no
\* target with default dependencies, or is ordered before it.
Bad(mm, u) ==
  \E t \in Pulling(mm, u) :
    Type[t] # "target" \/ ~ File[t].ok \/ ~ File[t].ddeps \/ <<t, "Before", u>> \in mm.deps

OrderedUnit(mm, u) == \A t \in Pulling(mm, u) : mm.state[t] = "UnitLoaded" => <<t, "After", u>> \in mm.deps

Ordered(mm, tq, redone) ==
  \A u \in mm.units :
    mm.state[u] = "UnitLoaded" /\ default_dependencies(mm, u) /\ u \notin redone /\ u \notin tq /\ ~ Bad(mm, u)
    => OrderedUnit(mm, u)

OrderInv ==
  /\ TargetsOK(m, stack) /\ TargetsOK(disk, <<>>)
  /\ Ordered(m, Tqs(m), hist.redone) /\ Ordered(disk, disk.tq, hist.redone)

\* Who pulls a unit in exists: its file was read.
Edged(mm) ==
  /\ Edges(mm) /\ mm.units \subseteq Name /\ mm.read \subseteq mm.units

LEMMA EdgedMem ==
  ASSUME NEW mm, MemOK(mm)
  PROVE  Edged(mm)
  <1>1. mm \in Units
    BY DEF MemOK
  <1>2. mm.units \subseteq Name /\ mm.read \subseteq Name
    BY <1>1 DEF Units
  <1>3. QED
    BY <1>2 DEF MemOK, Sound, Edged

LEMMA EdgedDisk ==
  ASSUME NEW d, DiskOK(d)
  PROVE  Edged(d)
  <1>1. d.units \subseteq Name /\ d.read \subseteq Name
    BY DEF DiskOK, Records
  <1>2. QED
    BY <1>1 DEF DiskOK, Sound, Edged

LEMMA PullingIs ==
  ASSUME NEW mm, Edged(mm), NEW u \in Name, NEW t
  PROVE  /\ t \in Pulling(mm, u) <=> t \in Name /\ \E p \in Pull : <<u, By(p), t>> \in mm.deps
         /\ t \in Pulling(mm, u) => /\ t \in mm.units /\ t \in mm.read /\ t # u
                                    /\ \E p \in Pull : <<t, p, u>> \in mm.deps
  BY AtomFacts DEF Edged, Edges, Pulling, dep_gets_atom

\* More units and more dependencies make no unit promised that was not.
LEMMA BadGrows ==
  ASSUME NEW a, NEW b, Edged(a), Edged(b), a.deps \subseteq b.deps, NEW u \in Name, Bad(a, u)
  PROVE  Bad(b, u)
  <1>1. PICK t \in Pulling(a, u) : Type[t] # "target" \/ ~ File[t].ok \/ ~ File[t].ddeps \/ <<t, "Before", u>> \in a.deps
    BY DEF Bad
  <1>2. t \in Pulling(b, u)
    BY PullingIs
  <1>3. QED
    BY <1>1, <1>2 DEF Bad

LEMMA OrderedSaved ==
  ASSUME NEW mm, MemOK(mm), NEW R, Ordered(mm, Tqs(mm), R)
  PROVE  Ordered(Saved(mm), Saved(mm).tq, R)
  <1> DEFINE s == Saved(mm)
  <1>1. s.units = mm.units /\ s.state = mm.state /\ s.read = mm.read /\ s.deps = mm.deps /\ s.tq = Tqs(mm)
    BY SavedFacts
  <1> HIDE DEF s
  <1>2. \A u : Pulling(s, u) = Pulling(mm, u)
    BY <1>1 DEF Pulling, dep_gets_atom
  <1>3. \A u : Bad(s, u) = Bad(mm, u) /\ OrderedUnit(s, u) = OrderedUnit(mm, u)
               /\ default_dependencies(s, u) = default_dependencies(mm, u)
    BY <1>1, <1>2 DEF Bad, OrderedUnit, default_dependencies
  <1>4. Ordered(s, s.tq, R)
    BY <1>1, <1>3 DEF Ordered
  <1>5. QED
    BY <1>4 DEF s

LEMMA TargetsSaved ==
  ASSUME NEW mm, MemOK(mm), TargetsOK(mm, <<>>)
  PROVE  TargetsOK(Saved(mm), <<>>)
  BY SavedFacts DEF TargetsOK, Busy

\* The general step: dependencies are added, and no new unit pulls in one that is loaded
\* but units that are not themselves loaded.
LEMMA OrderedGrows ==
  ASSUME NEW a, NEW b, Edged(a), Edged(b), NEW p, NEW q, NEW R, NEW S, Ordered(a, p, R),
         a.deps \subseteq b.deps, R \subseteq S,
         \A u \in b.units : b.state[u] = "UnitLoaded" => u \in a.units /\ a.state[u] = "UnitLoaded",
         \A u \in b.units : b.state[u] = "UnitLoaded" /\ default_dependencies(b, u) => default_dependencies(a, u),
         \A u \in b.units : b.state[u] = "UnitLoaded" /\ u \notin q => u \notin p,
         \A u \in b.units : b.state[u] = "UnitLoaded" =>
           \A t \in Pulling(b, u) : b.state[t] = "UnitLoaded" => t \in Pulling(a, u) /\ a.state[t] = "UnitLoaded"
  PROVE  Ordered(b, q, S)
  <1>1. SUFFICES ASSUME NEW u \in b.units, b.state[u] = "UnitLoaded", default_dependencies(b, u),
                        u \notin S, u \notin q, ~ Bad(b, u)
                 PROVE  OrderedUnit(b, u)
    BY DEF Ordered
  <1>2. u \in Name
    BY DEF Edged
  <1>3. ~ Bad(a, u)
    BY <1>1, <1>2, BadGrows
  <1>4. OrderedUnit(a, u)
    BY <1>1, <1>3 DEF Ordered
  <1>5. QED
    BY <1>1, <1>4 DEF OrderedUnit

\* Nothing the promise is about has changed.
LEMMA OrderedSame ==
  ASSUME NEW a, NEW b, Edged(a), Edged(b), NEW p, NEW q, NEW R, NEW S, Ordered(a, p, R), R \subseteq S,
         b.units = a.units, b.state = a.state, b.read = a.read, b.deps = a.deps, p \subseteq q
  PROVE  Ordered(b, q, S)
  <1>1. \A u : Pulling(b, u) = Pulling(a, u) /\ default_dependencies(b, u) = default_dependencies(a, u)
    BY DEF Pulling, dep_gets_atom, default_dependencies
  <1>2. QED
    BY <1>1, OrderedGrows

\* Only the dependencies of a unit that is not loaded grow.
LEMMA OrderedMem ==
  ASSUME MemOK(m), MemOK(m'), NEW v, m.state[v] # "UnitLoaded", m'.state = m.state, m'.tq = m.tq,
         m'.read \subseteq m.read \cup {v}, m.deps \subseteq m'.deps, PullsOf(m.deps, m'.deps, v),
         NEW R, Ordered(m, Tqs(m), R)
  PROVE  Ordered(m', Tqs(m'), R)
  <1>1. Edged(m) /\ Edged(m') /\ Tqs(m') = Tqs(m)
    BY EdgedMem DEF Tqs
  <1>2. \A u \in m'.units : u \in Name /\ (m'.state[u] = "UnitLoaded" => u \in m.units /\ u # v)
    <2>1. \A u \in Name \ m.units : m.state[u] = "UnitStub"
      BY DEF MemOK, Sound
    <2>2. QED
      BY <1>1, <2>1 DEF Edged
  <1>3. \A u \in m'.units : m'.state[u] = "UnitLoaded" /\ default_dependencies(m', u) => default_dependencies(m, u)
    BY <1>2 DEF default_dependencies
  <1>4. ASSUME NEW u \in m'.units, NEW t \in Pulling(m', u), m'.state[t] = "UnitLoaded"
        PROVE  t \in Pulling(m, u) /\ m.state[t] = "UnitLoaded"
    <2>1. u \in Name /\ t \in Name /\ t # v /\ m.state[t] = "UnitLoaded"
      BY <1>1, <1>2, <1>4, PullingIs
    <2>2. PICK p \in Pull : <<u, By(p), t>> \in m'.deps
      BY <1>1, <1>4, <2>1, PullingIs
    <2>3. <<u, By(p), t>> \in m.deps
      BY <2>1, <2>2 DEF PullsOf
    <2>4. QED
      BY <1>1, <2>1, <2>3, PullingIs
  <1>5. QED
    BY <1>1, <1>2, <1>3, <1>4, OrderedGrows

\* The end of a load: the unit is in the other queue, or was loaded again; a target that
\* has default dependencies has ordered itself after what it pulls in.
LEMMA OrderedEnd ==
  ASSUME MemOK(m), MemOK(m'), NEW v \in Name, Ends(m, m', v), NEW R, Ordered(m, Tqs(m), R),
         m'.state[v] = "UnitLoaded" => v \in Tqs(m') \/ v \in R,
         m'.state[v] = "UnitLoaded" /\ Type[v] = "target" => v \in m.read /\ TodoOK(m, v, <<>>)
  PROVE  Ordered(m', Tqs(m'), R)
  <1>1. Edged(m) /\ Edged(m') /\ m'.units = m.units /\ m'.read = m.read /\ m'.deps = m.deps
    BY EdgedMem DEF Ends
  <1>2. \A u : Pulling(m', u) = Pulling(m, u) /\ default_dependencies(m', u) = default_dependencies(m, u)
               /\ Bad(m', u) = Bad(m, u)
    BY <1>1 DEF Pulling, dep_gets_atom, default_dependencies, Bad
  <1>3. SUFFICES ASSUME NEW u \in m'.units, m'.state[u] = "UnitLoaded", default_dependencies(m', u),
                        u \notin R, u \notin Tqs(m'), ~ Bad(m', u)
                 PROVE  OrderedUnit(m', u)
    BY DEF Ordered
  <1>4. u \in Name /\ u # v
    BY <1>1, <1>3 DEF Edged
  <1>5. m.state[u] = "UnitLoaded" /\ u \in m.units /\ u \notin Tqs(m) /\ default_dependencies(m, u) /\ ~ Bad(m, u)
    BY <1>1, <1>2, <1>3, <1>4 DEF Ends
  <1>6. OrderedUnit(m, u)
    BY <1>3, <1>5 DEF Ordered
  <1>7. SUFFICES ASSUME NEW t \in Pulling(m, u), m'.state[t] = "UnitLoaded"
                 PROVE  <<t, "After", u>> \in m.deps
    BY <1>1, <1>2 DEF OrderedUnit
  <1>8. t \in Name /\ t # u /\ (\E p \in Pull : <<t, p, u>> \in m.deps)
    BY <1>1, <1>4, PullingIs
  <1>9. CASE t # v
    <2>1. m.state[t] = "UnitLoaded"
      BY <1>7, <1>8, <1>9 DEF Ends
    <2>2. QED
      BY <1>6, <2>1 DEF OrderedUnit
  <1>10. CASE t = v
    <2>1. Type[t] = "target" /\ File[t].ddeps /\ <<t, "Before", u>> \notin m.deps
      BY <1>5 DEF Bad
    <2>2. t \in m.read /\ TodoOK(m, t, <<>>)
      BY <1>7, <1>10, <2>1
    <2>3. default_dependencies(m, t)
      BY <2>1, <2>2 DEF default_dependencies
    <2>4. ~ \E k \in 1..Len(<<>>) : <<>>[k] = <<"After", u>>
      OBVIOUS
    <2>5. QED
      BY <1>5, <1>8, <2>1, <2>2, <2>3, <2>4 DEF TodoOK
  <1>11. QED
    BY <1>9, <1>10

\* The other queue: the unit gets its orders, or it is one for which none is promised.
LEMMA OrderedDispatch ==
  ASSUME NEW a, NEW b, MemOK(a), MemOK(b), NEW v \in Name, Dispatched(a, b, v), NEW p, NEW R,
         Ordered(a, p \cup {v}, R), TargetsOK(a, <<>>)
  PROVE  Ordered(b, p, R)
  <1>1. Edged(a) /\ Edged(b) /\ b.units = a.units /\ b.state = a.state /\ b.read = a.read /\ a.deps \subseteq b.deps
    BY EdgedMem DEF Dispatched
  <1>2. SUFFICES ASSUME NEW u \in b.units, b.state[u] = "UnitLoaded", default_dependencies(b, u),
                        u \notin R, u \notin p, ~ Bad(b, u)
                 PROVE  OrderedUnit(b, u)
    BY DEF Ordered
  <1>3. u \in Name /\ Pulling(b, u) = Pulling(a, u) /\ default_dependencies(a, u)
    <2>1. u \in Name
      BY <1>1 DEF Edged
    <2>2. QED
      BY <1>1, <1>2, <2>1 DEF Dispatched, default_dependencies
  <1>4. ~ Bad(a, u)
    BY <1>1, <1>2, <1>3, BadGrows
  <1>5. CASE u # v
    <2>1. OrderedUnit(a, u)
      BY <1>1, <1>2, <1>3, <1>4, <1>5 DEF Ordered
    <2>2. QED
      BY <1>1, <1>3, <2>1 DEF OrderedUnit
  <1>6. CASE u = v
    <2>1. ASSUME NEW t \in Pulling(a, v)
          PROVE  Good(a, t, v)
      <3>1. t \in Name /\ t \in a.read
        BY <1>1, PullingIs
      <3>2. Type[t] = "target" /\ File[t].ok /\ File[t].ddeps /\ <<t, "Before", v>> \notin a.deps
        BY <1>4, <1>6 DEF Bad
      <3>3. a.state[t] = "UnitLoaded"
        BY <3>1, <3>2 DEF TargetsOK, Busy
      <3>4. default_dependencies(a, t)
        BY <3>1, <3>2 DEF default_dependencies
      <3>5. ~ is_dep_atom_with(a, t, {"Before"}, v)
        BY <3>2 DEF is_dep_atom_with, dep_gets_atom
      <3>6. QED
        BY <1>1, <1>2, <1>3, <1>6, <3>2, <3>3, <3>4, <3>5 DEF Good
    <2>2. \A t \in Pulling(a, v) : <<t, "After", v>> \in b.deps
      BY <2>1 DEF Dispatched
    <2>3. QED
      BY <1>3, <1>6, <2>2 DEF OrderedUnit
  <1>7. QED
    BY <1>5, <1>6

\* No target is between its dependencies.
Quiet(st) == \A t \in Name : Type[t] = "target" => ~ Busy(st, t)

LEMMA TargetsQuiet ==
  ASSUME NEW a, NEW b, NEW st, NEW st2, TargetsOK(a, st), Quiet(st), b.read \subseteq a.read, b.state = a.state
  PROVE  TargetsOK(b, st2)
  BY DEF TargetsOK, Quiet

LEMMA QuietStack ==
  ASSUME UInv, stack = <<>> \/ ~ InHand(This) \/ This.at = "popped" \/ Type[This.cur] # "target"
  PROVE  Quiet(stack)
  <1>1. CASE stack = <<>>
    BY <1>1 DEF Quiet, Busy
  <1>2. CASE stack # <<>>
    <2>1. This = Last(stack) /\ (This.at = "extras" => InHand(This))
      BY <1>2, ThisFacts DEF Idle, CallOK
    <2>2. QED
      BY <1>2, <2>1 DEF Quiet, Busy
  <1>3. QED
    BY <1>1, <1>2

LEMMA OrderEnd ==
  ASSUME BaseInv, BaseInv', OrderInv, ~ Idle, InHand(This), EndStep(This.cur),
         m'.state[This.cur] = "UnitLoaded" => This.ph = "comp" \/ This.cur \in Tqs(m'),
         m'.state[This.cur] = "UnitLoaded" /\ Type[This.cur] = "target" =>
           This.at = "extras" /\ This.todo = <<>> /\ File[This.cur].ok,
         This.at = "extras" => m'.state[This.cur] = "UnitLoaded" \/ ~ File[This.cur].ok
  PROVE  OrderInv'
  <1> DEFINE v == This.cur
  <1>1. UInv /\ Ends(m, m', v) /\ disk' = Saved(m') /\ hist' = hist /\ MemOK(m) /\ MemOK(m')
    BY DEF EndStep, BaseInv, UInv
  <1>2. v \in Name /\ m.state[v] = "UnitStub" /\ This = Last(stack) /\ stack # <<>>
    BY <1>1, ThisFacts DEF InHand, CallOK
  <1>3. This.ph = "comp" => v \in hist.redone
    <2>1. This.ph = "comp" => Rec(stack) /\ stack[1] = This
      BY <1>1, ThisFacts
    <2>2. QED
      BY <1>1, <2>1 DEF UInv, LastOK
  <1>4. This.at = "extras" /\ This.todo = <<>> => v \in m.read /\ TodoOK(m, v, <<>>)
    BY <1>1, <1>2, ThisFacts DEF CallOK, UInv, TopTodo
  <1>5. Ordered(m', Tqs(m'), hist.redone)
    BY <1>1, <1>2, <1>3, <1>4, OrderedEnd DEF OrderInv
  <1>6. ASSUME NEW t \in Name, Type[t] = "target"
        PROVE  /\ t \in m'.read => m'.state[t] = "UnitLoaded" \/ ~ File[t].ok
               /\ m'.state[t] = "UnitLoaded" => File[t].ok
    <2>1. CASE t = v
      <3>1. This.at \in {"popped", "extras"}
        BY <1>1, ThisFacts
      <3>2. This.at = "popped" /\ t \in m.read => ~ File[t].ok
        BY <1>2, <1>6, <2>1 DEF OrderInv, TargetsOK, Busy
      <3>3. QED
        BY <1>1, <1>6, <2>1, <3>1, <3>2 DEF Ends
    <2>2. CASE t # v
      <3>1. ~ Busy(stack, t) /\ m'.state[t] = m.state[t] /\ m'.read = m.read
        BY <1>1, <1>2, <1>6, <2>2 DEF Busy, Ends
      <3>2. QED
        BY <1>6, <3>1 DEF OrderInv, TargetsOK
    <2>3. QED
      BY <2>1, <2>2
  <1>7. TargetsOK(m', stack') /\ TargetsOK(m', <<>>)
    BY <1>6 DEF TargetsOK
  <1>8. QED
    BY <1>1, <1>5, <1>7, OrderedSaved, TargetsSaved DEF OrderInv

LEMMA OrderQueues ==
  ASSUME BaseInv, BaseInv', OrderInv, Queues
  PROVE  OrderInv'
  <1>0. UInv /\ LinkInv /\ MemOK(m) /\ MemOK(m')
    BY DEF BaseInv, UInv
  <1>1. ASSUME UNCHANGED <<m, disk, hist>>, Quiet(stack)
        PROVE  OrderInv'
    BY <1>1, TargetsQuiet DEF OrderInv, Tqs
  <1>2. ASSUME UNCHANGED <<m, hist>>, disk' = Saved(m), Quiet(stack)
        PROVE  OrderInv'
    <2>1. TargetsOK(m, stack') /\ TargetsOK(m, <<>>)
      BY <1>2, TargetsQuiet DEF OrderInv
    <2>2. QED
      BY <1>0, <1>2, <2>1, OrderedSaved, TargetsSaved DEF OrderInv, Tqs
  <1>3. ASSUME Grown(m, m'), m'.deps = m.deps, UNCHANGED <<disk, hist>>, Quiet(stack),
               NEW v, m.state[v] # "UnitLoaded"
        PROVE  OrderInv'
    <2>1. TargetsOK(m', stack')
      BY <1>3, TargetsQuiet DEF OrderInv, Grown
    <2>2. PullsOf(m.deps, m'.deps, v)
      BY <1>3 DEF PullsOf
    <2>3. Ordered(m', Tqs(m'), hist.redone)
      BY <1>0, <1>3, <2>2, OrderedMem DEF OrderInv, Grown
    <2>4. QED
      BY <1>3, <2>1, <2>3 DEF OrderInv
  <1>4. CASE \E u \in Name : LoadUnit(u)
    <2>1. PICK u \in Name : LoadUnit(u)
      BY <1>4
    <2>2. Grown(m, m') /\ m'.deps = m.deps /\ UNCHANGED <<disk, hist>> /\ stack = <<>>
      BY <1>0, <2>1, ULoadUnit
    <2>3. m.state[u] # "UnitLoaded"
      BY <1>0, <2>1 DEF LoadUnit, MemOK, Sound
    <2>4. QED
      BY <1>0, <1>3, <2>2, <2>3, QuietStack
  <1>5. CASE rloop
    BY <1>0, <1>1, <1>5, URloop, QuietStack
  <1>6. CASE PopLoad \/ PopTargetDep
    <2>1. UNCHANGED <<m, disk, hist>> /\ ~ InHand(This)
      BY <1>0, <1>6, UPopLoad, UPopTargetDep DEF InHand
    <2>2. QED
      BY <1>0, <1>1, <2>1, QuietStack
  <1>7. CASE load_unit
    <2>1. /\ ~ Idle /\ InHand(This) /\ This.at = "popped"
          /\ \/ /\ EndStep(This.cur) /\ m'.state[This.cur] = "UnitLoaded" /\ Type[This.cur] = "mount"
                /\ This.ph # "comp" => This.cur \in Tqs(m')
             \/ EndStep(This.cur) /\ m'.state[This.cur] = "UnitNotFound"
             \/ ReadStep(This.cur) /\ Type[This.cur] # "mount"
      BY <1>0, <1>7, ULoad
    <2>2. CASE EndStep(This.cur)
      <3>1. ~ ReadStep(This.cur) \/ m'.state[This.cur] # "UnitLoaded"
        <4>1. m.state[This.cur] = "UnitStub"
          BY <1>0, <2>1, ThisFacts DEF CallOK
        <4>2. QED
          BY <4>1 DEF ReadStep
      <3>2. QED
        BY <2>1, <2>2, <3>1, OrderEnd
    <2>3. CASE ReadStep(This.cur)
      <3> DEFINE v == This.cur
                 c == [This EXCEPT !.at = "extras", !.todo = extras(m', v)]
      <3>1. /\ v \in Name /\ m.state[v] = "UnitStub" /\ This \in Call /\ stack \in Seq(Call) /\ stack # <<>>
            /\ m' \in Units
        BY <1>0, <2>1, <2>3, ThisFacts DEF CallOK, InHand, ReadStep
      <3>2. c \in Call /\ c.at = "extras" /\ c.cur = v
        BY <3>1, ExtrasFacts DEF Call
      <3>3. stack' = [stack EXCEPT ![Len(stack)] = c] /\ UNCHANGED <<disk, hist>>
        BY <2>3 DEF ReadStep
      <3> HIDE DEF c
      <3>4. Busy(stack', v)
        BY <3>1, <3>2, <3>3, SetTop DEF Busy
      <3>5. Quiet(stack)
        BY <1>0, <2>1, QuietStack
      <3>6. TargetsOK(m', stack')
        BY <2>3, <3>4, <3>5 DEF OrderInv, TargetsOK, Quiet, ReadStep
      <3>7. Ordered(m', Tqs(m'), hist.redone)
        BY <1>0, <2>3, <3>1, OrderedMem DEF OrderInv, ReadStep
      <3>8. QED
        BY <3>3, <3>6, <3>7 DEF OrderInv
    <2>4. QED
      BY <2>1, <2>2, <2>3
  <1>8. CASE unit_add_dependency
    <2>1. /\ ~ Idle /\ InHand(This) /\ This.at = "extras" /\ This.todo # <<>>
          /\ \/ AddStep(This.cur, Head(This.todo)[1], Head(This.todo)[2])
             \/ NestStep(This.cur, Head(This.todo)[2])
      BY <1>0, <1>8, UAdd
    <2>2. /\ stack \in Seq(Call) /\ stack # <<>> /\ This \in Call /\ This.todo \in Seq(Relation \X Name)
          /\ This = Last(stack) /\ m.state[This.cur] = "UnitStub" /\ This.cur \in Name
      BY <1>0, <2>1, ThisFacts DEF CallOK, InHand
    <2>3. CASE AddStep(This.cur, Head(This.todo)[1], Head(This.todo)[2])
      <3> DEFINE c == [This EXCEPT !.todo = Tail(@)]
      <3>1. c \in Call /\ c.at = "extras" /\ c.cur = This.cur
        <4>1. Tail(This.todo) \in Seq(Relation \X Name)
          BY <2>1, <2>2
        <4>2. QED
          BY <2>1, <2>2, <4>1 DEF Call
      <3>2. stack' = [stack EXCEPT ![Len(stack)] = c] /\ UNCHANGED <<disk, hist>>
        BY <2>3 DEF AddStep
      <3> HIDE DEF c
      <3>3. \A t : Busy(stack', t) <=> Busy(stack, t)
        BY <2>1, <2>2, <3>1, <3>2, SetTop DEF Busy
      <3>4. TargetsOK(m', stack')
        BY <2>3, <3>3 DEF OrderInv, TargetsOK, AddStep
      <3>5. m.deps \subseteq m'.deps /\ PullsOf(m.deps, m'.deps, This.cur)
        BY <2>3 DEF AddStep, Inserted, PullsOf
      <3>6. Ordered(m', Tqs(m'), hist.redone)
        BY <1>0, <2>2, <2>3, <3>5, OrderedMem DEF OrderInv, AddStep
      <3>7. QED
        BY <3>2, <3>4, <3>6 DEF OrderInv
    <2>4. CASE NestStep(This.cur, Head(This.todo)[2])
      <3>1. Grown(m, m') /\ m'.deps = m.deps /\ UNCHANGED <<disk, hist>> /\ Type[This.cur] # "target"
        BY <2>4 DEF NestStep
      <3>2. QED
        BY <1>0, <1>3, <2>2, <3>1, QuietStack
    <2>5. QED
      BY <2>1, <2>3, <2>4
  <1>9. CASE LoadDone
    <2>1. /\ ~ Idle /\ InHand(This) /\ This.at = "extras" /\ This.todo = <<>> /\ EndStep(This.cur)
          /\ File[This.cur].ok => /\ m'.state[This.cur] = "UnitLoaded"
                                  /\ This.ph # "comp" => This.cur \in Tqs(m')
          /\ ~ File[This.cur].ok => m' = m
      BY <1>0, <1>9, ULoadDone
    <2>2. m.state[This.cur] = "UnitStub"
      BY <1>0, <2>1, ThisFacts DEF CallOK
    <2>3. QED
      BY <2>1, <2>2, OrderEnd
  <1>10. CASE LoadQueueEmpty \/ TargetQueueEmpty
    <2>1. UNCHANGED <<m, hist>> /\ disk' = Saved(m) /\ ~ InHand(This)
      BY <1>0, <1>10, ULoadQueueEmpty, UTargetQueueEmpty DEF InHand
    <2>2. QED
      BY <1>0, <1>2, <2>1, QuietStack
  <1>11. CASE TargetDep
    <2>1. /\ ~ InHand(This) /\ This.cur \in Name /\ disk' = Saved(m') /\ hist' = hist
          /\ \E b : Next_(m, b, This.cur) /\ Dispatched(b, m', This.cur)
      BY <1>0, <1>11, UTargetDep DEF InHand
    <2>2. PICK b : Next_(m, b, This.cur) /\ Dispatched(b, m', This.cur)
      BY <2>1
    <2>3. /\ b.units = m.units /\ b.state = m.state /\ b.read = m.read /\ b.deps = m.deps /\ MemOK(b)
          /\ Tqs(m) = Tqs(b) \cup {This.cur}
      BY <2>2 DEF Next_
    <2>4. Ordered(b, Tqs(b) \cup {This.cur}, hist.redone)
      <3>1. Edged(m) /\ Edged(b)
        BY <1>0, <2>3, EdgedMem
      <3>2. QED
        BY <2>3, <3>1, OrderedSame DEF OrderInv
    <2>5. Quiet(stack)
      BY <1>0, <2>1, QuietStack
    <2>6. TargetsOK(b, <<>>)
      BY <2>3, <2>5, TargetsQuiet DEF OrderInv
    <2>7. Tqs(m') = Tqs(b)
      BY <2>2 DEF Dispatched, Tqs
    <2>8. Ordered(m', Tqs(m'), hist.redone)
      BY <1>0, <2>1, <2>2, <2>3, <2>4, <2>6, <2>7, OrderedDispatch
    <2>9. m'.read = m.read /\ m'.state = m.state
      BY <2>2, <2>3 DEF Dispatched
    <2>10. TargetsOK(m', stack') /\ TargetsOK(m', <<>>)
      BY <2>5, <2>9, TargetsQuiet DEF OrderInv
    <2>11. QED
      BY <1>0, <2>1, <2>8, <2>10, OrderedSaved, TargetsSaved DEF OrderInv
  <1>12. QED
    BY <1>4, <1>5, <1>6, <1>7, <1>8, <1>9, <1>10, <1>11 DEF Queues

LEMMA OrderRecover ==
  ASSUME BaseInv, BaseInv', OrderInv, Recover
  PROVE  OrderInv'
  <1>1. UInv /\ MemOK(m') /\ ((\E u \in disk.units : Again(u)) \/ Back) /\ Edged(disk) /\ Edged(m') /\ Edged(disk')
    BY URecover, EdgedMem, EdgedDisk DEF BaseInv, UInv
  <1>2. \A a : a.read = disk.read /\ a.state = disk.state => \A st : TargetsOK(a, st)
    BY DEF OrderInv, TargetsOK, Busy
  <1>3. ASSUME NEW u \in disk.units, Again(u)
        PROVE  OrderInv'
    <2>1. /\ m'.units = disk.units /\ m'.state = disk.state /\ m'.read = disk.read /\ m'.deps = disk.deps
          /\ Tqs(m') = disk.tq /\ hist.redone \subseteq hist'.redone
      BY <1>3 DEF Again, Restored
    <2>2. /\ disk'.units = disk.units /\ disk'.state = disk.state /\ disk'.read = disk.read
          /\ disk'.deps = disk.deps /\ disk'.tq = disk.tq
      BY <1>1, <1>3 DEF Again, UInv, DiskOK, Records
    <2>3. Ordered(m', Tqs(m'), hist'.redone)
      BY <1>1, <2>1, OrderedSame DEF OrderInv
    <2>4. Ordered(disk', disk'.tq, hist'.redone)
      BY <1>1, <2>1, <2>2, OrderedSame DEF OrderInv
    <2>5. QED
      BY <1>2, <2>1, <2>2, <2>3, <2>4 DEF OrderInv
  <1>4. ASSUME Back
        PROVE  OrderInv'
    <2>1. m'.read = disk.read /\ m'.state = disk.state /\ hist'.redone = hist.redone /\ disk' = Saved(m')
      BY <1>4 DEF Back, Restored, Dispatched
    <2>2. Ordered(m', Tqs(m'), hist.redone)
      <3>1. CASE Restored(m', disk.lq, disk.tq)
        BY <1>1, <3>1, OrderedSame DEF OrderInv, Restored
      <3>2. CASE ~ Restored(m', disk.lq, disk.tq)
        <4>1. PICK a : Restored(a, disk.lq, disk.tq \ {last.unit}) /\ Dispatched(a, m', last.unit) /\ last.unit \in disk.units
          BY <1>4, <3>2 DEF Back
        <4>2. /\ MemOK(a) /\ a.units = disk.units /\ a.state = disk.state /\ a.read = disk.read /\ a.deps = disk.deps
              /\ Tqs(a) = disk.tq \ {last.unit} /\ last.unit \in Name /\ Edged(a)
          BY <1>1, <4>1, EdgedMem DEF Restored, Edged
        <4>3. disk.tq \subseteq Tqs(a) \cup {last.unit}
          BY <4>2
        <4>4. Ordered(a, Tqs(a) \cup {last.unit}, hist.redone)
          BY <1>1, <4>2, <4>3, OrderedSame DEF OrderInv
        <4>5. TargetsOK(a, <<>>) /\ Tqs(m') = Tqs(a)
          BY <1>2, <4>1, <4>2 DEF Dispatched, Tqs
        <4>6. QED
          BY <1>1, <4>1, <4>2, <4>4, <4>5, OrderedDispatch
      <3>3. QED
        BY <3>1, <3>2
    <2>3. TargetsOK(m', stack') /\ TargetsOK(m', <<>>)
      BY <1>2, <2>1
    <2>4. QED
      BY <1>1, <2>1, <2>2, <2>3, OrderedSaved, TargetsSaved DEF OrderInv
  <1>5. QED
    BY <1>1, <1>3, <1>4

LEMMA OrderStep ==
  ASSUME BaseInv, OrderInv, [MNext]_allvars
  PROVE  OrderInv'
  <1>1. BaseInv' /\ MTypeOK
    BY BaseStep DEF BaseInv
  <1>2. CASE UNCHANGED <<m, stack, disk, last, hist>>
    BY <1>2 DEF OrderInv, Tqs
  <1>3. CASE Commits
    <2>1. MemOK(m) /\ stack = <<>>
      BY <1>3 DEF BaseInv, UInv, Commits, Idle
    <2>2. QED
      BY <1>3, <2>1, OrderedSaved, TargetsSaved DEF Commits, OrderInv, Tqs
  <1>4. QED
    BY <1>1, <1>2, <1>3, UKinds, OrderQueues, OrderRecover

LEMMA OrderImplies ==
  ASSUME BaseInv, OrderInv, Settled
  PROVE  TargetOrdered
  <1>1. Tqs(m) = {} /\ MemOK(m) /\ Edged(m)
    BY SettledFacts, EdgedMem DEF BaseInv, UInv
  <1>2. SUFFICES ASSUME NEW u \in m.units, NEW t \in m.units, m.state[u] = "UnitLoaded",
                        default_dependencies(m, u), u \notin hist.redone,
                        t \in dep_gets_atom(m, u, DefaultTargetDependencies), PullsOnly(u)
                 PROVE  is_dep_atom_with(m, t, {"After"}, u)
    BY DEF TargetOrdered
  <1>3. ASSUME NEW x \in Pulling(m, u)
        PROVE  /\ Type[x] = "target" /\ m.state[x] = "UnitLoaded" /\ File[x].ddeps /\ File[x].ok
               /\ <<x, "Before", u>> \notin m.deps
    <2>1. /\ Type[x] = "target" /\ m.state[x] = "UnitLoaded" /\ default_dependencies(m, x)
          /\ ~ is_dep_atom_with(m, x, {"Before"}, u)
      BY <1>2, <1>3 DEF PullsOnly, Pulling
    <2>2. x \in Name
      BY <1>1, <1>2, <1>3, PullingIs DEF Edged
    <2>3. File[x].ok
      BY <2>1, <2>2 DEF OrderInv, TargetsOK
    <2>4. <<x, "Before", u>> \notin m.deps
      BY <1>2, <2>1 DEF is_dep_atom_with, dep_gets_atom
    <2>5. QED
      BY <2>1, <2>3, <2>4 DEF default_dependencies
  <1>4. ~ Bad(m, u)
    BY <1>3 DEF Bad
  <1>5. OrderedUnit(m, u)
    BY <1>1, <1>2, <1>4 DEF OrderInv, Ordered
  <1>6. <<t, "After", u>> \in m.deps
    BY <1>2, <1>3, <1>5 DEF OrderedUnit, Pulling
  <1>7. QED
    BY <1>2, <1>6 DEF is_dep_atom_with, dep_gets_atom

\* For any set of units and files: when the queues are at rest a target is ordered after
\* what it pulls in, however the loads of the two were interleaved with nested loads and
\* with crashes; the exceptions are those TargetOrdered names
\* (Target::add_default_dependencies, dispatch_target_dep_unit, UnitRT's db_compensate_last).
THEOREM TargetsOrdered == MSpec => []TargetOrdered
  <1>1. MInit => BaseInv /\ OrderInv
    <2>1. SUFFICES ASSUME MInit PROVE BaseInv /\ OrderInv
      OBVIOUS
    <2>2. m = NoUnits /\ disk = [NoUnits EXCEPT !.lq = {}, !.tq = {}]
      BY <2>1 DEF MInit, UInit
    <2>3. /\ m.units = {} /\ disk.units = {} /\ m.read = {} /\ disk.read = {}
          /\ \A n \in Name : m.state[n] = "UnitStub" /\ disk.state[n] = "UnitStub"
      BY <2>2 DEF NoUnits
    <2>4. OrderInv
      BY <2>3 DEF OrderInv, Ordered, TargetsOK
    <2>5. QED
      BY <2>1, <2>4, BaseInitial
  <1>2. BaseInv /\ OrderInv /\ [MNext]_allvars => (BaseInv /\ OrderInv)'
    BY BaseStep, OrderStep
  <1>3. BaseInv /\ OrderInv => TargetOrdered
    BY OrderImplies DEF TargetOrdered
  <1>4. QED
    BY <1>1, <1>2, <1>3, PTL DEF MSpec
=============================================================================
