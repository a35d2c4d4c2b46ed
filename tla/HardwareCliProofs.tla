------------------------- MODULE HardwareCliProofs -------------------------
(***************************************************************************)
(* The disk and LED commands for any machine, any number of disks and      *)
(* hot-plug events, any lights and any request.                            *)
(***************************************************************************)
EXTENDS HardwareCli, TLAPS, FiniteSetTheorems, SequenceTheorems, WellFoundedInduction

-----------------------------------------------------------------------------
(* Induction over the natural numbers, for sets: the library's theorems    *)
(* about predicates cannot be instantiated by the provers, its well-       *)
(* foundedness of < can.                                                   *)

LEMMA LessWellFounded == IsWellFoundedOn({r \in Nat \X Nat : r[1] < r[2]}, Nat)
<1>1. {r \in Nat \X Nat : r[1] < r[2]} = OpToRel(<, Nat)
  BY Zenon DEF OpToRel
<1> QED
  BY <1>1, NatLessThanWellFounded, Zenon

LEMMA Least ==
    ASSUME NEW T, T \subseteq Nat, T # {}
    PROVE  \E x \in T : \A y \in T : x <= y
<1> DEFINE R == {r \in Nat \X Nat : r[1] < r[2]}
<1>1. \E x \in T : \A y \in T : ~ (<<y, x>> \in R)
  <2>1. IsWellFoundedOn(R, Nat)
    BY LessWellFounded
  <2> HIDE DEF R
  <2> QED
    BY <2>1, WFMin
<1>2. PICK x \in T : \A y \in T : ~ (<<y, x>> \in R)
  BY <1>1
<1>3. ASSUME NEW y \in T PROVE x <= y
  <2>1. x \in Nat /\ y \in Nat
    OBVIOUS
  <2>2. <<y, x>> \notin R
    BY <1>2
  <2>3. ~(y < x)
    BY <2>1, <2>2
  <2> QED
    BY <2>1, <2>3
<1> QED
  BY <1>3

LEMMA Induction ==
    ASSUME NEW S, 0 \in S, \A n \in Nat : n \in S => n + 1 \in S
    PROVE  \A n \in Nat : n \in S
<1> SUFFICES ASSUME Nat \ S # {} PROVE FALSE
  OBVIOUS
<1>1. PICK x \in Nat \ S : \A y \in Nat \ S : x <= y
  BY Least
<1>2. x # 0 /\ x - 1 \in Nat /\ x - 1 \in S
  BY <1>1
<1> QED
  BY <1>1, <1>2

-----------------------------------------------------------------------------
(* merged_patch is a fold over the actions.                                *)

Overlay(p, a) ==
    [fields |-> p.fields \cup a.fields,
     value |-> [f \in Fields |-> IF f \in a.fields THEN a.value[f] ELSE p.value[f]]]
Folds(g, actions, S) ==
    g = [s \in SUBSET S |-> IF s = {} THEN NoPatch ELSE Overlay(g[s \ {Max(s)}], actions[Max(s)])]

LEMMA MergedIsFold ==
    ASSUME NEW actions
    PROVE  Merged(actions) = (CHOOSE g : Folds(g, actions, DOMAIN actions))[DOMAIN actions]
  BY Zenon DEF Merged, FoldLeft, MapThenFoldSet, Folds, Overlay

\* The last of the first n actions.
LEMMA LastOf ==
    ASSUME NEW n \in Nat, NEW s, s \subseteq 1..n + 1, n + 1 \in s
    PROVE  Max(s) = n + 1
<1>1. \A y \in s : n + 1 >= y
  OBVIOUS
<1>2. \A x \in s : (\A y \in s : x >= y) => x = n + 1
  OBVIOUS
<1> QED
  BY <1>1, <1>2 DEF Max

LEMMA MaxIn ==
    ASSUME NEW n \in Nat, NEW s, s \subseteq 1..n, s # {}
    PROVE  Max(s) \in s /\ \A y \in s : y <= Max(s)
<1> DEFINE T == {k \in Nat : \A y \in s : y <= k}
<1>1. n \in T
  OBVIOUS
<1>2. PICK x \in T : \A k \in T : x <= k
  BY <1>1, Least
<1>3. x \in s
  <2>1. SUFFICES ASSUME x \notin s PROVE FALSE
    OBVIOUS
  <2>2. x # 0
    <3>1. PICK y \in s : TRUE
      OBVIOUS
    <3>2. y \in Nat /\ 1 <= y /\ y <= x /\ x \in Nat
      BY <1>2
    <3> QED
      BY <3>2
  <2>3. x \in Nat /\ \A y \in s : y <= x
    BY <1>2
  <2>4. x - 1 \in Nat
    BY <2>2, <2>3
  <2>5. \A y \in s : y \in Nat /\ y # x
    BY <2>1
  <2>6. \A y \in s : y <= x - 1
    BY <2>3, <2>4, <2>5
  <2>7. x - 1 \in T
    BY <2>4, <2>6
  <2> QED
    BY <1>2, <2>3, <2>7
<1>4. \E y \in s : \A z \in s : y >= z
  BY <1>2, <1>3
<1> QED
  BY <1>4 DEF Max

LEMMA FoldExists ==
    ASSUME NEW actions
    PROVE  \A n \in Nat : \E g : Folds(g, actions, 1..n)
<1> DEFINE S == {n \in Nat : \E g : Folds(g, actions, 1..n)}
<1>1. 0 \in S
  <2> DEFINE g == [s \in SUBSET (1..0) |-> NoPatch]
  <2>1. Folds(g, actions, 1..0)
    BY DEF Folds
  <2> QED
    BY <2>1
<1>2. ASSUME NEW n \in Nat, n \in S PROVE n + 1 \in S
  <2>1. PICK g : Folds(g, actions, 1..n)
    BY <1>2
  <2> DEFINE h == [s \in SUBSET (1..n + 1) |->
                     IF n + 1 \in s THEN Overlay(g[s \ {n + 1}], actions[n + 1]) ELSE g[s]]
             F(s) == IF s = {} THEN NoPatch ELSE Overlay(h[s \ {Max(s)}], actions[Max(s)])
  <2>2. ASSUME NEW s \in SUBSET (1..n + 1) PROVE h[s] = F(s)
    <3>1. CASE n + 1 \in s
      <4>1. Max(s) = n + 1
        BY <3>1, LastOf
      <4>2. s \ {n + 1} \in SUBSET (1..n + 1) /\ n + 1 \notin s \ {n + 1}
        OBVIOUS
      <4>3. h[s \ {n + 1}] = g[s \ {n + 1}]
        BY <4>2
      <4> QED
        BY <3>1, <4>1, <4>3
    <3>2. CASE n + 1 \notin s
      <4>1. s \in SUBSET (1..n)
        BY <3>2
      <4>2. h[s] = g[s]
        BY <3>2
      <4>3. g[s] = IF s = {} THEN NoPatch ELSE Overlay(g[s \ {Max(s)}], actions[Max(s)])
        BY <2>1, <4>1 DEF Folds
      <4>4. s \ {Max(s)} \in SUBSET (1..n + 1) /\ n + 1 \notin s \ {Max(s)}
        BY <3>2
      <4>5. h[s \ {Max(s)}] = g[s \ {Max(s)}]
        BY <4>4
      <4> QED
        BY <4>2, <4>3, <4>5
    <3> QED
      BY <3>1, <3>2
  <2>3. h = [s \in SUBSET (1..n + 1) |-> F(s)]
    BY <2>2
  <2>4. Folds(h, actions, 1..n + 1)
    BY <2>3, Zenon DEF Folds
  <2> QED
    BY <2>4
<1>3. \A n \in Nat : n \in S
  <2> HIDE DEF S
  <2> QED
    BY <1>1, <1>2, Induction
<1> QED
  BY <1>3

\* One more action.
Asking(actions, n, f) == {i \in 1..n : f \in actions[i].fields}

\* What the merge of the first n actions holds: a field is set when an action asks for it,
\* to what the last of them asks.
Says(p, actions, n) ==
    /\ p \in Patch
    /\ \A f \in Fields : f \in p.fields <=> Asking(actions, n, f) # {}
    /\ \A f \in p.fields : p.value[f] = actions[Max(Asking(actions, n, f))].value[f]

LEMMA OverlaySays ==
    ASSUME NEW actions \in Seq(Patch), NEW n \in Nat, n + 1 <= Len(actions), NEW p, Says(p, actions, n)
    PROVE  Says(Overlay(p, actions[n + 1]), actions, n + 1)
<1> DEFINE a == actions[n + 1]
           o == Overlay(p, a)
<1>1. a \in Patch /\ p \in Patch
  BY ElementOfSeq DEF Says
<1>2. o.fields = p.fields \cup a.fields /\ o.value = [f \in Fields |-> IF f \in a.fields THEN a.value[f] ELSE p.value[f]]
  BY DEF Overlay
<1>3. p.value \in Lamp /\ a.value \in Lamp /\ p.fields \subseteq Fields /\ a.fields \subseteq Fields
  BY <1>1 DEF Patch
<1>4. o \in Patch
  <2>1. [f \in Fields |-> IF f \in a.fields THEN a.value[f] ELSE p.value[f]] \in Lamp
    BY <1>3 DEF Lamp, Fields
  <2> QED
    BY <1>3, <2>1 DEF Overlay, Patch
<1>5. ASSUME NEW f \in Fields
      PROVE  /\ f \in o.fields <=> Asking(actions, n + 1, f) # {}
             /\ f \in o.fields => o.value[f] = actions[Max(Asking(actions, n + 1, f))].value[f]
  <2> HIDE DEF o
  <2>1. CASE f \in a.fields
    <3>1. n + 1 \in Asking(actions, n + 1, f) /\ Asking(actions, n + 1, f) \subseteq 1..n + 1
      BY <2>1 DEF Asking
    <3>2. Max(Asking(actions, n + 1, f)) = n + 1
      BY <3>1, LastOf
    <3> QED
      BY <1>2, <2>1, <3>1, <3>2
  <2>2. CASE f \notin a.fields
    <3>1. Asking(actions, n + 1, f) = Asking(actions, n, f)
      BY <2>2 DEF Asking
    <3> QED
      BY <1>2, <2>2, <3>1 DEF Says
  <2> QED
    BY <2>1, <2>2
<1> QED
  BY <1>3, <1>4, <1>5 DEF Says, Patch

\* merged_patch (hardware_cli.c:542-624): every option of the command line is in the patch,
\* and the later one wins.
LEMMA MergedSays ==
    ASSUME NEW actions \in Seq(Patch)
    PROVE  Says(Merged(actions), actions, Len(actions))
<1>1. Len(actions) \in Nat /\ DOMAIN actions = 1..Len(actions)
  BY LenProperties
<1> DEFINE N == Len(actions)
           g == CHOOSE h : Folds(h, actions, 1..N)
<1>2. Folds(g, actions, 1..N)
  BY <1>1, FoldExists
<1>3. Merged(actions) = g[1..N]
  BY <1>1, MergedIsFold
<1> HIDE DEF g
<1> DEFINE S == {n \in Nat : n <= N => Says(g[1..n], actions, n)}
<1>4. 0 \in S
  <2>1. g[1..0] = NoPatch
    BY <1>2 DEF Folds
  <2>2. NoPatch \in Patch /\ NoPatch.fields = {}
    BY DEF NoPatch, Patch, Fields, Lamp
  <2>3. \A f : Asking(actions, 0, f) = {}
    BY DEF Asking
  <2>4. Says(NoPatch, actions, 0)
    BY <2>2, <2>3, Zenon DEF Says
  <2> QED
    BY <2>1, <2>4
<1>5. ASSUME NEW n \in Nat, n \in S PROVE n + 1 \in S
  <2>1. SUFFICES ASSUME n + 1 <= N PROVE Says(g[1..n + 1], actions, n + 1)
    OBVIOUS
  <2>2. Says(g[1..n], actions, n)
    BY <1>1, <1>5, <2>1
  <2>3. Max(1..n + 1) = n + 1 /\ (1..n + 1) \ {n + 1} = 1..n /\ 1..n + 1 # {} /\ 1..n + 1 \in SUBSET (1..N)
    <3>1. n + 1 \in 1..n + 1 /\ 1..n + 1 \subseteq 1..n + 1
      OBVIOUS
    <3>2. Max(1..n + 1) = n + 1
      BY <3>1, LastOf, Zenon
    <3> QED
      BY <1>1, <2>1, <3>2
  <2>4. g[1..n + 1] = Overlay(g[(1..n + 1) \ {Max(1..n + 1)}], actions[Max(1..n + 1)])
    BY <1>2, <2>3 DEF Folds
  <2>5. g[1..n + 1] = Overlay(g[1..n], actions[n + 1])
    BY <2>3, <2>4
  <2> QED
    BY <2>1, <2>2, <2>5, OverlaySays
<1>6. \A n \in Nat : n \in S
  <2> HIDE DEF S
  <2> QED
    BY <1>4, <1>5, Induction
<1> QED
  BY <1>1, <1>3, <1>6

-----------------------------------------------------------------------------
(* What a scan works with. *)

Slots == {"none", "ata", "nvme"} \X (0..8)
Buses == {"sata", "nvme", "u2"}
Sources == {"unknown", "single", "firmware", "calibration"}
DiskRecord == [name : Names, serial : Serials, place : Place,
               controller : {<<>>} \cup (STRING \X SUBSET Names),
               iface : Buses, slot : Slots, led : 0..8, source : Sources]
Entry == [names : SUBSET Names, serial : Serials, place : Place,
          iface : Buses, slot : Slots, led : 0..8, source : Sources]
ScanRecord == [pc : {"start", "enumerate", "recheck", "verify", "done", "failed"},
               todo : SUBSET Names, members : SUBSET Names, disks : SUBSET DiskRecord,
               auto : SUBSET SataController, report : SUBSET Entry]
\* The same disk, whatever is thought of its bay.
SameDisk(e, d) == e.name = d.name /\ e.serial = d.serial /\ e.place = d.place /\ e.controller = d.controller

\* A disk is given to a slot.
Put(d, s, l, x) == [d EXCEPT !.slot = s, !.led = l, !.source = x]
PutOnBus(d, s, b, l, x) == [d EXCEPT !.slot = s, !.iface = b, !.led = l, !.source = x]

LEMMA PutKeeps ==
    ASSUME NEW d \in DiskRecord, NEW s \in Slots, NEW l \in 0..8, NEW x \in Sources
    PROVE  /\ Put(d, s, l, x) \in DiskRecord /\ SameDisk(Put(d, s, l, x), d)
           /\ Put(d, s, l, x).slot = s /\ Put(d, s, l, x).led = l
  BY DEF DiskRecord, SameDisk, Put

LEMMA PutOnBusKeeps ==
    ASSUME NEW d \in DiskRecord, NEW s \in Slots, NEW b \in Buses, NEW l \in 0..8, NEW x \in Sources
    PROVE  PutOnBus(d, s, b, l, x) \in DiskRecord /\ SameDisk(PutOnBus(d, s, b, l, x), d)
  BY DEF DiskRecord, SameDisk, PutOnBus

LEMMA UnmappedDisk ==
    ASSUME NEW d \in DiskRecord
    PROVE  Unmapped(d) \in DiskRecord /\ SameDisk(Unmapped(d), d)
<1>1. NoSlot \in Slots /\ 0 \in 0..8 /\ "unknown" \in Sources
  BY DEF NoSlot, Slots, Sources
<1>2. Unmapped(d) = Put(d, NoSlot, 0, "unknown")
  BY Zenon DEF Unmapped, Put
<1> QED
  BY <1>1, <1>2, PutKeeps

LEMMA AtaSlot ==
    ASSUME NEW n \in 1..8
    PROVE  Ata(n) \in Slots /\ Ata(n)[1] = "ata" /\ Ata(n)[2] = n /\ Nvme(n) \in Slots /\ Nvme(n)[1] = "nvme" /\ Nvme(n)[2] = n
  BY DEF Ata, Nvme, Slots

\* A rule names a slot of the machine, and a bay unless it is for an M.2 drive.
RuleOK(r) == r.slot \in Slots /\ r.slot[2] \in 1..8

LEMMA RulesOK ==
    ASSUME NEW n \in 1..8
    PROVE  /\ \A i, l : RuleOK(AtaRule(n, i, l)) /\ AtaRule(n, i, l).slot[1] = "ata" 
           /\ \A at, i : RuleOK(PathRule(n, at, i)) /\ PathRule(n, at, i).slot[1] = "ata"
           /\ \A k, at, i : RuleOK(DriveRule(Ata(n), k, at, i)) /\ RuleOK(DriveRule(Nvme(n), k, at, i))
  BY AtaSlot DEF AtaRule, PathRule, DriveRule, RuleOK

\* A table of such rules with a bay in it.
Table(rules) == (\A r \in rules : RuleOK(r)) /\ (\E r \in rules : r.slot[1] = "ata")

LEMMA LayoutType ==
    ASSUME NEW m \in Models
    PROVE  Table(firmware_layout(m))
<1>1. ASSUME NEW k \in 1..8 PROVE Table(InOrder(k))
  <2>1. \A r \in InOrder(k) : RuleOK(r)
    <3>1. SUFFICES ASSUME NEW r \in InOrder(k) PROVE RuleOK(r)
      OBVIOUS
    <3>2. PICK i \in 1..k : r = AtaRule(i, i, TRUE)
      BY DEF InOrder
    <3>3. i \in 1..8
      OBVIOUS
    <3> QED
      BY <3>2, <3>3, RulesOK, Zenon
  <2>2. AtaRule(1, 1, TRUE) \in InOrder(k) /\ AtaRule(1, 1, TRUE).slot[1] = "ata"
    <3>1. 1 \in 1..8 /\ 1 \in 1..k
      OBVIOUS
    <3> QED
      BY <3>1, RulesOK, Zenon DEF InOrder
  <2> QED
    BY <2>1, <2>2 DEF Table
<1>2. \A r \in GtDrives : RuleOK(r)
  <2>1. 1 \in 1..8 /\ 2 \in 1..8
    OBVIOUS
  <2> QED
    BY <2>1, RulesOK, SMT DEF GtDrives
<1>3. CASE m = "DXP2800 GT"
  <2> DEFINE P == {PathRule(i, "00:08.2", IF 1 = 1 THEN i ELSE 3 - i) : i \in 1..2}
  <2>1. firmware_layout(m) = GtDrives \cup P
    BY <1>3, Zenon DEF firmware_layout, Layout
  <2>2. \A r \in P : RuleOK(r) /\ r.slot[1] = "ata"
    BY RulesOK
  <2>3. PathRule(1, "00:08.2", IF 1 = 1 THEN 1 ELSE 3 - 1) \in P
    OBVIOUS
  <2> HIDE DEF P
  <2> QED
    BY <1>2, <2>1, <2>2, <2>3, Zenon DEF Table
<1>4. CASE m = "DXP4800 GT"
  <2> DEFINE P == {PathRule(i, "00:01.2", i) : i \in 1..4}
             D == {DriveRule(Ata(1), "syspath", "00:01.1", "u2"), DriveRule(Ata(2), "syspath", "00:01.3", "u2")}
  <2>1. firmware_layout(m) = P \cup D
    BY <1>4, Zenon DEF firmware_layout, Layout
  <2>2. \A r \in P : RuleOK(r) /\ r.slot[1] = "ata"
    BY RulesOK
  <2>3. PathRule(1, "00:01.2", 1) \in P
    OBVIOUS
  <2>4. \A r \in D : RuleOK(r)
    <3>1. 1 \in 1..8 /\ 2 \in 1..8
      OBVIOUS
    <3> QED
      BY <3>1, RulesOK, SMT
  <2> HIDE DEF P, D
  <2> QED
    BY <2>1, <2>2, <2>3, <2>4, Zenon DEF Table
<1>5. CASE m \in {"DXP4800", "DXP4800 Plus", "DXP8800 Plus"}
  <2>1. PICK k \in 1..8 : \E kind, at : firmware_layout(m) = InOrder(k) \cup {DriveRule(Nvme(1), kind, at, "m2")}
    <3>1. CASE m = "DXP4800"
      <4>1. firmware_layout(m) = InOrder(4) \cup {DriveRule(Nvme(1), "block_name", "nvme0n1", "m2")}
        BY <3>1 DEF firmware_layout, Layout
      <4> QED
        BY <4>1
    <3>2. CASE m = "DXP4800 Plus"
      <4>1. firmware_layout(m) = InOrder(4) \cup {DriveRule(Nvme(1), "pcie_bridge_id", "8086:463d", "m2")}
        BY <3>2, Zenon DEF firmware_layout, Layout
      <4> QED
        BY <4>1
    <3>3. CASE m = "DXP8800 Plus"
      <4>1. firmware_layout(m) = InOrder(8) \cup {DriveRule(Nvme(1), "pcie_bridge_id", "8086:464d", "m2")}
        BY <3>3, Zenon DEF firmware_layout, Layout
      <4> QED
        BY <4>1
    <3> QED
      BY <1>5, <3>1, <3>2, <3>3, Zenon
  <2>2. PICK kind, at : firmware_layout(m) = InOrder(k) \cup {DriveRule(Nvme(1), kind, at, "m2")}
    BY <2>1
  <2>3. RuleOK(DriveRule(Nvme(1), kind, at, "m2"))
    BY RulesOK
  <2> QED
    BY <1>1, <2>2, <2>3, Zenon DEF Table
<1>6. CASE m = "DXP6800 Pro"
  <2> DEFINE P == {AtaRule(i, i + 2, TRUE) : i \in 1..4}
             Q == {AtaRule(i, i - 4, TRUE) : i \in 5..6}
             D == {DriveRule(Nvme(1), "pcie_bridge_id", "8086:464d", "m2")}
  <2>1. firmware_layout(m) = P \cup Q \cup D
    BY <1>6, Zenon DEF firmware_layout, Layout
  <2>2. \A r \in P \cup Q : RuleOK(r) /\ r.slot[1] = "ata"
    <3>1. SUFFICES ASSUME NEW r \in P \cup Q PROVE RuleOK(r) /\ r.slot[1] = "ata"
      OBVIOUS
    <3>2. CASE r \in P
      <4>1. PICK i \in 1..4 : r = AtaRule(i, i + 2, TRUE)
        BY <3>2
      <4>2. i \in 1..8
        OBVIOUS
      <4> QED
        BY <4>1, <4>2, RulesOK, Zenon
    <3>3. CASE r \in Q
      <4>1. PICK i \in 5..6 : r = AtaRule(i, i - 4, TRUE)
        BY <3>3
      <4>2. i \in 1..8
        OBVIOUS
      <4> QED
        BY <4>1, <4>2, RulesOK, Zenon
    <3> QED
      BY <3>2, <3>3
  <2>3. AtaRule(1, 1 + 2, TRUE) \in P
    OBVIOUS
  <2>4. \A r \in D : RuleOK(r)
    BY RulesOK
  <2> HIDE DEF P, Q, D
  <2> QED
    BY <2>1, <2>2, <2>3, <2>4, Zenon DEF Table
<1>7. CASE m = "DH4300 Plus"
  <2> DEFINE P == {AtaRule(i, IF i % 2 = 1 THEN i + 1 ELSE i - 1, FALSE) : i \in 1..4}
  <2>1. firmware_layout(m) = P
    BY <1>7, Zenon DEF firmware_layout, Layout
  <2>2. \A r \in P : RuleOK(r) /\ r.slot[1] = "ata"
    <3>1. SUFFICES ASSUME NEW r \in P PROVE RuleOK(r) /\ r.slot[1] = "ata"
      OBVIOUS
    <3>2. PICK i \in 1..4 : r = AtaRule(i, IF i % 2 = 1 THEN i + 1 ELSE i - 1, FALSE)
      OBVIOUS
    <3>3. i \in 1..8
      OBVIOUS
    <3> QED
      BY <3>2, <3>3, RulesOK, Zenon
  <2>3. AtaRule(1, IF 1 % 2 = 1 THEN 1 + 1 ELSE 1 - 1, FALSE) \in P
    OBVIOUS
  <2> HIDE DEF P
  <2> QED
    BY <2>1, <2>2, <2>3, Zenon DEF Table
<1> QED
  BY <1>3, <1>4, <1>5, <1>6, <1>7, Zenon DEF Models

LEMMA GreatestOfEight ==
    ASSUME NEW S \in SUBSET (1..8), S # {}
    PROVE  Max(S) \in S
<1>1. PICK x \in S : \A y \in S : x >= y
  <2>1. S \subseteq 1..8 /\ \E z : z \in S
    OBVIOUS
  <2> QED
    BY <2>1, SMT
<1> QED
  BY <1>1 DEF Max

LEMMA BayLimit ==
    ASSUME model \in Models
    PROVE  known_bay_limit \in 1..8
<1> DEFINE T == {x \in firmware_layout(model) : x.slot[1] = "ata"}
           S == {r.slot[2] : r \in T}
<1>1. S \subseteq 1..8 /\ S # {}
  BY LayoutType DEF Table, RuleOK
<1> QED
  BY <1>1, GreatestOfEight DEF known_bay_limit

\* What a scan knows of the machine, and of the calibration it accepted.
Machines ==
    /\ model \in Models /\ bus \in [Names -> Device \cup {Absent}] /\ moves \in Nat
    /\ machine.ctrls \subseteq SataController /\ cal \subseteq [place : Place, slot : Nat]

LEMMA RuleGiven ==
    ASSUME Machines, NEW d \in DiskRecord, NEW r \in firmware_layout(model)
    PROVE  apply_firmware_rule(d, r) \in DiskRecord /\ SameDisk(apply_firmware_rule(d, r), d)
<1> DEFINE s == r.slot
           b == IF r.iface = "u2" THEN "u2" ELSE d.iface
           l == IF firmware_slot_has_led(model, r) THEN r.slot[2] ELSE 0
           x == IF d.source = "single" THEN "single" ELSE "firmware"
<1>1. s \in Slots /\ r.slot[2] \in 1..8
  BY LayoutType DEF Machines, Table, RuleOK
<1>2. b \in Buses /\ l \in 0..8 /\ x \in Sources
  BY <1>1 DEF DiskRecord, Buses, Sources
<1>3. apply_firmware_rule(d, r) = PutOnBus(d, s, b, l, x)
  BY Zenon DEF apply_firmware_rule, PutOnBus
<1> HIDE DEF s, b, l, x
<1> QED
  BY <1>1, <1>2, <1>3, PutOnBusKeeps

LEMMA CalibratedDisk ==
    ASSUME Machines, read_calibration, NEW d \in DiskRecord
    PROVE  Calibrated(d) \in DiskRecord /\ SameDisk(Calibrated(d), d)
<1> DEFINE lines == {l \in cal : l.place = d.place}
           l == CHOOSE x \in lines : TRUE
<1>1. CASE lines = {}
  BY <1>1 DEF Calibrated, SameDisk
<1>2. CASE lines # {}
  <2>1. l \in cal
    BY <1>2
  <2>2. l.slot \in 1..8
    BY <2>1, BayLimit DEF read_calibration, Machines
  <2>3. Ata(l.slot) \in Slots /\ "calibration" \in Sources /\ l.slot \in 0..8
    BY <2>2, AtaSlot DEF Sources
  <2>4. Calibrated(d) = Put(d, Ata(l.slot), l.slot, "calibration")
    BY <1>2, Zenon DEF Calibrated, Put
  <2>5. ASSUME NEW n \in 0..8, NEW s \in Slots
        PROVE  Put(d, s, n, "calibration") \in DiskRecord /\ SameDisk(Put(d, s, n, "calibration"), d)
    BY <2>3, PutKeeps
  <2> QED
    BY <2>3, <2>4, <2>5, Zenon
<1> QED
  BY <1>1, <1>2

LEMMA ControllerDisk ==
    ASSUME NEW d \in DiskRecord, NEW auto
    PROVE  ByController(d, auto) \in DiskRecord /\ SameDisk(ByController(d, auto), d)
<1>1. CASE \E c \in auto : c.id = d.place.at /\ d.place.port \in 1..4
  <2> DEFINE n == d.place.port
  <2>1. n \in 1..8
    BY <1>1
  <2>2. Ata(n) \in Slots /\ "single" \in Sources /\ n \in 0..8
    BY <2>1, AtaSlot DEF Sources
  <2>3. ByController(d, auto) = Put(d, Ata(n), n, "single")
    BY <1>1, Zenon DEF ByController, Put
  <2>4. ASSUME NEW k \in 0..8, NEW s \in Slots
        PROVE  Put(d, s, k, "single") \in DiskRecord /\ SameDisk(Put(d, s, k, "single"), d)
    BY <2>2, PutKeeps
  <2> QED
    BY <2>2, <2>3, <2>4, Zenon
<1>2. CASE ~(\E c \in auto : c.id = d.place.at /\ d.place.port \in 1..4)
  <2>1. ByController(d, auto) = d
    BY <1>2, Zenon DEF ByController
  <2> QED
    BY <2>1 DEF SameDisk
<1> QED
  BY <1>1, <1>2

LEMMA OnlyOne ==
    ASSUME NEW S, Cardinality(S) = 1
    PROVE  (CHOOSE x \in S : TRUE) \in S
<1>1. S # {}
  BY FS_EmptySet
<1> QED
  BY <1>1

\* Whatever a scan thinks of a disk's bay, it stays the disk that was read.
LEMMA MappedDisk ==
    ASSUME Machines, read_calibration, NEW d \in DiskRecord, NEW auto
    PROVE  Mapped(d, auto) \in DiskRecord /\ SameDisk(Mapped(d, auto), d)
<1> DEFINE e == IF cal # {} THEN Calibrated(d) ELSE ByController(d, auto)
           rules == Matches(d.place)
           r == CHOOSE x \in rules : TRUE
<1>1. e \in DiskRecord /\ SameDisk(e, d)
  BY CalibratedDisk, ControllerDisk
<1>2. \/ Mapped(d, auto) = e \/ Mapped(d, auto) = Unmapped(e)
      \/ Cardinality(rules) = 1 /\ Mapped(d, auto) = apply_firmware_rule(e, r)
  BY Zenon DEF Mapped
<1>3. Cardinality(rules) = 1 => r \in firmware_layout(model)
  BY OnlyOne DEF Matches
<1> HIDE DEF e, rules, r
<1>4. Unmapped(e) \in DiskRecord /\ SameDisk(Unmapped(e), e)
  BY <1>1, UnmappedDisk
<1>5. CASE Cardinality(rules) = 1 /\ Mapped(d, auto) = apply_firmware_rule(e, r)
  <2>1. apply_firmware_rule(e, r) \in DiskRecord /\ SameDisk(apply_firmware_rule(e, r), e)
    BY <1>1, <1>3, <1>5, RuleGiven
  <2> QED
    BY <1>1, <1>5, <2>1 DEF SameDisk
<1> QED
  BY <1>1, <1>2, <1>4, <1>5 DEF SameDisk

-----------------------------------------------------------------------------
(* The scan's invariant. *)

\* A bus that has the disk under its name, at its place.
Same(d, b) == b[d.name] # Absent /\ b[d.name].serial = d.serial /\ b[d.name].place = d.place

ScanTyped ==
    /\ Machines /\ scan \in ScanRecord /\ then \in [Names -> Device \cup {Absent}]
    /\ IsFiniteSet(scan.members) /\ Cardinality(scan.members) <= DISK_MAX
    /\ scan.pc \notin {"start", "failed"} => read_calibration
    /\ scan.pc = "start" => scan.disks = {} /\ scan.members = {}
    /\ scan.pc = "enumerate" => scan.todo \cap scan.members = {}
    /\ \A d \in scan.disks : d.name \in scan.members
    /\ \A d, e \in scan.disks : d.name = e.name => d = e

\* What is and what was read is among what was ever plugged in.
Remembered ==
    /\ \A n \in Present(bus) : <<n, bus[n].serial, bus[n].place>> \in seen
    /\ \A d \in scan.disks : <<d.name, d.serial, d.place>> \in seen

\* A disk that was not there when the listing ended cannot be there any more, and the
\* second reading found it there.
Kept ==
    /\ scan.pc \in {"recheck", "verify", "done"} => \A d \in scan.disks : Same(d, then) \/ ~Same(d, bus)
    /\ \A d \in scan.disks :
        (scan.pc = "recheck" /\ d.name \notin scan.todo) \/ scan.pc \in {"verify", "done"} => Same(d, then)

Reported ==
    scan.pc = "done" =>
        \A e \in scan.report : \A n \in e.names :
            \E d \in scan.disks : d.name = n /\ d.serial = e.serial /\ d.place = e.place

ScanIInv == ScanTyped /\ Remembered /\ Kept /\ Reported

-----------------------------------------------------------------------------
(* Hot-plug. *)

LEMMA NotAbsent ==
    ASSUME NEW x \in Device
    PROVE  x # Absent /\ x.serial \in Serials /\ x.place \in Place
<1>1. x.serial \in Serials /\ x.place \in Place
  BY DEF Device
<1>2. Absent.serial = "none"
  BY DEF Absent
<1> QED
  BY <1>1, <1>2, DiskAssumption

\* An event that brings no disk back leaves the invariant alone.
LEMMA EventKeeps ==
    ASSUME ScanIInv, UNCHANGED <<model, cal, scan, then>>, Machines', seen \subseteq seen',
           \A n \in Present(bus') : <<n, bus'[n].serial, bus'[n].place>> \in seen',
           \A d \in scan.disks : Same(d, bus') => Same(d, bus)
    PROVE  ScanIInv'
<1>1. read_calibration' <=> read_calibration
  BY DEF read_calibration, known_bay_limit
<1>2. ScanTyped'
  BY <1>1 DEF ScanIInv, ScanTyped
<1>3. Remembered'
  BY DEF ScanIInv, Remembered
<1>4. Kept'
  BY DEF ScanIInv, Kept
<1>5. Reported'
  BY DEF ScanIInv, Reported
<1> QED
  BY <1>2, <1>3, <1>4, <1>5 DEF ScanIInv

LEMMA PullKeeps ==
    ASSUME ScanIInv, Pull
    PROVE  ScanIInv'
<1>1. PICK n \in Names : bus' = [bus EXCEPT ![n] = Absent]
  BY DEF Pull, Present
<1>2. UNCHANGED <<model, cal, scan, then, machine, seen>> /\ moves' \in Nat
  BY DEF Pull, Move, ScanIInv, ScanTyped, Machines
<1>3. bus \in [Names -> Device \cup {Absent}] /\ bus' \in [Names -> Device \cup {Absent}]
  BY <1>1 DEF ScanIInv, ScanTyped, Machines
<1>4. bus'[n] = Absent /\ \A m \in Names \ {n} : bus'[m] = bus[m]
  BY <1>1, <1>3
<1>5. Machines'
  BY <1>2, <1>3 DEF ScanIInv, ScanTyped, Machines
<1>6. \A m \in Present(bus') : <<m, bus'[m].serial, bus'[m].place>> \in seen'
  BY <1>2, <1>4 DEF Present, ScanIInv, Remembered
<1>7. \A d \in scan.disks : Same(d, bus') => Same(d, bus)
  BY <1>4 DEF Same, ScanIInv, ScanTyped, ScanRecord, DiskRecord
<1> QED
  BY <1>2, <1>5, <1>6, <1>7, EventKeeps

LEMMA PlugKeeps ==
    ASSUME ScanIInv, Plug
    PROVE  ScanIInv'
<1>0. PICK n \in Names \ Present(bus), s \in Serials, place \in PlacesOf(model) :
        /\ <<n, s, place>> \notin seen /\ seen' = seen \cup {<<n, s, place>>}
        /\ \E ready \in BOOLEAN : bus' = [bus EXCEPT ![n] = [serial |-> s, place |-> place, ready |-> ready]]
  BY Zenon DEF Plug
<1>1. PICK ready \in BOOLEAN :
        /\ <<n, s, place>> \notin seen /\ seen' = seen \cup {<<n, s, place>>}
        /\ bus' = [bus EXCEPT ![n] = [serial |-> s, place |-> place, ready |-> ready]]
  BY <1>0
<1>2. UNCHANGED <<model, cal, scan, then, machine>> /\ moves' \in Nat
  BY DEF Plug, Move, ScanIInv, ScanTyped, Machines
<1> DEFINE x == [serial |-> s, place |-> place, ready |-> ready]
<1>3. x \in Device /\ x.serial = s /\ x.place = place
  BY DiskAssumption DEF Device, ScanIInv, ScanTyped, Machines
<1> HIDE DEF x
<1>4. bus \in [Names -> Device \cup {Absent}] /\ bus' = [bus EXCEPT ![n] = x]
  BY <1>1 DEF ScanIInv, ScanTyped, Machines, x
<1>5. bus' \in [Names -> Device \cup {Absent}] /\ bus'[n] = x /\ \A m \in Names \ {n} : bus'[m] = bus[m]
  BY <1>3, <1>4
<1>6. Machines'
  BY <1>2, <1>5 DEF ScanIInv, ScanTyped, Machines
<1>7. \A m \in Present(bus') : <<m, bus'[m].serial, bus'[m].place>> \in seen'
  BY <1>1, <1>3, <1>5 DEF Present, ScanIInv, Remembered
<1>8. \A d \in scan.disks : Same(d, bus') => Same(d, bus)
  <2>1. SUFFICES ASSUME NEW d \in scan.disks, Same(d, bus') PROVE Same(d, bus)
    OBVIOUS
  <2>2. d.name \in Names /\ <<d.name, d.serial, d.place>> \in seen
    BY DEF ScanIInv, ScanTyped, ScanRecord, DiskRecord, Remembered
  <2>3. d.name # n
    BY <1>1, <1>3, <1>5, <2>1, <2>2 DEF Same
  <2> QED
    BY <1>5, <2>1, <2>2, <2>3 DEF Same
<1> QED
  BY <1>1, <1>2, <1>6, <1>7, <1>8, EventKeeps

LEMMA ReadyKeeps ==
    ASSUME ScanIInv, BecomesReady
    PROVE  ScanIInv'
<1>1. PICK n \in Present(bus) : bus' = [bus EXCEPT ![n].ready = TRUE]
  BY DEF BecomesReady
<1>2. UNCHANGED <<model, cal, scan, then, machine, seen>> /\ moves' \in Nat
  BY DEF BecomesReady, Move, ScanIInv, ScanTyped, Machines
<1>3. bus \in [Names -> Device \cup {Absent}] /\ n \in Names /\ bus[n] \in Device
  BY DEF ScanIInv, ScanTyped, Machines, Present
<1> DEFINE r == bus[n]
           x == [r EXCEPT !.ready = TRUE]
<1>4. bus' = [bus EXCEPT ![n] = x] /\ r \in Device
  BY <1>1, <1>3
<1> HIDE DEF r
<1>5. x \in Device /\ x.serial = r.serial /\ x.place = r.place
  BY <1>4 DEF Device
<1> HIDE DEF x
<1>6. bus' \in [Names -> Device \cup {Absent}] /\ bus'[n] = x /\ \A m \in Names \ {n} : bus'[m] = bus[m]
  BY <1>3, <1>4, <1>5
<1>7. Machines'
  BY <1>2, <1>6 DEF ScanIInv, ScanTyped, Machines
<1>8. \A m \in Present(bus') : <<m, bus'[m].serial, bus'[m].place>> \in seen'
  BY <1>2, <1>5, <1>6 DEF Present, ScanIInv, Remembered, r
<1>9. \A d \in scan.disks : Same(d, bus') => Same(d, bus)
  BY <1>4, <1>5, <1>6, NotAbsent DEF Same, ScanIInv, ScanTyped, ScanRecord, DiskRecord, r
<1> QED
  BY <1>2, <1>7, <1>8, <1>9, EventKeeps

LEMMA CardKeeps ==
    ASSUME ScanIInv, CardAppears
    PROVE  ScanIInv'
<1>1. UNCHANGED <<model, cal, scan, then, bus, seen>> /\ moves' \in Nat
  BY DEF CardAppears, Move, ScanIInv, ScanTyped, Machines
<1>2. machine'.ctrls = machine.ctrls \cup Card.ctrls
  BY DEF CardAppears
<1>3. Machines'
  BY <1>1, <1>2, DiskAssumption DEF ScanIInv, ScanTyped, Machines
<1> QED
  BY <1>1, <1>3, EventKeeps DEF ScanIInv, Remembered

LEMMA HotPlugKeeps == ScanIInv /\ HotPlug => ScanIInv'
  BY PullKeeps, PlugKeeps, ReadyKeeps, CardKeeps DEF HotPlug

-----------------------------------------------------------------------------
(* The scan's own steps. *)

\* The parts of the invariant that do not change with the scan.
LEMMA WorldKeeps ==
    ASSUME ScanIInv, UNCHANGED world
    PROVE  /\ Machines' /\ (read_calibration' <=> read_calibration)
           /\ \A n \in Present(bus') : <<n, bus'[n].serial, bus'[n].place>> \in seen'
<1>1. UNCHANGED <<model, machine, bus, cal, moves, seen>>
  BY DEF world
<1>2. Machines'
  BY <1>1 DEF ScanIInv, ScanTyped, Machines
<1>3. read_calibration' <=> read_calibration
  BY <1>1 DEF read_calibration, known_bay_limit
<1> QED
  BY <1>1, <1>2, <1>3 DEF ScanIInv, Remembered

LEMMA FailKeeps ==
    ASSUME ScanIInv, Fail, UNCHANGED <<world, then>>
    PROVE  ScanIInv'
<1>1. /\ scan' \in ScanRecord /\ scan'.pc = "failed" /\ scan'.disks = {} /\ scan'.report = {}
      /\ scan'.members = scan.members
  BY DEF Fail, ScanIInv, ScanTyped, ScanRecord
<1> QED
  BY <1>1, WorldKeeps DEF ScanIInv, ScanTyped, Remembered, Kept, Reported

LEMMA BeginKeeps ==
    ASSUME ScanIInv, ScanBegin
    PROVE  ScanIInv'
<1> DEFINE a == IF cal = {} /\ model \in SingleModels THEN single_sata_controller(machine.ctrls) ELSE {}
           t == Present(bus)
<1>1. a \in SUBSET SataController /\ t \in SUBSET Names
  BY DEF ScanIInv, ScanTyped, Machines, single_sata_controller, Present
<1>2. CASE ~read_calibration
  BY <1>2, FailKeeps DEF ScanBegin
<1>3. CASE read_calibration
  <2>1. scan' = [scan EXCEPT !.pc = "enumerate", !.todo = t, !.auto = a]
    BY <1>3 DEF ScanBegin
  <2> HIDE DEF a, t
  <2>2. /\ scan' \in ScanRecord /\ scan'.pc = "enumerate" /\ scan'.disks = scan.disks
        /\ scan'.report = scan.report /\ scan'.members = scan.members
    BY <1>1, <2>1 DEF ScanIInv, ScanTyped, ScanRecord
  <2>3. scan.disks = {} /\ scan.members = {} /\ UNCHANGED <<world, then>>
    BY DEF ScanIInv, ScanTyped, ScanBegin
  <2> QED
    BY <1>3, <2>2, <2>3, WorldKeeps DEF ScanIInv, ScanTyped, Remembered, Kept, Reported
<1> QED
  BY <1>2, <1>3

\* A reading of a disk that is there.
LEMMA ReadOne ==
    ASSUME Machines, NEW n \in Names, Readable(n)
    PROVE  /\ read_one(n) \in DiskRecord /\ read_one(n).name = n
           /\ read_one(n).serial = bus[n].serial /\ read_one(n).place = bus[n].place
<1> DEFINE c == IF n \in NvmeNames THEN <<bus[n].place.at, Namespaces(n)>> ELSE <<>>
           s == bus[n].serial
           q == bus[n].place
           i == q.iface
<1>1. bus[n] \in Device
  BY DEF Machines, Readable
<1>2. s \in Serials /\ q \in Place
  BY <1>1 DEF Device
<1>3. i \in Buses /\ q.at \in STRING
  BY <1>2 DEF Place, Buses
<1>4. Namespaces(n) \in SUBSET Names
  BY DiskAssumption DEF Namespaces
<1>5. c \in {<<>>} \cup (STRING \X SUBSET Names)
  BY <1>3, <1>4
<1>6. NoSlot \in Slots /\ "unknown" \in Sources
  BY DEF NoSlot, Slots, Sources
<1>7. read_one(n) = [name |-> n, serial |-> s, place |-> q, controller |-> c, iface |-> i,
                     slot |-> NoSlot, led |-> 0, source |-> "unknown"]
  BY Zenon DEF read_one
<1> HIDE DEF c, s, q, i, NoSlot
<1>8. read_one(n) \in DiskRecord /\ read_one(n).name = n /\ read_one(n).serial = s /\ read_one(n).place = q
  BY <1>2, <1>3, <1>5, <1>6, <1>7 DEF DiskRecord
<1> QED
  BY <1>8 DEF s, q

LEMMA EntryKeeps ==
    ASSUME ScanIInv, ScanEntry
    PROVE  ScanIInv'
<1>1. PICK n \in scan.todo :
        IF Cardinality(scan.members) = DISK_MAX THEN Fail
        ELSE scan' = [scan EXCEPT !.todo = @ \ {n}, !.members = @ \cup {n},
                        !.disks = @ \cup (IF Readable(n) THEN {Mapped(read_one(n), scan.auto)} ELSE {})]
  BY Zenon DEF ScanEntry
<1>2. scan.pc = "enumerate" /\ UNCHANGED <<world, then>> /\ n \in Names
  BY DEF ScanEntry, ScanIInv, ScanTyped, ScanRecord
<1>3. CASE Cardinality(scan.members) = DISK_MAX
  BY <1>1, <1>2, <1>3, FailKeeps
<1>4. CASE Cardinality(scan.members) # DISK_MAX
  <2> DEFINE D == IF Readable(n) THEN {Mapped(read_one(n), scan.auto)} ELSE {}
  <2>1. \A d \in D : /\ d \in DiskRecord /\ d.name = n /\ <<d.name, d.serial, d.place>> \in seen
                     /\ \A e \in D : d = e
    <3>1. CASE Readable(n)
      <4> DEFINE d == Mapped(read_one(n), scan.auto)
      <4>1. Machines /\ read_calibration
        BY <1>2 DEF ScanIInv, ScanTyped
      <4>2. /\ read_one(n) \in DiskRecord /\ read_one(n).name = n
            /\ read_one(n).serial = bus[n].serial /\ read_one(n).place = bus[n].place
        BY <1>2, <3>1, <4>1, ReadOne
      <4>3. d \in DiskRecord /\ SameDisk(d, read_one(n))
        BY <4>1, <4>2, MappedDisk
      <4>4. n \in Present(bus)
        BY <1>2, <3>1 DEF Readable, Present
      <4>5. <<n, bus[n].serial, bus[n].place>> \in seen
        BY <4>4 DEF ScanIInv, Remembered
      <4> HIDE DEF d
      <4>6. d.name = n /\ d.serial = bus[n].serial /\ d.place = bus[n].place
        BY <4>2, <4>3 DEF SameDisk
      <4>7. D = {d}
        BY <3>1 DEF d
      <4> QED
        BY <4>3, <4>5, <4>6, <4>7
    <3>2. CASE ~Readable(n)
      BY <3>2
    <3> QED
      BY <3>1, <3>2, Zenon
  <2>2. scan' = [scan EXCEPT !.todo = @ \ {n}, !.members = @ \cup {n}, !.disks = @ \cup D]
    BY <1>1, <1>4
  <2> HIDE DEF D
  <2>3. D \subseteq DiskRecord
    BY <2>1
  <2>4. /\ scan' \in ScanRecord /\ scan'.pc = scan.pc /\ scan'.todo = scan.todo \ {n}
        /\ scan'.members = scan.members \cup {n} /\ scan'.disks = scan.disks \cup D
    BY <1>2, <2>2, <2>3 DEF ScanIInv, ScanTyped, ScanRecord
  <2>5. n \notin scan.members /\ IsFiniteSet(scan.members) /\ Cardinality(scan.members) < DISK_MAX
    <3>1. Cardinality(scan.members) \in Nat /\ Cardinality(scan.members) <= DISK_MAX /\ IsFiniteSet(scan.members)
      BY FS_CardinalityType DEF ScanIInv, ScanTyped
    <3> QED
      BY <1>2, <1>4, <3>1, DiskAssumption DEF ScanIInv, ScanTyped
  <2>6. IsFiniteSet(scan'.members) /\ Cardinality(scan'.members) <= DISK_MAX
    <3>1. /\ IsFiniteSet(scan.members \cup {n})
          /\ Cardinality(scan.members \cup {n}) = Cardinality(scan.members) + 1
      BY <2>5, FS_AddElement, Zenon
    <3>2. Cardinality(scan.members) \in Nat /\ DISK_MAX \in Nat
      BY <2>5, FS_CardinalityType, DiskAssumption, Zenon
    <3> QED
      BY <2>4, <2>5, <3>1, <3>2
  <2>7. /\ \A d \in scan'.disks : d.name \in scan'.members
        /\ \A d, e \in scan'.disks : d.name = e.name => d = e
    <3>1. /\ \A d \in scan.disks : d.name \in scan.members
          /\ \A d, e \in scan.disks : d.name = e.name => d = e
      BY DEF ScanIInv, ScanTyped
    <3>2. \A d \in D : d.name = n
      BY <2>1
    <3>3. \A d, e \in D : d = e
      BY <2>1
    <3>4. scan'.disks = scan.disks \cup D /\ scan'.members = scan.members \cup {n} /\ n \notin scan.members
      BY <2>4, <2>5
    <3>5. ASSUME NEW d \in scan'.disks, NEW e \in scan'.disks, d.name = e.name PROVE d = e
      <4>1. CASE d \in D /\ e \in D
        BY <3>3, <4>1
      <4>2. CASE d \in scan.disks /\ e \in scan.disks
        BY <3>1, <3>5, <4>2
      <4>3. CASE d \in D /\ e \in scan.disks
        BY <3>1, <3>2, <3>4, <3>5, <4>3
      <4>4. CASE d \in scan.disks /\ e \in D
        BY <3>1, <3>2, <3>4, <3>5, <4>4
      <4> QED
        BY <3>4, <3>5, <4>1, <4>2, <4>3, <4>4
    <3>6. ASSUME NEW d \in scan'.disks PROVE d.name \in scan'.members
      BY <3>1, <3>2, <3>4, <3>6
    <3> QED
      BY <3>5, <3>6
  <2>8. ScanTyped'
    <3>1. scan'.todo \cap scan'.members = {}
      BY <1>2, <2>4 DEF ScanIInv, ScanTyped
    <3> QED
      BY <1>2, <2>4, <2>6, <2>7, <3>1, WorldKeeps DEF ScanIInv, ScanTyped
  <2>9. Remembered'
    <3>1. \A d \in scan.disks : <<d.name, d.serial, d.place>> \in seen
      BY Zenon DEF ScanIInv, Remembered
    <3>2. UNCHANGED seen
      BY <1>2 DEF world
    <3>3. \A d \in scan'.disks : <<d.name, d.serial, d.place>> \in seen'
      BY <2>1, <2>4, <3>1, <3>2, Zenon
    <3> QED
      BY <1>2, <3>3, WorldKeeps DEF Remembered
  <2> QED
    BY <1>2, <2>4, <2>8, <2>9 DEF ScanIInv, Kept, Reported
<1> QED
  BY <1>3, <1>4

LEMMA EnumeratedKeeps ==
    ASSUME ScanIInv, ScanEnumerated
    PROVE  ScanIInv'
<1> DEFINE t == {d.name : d \in scan.disks}
<1>1. t \in SUBSET Names
  BY DEF ScanIInv, ScanTyped, ScanRecord, DiskRecord
<1>2. /\ scan.pc = "enumerate" /\ scan' = [scan EXCEPT !.pc = "recheck", !.todo = t]
      /\ then' = bus /\ UNCHANGED world
  BY DEF ScanEnumerated
<1>3. \A d \in scan.disks : d.name \in t
  OBVIOUS
<1> HIDE DEF t
<1>4. /\ scan' \in ScanRecord /\ scan'.pc = "recheck" /\ scan'.todo = t /\ scan'.disks = scan.disks
      /\ scan'.members = scan.members
  BY <1>1, <1>2 DEF ScanIInv, ScanTyped, ScanRecord
<1>5. bus' = bus /\ then' = bus' /\ seen' = seen /\ then' \in [Names -> Device \cup {Absent}]
  BY <1>2 DEF world, ScanIInv, ScanTyped, Machines
<1>6. ScanTyped'
  BY <1>2, <1>4, <1>5, WorldKeeps DEF ScanIInv, ScanTyped
<1>7. Remembered'
  BY <1>2, <1>4, <1>5, WorldKeeps DEF ScanIInv, Remembered
<1>8. Kept'
  BY <1>3, <1>4, <1>5 DEF Kept
<1> QED
  BY <1>4, <1>6, <1>7, <1>8 DEF ScanIInv, Reported

\* After the listing a scan only changes what it thinks of a disk's bay.
LEMMA RemapKeeps ==
    ASSUME ScanIInv, UNCHANGED <<world, then>>, scan' \in ScanRecord,
           scan.pc \in {"recheck", "verify"}, scan'.pc \in {"recheck", "verify"}, scan'.members = scan.members,
           \A e \in scan'.disks : \E d \in scan.disks : SameDisk(e, d),
           \A d, e \in scan'.disks : d.name = e.name => d = e,
           \A d \in scan.disks :
            (scan'.pc = "recheck" /\ d.name \notin scan'.todo) \/ scan'.pc = "verify" => Same(d, then)
    PROVE  ScanIInv'
<1>1. bus' = bus /\ then' = then /\ seen' = seen
  BY DEF world
<1>2. ASSUME NEW e \in scan'.disks
      PROVE  \E d \in scan.disks : /\ e.name = d.name /\ e.serial = d.serial /\ e.place = d.place
                                   /\ \A b : Same(e, b) <=> Same(d, b)
  <2>1. PICK d \in scan.disks : SameDisk(e, d)
    BY <1>2
  <2>2. e.name = d.name /\ e.serial = d.serial /\ e.place = d.place
    BY <2>1 DEF SameDisk
  <2>3. ASSUME NEW b PROVE Same(e, b) <=> Same(d, b)
    BY <2>2 DEF Same
  <2> QED
    BY <2>2, <2>3, Zenon
<1>3. ScanTyped'
  <2>1. \A e \in scan'.disks : e.name \in scan'.members
    BY <1>2 DEF ScanIInv, ScanTyped
  <2>2. scan'.pc \notin {"start", "failed", "enumerate"} /\ scan.pc \notin {"start", "failed"}
    OBVIOUS
  <2> QED
    BY <1>1, <2>1, <2>2, WorldKeeps DEF ScanIInv, ScanTyped
<1>4. Remembered'
  <2>1. ASSUME NEW e \in scan'.disks PROVE <<e.name, e.serial, e.place>> \in seen'
    BY <1>1, <1>2, <2>1 DEF ScanIInv, Remembered
  <2> QED
    BY <2>1, WorldKeeps DEF Remembered
<1>5. Kept'
  <2>1. ASSUME NEW e \in scan'.disks PROVE Same(e, then') \/ ~Same(e, bus')
    BY <1>1, <1>2, <2>1 DEF ScanIInv, Kept
  <2>2. ASSUME NEW e \in scan'.disks,
               (scan'.pc = "recheck" /\ e.name \notin scan'.todo) \/ scan'.pc = "verify"
        PROVE  Same(e, then')
    BY <1>1, <1>2, <2>2
  <2> QED
    BY <2>1, <2>2 DEF Kept
<1> QED
  BY <1>3, <1>4, <1>5 DEF ScanIInv, Reported

\* A later reading that is equal finds the disk where it was read first.
LEMMA ReadHere ==
    ASSUME ScanIInv, NEW d \in scan.disks, Readable(d.name), Identity(read_one(d.name)) = Identity(d)
    PROVE  Same(d, bus)
<1>1. d.name \in Names /\ Machines
  BY DEF ScanIInv, ScanTyped, ScanRecord, DiskRecord
<1>2. read_one(d.name).serial = bus[d.name].serial /\ read_one(d.name).place = bus[d.name].place
  BY <1>1, ReadOne
<1>3. read_one(d.name).serial = d.serial /\ read_one(d.name).place = d.place
  BY DEF Identity
<1> QED
  BY <1>2, <1>3 DEF Same, Readable

\* So it was there when the listing ended.
LEMMA ReadAgain ==
    ASSUME ScanIInv, scan.pc \in {"recheck", "verify"}, NEW d \in scan.disks, Readable(d.name),
           Identity(read_one(d.name)) = Identity(d)
    PROVE  Same(d, then)
  BY ReadHere DEF ScanIInv, Kept

LEMMA RecheckKeeps ==
    ASSUME ScanIInv, ScanRecheck
    PROVE  ScanIInv'
<1>1. PICK d \in scan.disks :
        /\ d.name \in scan.todo
        /\ IF ~Readable(d.name) \/ Identity(read_one(d.name)) # Identity(d) THEN Fail
           ELSE scan' = [scan EXCEPT !.todo = @ \ {d.name},
                          !.disks = IF cal # {} \/ d.slot = NoSlot \/ StillMapped(d) THEN @
                                    ELSE (@ \ {d}) \cup {Unmapped(d)}]
  BY Zenon DEF ScanRecheck
<1>2. scan.pc = "recheck" /\ UNCHANGED <<world, then>>
  BY DEF ScanRecheck
<1>3. CASE ~Readable(d.name) \/ Identity(read_one(d.name)) # Identity(d)
  BY <1>1, <1>2, <1>3, FailKeeps
<1>4. CASE Readable(d.name) /\ Identity(read_one(d.name)) = Identity(d)
  <2> DEFINE u == Unmapped(d)
             D == IF cal # {} \/ d.slot = NoSlot \/ StillMapped(d) THEN scan.disks
                  ELSE (scan.disks \ {d}) \cup {u}
  <2>1. Same(d, then)
    BY <1>2, <1>4, ReadAgain
  <2>2. d \in DiskRecord
    BY DEF ScanIInv, ScanTyped, ScanRecord
  <2>3. u \in DiskRecord /\ SameDisk(u, d)
    BY <2>2, UnmappedDisk
  <2>4. scan' = [scan EXCEPT !.todo = @ \ {d.name}, !.disks = D]
    BY <1>1, <1>4
  <2> HIDE DEF u
  <2>5. D = scan.disks \/ D = (scan.disks \ {d}) \cup {u}
    OBVIOUS
  <2> HIDE DEF D
  <2>6. D \subseteq DiskRecord
    BY <2>3, <2>5 DEF ScanIInv, ScanTyped, ScanRecord
  <2>7. /\ scan' \in ScanRecord /\ scan'.pc = "recheck" /\ scan'.todo = scan.todo \ {d.name}
        /\ scan'.members = scan.members /\ scan'.disks = D
    BY <1>2, <2>4, <2>6 DEF ScanIInv, ScanTyped, ScanRecord
  <2>8. \A e \in D : SameDisk(e, e)
    BY DEF SameDisk
  <2>9. \A e \in D : \E x \in scan.disks : SameDisk(e, x)
    BY <2>3, <2>5, <2>8
  <2>10. \A x, y \in D : x.name = y.name => x = y
    <3>1. \A x, y \in scan.disks : x.name = y.name => x = y
      BY DEF ScanIInv, ScanTyped
    <3>2. u.name = d.name
      BY <2>3 DEF SameDisk
    <3>3. CASE D = scan.disks
      BY <3>1, <3>3
    <3>4. CASE D = (scan.disks \ {d}) \cup {u}
      <4>1. \A x \in D : x = u \/ (x \in scan.disks /\ x.name # u.name)
        BY <3>1, <3>2, <3>4
      <4> QED
        BY <3>1, <4>1
    <3> QED
      BY <2>5, <3>3, <3>4
  <2>11. \A x \in scan.disks : x.name \notin scan'.todo => Same(x, then)
    <3>1. SUFFICES ASSUME NEW x \in scan.disks, x.name \notin scan'.todo PROVE Same(x, then)
      OBVIOUS
    <3>2. CASE x.name = d.name
      BY <2>1, <3>2 DEF ScanIInv, ScanTyped
    <3>3. CASE x.name # d.name
      BY <1>2, <2>7, <3>1, <3>3 DEF ScanIInv, Kept
    <3> QED
      BY <3>2, <3>3
  <2> QED
    BY <1>2, <2>7, <2>9, <2>10, <2>11, RemapKeeps
<1> QED
  BY <1>3, <1>4

LEMMA ControllersKeeps ==
    ASSUME ScanIInv, ScanControllers
    PROVE  ScanIInv'
<1> DEFINE f(d) == IF d.source = "single" THEN Unmapped(d) ELSE d
           M == {f(d) : d \in scan.disks}
           D == IF scan.auto = {} \/ single_sata_controller(machine.ctrls) = scan.auto THEN scan.disks ELSE M
           t == Present(bus)
<1>1. scan.pc = "recheck" /\ scan.todo = {} /\ UNCHANGED <<world, then>>
  BY DEF ScanControllers
<1>2. CASE ~(scan.members \subseteq Present(bus))
  BY <1>1, <1>2, FailKeeps DEF ScanControllers
<1>3. CASE scan.members \subseteq Present(bus)
  <2>1. scan' = [scan EXCEPT !.pc = "verify", !.todo = t, !.disks = D]
    BY <1>3 DEF ScanControllers
  <2>2. \A d \in scan.disks : f(d) \in DiskRecord /\ SameDisk(f(d), d)
    <3>1. SUFFICES ASSUME NEW d \in scan.disks PROVE f(d) \in DiskRecord /\ SameDisk(f(d), d)
      OBVIOUS
    <3>2. d \in DiskRecord /\ SameDisk(d, d)
      BY DEF ScanIInv, ScanTyped, ScanRecord, SameDisk
    <3> QED
      BY <3>2, UnmappedDisk, Zenon
  <2>3. \A e \in M : \E d \in scan.disks : e = f(d)
    OBVIOUS
  <2>4. D = scan.disks \/ D = M
    OBVIOUS
  <2>5. t \in SUBSET Names
    BY DEF Present
  <2> HIDE DEF f, M, D, t
  <2>6. \A e \in M : e \in DiskRecord /\ \E d \in scan.disks : SameDisk(e, d)
    BY <2>2, <2>3
  <2>7. D \subseteq DiskRecord
    BY <2>4, <2>6 DEF ScanIInv, ScanTyped, ScanRecord
  <2>8. /\ scan' \in ScanRecord /\ scan'.pc = "verify" /\ scan'.disks = D
        /\ scan'.members = scan.members
    BY <2>1, <2>5, <2>7 DEF ScanIInv, ScanTyped, ScanRecord
  <2>9. \A e \in D : \E d \in scan.disks : SameDisk(e, d)
    <3>1. \A d \in scan.disks : SameDisk(d, d)
      BY DEF SameDisk
    <3> QED
      BY <2>4, <2>6, <3>1, Zenon
  <2>10. \A x, y \in D : x.name = y.name => x = y
    <3>1. \A x, y \in scan.disks : x.name = y.name => x = y
      BY DEF ScanIInv, ScanTyped
    <3>2. CASE D = scan.disks
      BY <3>1, <3>2
    <3>3. CASE D = M
      <4>1. SUFFICES ASSUME NEW x \in M, NEW y \in M, x.name = y.name PROVE x = y
        BY <3>3
      <4>2. PICK a \in scan.disks : x = f(a)
        BY <2>3
      <4>3. PICK b \in scan.disks : y = f(b)
        BY <2>3
      <4>4. x.name = a.name /\ y.name = b.name
        BY <2>2, <4>2, <4>3, Zenon DEF SameDisk
      <4>5. a = b
        BY <3>1, <4>1, <4>4
      <4> QED
        BY <4>2, <4>3, <4>5
    <3> QED
      BY <2>4, <3>2, <3>3
  <2>11. \A d \in scan.disks : Same(d, then)
    BY <1>1 DEF ScanIInv, Kept
  <2> QED
    BY <1>1, <2>8, <2>9, <2>10, <2>11, RemapKeeps
<1> QED
  BY <1>2, <1>3

LEMMA VerifyKeeps ==
    ASSUME ScanIInv, ScanVerify
    PROVE  ScanIInv'
<1>1. scan.pc = "verify" /\ UNCHANGED <<world, then>>
  BY DEF ScanVerify
<1>2. PICK n \in scan.todo : Fail \/ scan' = [scan EXCEPT !.todo = @ \ {n}]
  BY DEF ScanVerify
<1>3. CASE Fail
  BY <1>1, <1>3, FailKeeps
<1>4. CASE scan' = [scan EXCEPT !.todo = @ \ {n}]
  <2>1. /\ scan' \in ScanRecord /\ scan'.pc = "verify" /\ scan'.disks = scan.disks
        /\ scan'.members = scan.members
    BY <1>1, <1>4 DEF ScanIInv, ScanTyped, ScanRecord
  <2>2. \A d \in scan.disks : SameDisk(d, d)
    BY DEF SameDisk
  <2>3. \A x, y \in scan'.disks : x.name = y.name => x = y
    BY <2>1 DEF ScanIInv, ScanTyped
  <2>4. \A d \in scan.disks : Same(d, then)
    BY <1>1 DEF ScanIInv, Kept
  <2> QED
    BY <1>1, <2>1, <2>2, <2>3, <2>4, RemapKeeps
<1> QED
  BY <1>2, <1>3, <1>4

\* What the report says of a disk, before and after conflicts are cleared.
EntryOf(d) == [names |-> {e.name : e \in Group(d)}, serial |-> d.serial, place |-> d.place,
               iface |-> d.iface, slot |-> d.slot, led |-> d.led, source |-> d.source]

LEMMA UnmappedEntry ==
    ASSUME NEW e \in Entry
    PROVE  /\ Unmapped(e) \in Entry /\ Unmapped(e).names = e.names
           /\ Unmapped(e).serial = e.serial /\ Unmapped(e).place = e.place
<1>1. ASSUME NEW s \in Slots, NEW l \in 0..8, NEW x \in Sources
      PROVE  /\ Put(e, s, l, x) \in Entry /\ Put(e, s, l, x).names = e.names
             /\ Put(e, s, l, x).serial = e.serial /\ Put(e, s, l, x).place = e.place
  BY DEF Put, Entry
<1>2. NoSlot \in Slots /\ 0 \in 0..8 /\ "unknown" \in Sources
  BY DEF NoSlot, Slots, Sources
<1>3. Unmapped(e) = Put(e, NoSlot, 0, "unknown")
  BY Zenon DEF Unmapped, Put
<1> QED
  BY <1>1, <1>2, <1>3

LEMMA DoneKeeps ==
    ASSUME ScanIInv, ScanDone
    PROVE  ScanIInv'
<1>1. scan.pc = "verify" /\ UNCHANGED <<world, then>>
  BY DEF ScanDone
<1>2. CASE ~(SameMembers /\ Coalescible)
  BY <1>1, <1>2, FailKeeps DEF ScanDone
<1>3. CASE SameMembers /\ Coalescible
  <2> DEFINE R == Resolved(Coalesced)
  <2>1. scan' = [scan EXCEPT !.pc = "done", !.report = R]
    BY <1>3 DEF ScanDone
  <2>2. ASSUME NEW d \in scan.disks
        PROVE  /\ EntryOf(d) \in Entry /\ EntryOf(d).serial = d.serial /\ EntryOf(d).place = d.place
               /\ \A n \in EntryOf(d).names : \E e \in Group(d) : n = e.name
    <3>1. d \in DiskRecord /\ \A e \in Group(d) : e.name \in Names
      BY <2>2 DEF Group, ScanIInv, ScanTyped, ScanRecord, DiskRecord
    <3>2. {e.name : e \in Group(d)} \subseteq Names
      BY <3>1
    <3> QED
      BY <3>1, <3>2 DEF EntryOf, Entry, DiskRecord
  <2>3. \A c \in Coalesced : \E d \in scan.disks : c = EntryOf(d)
    BY DEF Coalesced, EntryOf
  <2>4. \A e \in R : \E c \in Coalesced : e = c \/ e = Unmapped(c)
    BY DEF Resolved
  <2> HIDE DEF R
  <2>5. ASSUME NEW e \in R
        PROVE  /\ e \in Entry
               /\ \A n \in e.names : \E d \in scan.disks : d.name = n /\ d.serial = e.serial /\ d.place = e.place
    <3>1. PICK c \in Coalesced : e = c \/ e = Unmapped(c)
      BY <2>4, <2>5
    <3>2. PICK d \in scan.disks : c = EntryOf(d)
      BY <2>3
    <3>3. c \in Entry
      BY <2>2, <3>2
    <3>4. e \in Entry /\ e.names = c.names /\ e.serial = c.serial /\ e.place = c.place
      BY <3>1, <3>3, UnmappedEntry
    <3>5. c.serial = d.serial /\ c.place = d.place /\ \A n \in c.names : \E x \in Group(d) : n = x.name
      BY <2>2, <3>2
    <3>6. \A x \in Group(d) : x \in scan.disks /\ x.serial = d.serial /\ x.place = d.place
      BY <1>3 DEF Coalescible, Claim, Group
    <3> QED
      BY <3>4, <3>5, <3>6
  <2>6. R \subseteq Entry
    BY <2>5
  <2>7. /\ scan' \in ScanRecord /\ scan'.pc = "done" /\ scan'.disks = scan.disks
        /\ scan'.members = scan.members /\ scan'.report = R
    BY <1>1, <2>1, <2>6 DEF ScanIInv, ScanTyped, ScanRecord
  <2>8. bus' = bus /\ then' = then /\ seen' = seen
    BY <1>1 DEF world
  <2>9. ScanTyped'
    BY <1>1, <2>7, <2>8, WorldKeeps DEF ScanIInv, ScanTyped
  <2>10. Remembered'
    BY <1>1, <2>7, <2>8, WorldKeeps DEF ScanIInv, Remembered
  <2>11. Kept'
    BY <1>1, <2>7, <2>8 DEF ScanIInv, Kept
  <2>12. Reported'
    BY <2>5, <2>7 DEF Reported
  <2> QED
    BY <2>9, <2>10, <2>11, <2>12 DEF ScanIInv
<1> QED
  BY <1>2, <1>3

LEMMA ScanStepKeeps == ScanIInv /\ ScanStep => ScanIInv'
  BY BeginKeeps, EntryKeeps, EnumeratedKeeps, RecheckKeeps, ControllersKeeps, VerifyKeeps, DoneKeeps DEF ScanStep

-----------------------------------------------------------------------------
(* The disk commands. *)

LEMMA ScanStarts == Init => ScanIInv
<1> SUFFICES ASSUME Init PROVE ScanIInv
  OBVIOUS
<1>1. PICK x \in Situations : ScanInit(x.machine)
  BY DEF Init
<1>2. WellFormed(x.machine)
  BY CliAssumption
<1>3. Machines
  BY <1>1, <1>2 DEF ScanInit, WellFormed, Machines
<1>4. /\ scan = Start /\ then = bus
      /\ seen = {<<n, bus[n].serial, bus[n].place>> : n \in Present(bus)}
  BY <1>1 DEF ScanInit
<1>5. /\ scan \in ScanRecord /\ scan.pc = "start" /\ scan.disks = {} /\ scan.members = {}
      /\ scan.todo = {} /\ scan.report = {}
  BY <1>4 DEF Start, ScanRecord
<1>6. IsFiniteSet(scan.members) /\ Cardinality(scan.members) = 0
  BY <1>5, FS_EmptySet
<1>7. ScanTyped
  BY <1>3, <1>4, <1>5, <1>6, DiskAssumption DEF ScanTyped, Machines
<1>8. Remembered
  BY <1>4, <1>5 DEF Remembered
<1> QED
  BY <1>5, <1>7, <1>8 DEF ScanIInv, Kept, Reported

LEMMA ScanNext == ScanIInv /\ [Next]_cliVars => ScanIInv'
<1> SUFFICES ASSUME ScanIInv, [Next]_cliVars PROVE ScanIInv'
  OBVIOUS
<1>1. ASSUME UNCHANGED scanVars PROVE ScanIInv'
  <2>1. UNCHANGED <<world, scan, then>> /\ UNCHANGED <<model, routing, machine, bus, cal, moves, seen>>
    BY <1>1 DEF scanVars, world
  <2> QED
    BY <2>1, WorldKeeps DEF ScanIInv, ScanTyped, Remembered, Kept, Reported
<1>2. CASE Scan
  BY <1>2, ScanStepKeeps DEF Scan
<1>3. CASE Bus
  BY <1>3, HotPlugKeeps DEF Bus
<1>4. CASE ScanFailed \/ List \/ Locate \/ LedCommand \/ Light \/ LightsAround \/ Finished \/ UNCHANGED cliVars
  <2>1. UNCHANGED scanVars
    BY <1>4, Zenon DEF ScanFailed, List, Locate, LedCommand, Light, LightsAround, Finished, cliVars
  <2> QED
    BY <1>1, <2>1
<1> QED
  BY <1>2, <1>3, <1>4 DEF Next, CommandStep

\* What the invariant says of a finished scan.
LEMMA ScanSays == ScanIInv => Snapshot /\ ScanTypeOK
<1> SUFFICES ASSUME ScanIInv PROVE Snapshot /\ ScanTypeOK
  OBVIOUS
<1>1. Snapshot
  <2>1. SUFFICES ASSUME scan.pc = "done", NEW e \in scan.report, NEW n \in e.names
                 PROVE  then[n] # Absent /\ then[n].serial = e.serial /\ then[n].place = e.place
    BY DEF Snapshot
  <2>2. PICK d \in scan.disks : d.name = n /\ d.serial = e.serial /\ d.place = e.place
    BY <2>1 DEF ScanIInv, Reported
  <2>3. Same(d, then)
    BY <2>1, <2>2 DEF ScanIInv, Kept
  <2> QED
    BY <2>2, <2>3 DEF Same
<1>2. ScanTypeOK
  BY DEF ScanIInv, ScanTyped, Machines, ScanRecord, DiskRecord, ScanTypeOK
<1> QED
  BY <1>1, <1>2

\* A successful scan is a snapshot: although the disks are listed, read, read again and
\* listed twice more at different times, while disks and an add-in card come and go, every
\* reported name had the reported serial and place at one moment (ugreenctl_disk_scan,
\* disk.c:1429-1708), for any machine and any number of disks and hot-plug events, as long
\* as no pulled disk returns to the same name and place while the scan runs.
THEOREM SnapshotAlways == Spec => []Snapshot
<1>1. Spec => []ScanIInv
  BY ScanStarts, ScanNext, PTL DEF Spec
<1> QED
  BY <1>1, ScanSays, PTL

-----------------------------------------------------------------------------
(* The lights. *)

\* What an LED session works with.
Kinds == {"none", "set", "identify"}
Reasons == {"none", "set", "effect", "restore", "restore_mode"}
Results == {"none", "ok", "interrupted", "refused", "failed", "restore_failed"}
Op == [light : Lights, patch : Patch]
Colors == {"orig", "eff", "user"}
Modes == {"off", "on", "blink"}
Timings == {"orig", "eff", "user", "default", "mixed", "none"}
Cmd ==
    [set : {"color"}, to : Colors] \cup [set : {"bri"}, to : 0..2] \cup [set : {"mode"}, to : Modes]
    \cup [set : {"blink", "delay_on", "delay_off"}, to : Timings] \cup [set : {"trigger"}, to : {"none", "timer"}]
Sent == Fields \cup {"trigger", "delay_on", "delay_off"}
Session ==
    [pc : {"idle", "open", "read", "save", "begin", "write", "check", "wait", "done"},
     backend : {"mcu", "sysfs"}, kind : Kinds, targets : Seq(Lights), ops : Seq(Op), at : Nat \ {0},
     patch : Patch, why : Reasons, cmds : Seq(Cmd), sent : SUBSET Sent, saved : Lamp,
     tick : 0..MaxTicks - 1, effect : {"ok", "failed"}, done : Nat, result : Results]

LedTyped ==
    /\ lamps \in [Lights -> Lamp] /\ touched \subseteq Lights /\ Askable(request)
    /\ disturbed \in BOOLEAN /\ owner \in BOOLEAN /\ cancelled \in BOOLEAN
    /\ session \in Session /\ Len(session.cmds) <= 6

\* Where a session is in its targets and operations.
Before == {"idle", "open", "read", "save"}
After == {"begin", "write", "check", "wait"}
Positions ==
    /\ session.pc = "idle" => session.kind = "none" /\ session.at = 1
    /\ session.pc \notin {"idle", "done"} => session.kind # "none"
    /\ session.pc # "done" => session.result = "none"
    /\ session.pc \in Before => session.done = 0 /\ session.why = "none"
    /\ session.at <= Len(session.targets) + 1 \/ session.at <= Len(session.ops)
    /\ session.pc \in After \cup {"save"} => session.at <= Len(session.ops) /\ session.done < session.at
    /\ session.done <= Len(session.ops)
    /\ session.kind # "none" => Len(session.ops) >= 1
    /\ session.kind = "identify" => Len(session.ops) = 1
    /\ \A i \in 1..Len(session.ops) : session.ops[i].light \in Asked

\* Why it writes: `set` has one reason, an identify always something to write.
Purpose ==
    /\ session.pc \in After => session.why # "none"
    /\ session.why # "none" => (session.why = "set" <=> session.kind = "set")
    /\ session.pc \in {"save", "wait"} => session.kind = "identify"
    /\ session.kind = "identify" /\ session.pc \in After => session.patch.fields # {}
    /\ ~request.apply =>
        /\ session.kind # "identify" /\ session.patch.fields = {} /\ session.pc \notin {"save", "write", "check", "wait"}
        /\ \A i \in 1..Len(session.ops) : session.ops[i].patch.fields = {}

\* What it has done to the lights since it began.
Untouched == \A l \in Lights \ touched : lamps[l] = first[l]
History ==
    /\ session.pc \in Before \/ session.result = "refused" \/ ~request.apply => Untouched
    /\ \A l \in Lights \ (Asked \cup touched) : lamps[l] = first[l]
    /\ session.kind = "identify" /\ (session.pc \in After \/ (session.pc = "done" /\ session.result # "refused")) =>
        (Target \notin touched => session.saved = first[Target])
    /\ session.kind = "identify" /\ session.pc = "done" /\ session.result \in {"ok", "interrupted", "failed"} =>
        lamps[Target] = session.saved

LedIInv == LedTyped /\ Positions /\ Purpose /\ History

LEMMA SeqOfFunction ==
    ASSUME NEW S, NEW n \in Nat, NEW f \in [1..n -> S]
    PROVE  f \in Seq(S) /\ Len(f) = n
<1>1. f \in Seq(S)
  BY SeqDef
<1> QED
  BY <1>1, LenProperties

LEMMA OneElement ==
    ASSUME NEW S, NEW x \in S
    PROVE  <<x>> \in Seq(S) /\ Len(<<x>>) = 1 /\ <<x>>[1] = x
  OBVIOUS

\* The quotient and the remainder that pick a target and an action.
LEMMA Quotient ==
    ASSUME NEW n \in Nat, NEW m \in Nat, NEW k \in 1..n * m
    PROVE  /\ 1 + ((k - 1) % n) \in 1..n
           /\ 1 + ((k - 1) \div n) \in 1..m
<1>1. n > 0 /\ m > 0 /\ k - 1 \in Nat
  OBVIOUS
<1> DEFINE q == (k - 1) \div n
           r == (k - 1) % n
<1>2. q \in Int /\ r \in 0..n - 1 /\ k - 1 = n * q + r
  BY <1>1
<1> HIDE DEF q, r
<1>3. q >= 0
  BY <1>1, <1>2
<1>4. q < m
  BY <1>1, <1>2
<1> QED
  BY <1>1, <1>2, <1>3, <1>4 DEF q, r

LEMMA PerformType ==
    ASSUME NEW b \in {"mcu", "sysfs"}, NEW l \in Lamp, NEW c \in Cmd
    PROVE  Perform(b, l, c) \in Lamp
<1>1. ASSUME NEW x \in Colors PROVE [l EXCEPT !.color = x] \in Lamp
  BY DEF Lamp, Colors
<1>2. ASSUME NEW x \in 0..2 PROVE [l EXCEPT !.bri = x] \in Lamp
  BY DEF Lamp
<1>3. ASSUME NEW x \in Modes PROVE [l EXCEPT !.mode = x] \in Lamp
  BY DEF Lamp, Modes
<1>4. ASSUME NEW x \in Timings
      PROVE  [l EXCEPT !.mode = "blink", !.timing = x] \in Lamp /\ [l EXCEPT !.timing = x] \in Lamp
  BY DEF Lamp, Timings
<1>5. ASSUME NEW x \in 0..2 PROVE Steady(l, x) \in Lamp
  BY DEF Lamp, Steady
<1>6. [l EXCEPT !.mode = "blink", !.timing = "default", !.bri = IF @ = 0 THEN MaxBri(b) ELSE @] \in Lamp
  <2> DEFINE v == IF l.bri = 0 THEN MaxBri(b) ELSE l.bri
  <2>1. v \in 0..2
    BY DEF Lamp, MaxBri
  <2>2. [l EXCEPT !.mode = "blink", !.timing = "default", !.bri = IF @ = 0 THEN MaxBri(b) ELSE @]
         = [l EXCEPT !.mode = "blink", !.timing = "default", !.bri = v]
    BY Zenon
  <2> HIDE DEF v
  <2>3. [l EXCEPT !.mode = "blink", !.timing = "default", !.bri = v] \in Lamp
    BY <2>1 DEF Lamp
  <2> QED
    BY <2>2, <2>3, Zenon
<1>7. [l EXCEPT !.timing = "mixed"] \in Lamp
  BY DEF Lamp
<1>8. CASE c \in [set : {"color"}, to : Colors]
  BY <1>1, <1>8, Zenon DEF Perform
<1>9. CASE c \in [set : {"bri"}, to : 0..2]
  <2>1. c.set = "bri" /\ c.to \in 0..2
    BY <1>9
  <2>2. CASE b = "mcu"
    BY <1>2, <2>1, <2>2, Zenon DEF Perform
  <2>3. CASE b = "sysfs"
    BY <1>2, <1>5, <2>1, <2>3, Zenon DEF Perform
  <2> QED
    BY <2>2, <2>3
<1>10. CASE c \in [set : {"mode"}, to : Modes]
  BY <1>3, <1>10, Zenon DEF Perform
<1>11. CASE c \in [set : {"blink", "delay_on", "delay_off"}, to : Timings]
  <2>1. c.set \in {"blink", "delay_on", "delay_off"} /\ c.to \in Timings
    BY <1>11
  <2>2. CASE c.set = "blink"
    BY <1>4, <2>1, <2>2, Zenon DEF Perform
  <2>3. CASE c.set = "delay_on"
    BY <1>7, <2>3, Zenon DEF Perform
  <2>4. CASE c.set = "delay_off"
    BY <1>4, <2>1, <2>4, Zenon DEF Perform
  <2> QED
    BY <2>1, <2>2, <2>3, <2>4
<1>12. CASE c \in [set : {"trigger"}, to : {"none", "timer"}]
  <2>1. c.set = "trigger" /\ c.to \in {"none", "timer"} /\ 0 \in 0..2
    BY <1>12
  <2>2. CASE c.to = "none"
    BY <1>5, <2>1, <2>2, Zenon DEF Perform
  <2>3. CASE c.to = "timer"
    BY <1>6, <2>1, <2>3, Zenon DEF Perform
  <2> QED
    BY <2>1, <2>2, <2>3
<1> QED
  BY <1>8, <1>9, <1>10, <1>11, <1>12 DEF Cmd

LEMMA CommandType ==
    ASSUME NEW set, NEW to, [set |-> set, to |-> to] \in Cmd
    PROVE  Command(set, to) \in Seq(Cmd) /\ Len(Command(set, to)) = 1
  BY OneElement DEF Command

LEMMA WhenType ==
    ASSUME NEW c, NEW s \in Seq(Cmd)
    PROVE  When(c, s) \in Seq(Cmd) /\ Len(When(c, s)) <= Len(s) /\ Len(When(c, s)) \in Nat
  BY EmptySeq, LenProperties DEF When

LEMMA PatchParts ==
    ASSUME NEW p \in Patch
    PROVE  /\ p.fields \subseteq Fields /\ p.value \in Lamp
           /\ p.value.color \in Colors /\ p.value.bri \in 0..2 /\ p.value.mode \in Modes /\ p.value.timing \in Timings
  BY DEF Patch, Lamp, Colors, Modes, Timings

LEMMA McuCommandsType ==
    ASSUME NEW p \in Patch
    PROVE  McuCommands(p) \in Seq(Cmd) /\ Len(McuCommands(p)) <= 3
<1> DEFINE a == Command("color", p.value.color)
           b == Command("bri", p.value.bri)
           c == IF p.value.mode = "blink" THEN Command("blink", p.value.timing) ELSE Command("mode", p.value.mode)
           x == When("color" \in p.fields, a)
           y == When("bri" \in p.fields, b)
           z == When("mode" \in p.fields, c)
<1>1. a \in Seq(Cmd) /\ Len(a) = 1 /\ b \in Seq(Cmd) /\ Len(b) = 1 /\ c \in Seq(Cmd) /\ Len(c) = 1
  <2>1. /\ [set |-> "color", to |-> p.value.color] \in Cmd /\ [set |-> "bri", to |-> p.value.bri] \in Cmd
        /\ [set |-> "blink", to |-> p.value.timing] \in Cmd /\ [set |-> "mode", to |-> p.value.mode] \in Cmd
    BY PatchParts DEF Cmd
  <2> QED
    BY <2>1, CommandType, Zenon
<1>2. McuCommands(p) = (x \o y) \o z
  BY DEF McuCommands
<1> HIDE DEF a, b, c
<1>3. x \in Seq(Cmd) /\ Len(x) <= 1 /\ y \in Seq(Cmd) /\ Len(y) <= 1 /\ z \in Seq(Cmd) /\ Len(z) <= 1
  <2>1. x \in Seq(Cmd) /\ Len(x) <= Len(a)
    BY <1>1, WhenType, Zenon
  <2>2. y \in Seq(Cmd) /\ Len(y) <= Len(b)
    BY <1>1, WhenType, Zenon
  <2>3. z \in Seq(Cmd) /\ Len(z) <= Len(c)
    BY <1>1, WhenType, Zenon
  <2> QED
    BY <1>1, <2>1, <2>2, <2>3
<1> HIDE DEF x, y, z
<1>4. x \o y \in Seq(Cmd) /\ Len(x \o y) = Len(x) + Len(y)
  BY <1>3, ConcatProperties
<1>5. (x \o y) \o z \in Seq(Cmd) /\ Len((x \o y) \o z) = Len(x \o y) + Len(z)
  BY <1>3, <1>4, ConcatProperties
<1>6. Len(x) \in Nat /\ Len(y) \in Nat /\ Len(z) \in Nat
  BY <1>3, LenProperties
<1> QED
  BY <1>2, <1>3, <1>4, <1>5, <1>6

LEMMA SysfsCommandsType ==
    ASSUME NEW p \in Patch, NEW l \in Lamp
    PROVE  SysfsCommands(p, l) \in Seq(Cmd) /\ Len(SysfsCommands(p, l)) <= 4
<1> DEFINE v == CASE p.value.mode = "off" -> 0
                  [] "bri" \in p.fields -> p.value.bri
                  [] OTHER -> IF l.bri = 0 THEN MaxBri("sysfs") ELSE l.bri
           a == Command("color", p.value.color)
           b == Command("bri", p.value.bri)
           t == Command("trigger", "none")
           w == Command("bri", v)
           c == t \o w
           x == When("color" \in p.fields, a)
           y == When("bri" \in p.fields, b)
           z == When("mode" \in p.fields, c)
<1>1. v \in 0..2
  BY PatchParts DEF Lamp, MaxBri
<1>2. SysfsCommands(p, l) = (x \o y) \o z
  BY DEF SysfsCommands
<1> HIDE DEF v
<1>3. /\ a \in Seq(Cmd) /\ Len(a) = 1 /\ b \in Seq(Cmd) /\ Len(b) = 1
      /\ t \in Seq(Cmd) /\ Len(t) = 1 /\ w \in Seq(Cmd) /\ Len(w) = 1
  <2>1. /\ [set |-> "color", to |-> p.value.color] \in Cmd /\ [set |-> "bri", to |-> p.value.bri] \in Cmd
        /\ [set |-> "trigger", to |-> "none"] \in Cmd /\ [set |-> "bri", to |-> v] \in Cmd
    BY <1>1, PatchParts DEF Cmd
  <2> QED
    BY <2>1, CommandType, Zenon
<1> HIDE DEF a, b, t, w, x, y, z
<1>4. c \in Seq(Cmd) /\ Len(c) = 2
  <2>1. t \o w \in Seq(Cmd) /\ Len(t \o w) = Len(t) + Len(w)
    BY <1>3, ConcatProperties, Zenon
  <2> QED
    BY <1>3, <2>1
<1> HIDE DEF c
<1>5. x \in Seq(Cmd) /\ Len(x) <= 1 /\ y \in Seq(Cmd) /\ Len(y) <= 1 /\ z \in Seq(Cmd) /\ Len(z) <= 2
  <2>1. x \in Seq(Cmd) /\ Len(x) <= Len(a)
    BY <1>3, WhenType, Zenon DEF x
  <2>2. y \in Seq(Cmd) /\ Len(y) <= Len(b)
    BY <1>3, WhenType, Zenon DEF y
  <2>3. z \in Seq(Cmd) /\ Len(z) <= Len(c)
    BY <1>4, WhenType, Zenon DEF z
  <2> QED
    BY <1>3, <1>4, <2>1, <2>2, <2>3
<1>6. x \o y \in Seq(Cmd) /\ Len(x \o y) = Len(x) + Len(y)
  BY <1>5, ConcatProperties
<1>7. (x \o y) \o z \in Seq(Cmd) /\ Len((x \o y) \o z) = Len(x \o y) + Len(z)
  BY <1>5, <1>6, ConcatProperties
<1>8. Len(x) \in Nat /\ Len(y) \in Nat /\ Len(z) \in Nat
  BY <1>5, LenProperties
<1> QED
  BY <1>2, <1>5, <1>6, <1>7, <1>8

LEMMA SysfsRestoreType ==
    ASSUME session.saved \in Lamp
    PROVE  SysfsRestore \in Seq(Cmd) /\ Len(SysfsRestore) <= 6
<1> DEFINE s == session.saved
           n == IF s.mode = "blink" THEN "timer" ELSE "none"
           a == Command("trigger", "none")
           b == Command("color", s.color)
           c == Command("bri", s.bri)
           d == Command("trigger", n)
           x == Command("delay_on", s.timing)
           y == Command("delay_off", s.timing)
           e == When(s.mode = "blink", x \o y)
<1>1. /\ [set |-> "trigger", to |-> "none"] \in Cmd /\ [set |-> "color", to |-> s.color] \in Cmd
      /\ [set |-> "bri", to |-> s.bri] \in Cmd /\ [set |-> "trigger", to |-> n] \in Cmd
      /\ [set |-> "delay_on", to |-> s.timing] \in Cmd /\ [set |-> "delay_off", to |-> s.timing] \in Cmd
  BY DEF Lamp, Cmd, Colors, Timings
<1>2. SysfsRestore = (((a \o b) \o c) \o d) \o e
  BY DEF SysfsRestore
<1>3. /\ a \in Seq(Cmd) /\ Len(a) = 1 /\ b \in Seq(Cmd) /\ Len(b) = 1 /\ c \in Seq(Cmd) /\ Len(c) = 1
      /\ d \in Seq(Cmd) /\ Len(d) = 1 /\ x \in Seq(Cmd) /\ Len(x) = 1 /\ y \in Seq(Cmd) /\ Len(y) = 1
  BY <1>1, CommandType, Zenon
<1> HIDE DEF a, b, c, d, x, y
<1>4. x \o y \in Seq(Cmd) /\ Len(x \o y) = 2
  BY <1>3, ConcatProperties, SMTT(30)
<1>5. e \in Seq(Cmd) /\ Len(e) <= Len(x \o y)
  BY <1>4, WhenType, Zenon
<1> HIDE DEF e
<1>6. a \o b \in Seq(Cmd) /\ Len(a \o b) = 2
  BY <1>3, ConcatProperties
<1>7. (a \o b) \o c \in Seq(Cmd) /\ Len((a \o b) \o c) = 3
  BY <1>3, <1>6, ConcatProperties
<1>8. ((a \o b) \o c) \o d \in Seq(Cmd) /\ Len(((a \o b) \o c) \o d) = 4
  BY <1>3, <1>7, ConcatProperties
<1>9. (((a \o b) \o c) \o d) \o e \in Seq(Cmd) /\ Len((((a \o b) \o c) \o d) \o e) = 4 + Len(e)
  BY <1>5, <1>8, ConcatProperties
<1>10. Len(e) \in Nat
  BY <1>5, LenProperties
<1> QED
  BY <1>2, <1>4, <1>5, <1>9, <1>10

LEMMA OwnPatches ==
    ASSUME session \in Session
    PROVE  /\ \A tick \in Nat : EffectPatch(tick) \in Patch /\ EffectPatch(tick).fields # {}
           /\ RestorePatch \in Patch /\ RestorePatch.fields # {}
           /\ ModePatch \in Patch /\ ModePatch.fields # {}
           /\ NoPatch \in Patch /\ NoPatch.fields = {}
           /\ [fields |-> Fields, value |-> session.saved] \in Patch /\ Fields # {}
<1>1. session.saved \in Lamp
  BY DEF Session
<1>2. ASSUME NEW tick \in Nat PROVE EffectPatch(tick) \in Patch /\ EffectPatch(tick).fields # {}
  BY DEF EffectPatch, MaxBri, Patch, Fields, Lamp
<1>3. RestorePatch \in Patch /\ RestorePatch.fields # {}
  BY <1>1 DEF RestorePatch, Patch, Fields, Lamp
<1>4. ModePatch \in Patch /\ ModePatch.fields # {}
  BY <1>1 DEF ModePatch, Patch, Fields
<1>5. NoPatch \in Patch /\ NoPatch.fields = {}
  BY DEF NoPatch, Patch, Fields, Lamp
<1>6. [fields |-> Fields, value |-> session.saved] \in Patch /\ Fields # {}
  BY <1>1 DEF Patch, Fields
<1> QED
  BY <1>2, <1>3, <1>4, <1>5, <1>6

-----------------------------------------------------------------------------
(* Where a session goes once it has begun to write. *)

\* A step that goes on with the command, or ends it.
Onward ==
    /\ session' \in Session /\ Len(session'.cmds) <= 6 /\ Positions' /\ Purpose'
    /\ session'.kind = session.kind /\ session'.targets = session.targets /\ session'.ops = session.ops
    /\ session'.saved = session.saved /\ session'.result # "refused" /\ session'.pc \in After \cup {"done"}
    /\ session.kind = "identify" => session'.at = session.at
\* It does not say that an identify succeeded.
Unfinished == session.kind = "identify" => session'.result \notin {"ok", "interrupted", "failed"}

LEMMA QuitOnward ==
    ASSUME LedIInv, session.pc \in After, UNCHANGED request, NEW r \in Results \ {"refused"}, Quit(r)
    PROVE  Onward /\ session'.result = r /\ session'.pc = "done"
<1>1. session \in Session /\ Positions /\ Purpose /\ Len(session.cmds) <= 6
  BY DEF LedIInv, LedTyped
<1>2. /\ session' \in Session /\ session'.pc = "done" /\ session'.result = r
      /\ session'.kind = session.kind /\ session'.targets = session.targets /\ session'.ops = session.ops
      /\ session'.saved = session.saved /\ session'.at = session.at /\ session'.cmds = session.cmds
      /\ session'.why = session.why /\ session'.patch = session.patch /\ session'.done = session.done
  BY <1>1 DEF Quit, Session
<1>3. Asked' = Asked
  BY <1>2 DEF Asked
<1>4. Positions'
  BY <1>1, <1>2, <1>3 DEF Positions, Before, After
<1>5. Purpose'
  BY <1>1, <1>2 DEF Purpose, After
<1> QED
  BY <1>1, <1>2, <1>4, <1>5 DEF Onward

\* A step within an operation, towards a patch of its own if it is an identify.
LEMMA GoOn ==
    ASSUME LedIInv, session.pc \in After, UNCHANGED request, session' \in Session, session'.pc \in After,
           Len(session'.cmds) <= 6,
           session'.kind = session.kind, session'.targets = session.targets, session'.ops = session.ops,
           session'.saved = session.saved, session'.at = session.at, session'.done = session.done,
           session'.result = session.result,
           session'.why = session.why \/ (session.kind = "identify" /\ session'.why \notin {"none", "set"}),
           session'.patch = session.patch \/ (session.kind = "identify" /\ session'.patch.fields # {}),
           session'.pc = "begin" \/ session.kind = "identify" \/ session.patch.fields # {} \/ request.apply,
           session'.pc # "wait" \/ session.kind = "identify"
    PROVE  Onward /\ Unfinished
<1>1. session \in Session /\ Positions /\ Purpose /\ request.apply \in BOOLEAN
  BY DEF LedIInv, LedTyped, Askable
<1>2. Asked' = Asked
  BY DEF Asked
<1>3. session.pc \notin Before \cup {"idle", "done"} /\ session'.pc \notin Before \cup {"idle", "done"}
  BY DEF Before, After
<1>4. Positions'
  BY <1>1, <1>2, <1>3 DEF Positions
<1>5. session.why # "none" /\ session'.why # "none"
  BY <1>1 DEF Purpose
<1>6. session'.kind = "identify" => session'.patch.fields # {}
  BY <1>1 DEF Purpose
<1>7. session'.why = "set" <=> session'.kind = "set"
  BY <1>1, <1>5 DEF Purpose
<1>8. ~request.apply =>
        /\ session'.kind # "identify" /\ session'.patch.fields = {} /\ session'.pc \notin {"save", "write", "check", "wait"}
        /\ \A i \in 1..Len(session'.ops) : session'.ops[i].patch.fields = {}
  BY <1>1 DEF Purpose, After
<1>9. Purpose'
  <2>1. session'.pc \in {"save", "wait"} => session'.kind = "identify"
    BY DEF After
  <2> QED
    BY <1>5, <1>6, <1>7, <1>8, <2>1 DEF Purpose
<1>10. session.result = "none"
  BY <1>1, <1>3 DEF Positions
<1> QED
  BY <1>4, <1>9, <1>10 DEF Onward, Unfinished

LEMMA RestoreOnward ==
    ASSUME LedIInv, session.pc \in After, session.kind = "identify", UNCHANGED request,
           NEW e \in {"ok", "failed"}, RestoreNow(e)
    PROVE  Onward /\ Unfinished
<1>1. session \in Session /\ session.saved \in Lamp /\ Len(session.cmds) <= 6
  BY DEF LedIInv, LedTyped, Session
<1> DEFINE p == RestorePatch
           w == [fields |-> Fields, value |-> session.saved]
           c == SysfsRestore
<1>2. p \in Patch /\ p.fields # {} /\ w \in Patch /\ w.fields # {}
  BY <1>1, OwnPatches
<1>3. c \in Seq(Cmd) /\ Len(c) <= 6
  BY <1>1, SysfsRestoreType
<1>4. \/ session' = [session EXCEPT !.pc = "begin", !.patch = p, !.why = "restore", !.effect = e]
      \/ session' = [session EXCEPT !.pc = "write", !.patch = w, !.why = "restore", !.cmds = c, !.sent = {}, !.effect = e]
  BY DEF RestoreNow
<1> HIDE DEF p, w, c
<1>5. /\ session' \in Session /\ session'.pc \in {"begin", "write"} /\ Len(session'.cmds) <= 6
      /\ session'.kind = session.kind /\ session'.targets = session.targets /\ session'.ops = session.ops
      /\ session'.saved = session.saved /\ session'.at = session.at /\ session'.done = session.done
      /\ session'.result = session.result /\ session'.why = "restore" /\ session'.patch.fields # {}
  <2>1. CASE session' = [session EXCEPT !.pc = "begin", !.patch = p, !.why = "restore", !.effect = e]
    BY <1>1, <1>2, <2>1 DEF Session, Reasons
  <2>2. CASE session' = [session EXCEPT !.pc = "write", !.patch = w, !.why = "restore", !.cmds = c, !.sent = {}, !.effect = e]
    BY <1>1, <1>2, <1>3, <2>2 DEF Session, Reasons
  <2> QED
    BY <1>4, <2>1, <2>2
<1>6. session'.pc \in After
  BY <1>5 DEF After
<1> QED
  BY <1>5, <1>6, GoOn

LEMMA ReasonKnown ==
    ASSUME LedIInv, session.pc \in After
    PROVE  /\ session.why \in {"set", "effect", "restore", "restore_mode"}
           /\ session.why = "set" <=> session.kind = "set"
           /\ session.kind \in {"set", "identify"}
  BY DEF LedIInv, LedTyped, Session, Purpose, Positions, After, Reasons, Kinds

LEMMA FailedOnward ==
    ASSUME LedIInv, session.pc \in After, UNCHANGED request, Failed
    PROVE  Onward /\ Unfinished
<1>1. CASE session.why = "set"
  <2>1. Quit("failed") /\ "failed" \in Results \ {"refused"}
    BY <1>1 DEF Failed, Results
  <2> QED
    BY <1>1, <2>1, QuitOnward, ReasonKnown DEF Unfinished
<1>2. CASE session.why = "effect"
  <2>1. RestoreNow("failed") /\ session.kind = "identify"
    BY <1>2, ReasonKnown DEF Failed
  <2> QED
    BY <2>1, RestoreOnward
<1>3. CASE session.why \in {"restore", "restore_mode"}
  <2>1. Quit("restore_failed") /\ "restore_failed" \in Results \ {"refused"}
    BY <1>3 DEF Failed, Results
  <2>2. Onward /\ session'.result = "restore_failed"
    BY <2>1, QuitOnward
  <2> QED
    BY <2>2 DEF Unfinished
<1> QED
  BY <1>1, <1>2, <1>3, ReasonKnown

LEMMA NextOpOnward ==
    ASSUME LedIInv, session.pc \in After, session.kind = "set", UNCHANGED request, NextOp
    PROVE  Onward
<1> DEFINE d == session.done + (IF session.patch.fields = {} THEN 0 ELSE 1)
           p == session.ops[session.at + 1].patch
<1>1. session \in Session /\ Positions /\ Purpose /\ Len(session.cmds) <= 6
  BY DEF LedIInv, LedTyped
<1>2. /\ session.at <= Len(session.ops) /\ session.done < session.at /\ session.at \in Nat \ {0}
      /\ session.done \in Nat /\ Len(session.ops) \in Nat /\ session.ops \in Seq(Op)
  BY <1>1, LenProperties DEF Positions, Session
<1>3. d \in Nat /\ d <= session.at
  BY <1>2
<1>4. session.why = "set"
  BY ReasonKnown
<1>5. session' = IF session.at = Len(session.ops)
                 THEN [session EXCEPT !.pc = "done", !.result = "ok", !.done = d]
                 ELSE [session EXCEPT !.pc = "begin", !.at = @ + 1, !.done = d, !.patch = p]
  BY DEF NextOp
<1>6. session.at # Len(session.ops) => p \in Patch /\ (~request.apply => p.fields = {})
  <2>1. SUFFICES ASSUME session.at # Len(session.ops) PROVE p \in Patch /\ (~request.apply => p.fields = {})
    OBVIOUS
  <2>2. session.at + 1 \in 1..Len(session.ops)
    BY <1>2, <2>1
  <2>3. session.ops[session.at + 1] \in Op
    BY <1>2, <2>2, ElementOfSeq
  <2> QED
    BY <1>1, <2>2, <2>3 DEF Purpose, Op
<1> HIDE DEF d, p
<1>7. Asked' = Asked
  <2>1. session'.targets = session.targets
    BY <1>1, <1>3, <1>5, <1>6 DEF Session
  <2> QED
    BY <2>1 DEF Asked
<1>8. CASE session.at = Len(session.ops)
  <2>1. /\ session' \in Session /\ session'.pc = "done" /\ session'.result = "ok" /\ session'.done = d
        /\ session'.kind = session.kind /\ session'.targets = session.targets /\ session'.ops = session.ops
        /\ session'.saved = session.saved /\ session'.at = session.at /\ session'.cmds = session.cmds
        /\ session'.why = session.why /\ session'.patch = session.patch
    BY <1>1, <1>3, <1>5, <1>8 DEF Session, Results
  <2>2. Positions'
    BY <1>1, <1>2, <1>3, <1>7, <1>8, <2>1 DEF Positions, Before, After
  <2>3. Purpose'
    BY <1>1, <2>1 DEF Purpose, After
  <2> QED
    BY <1>1, <2>1, <2>2, <2>3 DEF Onward
<1>9. CASE session.at # Len(session.ops)
  <2>1. /\ session' \in Session /\ session'.pc = "begin" /\ session'.result = session.result /\ session'.done = d
        /\ session'.kind = session.kind /\ session'.targets = session.targets /\ session'.ops = session.ops
        /\ session'.saved = session.saved /\ session'.at = session.at + 1 /\ session'.cmds = session.cmds
        /\ session'.why = session.why /\ session'.patch = p
    <3> DEFINE n == session.at + 1
    <3>1. n \in Nat \ {0} /\ d \in Nat /\ p \in Patch
      BY <1>2, <1>3, <1>6, <1>9
    <3>2. session' = [session EXCEPT !.pc = "begin", !.at = n, !.done = d, !.patch = p]
      BY <1>5, <1>9
    <3> HIDE DEF n
    <3>3. /\ session' \in Session /\ session'.pc = "begin" /\ session'.result = session.result /\ session'.done = d
          /\ session'.kind = session.kind /\ session'.targets = session.targets /\ session'.ops = session.ops
          /\ session'.saved = session.saved /\ session'.at = n /\ session'.cmds = session.cmds
          /\ session'.why = session.why /\ session'.patch = p
      BY <1>1, <3>1, <3>2 DEF Session
    <3> QED
      BY <3>3 DEF n
  <2>2. session.result = "none"
    BY <1>1 DEF Positions, After
  <2>3. Positions'
    BY <1>1, <1>2, <1>3, <1>7, <1>9, <2>1, <2>2 DEF Positions, Before, After
  <2>4. Purpose'
    BY <1>1, <1>4, <1>6, <1>9, <2>1 DEF Purpose, After
  <2> QED
    BY <1>1, <2>1, <2>2, <2>3, <2>4 DEF Onward, After
<1> QED
  BY <1>8, <1>9

LEMMA AppliedOnward ==
    ASSUME LedIInv, session.pc \in {"check", "write"}, UNCHANGED request, NEW lamp, Applied(lamp)
    PROVE  Onward /\ (Unfinished \/ lamp = session.saved)
<1>0. session.pc \in After /\ session \in Session /\ Len(session.cmds) <= 6
  BY DEF After, LedIInv, LedTyped
<1>1. CASE session.why = "set"
  <2>1. NextOp /\ session.kind = "set"
    BY <1>0, <1>1, ReasonKnown DEF Applied
  <2> QED
    BY <1>0, <2>1, NextOpOnward DEF Unfinished
<1>2. CASE session.why = "effect"
  <2>1. session' = [session EXCEPT !.pc = "wait"] /\ session.kind = "identify"
    BY <1>0, <1>2, ReasonKnown DEF Applied
  <2>2. /\ session' \in Session /\ session'.pc = "wait" /\ session'.cmds = session.cmds
        /\ session'.kind = session.kind /\ session'.targets = session.targets /\ session'.ops = session.ops
        /\ session'.saved = session.saved /\ session'.at = session.at /\ session'.done = session.done
        /\ session'.result = session.result /\ session'.why = session.why /\ session'.patch = session.patch
    BY <1>0, <2>1 DEF Session
  <2>3. session'.pc \in After
    BY <2>2 DEF After
  <2> QED
    BY <1>0, <2>1, <2>2, <2>3, GoOn
<1>3. CASE session.why \in {"restore", "restore_mode"}
  <2>1. \/ Apply(ModePatch, "restore_mode")
        \/ Restored(lamp)
    BY <1>3 DEF Applied
  <2>2. session.kind = "identify"
    BY <1>0, <1>3, ReasonKnown
  <2>3. CASE Apply(ModePatch, "restore_mode")
    <3> DEFINE p == ModePatch
    <3>1. p \in Patch /\ p.fields # {}
      BY <1>0, OwnPatches
    <3>2. session' = [session EXCEPT !.pc = "begin", !.patch = p, !.why = "restore_mode"]
      BY <2>3 DEF Apply
    <3> HIDE DEF p
    <3>3. /\ session' \in Session /\ session'.pc = "begin" /\ session'.cmds = session.cmds
          /\ session'.kind = session.kind /\ session'.targets = session.targets /\ session'.ops = session.ops
          /\ session'.saved = session.saved /\ session'.at = session.at /\ session'.done = session.done
          /\ session'.result = session.result /\ session'.why = "restore_mode" /\ session'.patch = p
      BY <1>0, <3>1, <3>2 DEF Session, Reasons
    <3>4. session'.pc \in After
      BY <3>3 DEF After
    <3> QED
      BY <1>0, <2>2, <3>1, <3>3, <3>4, GoOn
  <2>4. CASE Restored(lamp)
    <3>1. CASE lamp = session.saved
      <4>1. Quit(Outcome) /\ Outcome \in Results \ {"refused"}
        BY <2>4, <3>1 DEF Restored, Outcome, Results
      <4> QED
        BY <1>0, <3>1, <4>1, QuitOnward
    <3>2. CASE lamp # session.saved
      <4>1. Quit("restore_failed") /\ "restore_failed" \in Results \ {"refused"}
        BY <2>4, <3>2 DEF Restored, Results
      <4>2. Onward /\ session'.result = "restore_failed"
        BY <1>0, <4>1, QuitOnward
      <4> QED
        BY <4>2 DEF Unfinished
    <3> QED
      BY <3>1, <3>2
  <2> QED
    BY <2>1, <2>3, <2>4
<1> QED
  BY <1>0, <1>1, <1>2, <1>3, ReasonKnown

LEMMA TargetType ==
    ASSUME LedIInv, session.pc \in After \cup {"save"}
    PROVE  Target \in Lights /\ Target \in Asked
<1>1. session.at \in 1..Len(session.ops)
  BY LenProperties DEF LedIInv, LedTyped, Session, Positions
<1>2. session.ops[session.at] \in Op
  BY <1>1, ElementOfSeq DEF LedIInv, LedTyped, Session
<1> QED
  BY <1>1, <1>2 DEF Target, Op, LedIInv, Positions

\* A step onward, with or without a write to the target, keeps the invariant.
LEMMA OnwardKeeps ==
    ASSUME LedIInv, session.pc \in After, Onward,
           UNCHANGED <<first, touched, request, disturbed, owner>>, cancelled' \in BOOLEAN,
           lamps' = lamps \/ (session.pc = "write" /\ session.cmds # <<>> /\ lamps' = Written),
           Unfinished \/ (lamps' = lamps /\ lamps[Target] = session.saved)
    PROVE  LedIInv'
<1>1. /\ session \in Session /\ lamps \in [Lights -> Lamp] /\ Askable(request) /\ request.apply \in BOOLEAN
      /\ touched \subseteq Lights /\ disturbed \in BOOLEAN /\ owner \in BOOLEAN
  BY DEF LedIInv, LedTyped, Askable
<1>2. Target \in Lights /\ Target \in Asked
  BY TargetType
<1>3. lamps' \in [Lights -> Lamp] /\ \A l \in Lights : l # Target => lamps'[l] = lamps[l]
  <2>1. CASE lamps' = lamps
    BY <1>1, <2>1
  <2>2. CASE session.cmds # <<>> /\ lamps' = Written
    <3> DEFINE x == Perform(session.backend, lamps[Target], Head(session.cmds))
    <3>1. Head(session.cmds) \in Cmd
      BY <1>1, <2>2, HeadTailProperties DEF Session
    <3>2. x \in Lamp
      BY <1>1, <1>2, <3>1, PerformType DEF Session
    <3>3. lamps' = [lamps EXCEPT ![Target] = x]
      BY <2>2 DEF Written
    <3> HIDE DEF x
    <3> QED
      BY <1>1, <1>2, <3>2, <3>3
  <2> QED
    BY <2>1, <2>2
<1>4. LedTyped'
  BY <1>1, <1>3 DEF LedTyped, Onward
<1>5. Asked' = Asked
  BY DEF Asked, Onward
<1>6. session.kind = "identify" => Target' = Target
  BY DEF Target, Onward
<1>7. session'.pc \notin Before /\ session'.result # "refused" /\ session'.kind = session.kind
      /\ session'.saved = session.saved
  BY DEF Onward, Before, After
<1>8. ~request.apply => Untouched'
  <2>1. SUFFICES ASSUME ~request.apply PROVE Untouched'
    OBVIOUS
  <2>2. session.pc # "write" /\ Untouched
    BY <2>1 DEF LedIInv, Purpose, History
  <2> QED
    BY <2>2 DEF Untouched
<1>9. \A l \in Lights \ (Asked' \cup touched') : lamps'[l] = first'[l]
  <2>1. \A l \in Lights \ (Asked \cup touched) : lamps[l] = first[l]
    BY DEF LedIInv, History
  <2> QED
    BY <1>2, <1>3, <1>5, <2>1
<1>10. ASSUME session'.kind = "identify" PROVE Target' \notin touched' => session'.saved = first'[Target']
  <2>1. Target \notin touched => session.saved = first[Target]
    BY <1>7, <1>10 DEF LedIInv, History
  <2> QED
    BY <1>6, <1>7, <1>10, <2>1
<1>11. ASSUME session'.kind = "identify", session'.result \in {"ok", "interrupted", "failed"}
       PROVE  lamps'[Target'] = session'.saved
  BY <1>6, <1>7, <1>11 DEF Unfinished
<1>12. History'
  BY <1>7, <1>8, <1>9, <1>10, <1>11, Zenon DEF History
<1> QED
  BY <1>4, <1>12 DEF LedIInv, Onward

-----------------------------------------------------------------------------
(* The steps of a session. *)

LEMMA LedBeginKeeps ==
    ASSUME LedIInv, LedBegin, UNCHANGED request
    PROVE  LedIInv'
<1>1. session.pc = "begin" /\ session.pc \in After /\ session \in Session /\ lamps \in [Lights -> Lamp]
  BY DEF LedBegin, After, LedIInv, LedTyped
<1>2. UNCHANGED <<lamps, first, touched, request, disturbed, owner>> /\ cancelled' \in BOOLEAN
  BY DEF LedBegin, LedRest, LedIInv, LedTyped
<1>3. CASE Failed
  BY <1>1, <1>2, <1>3, FailedOnward, OnwardKeeps
<1>4. CASE session.patch.fields = {} /\ NextOp
  <2>1. session.kind = "set"
    BY <1>1, <1>4, ReasonKnown DEF LedIInv, Purpose
  <2> QED
    BY <1>1, <1>2, <1>4, <2>1, NextOpOnward, OnwardKeeps DEF Unfinished
<1>5. CASE session.patch.fields # {} /\ session' = [session EXCEPT !.pc = "write", !.sent = {},
                                                      !.cmds = Commands(session.patch, lamps[Target])]
  <2> DEFINE c == Commands(session.patch, lamps[Target])
  <2>1. c \in Seq(Cmd) /\ Len(c) <= 6
    <3>1. session.patch \in Patch /\ lamps[Target] \in Lamp
      BY <1>1, TargetType DEF Session
    <3>2. /\ McuCommands(session.patch) \in Seq(Cmd) /\ Len(McuCommands(session.patch)) <= 3
          /\ SysfsCommands(session.patch, lamps[Target]) \in Seq(Cmd)
          /\ Len(SysfsCommands(session.patch, lamps[Target])) <= 4
      BY <3>1, McuCommandsType, SysfsCommandsType
    <3>3. c = McuCommands(session.patch) \/ c = SysfsCommands(session.patch, lamps[Target])
      BY DEF Commands
    <3> QED
      BY <3>2, <3>3, LenProperties
  <2>2. session' = [session EXCEPT !.pc = "write", !.sent = {}, !.cmds = c]
    BY <1>5
  <2> HIDE DEF c
  <2>3. /\ session' \in Session /\ session'.pc = "write" /\ session'.cmds = c
        /\ session'.kind = session.kind /\ session'.targets = session.targets /\ session'.ops = session.ops
        /\ session'.saved = session.saved /\ session'.at = session.at /\ session'.done = session.done
        /\ session'.result = session.result /\ session'.why = session.why /\ session'.patch = session.patch
    BY <1>1, <2>1, <2>2 DEF Session
  <2>4. session'.pc \in After
    BY <2>3 DEF After
  <2>5. Onward /\ Unfinished
    BY <1>1, <1>2, <1>5, <2>1, <2>3, <2>4, GoOn
  <2> QED
    BY <1>1, <1>2, <2>5, OnwardKeeps
<1> QED
  BY <1>3, <1>4, <1>5 DEF LedBegin

LEMMA LedWriteKeeps ==
    ASSUME LedIInv, LedWrite, UNCHANGED request
    PROVE  LedIInv'
<1>1. /\ session.pc = "write" /\ session.cmds # <<>> /\ session.pc \in After /\ session \in Session
      /\ Len(session.cmds) <= 6
  BY DEF LedWrite, After, LedIInv, LedTyped
<1>2. UNCHANGED <<first, touched, request, disturbed, owner>> /\ cancelled' \in BOOLEAN
  BY DEF LedWrite, LedIInv, LedTyped
<1>3. CASE Failed /\ lamps' \in {lamps, Written}
  BY <1>1, <1>2, <1>3, FailedOnward, OnwardKeeps
<1>4. CASE /\ lamps' = Written
           /\ session' = IF session.backend = "mcu"
                        THEN [session EXCEPT !.pc = "check", !.cmds = Tail(@), !.sent = Compared(Head(session.cmds))]
                        ELSE [session EXCEPT !.cmds = Tail(@)]
  <2> DEFINE c == Tail(session.cmds)
             f == Compared(Head(session.cmds))
  <2>1. c \in Seq(Cmd) /\ Len(c) <= 6 /\ Head(session.cmds) \in Cmd
    BY <1>1, HeadTailProperties, LenProperties DEF Session
  <2>2. session.backend = "mcu" => f \subseteq Sent
    BY <2>1 DEF Compared, Cmd, Sent, Fields
  <2>3. session' = IF session.backend = "mcu" THEN [session EXCEPT !.pc = "check", !.cmds = c, !.sent = f]
                   ELSE [session EXCEPT !.cmds = c]
    BY <1>4
  <2> HIDE DEF c, f
  <2>4. /\ session' \in Session /\ session'.pc \in {"check", "write"} /\ session'.cmds = c
        /\ session'.kind = session.kind /\ session'.targets = session.targets /\ session'.ops = session.ops
        /\ session'.saved = session.saved /\ session'.at = session.at /\ session'.done = session.done
        /\ session'.result = session.result /\ session'.why = session.why /\ session'.patch = session.patch
    BY <1>1, <2>1, <2>2, <2>3 DEF Session
  <2>5. session'.pc \in After
    BY <2>4 DEF After
  <2>6. request.apply
    BY <1>1 DEF LedIInv, Purpose
  <2>7. Onward /\ Unfinished
    BY <1>1, <1>2, <2>1, <2>4, <2>5, <2>6, GoOn
  <2> QED
    BY <1>1, <1>2, <1>4, <2>7, OnwardKeeps
<1> QED
  BY <1>3, <1>4 DEF LedWrite

LEMMA LedCheckKeeps ==
    ASSUME LedIInv, LedCheck, UNCHANGED request
    PROVE  LedIInv'
<1>1. /\ session.pc = "check" /\ session.pc \in After /\ session \in Session
      /\ Len(session.cmds) <= 6 /\ request.apply
  BY DEF LedCheck, After, LedIInv, LedTyped, Purpose
<1>2. UNCHANGED <<lamps, first, touched, request, disturbed, owner>> /\ cancelled' \in BOOLEAN
  BY DEF LedCheck, LedRest, LedIInv, LedTyped
<1>3. CASE Failed
  BY <1>1, <1>2, <1>3, FailedOnward, OnwardKeeps
<1>4. CASE session' = [session EXCEPT !.pc = "write"]
  <2>1. /\ session' \in Session /\ session'.pc = "write" /\ session'.cmds = session.cmds
        /\ session'.kind = session.kind /\ session'.targets = session.targets /\ session'.ops = session.ops
        /\ session'.saved = session.saved /\ session'.at = session.at /\ session'.done = session.done
        /\ session'.result = session.result /\ session'.why = session.why /\ session'.patch = session.patch
    BY <1>1, <1>4 DEF Session
  <2>2. session'.pc \in After
    BY <2>1 DEF After
  <2>3. Onward /\ Unfinished
    BY <1>1, <1>2, <2>1, <2>2, GoOn
  <2> QED
    BY <1>1, <1>2, <2>3, OnwardKeeps
<1>5. CASE Applied(lamps[Target])
  BY <1>1, <1>2, <1>5, AppliedOnward, OnwardKeeps
<1> QED
  BY <1>3, <1>4, <1>5, Zenon DEF LedCheck

LEMMA LedSysfsCheckKeeps ==
    ASSUME LedIInv, LedSysfsCheck, UNCHANGED request
    PROVE  LedIInv'
<1>1. session.pc = "write" /\ session.pc \in After
  BY DEF LedSysfsCheck, After
<1>2. UNCHANGED <<lamps, first, touched, request, disturbed, owner>> /\ cancelled' \in BOOLEAN
  BY DEF LedSysfsCheck, LedRest, LedIInv, LedTyped
<1>3. CASE Failed
  BY <1>1, <1>2, <1>3, FailedOnward, OnwardKeeps
<1>4. CASE Applied(lamps[Target])
  BY <1>1, <1>2, <1>4, AppliedOnward, OnwardKeeps
<1> QED
  BY <1>3, <1>4, Zenon DEF LedSysfsCheck

LEMMA LedWaitKeeps ==
    ASSUME LedIInv, LedWait, UNCHANGED request
    PROVE  LedIInv'
<1>1. session.pc = "wait" /\ session.pc \in After /\ session \in Session /\ Len(session.cmds) <= 6
  BY DEF LedWait, After, LedIInv, LedTyped
<1>2. UNCHANGED <<lamps, first, touched, request, disturbed, owner>> /\ cancelled' \in BOOLEAN
  BY DEF LedWait, LedRest, LedIInv, LedTyped
<1>3. session.kind = "identify"
  BY <1>1 DEF LedIInv, Purpose
<1>4. CASE WaitOver
  BY <1>1, <1>2, <1>3, <1>4, RestoreOnward, OnwardKeeps DEF LedWait
<1>5. CASE ~WaitOver
  <2> DEFINE n == session.tick + 1
             p == EffectPatch(session.tick + 1)
  <2>1. session.tick \in 0..MaxTicks - 1 /\ session.tick + 1 # MaxTicks
    BY <1>1, <1>5 DEF Session, WaitOver
  <2>2. n \in 0..MaxTicks - 1 /\ n \in Nat
    BY <2>1, LedAssumption
  <2>3. p \in Patch /\ p.fields # {}
    BY <1>1, <2>2, OwnPatches
  <2>4. session' = [session EXCEPT !.pc = "begin", !.tick = n, !.patch = p]
    BY <1>5 DEF LedWait
  <2> HIDE DEF n, p
  <2>5. /\ session' \in Session /\ session'.pc = "begin" /\ session'.cmds = session.cmds
        /\ session'.kind = session.kind /\ session'.targets = session.targets /\ session'.ops = session.ops
        /\ session'.saved = session.saved /\ session'.at = session.at /\ session'.done = session.done
        /\ session'.result = session.result /\ session'.why = session.why /\ session'.patch = p
    BY <1>1, <2>2, <2>3, <2>4 DEF Session
  <2>6. session'.pc \in After
    BY <2>5 DEF After
  <2>7. Onward /\ Unfinished
    BY <1>1, <1>2, <1>3, <2>3, <2>5, <2>6, GoOn
  <2> QED
    BY <1>1, <1>2, <2>7, OnwardKeeps
<1> QED
  BY <1>4, <1>5

\* Before it writes, a session only moves; the lights are as they were.
LEMMA BeforeKeeps ==
    ASSUME LedIInv, session.pc \in Before, UNCHANGED <<lamps, first, touched, request, disturbed, owner, cancelled>>,
           session' \in Session, Len(session'.cmds) <= 6, Positions', Purpose',
           session'.kind = "identify" /\ session'.pc \in After => session'.saved = lamps[Target'],
           session'.pc = "done" => session'.kind # "identify" \/ session'.result = "refused"
    PROVE  LedIInv'
<1>1. Untouched /\ LedTyped
  BY DEF LedIInv, History
<1>2. LedTyped'
  BY <1>1 DEF LedTyped
<1>3. Untouched'
  BY <1>1 DEF Untouched
<1>4. \A l \in Lights \ (Asked' \cup touched') : lamps'[l] = first'[l]
  BY <1>1 DEF Untouched
<1>5. ASSUME session'.kind = "identify", session'.pc \in After
      PROVE  Target' \notin touched' => session'.saved = first'[Target']
  <2>1. Target' \in Lights
    <3>1. session'.at \in 1..Len(session'.ops)
      BY <1>2, <1>5, LenProperties DEF Positions, Session
    <3>2. session'.ops[session'.at] \in Op
      BY <3>1, ElementOfSeq DEF Session
    <3> QED
      BY <3>2 DEF Target, Op
  <2> QED
    BY <1>1, <1>5, <2>1 DEF Untouched
<1>6. session'.pc \in After => session'.pc # "done"
  BY DEF After
<1>7. History'
  <2>1. session'.kind = "identify" /\ session'.pc = "done" => session'.result = "refused"
    OBVIOUS
  <2>2. "refused" \notin {"ok", "interrupted", "failed"}
    OBVIOUS
  <2> QED
    BY <1>3, <1>4, <1>5, <2>1, <2>2, Zenon DEF History
<1> QED
  BY <1>2, <1>7 DEF LedIInv

\* The command ends before it wrote anything.
LEMMA QuitBefore ==
    ASSUME LedIInv, session.pc \in Before, UNCHANGED <<lamps, first, touched, request, disturbed, owner, cancelled>>,
           NEW r \in Results, Quit(r), r = "refused" \/ session.kind = "none"
    PROVE  LedIInv'
<1>1. session \in Session /\ Positions /\ Purpose /\ Len(session.cmds) <= 6
  BY DEF LedIInv, LedTyped
<1>2. /\ session' \in Session /\ session'.pc = "done" /\ session'.result = r
      /\ session'.kind = session.kind /\ session'.targets = session.targets /\ session'.ops = session.ops
      /\ session'.saved = session.saved /\ session'.at = session.at /\ session'.cmds = session.cmds
      /\ session'.why = session.why /\ session'.patch = session.patch /\ session'.done = session.done
  BY <1>1 DEF Quit, Session
<1>3. Asked' = Asked
  BY <1>2 DEF Asked
<1>4. Positions'
  BY <1>1, <1>2, <1>3 DEF Positions, Before, After
<1>5. Purpose'
  BY <1>1, <1>2 DEF Purpose, Before, After
<1>6. session'.pc \notin After
  BY <1>2 DEF After
<1> QED
  BY <1>1, <1>2, <1>4, <1>5, <1>6, BeforeKeeps

LEMMA LedOpenKeeps ==
    ASSUME LedIInv, LedOpen, UNCHANGED request
    PROVE  LedIInv'
<1>1. /\ session.pc = "open" /\ session.pc \in Before /\ session \in Session
      /\ Positions /\ Purpose /\ Len(session.cmds) <= 6
  BY DEF LedOpen, Before, LedIInv, LedTyped
<1>2. UNCHANGED <<lamps, first, touched, request, disturbed, owner, cancelled>>
  BY DEF LedOpen, LedRest
<1>3. CASE Quit("refused")
  <2>1. "refused" \in Results
    BY DEF Results
  <2> QED
    BY <1>1, <1>2, <1>3, <2>1, QuitBefore
<1>4. CASE session' = [session EXCEPT !.pc = "read"]
  <2>1. /\ session' \in Session /\ session'.pc = "read" /\ session'.result = session.result
        /\ session'.kind = session.kind /\ session'.targets = session.targets /\ session'.ops = session.ops
        /\ session'.saved = session.saved /\ session'.at = session.at /\ session'.cmds = session.cmds
        /\ session'.why = session.why /\ session'.patch = session.patch /\ session'.done = session.done
    BY <1>1, <1>4 DEF Session
  <2>2. Asked' = Asked
    BY <2>1 DEF Asked
  <2>3. Positions'
    BY <1>1, <2>1, <2>2 DEF Positions, Before, After
  <2>4. Purpose'
    BY <1>1, <1>2, <2>1 DEF Purpose, After
  <2>5. session'.pc \notin After /\ session'.pc # "done"
    BY <2>1 DEF After
  <2> QED
    BY <1>1, <1>2, <2>1, <2>3, <2>4, <2>5, BeforeKeeps
<1> QED
  BY <1>3, <1>4 DEF LedOpen

LEMMA LedReadKeeps ==
    ASSUME LedIInv, LedRead, UNCHANGED request
    PROVE  LedIInv'
<1>1. /\ session.pc = "read" /\ session.pc \in Before /\ session \in Session
      /\ Positions /\ Purpose /\ Len(session.cmds) <= 6
  BY DEF LedRead, Before, LedIInv, LedTyped
<1>2. UNCHANGED <<lamps, first, touched, request, disturbed, owner, cancelled>>
  BY DEF LedRead, LedRest
<1>3. CASE Quit("refused")
  <2>1. "refused" \in Results
    BY DEF Results
  <2> QED
    BY <1>1, <1>2, <1>3, <2>1, QuitBefore
<1>4. /\ session.kind \in {"set", "identify"} /\ Len(session.ops) >= 1 /\ Len(session.ops) \in Nat
      /\ session.at \in Nat \ {0} /\ Len(session.targets) \in Nat /\ session.ops \in Seq(Op)
      /\ session.done = 0 /\ session.why = "none" /\ session.result = "none"
  BY <1>1, LenProperties DEF Positions, Session, Kinds
<1> DEFINE p == session.ops[1].patch
           n == session.at + 1
           one == 1
<1>5. p \in Patch /\ (~request.apply => p.fields = {})
  <2>1. 1 \in 1..Len(session.ops)
    BY <1>4
  <2>2. session.ops[1] \in Op
    BY <1>4, <2>1, ElementOfSeq
  <2> QED
    BY <1>1, <2>1, <2>2 DEF Op, Purpose
<1>6. n \in Nat \ {0} /\ n = session.at + 1 /\ one \in Nat \ {0} /\ one = 1
  BY <1>4
<1> HIDE DEF one
<1>7. CASE session' = IF session.at < Len(session.targets) THEN [session EXCEPT !.at = @ + 1]
                ELSE IF session.kind = "identify" THEN [session EXCEPT !.pc = "save", !.at = 1]
                ELSE [session EXCEPT !.pc = "begin", !.at = 1, !.why = "set", !.patch = session.ops[1].patch]
  <2>1. CASE session.at < Len(session.targets)
    <3>1. session' = [session EXCEPT !.at = n]
      BY <1>7, <2>1
    <3> HIDE DEF n, p
    <3>2. /\ session' \in Session /\ session'.pc = "read" /\ session'.result = session.result
          /\ session'.kind = session.kind /\ session'.targets = session.targets /\ session'.ops = session.ops
          /\ session'.saved = session.saved /\ session'.at = n /\ session'.cmds = session.cmds
          /\ session'.why = session.why /\ session'.patch = session.patch /\ session'.done = session.done
      BY <1>1, <1>6, <3>1 DEF Session
    <3>3. Asked' = Asked
      BY <3>2 DEF Asked
    <3>4. Positions'
      <4>1. \A i \in 1..Len(session'.ops) : session'.ops[i].light \in Asked'
        BY <1>1, <3>2, <3>3 DEF Positions
      <4>2. session'.at <= Len(session'.targets) + 1
        BY <1>4, <1>6, <2>1, <3>2
      <4>3. /\ session'.kind # "none" /\ Len(session'.ops) >= 1 /\ session'.done = 0 /\ session'.why = "none"
            /\ session'.result = "none" /\ session'.done <= Len(session'.ops)
            /\ session'.kind = "identify" => Len(session'.ops) = 1
        BY <1>1, <1>4, <3>2 DEF Positions
      <4>4. session'.pc # "idle" /\ session'.pc \notin After \cup {"save"}
        BY <3>2 DEF After
      <4> QED
        BY <4>1, <4>2, <4>3, <4>4, Zenon DEF Positions
    <3>5. Purpose'
      BY <1>1, <1>2, <3>2 DEF Purpose, After
    <3>6. session'.pc \notin After /\ session'.pc # "done"
      BY <3>2 DEF After
    <3> QED
      BY <1>1, <1>2, <3>2, <3>4, <3>5, <3>6, BeforeKeeps
  <2>2. CASE ~(session.at < Len(session.targets)) /\ session.kind = "identify"
    <3>1. session' = [session EXCEPT !.pc = "save", !.at = one]
      BY <1>6, <1>7, <2>2
    <3>2. /\ session' \in Session /\ session'.pc = "save" /\ session'.result = session.result
          /\ session'.kind = session.kind /\ session'.targets = session.targets /\ session'.ops = session.ops
          /\ session'.saved = session.saved /\ session'.at = 1 /\ session'.cmds = session.cmds
          /\ session'.why = session.why /\ session'.patch = session.patch /\ session'.done = session.done
      BY <1>1, <1>6, <3>1 DEF Session
    <3>3. Asked' = Asked
      BY <3>2 DEF Asked
    <3>4. Positions'
      BY <1>1, <1>4, <2>2, <3>2, <3>3 DEF Positions, Before, After
    <3>5. Purpose'
      <4>1. request'.apply /\ session'.why = "none" /\ session'.kind = "identify" /\ session'.pc \notin After
        BY <1>1, <1>2, <1>4, <2>2, <3>2 DEF Purpose, After, LedIInv, LedTyped, Askable
      <4> QED
        BY <4>1, Zenon DEF Purpose
    <3>6. session'.pc \notin After /\ session'.pc # "done"
      BY <3>2 DEF After
    <3> QED
      BY <1>1, <1>2, <3>2, <3>4, <3>5, <3>6, BeforeKeeps
  <2>3. CASE ~(session.at < Len(session.targets)) /\ session.kind # "identify"
    <3>1. session' = [session EXCEPT !.pc = "begin", !.at = one, !.why = "set", !.patch = p]
      BY <1>6, <1>7, <2>3
    <3> HIDE DEF n, p
    <3>2. /\ session' \in Session /\ session'.pc = "begin" /\ session'.result = session.result
          /\ session'.kind = session.kind /\ session'.targets = session.targets /\ session'.ops = session.ops
          /\ session'.saved = session.saved /\ session'.at = 1 /\ session'.cmds = session.cmds
          /\ session'.why = "set" /\ session'.patch = p /\ session'.done = session.done
      BY <1>1, <1>5, <1>6, <3>1 DEF Session, Reasons
    <3>3. Asked' = Asked
      BY <3>2 DEF Asked
    <3>4. Positions'
      BY <1>1, <1>4, <2>3, <3>2, <3>3 DEF Positions, Before, After
    <3>5. Purpose'
      BY <1>1, <1>2, <1>4, <1>5, <2>3, <3>2 DEF Purpose, After
    <3>6. session'.kind # "identify" /\ session'.pc # "done"
      BY <2>3, <3>2
    <3> QED
      BY <1>1, <1>2, <3>2, <3>4, <3>5, <3>6, BeforeKeeps
  <2> QED
    BY <2>1, <2>2, <2>3
<1> QED
  BY <1>3, <1>7 DEF LedRead

LEMMA LedSaveKeeps ==
    ASSUME LedIInv, LedSave, UNCHANGED request
    PROVE  LedIInv'
<1>1. /\ session.pc = "save" /\ session.pc \in Before /\ session \in Session
      /\ Positions /\ Purpose /\ Len(session.cmds) <= 6 /\ lamps \in [Lights -> Lamp]
  BY DEF LedSave, Before, LedIInv, LedTyped
<1>2. UNCHANGED <<lamps, first, touched, request, disturbed, owner, cancelled>>
  BY DEF LedSave, LedRest
<1>3. CASE Quit("refused")
  <2>1. "refused" \in Results
    BY DEF Results
  <2> QED
    BY <1>1, <1>2, <1>3, <2>1, QuitBefore
<1> DEFINE x == lamps[Target]
           p == EffectPatch(0)
<1>4. x \in Lamp /\ p \in Patch /\ p.fields # {}
  BY <1>1, TargetType, OwnPatches
<1>5. CASE session' = [session EXCEPT !.pc = "begin", !.saved = lamps[Target],
                                        !.patch = EffectPatch(0), !.why = "effect"]
  <2>1. session' = [session EXCEPT !.pc = "begin", !.saved = x, !.patch = p, !.why = "effect"]
    BY <1>5
  <2> HIDE DEF x, p
  <2>2. /\ session' \in Session /\ session'.pc = "begin" /\ session'.result = session.result
        /\ session'.kind = session.kind /\ session'.targets = session.targets /\ session'.ops = session.ops
        /\ session'.saved = x /\ session'.at = session.at /\ session'.cmds = session.cmds
        /\ session'.why = "effect" /\ session'.patch = p /\ session'.done = session.done
    BY <1>1, <1>4, <2>1 DEF Session, Reasons
  <2>3. Asked' = Asked /\ Target' = Target
    BY <2>2 DEF Asked, Target
  <2>4. Positions'
    BY <1>1, <2>2, <2>3 DEF Positions, Before, After
  <2>5. Purpose'
    BY <1>1, <1>2, <1>4, <2>2 DEF Purpose, After
  <2>6. session'.saved = lamps[Target'] /\ session'.pc # "done"
    BY <2>2, <2>3 DEF x
  <2> QED
    BY <1>1, <1>2, <2>2, <2>4, <2>5, <2>6, BeforeKeeps
<1> QED
  BY <1>3, <1>5 DEF LedSave

LEMMA LedStepKeeps == LedIInv /\ LedStep /\ UNCHANGED request => LedIInv'
  BY LedOpenKeeps, LedReadKeeps, LedSaveKeeps, LedBeginKeeps, LedWriteKeeps, LedCheckKeeps,
     LedSysfsCheckKeeps, LedWaitKeeps DEF LedStep

LEMMA SignalKeeps ==
    ASSUME LedIInv, UNCHANGED <<lamps, disturbed, session, first, touched, request>>,
           owner' \in BOOLEAN, cancelled' \in BOOLEAN
    PROVE  LedIInv'
<1>1. Asked' = Asked /\ Target' = Target
  BY DEF Asked, Target
<1>2. LedTyped'
  BY DEF LedIInv, LedTyped
<1>3. Positions' /\ Purpose'
  BY <1>1 DEF LedIInv, Positions, Purpose
<1>4. Untouched' <=> Untouched
  BY DEF Untouched
<1>5. History'
  BY <1>1, <1>4 DEF LedIInv, History
<1> QED
  BY <1>2, <1>3, <1>5 DEF LedIInv

LEMMA OwnerWritesKeeps ==
    ASSUME LedIInv, OwnerWrites, UNCHANGED request
    PROVE  LedIInv'
<1>1. /\ session.pc \notin {"idle", "done"} /\ UNCHANGED <<disturbed, owner, cancelled, session, first>>
      /\ session \in Session /\ lamps \in [Lights -> Lamp] /\ touched \subseteq Lights
  BY DEF OwnerWrites, Busy, LedIInv, LedTyped
<1>2. PICK l \in ToSet(session.targets) \ touched :
        lamps' = [lamps EXCEPT ![l].color = "user"] /\ touched' = touched \cup {l}
  BY DEF OwnerWrites
<1>3. l \in Lights
  <2>1. session.targets \in Seq(Lights)
    BY <1>1 DEF Session
  <2> QED
    BY <1>2, <2>1, LenProperties, ElementOfSeq DEF ToSet
<1> DEFINE r == lamps[l]
           x == [r EXCEPT !.color = "user"]
<1>4. r \in Lamp /\ lamps' = [lamps EXCEPT ![l] = x]
  BY <1>1, <1>2, <1>3
<1> HIDE DEF r
<1>5. x \in Lamp
  BY <1>4 DEF Lamp
<1> HIDE DEF x
<1>6. lamps' \in [Lights -> Lamp] /\ \A k \in Lights \ touched' : lamps'[k] = lamps[k]
  BY <1>1, <1>2, <1>3, <1>4, <1>5
<1>7. Asked' = Asked /\ Target' = Target
  BY <1>1 DEF Asked, Target
<1>8. LedTyped'
  BY <1>1, <1>2, <1>3, <1>6 DEF LedIInv, LedTyped
<1>9. Positions' /\ Purpose'
  BY <1>1, <1>7 DEF LedIInv, Positions, Purpose
<1>10. Untouched => Untouched'
  BY <1>1, <1>2, <1>6 DEF Untouched
<1>11. \A k \in Lights \ (Asked' \cup touched') : lamps'[k] = first'[k]
  BY <1>1, <1>2, <1>6, <1>7 DEF LedIInv, History
<1>12. ASSUME session.kind = "identify", session.pc \in After
       PROVE  Target' \notin touched' => session'.saved = first'[Target']
  BY <1>1, <1>2, <1>7, <1>12 DEF LedIInv, History
<1>13. session.pc \in Before \/ session.result = "refused" \/ ~request.apply => Untouched
  BY DEF LedIInv, History
<1>14. History'
  BY <1>1, <1>10, <1>11, <1>12, <1>13 DEF History
<1> QED
  BY <1>8, <1>9, <1>14 DEF LedIInv

-----------------------------------------------------------------------------
(* How a session starts. *)

LEMMA OnTargetsType ==
    ASSUME Askable(request), NEW a \in Seq(Patch)
    PROVE  /\ OnTargets(a) \in Seq(Op)
           /\ \A i \in 1..Len(OnTargets(a)) :
                /\ \E j \in 1..Len(request.targets) : OnTargets(a)[i].light = request.targets[j]
                /\ \E j \in 1..Len(a) : OnTargets(a)[i].patch = a[j]
<1> DEFINE n == Len(a)
           m == Len(request.targets)
           L(k) == request.targets[1 + ((k - 1) \div n)]
           P(k) == a[1 + ((k - 1) % n)]
           f == [k \in 1..n * m |-> [light |-> L(k), patch |-> P(k)]]
<1>1. n \in Nat /\ m \in Nat /\ request.targets \in Seq(Lights)
  BY LenProperties DEF Askable
<1>2. OnTargets(a) = f
  BY DEF OnTargets
<1>3. n * m \in Nat
  BY <1>1
<1>4. \A k \in 1..n * m :
        /\ 1 + ((k - 1) \div n) \in 1..m /\ 1 + ((k - 1) % n) \in 1..n
        /\ L(k) \in Lights /\ P(k) \in Patch
  <2>1. SUFFICES ASSUME NEW k \in 1..n * m
                 PROVE  /\ 1 + ((k - 1) \div n) \in 1..m /\ 1 + ((k - 1) % n) \in 1..n
                        /\ L(k) \in Lights /\ P(k) \in Patch
    OBVIOUS
  <2>2. 1 + ((k - 1) \div n) \in 1..m /\ 1 + ((k - 1) % n) \in 1..n
    BY <1>1, Quotient
  <2> QED
    BY <1>1, <2>2, ElementOfSeq
<1> DEFINE N == n * m
<1> HIDE DEF n, m, L, P
<1>5. f \in [1..N -> Op]
  BY <1>4 DEF Op
<1>6. N \in Nat
  BY <1>3
<1>7. f \in Seq(Op) /\ Len(f) = N
  BY <1>5, <1>6, SeqOfFunction
<1>8. \A i \in 1..N : f[i].light = L(i) /\ f[i].patch = P(i)
  OBVIOUS
<1> HIDE DEF f, N
<1>9. \A i \in 1..N : (\E j \in 1..m : L(i) = request.targets[j]) /\ (\E j \in 1..n : P(i) = a[j])
  BY <1>4 DEF L, P, N
<1> QED
  BY <1>2, <1>7, <1>8, <1>9 DEF n, m

LEMMA ActionsType ==
    ASSUME Askable(request)
    PROVE  /\ Actions \in Seq(Patch) /\ Reads \in Seq(Patch)
           /\ \A i \in 1..Len(Reads) : Reads[i].fields = {}
<1>1. Actions \in Seq(Patch)
  BY OneElement, MergedSays DEF Actions, Askable, Says
<1> DEFINE S == {j \in DOMAIN Actions : Actions[j].fields = {}}
           k == Cardinality(S)
<1>2. k \in Nat
  <2>1. DOMAIN Actions = 1..Len(Actions) /\ Len(Actions) \in Nat
    BY <1>1, LenProperties
  <2>2. IsFiniteSet(1..Len(Actions))
    BY <2>1, FS_Interval
  <2>3. IsFiniteSet(S)
    BY <2>1, <2>2, FS_Subset
  <2> QED
    BY <2>3, FS_CardinalityType
<1>3. Reads = [i \in 1..k |-> NoPatch]
  BY DEF Reads
<1> HIDE DEF k
<1>4. NoPatch \in Patch /\ NoPatch.fields = {}
  BY DEF NoPatch, Patch, Fields, Lamp
<1> HIDE DEF S
<1>5. [i \in 1..k |-> NoPatch] \in [1..k -> Patch]
  BY <1>4
<1>6. Reads \in Seq(Patch) /\ Len(Reads) = k
  BY <1>2, <1>3, <1>5, SeqOfFunction
<1> QED
  BY <1>1, <1>3, <1>4, <1>6

LEMMA StartedSession ==
    ASSUME session \in Session, NEW kind \in Kinds, NEW targets \in Seq(Lights), NEW ops \in Seq(Op)
    PROVE  [session EXCEPT !.pc = "open", !.kind = kind, !.targets = targets, !.ops = ops] \in Session
<1> DEFINE open == "open"
<1>1. open \in {"idle", "open", "read", "save", "begin", "write", "check", "wait", "done"}
  OBVIOUS
<1> HIDE DEF open
<1>2. [session EXCEPT !.pc = open, !.kind = kind, !.targets = targets, !.ops = ops] \in Session
  BY <1>1 DEF Session
<1> QED
  BY <1>2 DEF open

LEMMA StartKeeps ==
    ASSUME LedIInv, UNCHANGED request, NEW kind \in {"set", "identify"}, NEW targets \in Seq(Lights),
           NEW ops \in Seq(Op), LedStart(kind, targets, ops), Len(ops) >= 1, kind = "identify" => Len(ops) = 1,
           \A i \in 1..Len(ops) : \E j \in 1..Len(targets) : ops[i].light = targets[j],
           ~request.apply => kind = "set" /\ \A i \in 1..Len(ops) : ops[i].patch.fields = {}
    PROVE  LedIInv'
<1>1. /\ session.pc = "idle" /\ session \in Session /\ Positions /\ Purpose /\ Len(session.cmds) <= 6
      /\ session.at = 1 /\ session.done = 0 /\ session.why = "none" /\ session.result = "none"
  BY DEF LedStart, LedIInv, LedTyped, Positions, Before
<1>2. UNCHANGED <<lamps, disturbed, owner, cancelled, touched>> /\ first' = lamps
  BY DEF LedStart
<1>3. session' = [session EXCEPT !.pc = "open", !.kind = kind, !.targets = targets, !.ops = ops]
  BY DEF LedStart
<1>4. /\ session' \in Session /\ session'.pc = "open" /\ session'.result = "none" /\ session'.kind = kind
      /\ session'.targets = targets /\ session'.ops = ops /\ session'.at = 1 /\ session'.cmds = session.cmds
      /\ session'.why = "none" /\ session'.patch = session.patch /\ session'.done = 0
  <2>1. kind \in Kinds
    BY DEF Kinds
  <2>2. session' \in Session
    BY <1>1, <1>3, <2>1, StartedSession, ZenonT(30)
  <2>3. /\ session'.pc = "open" /\ session'.result = session.result /\ session'.kind = kind
        /\ session'.targets = targets /\ session'.ops = ops /\ session'.at = session.at
        /\ session'.cmds = session.cmds /\ session'.why = session.why /\ session'.patch = session.patch
        /\ session'.done = session.done
    BY <1>1, <1>3 DEF Session
  <2> QED
    BY <1>1, <2>2, <2>3
<1>5. \A i \in 1..Len(session'.ops) : session'.ops[i].light \in Asked'
  <2>1. Asked' = UNION {{targets[j]} : j \in 1..Len(targets)}
    BY <1>4 DEF Asked
  <2>2. \A i \in 1..Len(ops) : ops[i].light \in Asked'
    BY <2>1
  <2> QED
    BY <1>4, <2>2, Zenon
<1>6. Len(targets) \in Nat /\ Len(ops) \in Nat
  BY LenProperties
<1>7. Positions'
  BY <1>4, <1>5, <1>6 DEF Positions, Before, After
<1>8. Purpose'
  BY <1>1, <1>4 DEF Purpose, After
<1>9. LedTyped'
  BY <1>1, <1>2, <1>4 DEF LedIInv, LedTyped
<1>10. session'.pc \notin After /\ session'.pc # "done" /\ \A l \in Lights : lamps'[l] = first'[l]
  BY <1>2, <1>4 DEF After
<1>11. History'
  BY <1>10, Zenon DEF History, Untouched
<1> QED
  BY <1>7, <1>8, <1>9, <1>11 DEF LedIInv

LEMMA GoneKeeps ==
    ASSUME LedIInv, UNCHANGED request, NEW r \in Results, Gone(r)
    PROVE  LedIInv'
<1>1. session.pc = "idle" /\ session.pc \in Before /\ session.kind = "none" /\ Quit(r)
  BY DEF Gone, Before, LedIInv, Positions
<1>2. UNCHANGED <<lamps, first, touched, request, disturbed, owner, cancelled>>
  BY DEF Gone
<1> QED
  BY <1>1, <1>2, QuitBefore

LEMMA LedExecuteKeeps ==
    ASSUME LedIInv, UNCHANGED request, NEW kind \in {"set", "identify"}, NEW targets \in Seq(Lights),
           led_execute(kind, targets), kind = "identify" => Len(targets) = 1,
           kind = "set" => targets = request.targets
    PROVE  LedIInv'
<1>1. "refused" \in Results /\ "ok" \in Results
  BY DEF Results
<1>2. Askable(request)
  BY DEF LedIInv, LedTyped
<1>3. CASE Gone("refused") \/ Gone("ok")
  BY <1>1, <1>3, GoneKeeps
<1>4. CASE /\ kind = "identify" /\ request.apply
           /\ LedStart(kind, targets, <<[light |-> targets[1], patch |-> NoPatch]>>)
  <2> DEFINE x == [light |-> targets[1], patch |-> NoPatch]
  <2>1. Len(targets) = 1
    BY <1>4
  <2>2. targets[1] \in Lights
    <3>1. 1 \in 1..Len(targets)
      BY <2>1
    <3> QED
      BY <3>1, ElementOfSeq, Zenon
  <2>3. NoPatch \in Patch
    BY OwnPatches DEF LedIInv, LedTyped
  <2>4. x \in Op /\ x.light = targets[1]
    BY <2>2, <2>3 DEF Op
  <2>5. LedStart(kind, targets, <<x>>)
    BY <1>4
  <2> HIDE DEF x
  <2> DEFINE o == <<x>>
  <2>6. o \in Seq(Op) /\ Len(o) = 1 /\ o[1] = x
    BY <2>4, OneElement
  <2>7. LedStart(kind, targets, o)
    BY <2>5
  <2> HIDE DEF o
  <2>8. Len(o) >= 1 /\ \A i \in 1..Len(o) : \E j \in 1..Len(targets) : o[i].light = targets[j]
    BY <2>1, <2>4, <2>6
  <2> QED
    BY <1>4, <2>6, <2>7, <2>8, StartKeeps
<1>5. CASE kind = "set" /\ Ops # <<>> /\ LedStart(kind, targets, Ops)
  <2> DEFINE a == IF request.apply THEN Actions ELSE Reads
  <2>1. a \in Seq(Patch) /\ (~request.apply => \A i \in 1..Len(a) : a[i].fields = {})
    BY <1>2, ActionsType
  <2>2. Ops = OnTargets(a)
    BY DEF Ops
  <2> HIDE DEF a
  <2>3. /\ Ops \in Seq(Op)
        /\ \A i \in 1..Len(Ops) : /\ \E j \in 1..Len(request.targets) : Ops[i].light = request.targets[j]
                                  /\ \E j \in 1..Len(a) : Ops[i].patch = a[j]
    BY <1>2, <2>1, <2>2, OnTargetsType
  <2>4. Len(Ops) >= 1
    BY <1>5, <2>3, EmptySeq
  <2>5. ~request.apply => \A i \in 1..Len(Ops) : Ops[i].patch.fields = {}
    BY <2>1, <2>3
  <2>6. targets = request.targets
    BY <1>5
  <2> QED
    BY <1>5, <2>3, <2>4, <2>5, <2>6, StartKeeps
<1> QED
  BY <1>3, <1>4, <1>5 DEF led_execute

-----------------------------------------------------------------------------
(* The whole command. *)

LEMMA LedStarts == Init => LedIInv
<1> SUFFICES ASSUME Init PROVE LedIInv
  OBVIOUS
<1>1. PICK x \in Situations : /\ LedInit(Backend(x.machine.model), x.lamp, x.disturbed)
                              /\ request = x.request
  BY DEF Init
<1>2. Askable(request) /\ x.lamp \in Lamp /\ x.disturbed \in BOOLEAN
  BY <1>1, CliAssumption
<1> DEFINE b == Backend(x.machine.model)
<1>3. b \in {"mcu", "sysfs"}
  BY DEF Backend
<1>4. /\ lamps = [l \in Lights |-> x.lamp] /\ first = lamps /\ touched = {}
      /\ disturbed \in BOOLEAN /\ owner \in BOOLEAN /\ cancelled = FALSE /\ session = Idle(b)
  BY <1>1, <1>2 DEF LedInit
<1> HIDE DEF b
<1>5. lamps \in [Lights -> Lamp]
  BY <1>2, <1>4
<1>6. NoPatch \in Patch /\ NoPatch.fields = {} /\ NoPatch.value \in Lamp
  BY DEF NoPatch, Patch, Fields, Lamp
<1>7. 0 \in 0..MaxTicks - 1
  BY LedAssumption
<1>8. /\ session \in Session /\ session.pc = "idle" /\ session.kind = "none" /\ session.at = 1
      /\ session.done = 0 /\ session.why = "none" /\ session.result = "none" /\ session.ops = <<>>
      /\ session.targets = <<>> /\ session.cmds = <<>> /\ session.patch = NoPatch
  <2> HIDE DEF NoPatch
  <2> DEFINE p == NoPatch
             v == NoPatch.value
  <2>1. p \in Patch /\ v \in Lamp
    BY <1>6
  <2>2. session = [pc |-> "idle", backend |-> b, kind |-> "none", targets |-> <<>>, ops |-> <<>>, at |-> 1,
                   patch |-> p, why |-> "none", cmds |-> <<>>, sent |-> {}, saved |-> v,
                   tick |-> 0, effect |-> "ok", done |-> 0, result |-> "none"]
    BY <1>4 DEF Idle
  <2> HIDE DEF p, v
  <2>3. <<>> \in Seq(Lights) /\ <<>> \in Seq(Op) /\ <<>> \in Seq(Cmd)
    BY EmptySeq
  <2>4. session \in Session
    BY <1>3, <1>7, <2>1, <2>2, <2>3 DEF Session, Kinds, Reasons, Results
  <2> QED
    BY <2>2, <2>4 DEF p
<1>9. LedTyped
  <2>1. Len(session.cmds) <= 6
    BY <1>8
  <2> QED
    BY <1>2, <1>4, <1>5, <1>8, <2>1 DEF LedTyped
<1>10. Positions
  BY <1>8 DEF Positions, Before, After
<1>11. Purpose
  BY <1>6, <1>8 DEF Purpose, After
<1>12. History
  BY <1>4, <1>8 DEF History, Untouched, After
<1> QED
  BY <1>9, <1>10, <1>11, <1>12 DEF LedIInv

LEMMA LedNext == ScanIInv /\ LedIInv /\ [Next]_cliVars => LedIInv'
<1> SUFFICES ASSUME ScanIInv, LedIInv, [Next]_cliVars PROVE LedIInv'
  OBVIOUS
<1>1. owner \in BOOLEAN /\ cancelled \in BOOLEAN /\ Askable(request) /\ "ok" \in Results /\ "refused" \in Results
  BY DEF LedIInv, LedTyped, Results
<1>2. ASSUME UNCHANGED <<ledVars, request>> PROVE LedIInv'
  BY <1>1, <1>2, SignalKeeps DEF ledVars
<1>3. CASE Scan \/ Bus \/ Finished \/ UNCHANGED cliVars
  <2>1. UNCHANGED <<ledVars, request>>
    BY <1>3, Zenon DEF Scan, Bus, Finished, cliVars
  <2> QED
    BY <1>2, <2>1
<1>4. CASE ScanFailed \/ List
  BY <1>1, <1>4, GoneKeeps DEF ScanFailed, List
<1>5. CASE Locate
  <2>1. UNCHANGED request
    BY <1>5 DEF Locate
  <2>2. CASE Gone("refused")
    BY <1>1, <2>1, <2>2, GoneKeeps
  <2>3. CASE \E d \in resolve(request.selector) : led_execute("identify", <<d.led>>)
    <3>1. PICK d \in resolve(request.selector) : led_execute("identify", <<d.led>>)
      BY <2>3
    <3>2. d \in scan.report /\ d.led # 0
      BY DEF resolve
    <3>3. d.led \in 0..8
      BY <3>2 DEF ScanIInv, ScanTyped, ScanRecord, Entry
    <3>4. d.led \in Lights
      BY <3>2, <3>3, CliAssumption
    <3>5. <<d.led>> \in Seq(Lights) /\ Len(<<d.led>>) = 1
      BY <3>4, OneElement
    <3> QED
      BY <2>1, <3>1, <3>5, LedExecuteKeeps
  <2> QED
    BY <1>5, <2>2, <2>3 DEF Locate
<1>6. CASE LedCommand
  <2>1. request.targets \in Seq(Lights) /\ (request.kind = "identify" => Len(request.targets) = 1)
    BY <1>1 DEF Askable
  <2> QED
    BY <1>6, <2>1, LedExecuteKeeps DEF LedCommand
<1>7. CASE Light
  BY <1>7, LedStepKeeps DEF Light
<1>8. CASE LightsAround
  <2>1. UNCHANGED request /\ (LedSignal \/ OwnerChanges \/ OwnerWrites)
    BY <1>8 DEF LightsAround
  <2>2. CASE LedSignal
    BY <1>1, <2>1, <2>2, SignalKeeps DEF LedSignal
  <2>3. CASE OwnerChanges
    BY <1>1, <2>1, <2>3, SignalKeeps DEF OwnerChanges
  <2>4. CASE OwnerWrites
    BY <2>1, <2>4, OwnerWritesKeeps
  <2> QED
    BY <2>1, <2>2, <2>3, <2>4
<1> QED
  BY <1>3, <1>4, <1>5, <1>6, <1>7, <1>8 DEF Next, CommandStep

LEMMA LedSays == LedIInv => LedOutcome /\ LedTypeOK
<1> SUFFICES ASSUME LedIInv PROVE LedOutcome /\ LedTypeOK
  OBVIOUS
<1>1. LedTypeOK
  <2>1. /\ session.at \in Nat \ {0} /\ session.done \in Nat /\ session.done <= Len(session.ops)
        /\ Len(session.targets) \in Nat /\ Len(session.ops) \in Nat
        /\ (session.at <= Len(session.targets) + 1 \/ session.at <= Len(session.ops))
    BY LenProperties DEF LedIInv, LedTyped, Session, Positions
  <2>2. session.at \in 1..Len(session.targets) + Len(session.ops) + 1 /\ session.done \in 0..Len(session.ops)
    <3> DEFINE a == session.at
               m == Len(session.targets)
               n == Len(session.ops)
    <3>1. a \in Nat \ {0} /\ m \in Nat /\ n \in Nat /\ (a <= m + 1 \/ a <= n)
      BY <2>1
    <3> HIDE DEF a, m, n
    <3>2. a \in 1..m + n + 1
      BY <3>1
    <3>3. session.done \in 0..Len(session.ops)
      BY <2>1
    <3> QED
      BY <3>2, <3>3, Zenon DEF a, m, n
  <2> QED
    BY <2>2 DEF LedIInv, LedTyped, Session, LedTypeOK, Reasons, Results
<1>2. LedOutcome
  <2>1. /\ \A l \in Lights \ (Asked \cup touched) : lamps[l] = first[l]
        /\ session.result = "refused" \/ ~request.apply => Untouched
    BY DEF LedIInv, History
  <2>2. ASSUME session.pc = "done", session.kind = "identify", session.result \in {"ok", "interrupted", "failed"}
        PROVE  lamps[Target] = session.saved /\ (Target \notin touched => lamps[Target] = first[Target])
    <3>1. session.result # "refused"
      BY <2>2
    <3> QED
      BY <2>2, <3>1 DEF LedIInv, History
  <2> QED
    BY <2>1, <2>2, Zenon DEF LedOutcome, Ended, Untouched
<1> QED
  BY <1>1, <1>2

\* Together, since `disk locate` hands what a scan found to a session.
LEMMA Inductive == Spec => [](ScanIInv /\ LedIInv)
  BY ScanStarts, ScanNext, LedStarts, LedNext, PTL DEF Spec

\* Every command stays within its types: a scan reads no more than DISK_MAX members, none
\* twice, and a session never indexes past its targets, operations or flashes.
THEOREM CommandTyped == Spec => []TypeOK
<1>1. ScanIInv /\ LedIInv => TypeOK
  BY ScanSays, LedSays DEF TypeOK
<1> QED
  BY <1>1, Inductive, PTL

\* Whatever fails and whoever else writes, a command leaves the lights it was not asked
\* for alone, a refusal and a preview leave all of them alone, and an identify that does
\* not report a failed restoration leaves its light as it found it (led.c:931-989,
\* led_sysfs.c:426-501, hardware_cli.c:909-937), for any lights, targets, actions and
\* number of flashes.
THEOREM LightsAsFound == Spec => []LedOutcome
<1>1. LedIInv => LedOutcome
  BY LedSays
<1> QED
  BY <1>1, Inductive, PTL

-----------------------------------------------------------------------------
(* `led set` as one intent: the targets in order, the merged patch on each. *)

\* The lights before and after target n: complete, and as they were.
Intent == Merged(request.actions)
Has(l) == \A f \in Intent.fields : lamps[l][f] = Intent.value[f]
Progress(n) ==
    \A i \in 1..Len(session.targets) :
        session.targets[i] \notin touched =>
            /\ i <= n => Has(session.targets[i])
            /\ i > n + 1 => lamps[session.targets[i]] = first[session.targets[i]]
Completed == IF session.pc = "done" /\ session.result = "ok" THEN Len(session.targets) ELSE session.at - 1
SamePatch(p, q) == p.fields = q.fields /\ \A f \in p.fields : p.value[f] = q.value[f]
OneIntent ==
    /\ session.targets = request.targets /\ Len(session.ops) = Len(session.targets)
    /\ \A i \in 1..Len(session.ops) :
        session.ops[i].light = session.targets[i] /\ SamePatch(session.ops[i].patch, Intent)
SetIInv ==
    session.kind = "set" /\ ~request.compat =>
        /\ OneIntent
        /\ session.why = "set" =>
            /\ session.pc \in After => session.patch = session.ops[session.at].patch
            /\ session.pc \in {"write", "check"} => session.patch.fields # {}
            /\ IF Intent.fields = {} THEN Untouched ELSE session.done = Completed
            /\ Progress(Completed)

\* Nothing of the command changes, and lights only by another owner.
LEMMA SetStays ==
    ASSUME SetIInv, LedIInv, UNCHANGED <<session, first, request>>, touched \subseteq touched',
           \A l \in Lights \ touched' : lamps'[l] = lamps[l]
    PROVE  SetIInv'
<1> SUFFICES ASSUME session.kind = "set", ~request.compat PROVE SetIInv'
  BY DEF SetIInv
<1>1. Intent' = Intent /\ OneIntent /\ (OneIntent => OneIntent') /\ Completed' = Completed
  BY DEF Intent, OneIntent, SetIInv, Completed
<1>2. Untouched => Untouched'
  BY DEF Untouched
<1>3. session.targets \in Seq(Lights) /\ \A i \in 1..Len(session.targets) : session.targets[i] \in Lights
  BY ElementOfSeq DEF LedIInv, LedTyped, Session
<1>4. ASSUME Progress(Completed) PROVE Progress(Completed)'
  <2>1. SUFFICES ASSUME NEW i \in 1..Len(session.targets), session.targets[i] \notin touched'
                 PROVE  /\ i <= Completed => Has(session.targets[i])'
                        /\ i > Completed + 1 => lamps'[session.targets[i]] = first[session.targets[i]]
    BY <1>1 DEF Progress
  <2>2. session.targets[i] \in Lights /\ session.targets[i] \notin touched /\ lamps'[session.targets[i]] = lamps[session.targets[i]]
    BY <1>3, <2>1
  <2>3. Has(session.targets[i]) => Has(session.targets[i])'
    BY <1>1, <2>2 DEF Has
  <2> QED
    BY <1>4, <2>2, <2>3 DEF Progress
<1> QED
  BY <1>1, <1>2, <1>4 DEF SetIInv

LEMMA TargetIs ==
    ASSUME LedIInv, SetIInv, session.kind = "set", ~request.compat, session.pc \in After
    PROVE  /\ session.why = "set" /\ session.at \in 1..Len(session.targets) /\ Len(session.targets) \in Nat
           /\ Target = session.targets[session.at] /\ SamePatch(session.patch, Intent)
           /\ \A i \in 1..Len(session.targets) : session.targets[i] \in Lights
           /\ \A i \in 1..Len(session.targets) : session.targets[i] = Target => i = session.at
<1>1. OneIntent /\ session.why = "set" /\ session.patch = session.ops[session.at].patch
  BY ReasonKnown DEF SetIInv
<1>2. session.at \in 1..Len(session.ops) /\ session.targets \in Seq(Lights) /\ Len(session.targets) \in Nat
  BY LenProperties DEF LedIInv, LedTyped, Session, Positions
<1>3. Target = session.targets[session.at] /\ SamePatch(session.patch, Intent) /\ session.at \in 1..Len(session.targets)
  BY <1>1, <1>2 DEF Target, OneIntent
<1>4. \A i \in 1..Len(session.targets) : session.targets[i] \in Lights
  BY <1>2, ElementOfSeq
<1>5. \A i, j \in 1..Len(session.targets) : session.targets[i] = session.targets[j] => i = j
  BY <1>1 DEF LedIInv, LedTyped, Askable, OneIntent
<1> QED
  BY <1>1, <1>2, <1>3, <1>4, <1>5

\* A step within an operation, a write to its target included, or the end of a failed one.
LEMMA SetMoves ==
    ASSUME LedIInv, SetIInv, session.pc \in After, UNCHANGED <<first, touched, request>>,
           session'.kind = session.kind, session'.targets = session.targets, session'.ops = session.ops,
           session.kind = "set" =>
             /\ session'.why = session.why /\ session'.at = session.at /\ session'.done = session.done
             /\ session'.patch = session.patch /\ (session'.pc = "done" => session'.result # "ok")
             /\ (session.pc = "begin" /\ session'.pc \in {"write", "check"} => session.patch.fields # {})
             /\ session'.pc \in {"write", "check", "done"},
           lamps' = lamps \/ (session.pc = "write" /\ lamps' = Written)
    PROVE  SetIInv'
<1> SUFFICES ASSUME session.kind = "set", ~request.compat PROVE SetIInv'
  BY DEF SetIInv
<1>1. Intent' = Intent /\ OneIntent /\ (OneIntent => OneIntent')
  BY DEF Intent, OneIntent, SetIInv
<1>2. session.pc # "done" /\ Completed = session.at - 1 /\ Completed' = Completed
  BY DEF Completed, After
<1>3. /\ session.why = "set" /\ session.at \in 1..Len(session.targets) /\ Len(session.targets) \in Nat
      /\ Target = session.targets[session.at] /\ SamePatch(session.patch, Intent)
      /\ \A i \in 1..Len(session.targets) : session.targets[i] \in Lights
      /\ \A i \in 1..Len(session.targets) : session.targets[i] = Target => i = session.at
  BY TargetIs
<1>4. \A l \in Lights : l # Target => lamps'[l] = lamps[l]
  <2>1. CASE lamps' = lamps
    BY <2>1
  <2>2. CASE lamps' = Written
    <3> DEFINE x == Perform(session.backend, lamps[Target], Head(session.cmds))
    <3>1. lamps' = [lamps EXCEPT ![Target] = x] /\ lamps \in [Lights -> Lamp]
      BY <2>2 DEF Written, LedIInv, LedTyped
    <3> HIDE DEF x
    <3> QED
      BY <3>1
  <2> QED
    BY <2>1, <2>2
<1>5. Intent.fields = {} => Untouched'
  <2>1. SUFFICES ASSUME Intent.fields = {} PROVE Untouched'
    OBVIOUS
  <2>2. lamps' = lamps /\ Untouched
    BY <1>3, <2>1 DEF SamePatch, SetIInv, After
  <2> QED
    BY <2>2 DEF Untouched
<1>6. Progress(Completed)'
  <2>1. SUFFICES ASSUME NEW i \in 1..Len(session.targets), session.targets[i] \notin touched, i # session.at
                 PROVE  /\ i <= Completed => Has(session.targets[i])'
                        /\ i > Completed + 1 => lamps'[session.targets[i]] = first[session.targets[i]]
    BY <1>2, <1>3 DEF Progress
  <2>2. lamps'[session.targets[i]] = lamps[session.targets[i]]
    BY <1>3, <1>4, <2>1
  <2>3. Has(session.targets[i]) => Has(session.targets[i])'
    BY <1>1, <2>2 DEF Has
  <2> QED
    BY <1>3, <2>1, <2>2, <2>3 DEF Progress, SetIInv
<1>7. session'.pc \in {"write", "check"} => session'.patch.fields # {}
  <2>1. session.pc \in {"write", "check", "begin"}
    BY DEF After, LedIInv, Purpose
  <2> QED
    BY <1>3, <2>1 DEF SetIInv
<1>8. session'.pc \in After => session'.patch = session'.ops[session'.at].patch
  BY <1>3 DEF SetIInv
<1> QED
  BY <1>1, <1>2, <1>3, <1>5, <1>6, <1>7, <1>8 DEF SetIInv

\* An operation is complete: the target shows the patch.
LEMMA SetAdvances ==
    ASSUME LedIInv, SetIInv, session.pc \in After, session.kind = "set", UNCHANGED <<lamps, first, touched, request>>, NextOp,
           \A f \in session.patch.fields : lamps[Target][f] = session.patch.value[f]
    PROVE  SetIInv'
<1> DEFINE d == session.done + (IF session.patch.fields = {} THEN 0 ELSE 1)
           p == session.ops[session.at + 1].patch
           n == session.at + 1
<1>0. session \in Session
  BY DEF LedIInv, LedTyped
<1>1. session' = IF session.at = Len(session.ops)
                 THEN [session EXCEPT !.pc = "done", !.result = "ok", !.done = d]
                 ELSE [session EXCEPT !.pc = "begin", !.at = n, !.done = d, !.patch = p]
  BY DEF NextOp
<1>2. /\ session'.kind = session.kind /\ session'.targets = session.targets /\ session'.ops = session.ops
      /\ session'.why = session.why /\ session'.done = d
      /\ IF session.at = Len(session.ops) THEN session'.pc = "done" /\ session'.result = "ok"
         ELSE session'.pc = "begin" /\ session'.at = n /\ session'.patch = p
  <2> HIDE DEF d, p, n
  <2>1. CASE session.at = Len(session.ops)
    BY <1>0, <1>1, <2>1 DEF Session
  <2>2. CASE session.at # Len(session.ops)
    BY <1>0, <1>1, <2>2 DEF Session
  <2> QED
    BY <2>1, <2>2
<1> SUFFICES ASSUME ~request.compat PROVE SetIInv'
  BY DEF SetIInv
<1>3. /\ session.why = "set" /\ session.at \in 1..Len(session.targets) /\ Len(session.targets) \in Nat
      /\ Target = session.targets[session.at] /\ SamePatch(session.patch, Intent)
      /\ \A i \in 1..Len(session.targets) : session.targets[i] \in Lights
      /\ \A i \in 1..Len(session.targets) : session.targets[i] = Target => i = session.at
  BY TargetIs
<1>4. Intent' = Intent /\ OneIntent /\ (OneIntent => OneIntent') /\ Len(session.ops) = Len(session.targets)
  BY <1>2 DEF Intent, OneIntent, SetIInv
<1>5. Completed = session.at - 1 /\ Completed' = session.at
  BY <1>2, <1>3, <1>4 DEF Completed, After
<1>6. Has(Target)
  BY <1>3 DEF Has, SamePatch
<1>7. Progress(Completed)'
  <2>1. SUFFICES ASSUME NEW i \in 1..Len(session.targets), session.targets[i] \notin touched
                 PROVE  /\ i <= session.at => Has(session.targets[i])
                        /\ i > session.at + 1 => lamps[session.targets[i]] = first[session.targets[i]]
    BY <1>2, <1>4, <1>5 DEF Progress, Has
  <2>2. Progress(session.at - 1)
    BY <1>3, <1>5 DEF SetIInv
  <2>3. i <= session.at - 1 \/ i = session.at \/ i > session.at
    BY <1>3
  <2> QED
    BY <1>3, <1>6, <2>1, <2>2, <2>3 DEF Progress
<1>8. IF Intent.fields = {} THEN Untouched' ELSE session'.done = Completed'
  <2>1. IF Intent.fields = {} THEN Untouched ELSE session.done = session.at - 1
    BY <1>3, <1>5 DEF SetIInv
  <2>2. Untouched => Untouched'
    BY DEF Untouched
  <2>3. session.patch.fields = Intent.fields
    BY <1>3 DEF SamePatch
  <2> QED
    BY <1>2, <1>3, <1>5, <2>1, <2>2, <2>3
<1>9. (session'.pc \in After => session'.patch = session'.ops[session'.at].patch) /\ session'.pc \notin {"write", "check"}
  BY <1>2 DEF After
<1> QED
  BY <1>2, <1>4, <1>7, <1>8, <1>9 DEF SetIInv

\* No step of a session changes what it is for.
Frame ==
    /\ session'.kind = session.kind /\ session'.targets = session.targets /\ session'.ops = session.ops
    /\ session'.backend = session.backend
LEMMA FrameKept ==
    ASSUME LedIInv, LedStep
    PROVE  Frame
<1>0. session \in Session /\ (session.pc \in After => session.why \in {"set", "effect", "restore", "restore_mode"})
  BY ReasonKnown DEF LedIInv, LedTyped
<1>1. ASSUME NEW r, Quit(r) PROVE Frame
  BY <1>0, <1>1 DEF Quit, Session, Frame
<1>2. ASSUME NEW e, RestoreNow(e) PROVE Frame
  <2> DEFINE p == RestorePatch
             w == [fields |-> Fields, value |-> session.saved]
             c == SysfsRestore
  <2>1. \/ session' = [session EXCEPT !.pc = "begin", !.patch = p, !.why = "restore", !.effect = e]
        \/ session' = [session EXCEPT !.pc = "write", !.patch = w, !.why = "restore", !.cmds = c, !.sent = {}, !.effect = e]
    BY <1>2 DEF RestoreNow
  <2> HIDE DEF p, w, c
  <2> QED
    BY <1>0, <2>1 DEF Session, Frame
<1>3. ASSUME session.pc \in After, Failed PROVE Frame
  <2>1. \/ \E r : Quit(r)
        \/ \E e : RestoreNow(e)
    BY <1>0, <1>3 DEF Failed
  <2> QED
    BY <1>1, <1>2, <2>1
<1>4. ASSUME NextOp PROVE Frame
  <2> DEFINE d == session.done + (IF session.patch.fields = {} THEN 0 ELSE 1)
             p == session.ops[session.at + 1].patch
             n == session.at + 1
  <2>1. \/ session' = [session EXCEPT !.pc = "done", !.result = "ok", !.done = d]
        \/ session' = [session EXCEPT !.pc = "begin", !.at = n, !.done = d, !.patch = p]
    BY <1>4 DEF NextOp
  <2> HIDE DEF d, p, n
  <2> QED
    BY <1>0, <2>1 DEF Session, Frame
<1>5. ASSUME session.pc \in After, NEW lamp, Applied(lamp) PROVE Frame
  <2>1. NextOp \/ session' = [session EXCEPT !.pc = "wait"] \/ Apply(ModePatch, "restore_mode") \/ \E r : Quit(r)
    BY <1>0, <1>5 DEF Applied, Restored
  <2>2. CASE Apply(ModePatch, "restore_mode")
    <3> DEFINE p == ModePatch
    <3>1. session' = [session EXCEPT !.pc = "begin", !.patch = p, !.why = "restore_mode"]
      BY <2>2 DEF Apply
    <3> HIDE DEF p
    <3> QED
      BY <1>0, <3>1 DEF Session, Frame
  <2>3. CASE session' = [session EXCEPT !.pc = "wait"]
    BY <1>0, <2>3 DEF Session, Frame
  <2> QED
    BY <1>1, <1>4, <2>1, <2>2, <2>3
<1>6. CASE LedOpen
  <2>1. CASE session' = [session EXCEPT !.pc = "read"]
    BY <1>0, <2>1 DEF Session, Frame
  <2> QED
    BY <1>1, <1>6, <2>1 DEF LedOpen
<1>7. CASE LedRead
  <2> DEFINE p == session.ops[1].patch
             n == session.at + 1
             one == 1
  <2>1. \/ Quit("refused") \/ session' = [session EXCEPT !.at = n] \/ session' = [session EXCEPT !.pc = "save", !.at = one]
        \/ session' = [session EXCEPT !.pc = "begin", !.at = one, !.why = "set", !.patch = p]
    BY <1>7 DEF LedRead
  <2> HIDE DEF p, n, one
  <2>2. CASE ~Quit("refused")
    BY <1>0, <2>1, <2>2 DEF Session, Frame
  <2> QED
    BY <1>1, <2>2
<1>8. CASE LedSave
  <2> DEFINE x == lamps[Target]
             p == EffectPatch(0)
  <2>1. Quit("refused") \/ session' = [session EXCEPT !.pc = "begin", !.saved = x, !.patch = p, !.why = "effect"]
    BY <1>8 DEF LedSave
  <2> HIDE DEF x, p
  <2>2. CASE ~Quit("refused")
    BY <1>0, <2>1, <2>2 DEF Session, Frame
  <2> QED
    BY <1>1, <2>2
<1>9. CASE LedBegin
  <2> DEFINE c == Commands(session.patch, lamps[Target])
  <2>1. Failed \/ NextOp \/ session' = [session EXCEPT !.pc = "write", !.sent = {}, !.cmds = c]
    BY <1>9 DEF LedBegin
  <2>2. session.pc \in After
    BY <1>9 DEF LedBegin, After
  <2> HIDE DEF c
  <2>3. CASE session' = [session EXCEPT !.pc = "write", !.sent = {}, !.cmds = c]
    BY <1>0, <2>3 DEF Session, Frame
  <2> QED
    BY <1>3, <1>4, <2>1, <2>2, <2>3
<1>10. CASE LedWrite
  <2> DEFINE c == Tail(session.cmds)
             f == Compared(Head(session.cmds))
  <2>1. Failed \/ session' = [session EXCEPT !.pc = "check", !.cmds = c, !.sent = f] \/ session' = [session EXCEPT !.cmds = c]
    BY <1>10 DEF LedWrite
  <2>2. session.pc \in After
    BY <1>10 DEF LedWrite, After
  <2> HIDE DEF c, f
  <2>3. CASE ~Failed
    BY <1>0, <2>1, <2>3 DEF Session, Frame
  <2> QED
    BY <1>3, <2>2, <2>3
<1>11. CASE LedCheck
  <2>1. Failed \/ session' = [session EXCEPT !.pc = "write"] \/ Applied(lamps[Target])
    BY <1>11, Zenon DEF LedCheck
  <2>2. session.pc \in After
    BY <1>11 DEF LedCheck, After
  <2>3. CASE session' = [session EXCEPT !.pc = "write"]
    BY <1>0, <2>3 DEF Session, Frame
  <2> QED
    BY <1>3, <1>5, <2>1, <2>2, <2>3
<1>12. CASE LedSysfsCheck
  <2>1. Failed \/ Applied(lamps[Target])
    BY <1>12, Zenon DEF LedSysfsCheck
  <2>2. session.pc \in After
    BY <1>12 DEF LedSysfsCheck, After
  <2> QED
    BY <1>3, <1>5, <2>1, <2>2
<1>13. CASE LedWait
  <2> DEFINE n == session.tick + 1
             p == EffectPatch(session.tick + 1)
  <2>1. RestoreNow("ok") \/ session' = [session EXCEPT !.pc = "begin", !.tick = n, !.patch = p]
    BY <1>13 DEF LedWait
  <2> HIDE DEF n, p
  <2>2. CASE ~RestoreNow("ok")
    BY <1>0, <2>1, <2>2 DEF Session, Frame
  <2> QED
    BY <1>2, <2>2
<1> QED
  BY <1>6, <1>7, <1>8, <1>9, <1>10, <1>11, <1>12, <1>13 DEF LedStep

-----------------------------------------------------------------------------
LEMMA SetQuit ==
    ASSUME session \in Session, NEW r, Quit(r)
    PROVE  /\ session'.why = session.why /\ session'.at = session.at /\ session'.done = session.done
           /\ session'.patch = session.patch /\ session'.pc = "done" /\ session'.result = r
  BY DEF Quit, Session

LEMMA SetStepKeeps ==
    ASSUME LedIInv, SetIInv, LedStep, UNCHANGED request
    PROVE  SetIInv'
<1>0. session \in Session /\ Frame
  BY FrameKept DEF LedIInv, LedTyped
<1> SUFFICES ASSUME session.kind = "set", ~request.compat PROVE SetIInv'
  BY <1>0 DEF SetIInv, Frame
<1>1. session.pc \in After => session.why = "set"
  BY ReasonKnown
<1>2. ASSUME session.pc \in After, Failed
      PROVE  session'.why = session.why /\ session'.at = session.at /\ session'.done = session.done
             /\ session'.patch = session.patch /\ session'.pc = "done" /\ session'.result # "ok"
  <2>1. Quit("failed")
    BY <1>1, <1>2 DEF Failed
  <2> QED
    BY <1>0, <2>1, SetQuit
<1>3. ASSUME session.pc \in Before, session'.why = "none" PROVE SetIInv'
  <2>1. OneIntent /\ Intent' = Intent
    BY DEF SetIInv, Intent
  <2>2. OneIntent'
    BY <1>0, <2>1 DEF OneIntent, Frame
  <2> QED
    BY <1>3, <2>2 DEF SetIInv
<1>4. session.pc \in Before => session.why = "none"
  BY DEF LedIInv, Positions
<1>5. CASE LedOpen
  <2>1. session.pc \in Before
    BY <1>5 DEF LedOpen, Before
  <2>2. CASE session' = [session EXCEPT !.pc = "read"]
    BY <1>0, <1>3, <1>4, <2>1, <2>2 DEF Session
  <2>3. CASE Quit("refused")
    BY <1>0, <1>3, <1>4, <2>1, <2>3, SetQuit
  <2> QED
    BY <1>5, <2>2, <2>3 DEF LedOpen
<1>6. CASE LedRead
  <2>1. session.pc \in Before
    BY <1>6 DEF LedRead, Before
  <2> DEFINE p == session.ops[1].patch
             n == session.at + 1
             one == 1
  <2>2. \/ Quit("refused") \/ session' = [session EXCEPT !.at = n]
        \/ session' = [session EXCEPT !.pc = "begin", !.at = one, !.why = "set", !.patch = p]
    BY <1>6 DEF LedRead
  <2>3. CASE Quit("refused")
    BY <1>0, <1>3, <1>4, <2>1, <2>3, SetQuit
  <2>4. CASE session' = [session EXCEPT !.at = n]
    <3> HIDE DEF n
    <3>1. session'.why = session.why
      BY <1>0, <2>4 DEF Session
    <3> QED
      BY <1>3, <1>4, <2>1, <3>1
  <2>5. CASE session' = [session EXCEPT !.pc = "begin", !.at = one, !.why = "set", !.patch = p]
    <3>1. one = 1
      OBVIOUS
    <3> HIDE DEF p, one
    <3>2. session'.pc = "begin" /\ session'.at = 1 /\ session'.patch = p /\ session'.done = session.done
      BY <1>0, <2>5, <3>1 DEF Session
    <3>3. session'.patch = session'.ops[session'.at].patch
      BY <1>0, <3>2 DEF p, Frame
    <3>4. OneIntent /\ Intent' = Intent
      BY DEF SetIInv, Intent
    <3>5. OneIntent'
      BY <1>0, <3>4 DEF OneIntent, Frame
    <3>6. UNCHANGED <<lamps, first, touched>> /\ Untouched /\ session.done = 0
      BY <1>6, <2>1 DEF LedRead, LedRest, LedIInv, History, Positions
    <3>7. Untouched'
      BY <3>6 DEF Untouched
    <3>8. Completed' = 0
      BY <3>2 DEF Completed
    <3>9. session.targets \in Seq(Lights) /\ \A i \in 1..Len(session.targets) : session.targets[i] \in Lights
      BY <1>0, ElementOfSeq DEF Session
    <3>10. Progress(Completed)'
      BY <1>0, <3>6, <3>8, <3>9 DEF Progress, Untouched, Frame
    <3> QED
      BY <3>2, <3>3, <3>5, <3>6, <3>7, <3>8, <3>10 DEF SetIInv
  <2> QED
    BY <2>2, <2>3, <2>4, <2>5
<1>7. CASE LedSave
  BY <1>7 DEF LedSave, LedIInv, Purpose
<1>8. CASE LedBegin
  <2> DEFINE c == Commands(session.patch, lamps[Target])
  <2>1. session.pc \in After /\ UNCHANGED <<lamps, first, touched>>
    BY <1>8 DEF LedBegin, After, LedRest
  <2>2. \/ Failed
        \/ session.patch.fields = {} /\ NextOp
        \/ session.patch.fields # {} /\ session' = [session EXCEPT !.pc = "write", !.sent = {}, !.cmds = c]
    BY <1>8 DEF LedBegin
  <2> HIDE DEF c
  <2>3. CASE Failed
    BY <1>0, <1>2, <2>1, <2>3, SetMoves DEF Frame
  <2>4. CASE session.patch.fields = {} /\ NextOp
    BY <2>1, <2>4, SetAdvances
  <2>5. CASE session.patch.fields # {} /\ session' = [session EXCEPT !.pc = "write", !.sent = {}, !.cmds = c]
    <3>1. session'.why = session.why /\ session'.at = session.at /\ session'.done = session.done
          /\ session'.patch = session.patch /\ session'.pc = "write"
      BY <1>0, <2>5 DEF Session
    <3> QED
      BY <1>0, <2>1, <2>5, <3>1, SetMoves DEF Frame
  <2> QED
    BY <2>2, <2>3, <2>4, <2>5
<1>9. CASE LedWrite
  <2> DEFINE c == Tail(session.cmds)
             f == Compared(Head(session.cmds))
  <2>1. session.pc = "write" /\ session.pc \in After /\ UNCHANGED <<first, touched>> /\ lamps' \in {lamps, Written}
    BY <1>9 DEF LedWrite, After
  <2>2. Failed \/ session' = [session EXCEPT !.pc = "check", !.cmds = c, !.sent = f] \/ session' = [session EXCEPT !.cmds = c]
    BY <1>9 DEF LedWrite
  <2>3. CASE Failed
    BY <1>0, <1>2, <2>1, <2>3, SetMoves DEF Frame
  <2>4. CASE ~Failed
    <3> HIDE DEF c, f
    <3>1. session'.why = session.why /\ session'.at = session.at /\ session'.done = session.done
          /\ session'.patch = session.patch /\ session'.pc \in {"check", "write"}
      BY <1>0, <2>1, <2>2, <2>4 DEF Session
    <3> QED
      BY <1>0, <2>1, <3>1, SetMoves DEF Frame
  <2> QED
    BY <2>3, <2>4
<1>10. ASSUME session.pc \in After, UNCHANGED <<lamps, first, touched>>, Applied(lamps[Target]),
              \A f \in session.patch.fields : lamps[Target][f] = session.patch.value[f]
       PROVE  SetIInv'
  <2>1. NextOp
    BY <1>1, <1>10 DEF Applied
  <2> QED
    BY <1>10, <2>1, SetAdvances
<1>11. CASE LedCheck
  <2>1. session.pc \in After /\ session.pc = "check" /\ UNCHANGED <<lamps, first, touched>>
    BY <1>11 DEF LedCheck, After, LedRest
  <2>2. \/ Failed
        \/ session' = [session EXCEPT !.pc = "write"]
        \/ /\ Applied(lamps[Target]) /\ session.cmds = <<>>
           /\ ~\E f \in session.sent \cup (IF session.cmds = <<>> THEN session.patch.fields ELSE {}) :
                 lamps[Target][f] # session.patch.value[f]
    BY <1>11, Zenon DEF LedCheck
  <2>3. CASE Failed
    BY <1>0, <1>2, <2>1, <2>3, SetMoves DEF Frame
  <2>4. CASE session' = [session EXCEPT !.pc = "write"]
    <3>1. session'.why = session.why /\ session'.at = session.at /\ session'.done = session.done
          /\ session'.patch = session.patch /\ session'.pc = "write"
      BY <1>0, <2>4 DEF Session
    <3> QED
      BY <1>0, <2>1, <3>1, SetMoves DEF Frame
  <2> QED
    BY <1>10, <2>1, <2>2, <2>3, <2>4
<1>12. CASE LedSysfsCheck
  <2>1. session.pc \in After /\ session.pc = "write" /\ UNCHANGED <<lamps, first, touched>>
    BY <1>12 DEF LedSysfsCheck, After, LedRest
  <2>2. \/ Failed
        \/ /\ Applied(lamps[Target])
           /\ ~\E f \in session.patch.fields : lamps[Target][f] # session.patch.value[f]
    BY <1>12, Zenon DEF LedSysfsCheck
  <2>3. CASE Failed
    BY <1>0, <1>2, <2>1, <2>3, SetMoves DEF Frame
  <2> QED
    BY <1>10, <2>1, <2>2, <2>3
<1>13. CASE LedWait
  BY <1>13 DEF LedWait, LedIInv, Purpose
<1> QED
  BY <1>5, <1>6, <1>7, <1>8, <1>9, <1>11, <1>12, <1>13 DEF LedStep

-----------------------------------------------------------------------------
\* One operation for each target.
LEMMA OneEach ==
    ASSUME Askable(request), NEW p \in Patch
    PROVE  /\ Len(OnTargets(<<p>>)) = Len(request.targets)
           /\ \A i \in 1..Len(request.targets) :
                OnTargets(<<p>>)[i].light = request.targets[i] /\ OnTargets(<<p>>)[i].patch = p
<1> DEFINE m == Len(request.targets)
           f == [i \in 1..m |-> [light |-> request.targets[i], patch |-> p]]
<1>1. m \in Nat /\ request.targets \in Seq(Lights) /\ \A i \in 1..m : request.targets[i] \in Lights
  BY LenProperties, ElementOfSeq DEF Askable
<1>2. <<p>> \in Seq(Patch) /\ Len(<<p>>) = 1 /\ <<p>>[1] = p
  BY OneElement
<1> HIDE DEF m
<1>3. \A i \in 1..m : 1 + ((i - 1) \div 1) = i /\ 1 + ((i - 1) % 1) = 1
  BY <1>1
<1>4. 1 * m = m
  BY <1>1
<1>5. OnTargets(<<p>>) = [i \in 1..1 * m |-> [light |-> request.targets[1 + ((i - 1) \div 1)],
                                              patch |-> <<p>>[1 + ((i - 1) % 1)]]]
  BY <1>2, Zenon DEF OnTargets, m
<1>6. OnTargets(<<p>>) = f
  BY <1>2, <1>3, <1>4, <1>5
<1>7. f \in [1..m -> Op]
  BY <1>1 DEF Op
<1>8. f \in Seq(Op) /\ Len(f) = m
  BY <1>1, <1>7, SeqOfFunction
<1> QED
  BY <1>6, <1>8 DEF m

LEMMA SetStarts ==
    ASSUME LedIInv, SetIInv, UNCHANGED request, NEW kind \in {"set", "identify"}, NEW targets,
           led_execute(kind, targets), kind = "set" => targets = request.targets
    PROVE  SetIInv'
<1>0. session \in Session /\ Askable(request)
  BY DEF LedIInv, LedTyped
<1>1. ASSUME NEW r, Gone(r) PROVE SetIInv'
  <2>1. session.pc = "idle" /\ session.kind = "none" /\ session'.kind = session.kind
    BY <1>0, <1>1 DEF Gone, Quit, Session, LedIInv, Positions
  <2> QED
    BY <2>1 DEF SetIInv
<1>2. ASSUME NEW ops, LedStart(kind, targets, ops)
      PROVE  /\ session'.kind = kind /\ session'.targets = targets /\ session'.ops = ops /\ session'.why = session.why
             /\ session.pc = "idle"
  BY <1>0, <1>2 DEF LedStart, Session
<1>3. CASE kind = "identify" /\ \E ops : LedStart(kind, targets, ops)
  BY <1>2, <1>3 DEF SetIInv
<1>4. CASE kind = "set" /\ Ops # <<>> /\ LedStart(kind, targets, Ops)
  <2> SUFFICES ASSUME ~request.compat PROVE SetIInv'
    BY <1>2, <1>4 DEF SetIInv
  <2>1. session'.targets = request.targets /\ session'.ops = Ops /\ session'.why = "none"
    <3>1. session.pc = "idle" => session.why = "none"
      BY DEF LedIInv, Positions, Before
    <3> QED
      BY <1>2, <1>4, <3>1
  <2>2. Intent \in Patch /\ Intent' = Intent /\ Actions = <<Intent>>
    BY <1>0, MergedSays DEF Says, Intent, Askable, Actions
  <2>3. \E p \in Patch : Ops = OnTargets(<<p>>) /\ SamePatch(p, Intent)
    <3>1. CASE request.apply
      BY <2>2, <3>1 DEF Ops, SamePatch
    <3>2. CASE ~request.apply
      <4> DEFINE S == {j \in DOMAIN Actions : Actions[j].fields = {}}
      <4>1. DOMAIN Actions = {1} /\ Actions[1] = Intent
        BY <2>2
      <4>2. Ops = OnTargets(Reads) /\ Reads = [i \in 1..Cardinality(S) |-> NoPatch]
        BY <3>2 DEF Ops, Reads
      <4>3. CASE Intent.fields = {}
        <5>1. S = {1}
          BY <4>1, <4>3
        <5>2. Cardinality(S) = 1
          BY <5>1, FS_Singleton
        <5>3. Reads = <<NoPatch>>
          <6>1. \A x : [i \in 1..1 |-> x] = <<x>>
            OBVIOUS
          <6>2. Reads = [i \in 1..1 |-> NoPatch]
            BY <4>2, <5>2
          <6> HIDE DEF NoPatch
          <6> QED
            BY <6>1, <6>2
        <5>4. NoPatch \in Patch /\ NoPatch.fields = {}
          BY DEF NoPatch, Patch, Fields, Lamp
        <5> QED
          BY <4>2, <4>3, <5>3, <5>4 DEF SamePatch
      <4>4. CASE Intent.fields # {}
        <5>1. S = {}
          BY <4>1, <4>4
        <5>2. Cardinality(S) = 0
          BY <5>1, FS_EmptySet
        <5>3. Len(Reads) = 0
          BY <4>2, <5>2
        <5>4. Ops = <<>>
          <6>1. Ops = [step \in 1..0 * Len(request.targets) |->
                         [light |-> request.targets[1 + ((step - 1) \div 0)], patch |-> Reads[1 + ((step - 1) % 0)]]]
            BY <4>2, <5>3, Zenon DEF OnTargets
          <6>2. Len(request.targets) \in Nat
            BY <1>0, LenProperties DEF Askable
          <6>3. 1..0 * Len(request.targets) = {}
            BY <6>2
          <6> QED
            BY <6>1, <6>3
        <5> QED
          BY <1>4, <5>4
      <4> QED
        BY <4>3, <4>4
    <3> QED
      BY <3>1, <3>2
  <2>4. PICK p \in Patch : Ops = OnTargets(<<p>>) /\ SamePatch(p, Intent)
    BY <2>3
  <2>5. /\ Len(Ops) = Len(request.targets)
        /\ \A i \in 1..Len(request.targets) : Ops[i].light = request.targets[i] /\ Ops[i].patch = p
    BY <1>0, <2>4, OneEach
  <2>6. OneIntent'
    BY <2>1, <2>2, <2>4, <2>5 DEF OneIntent
  <2> QED
    BY <2>1, <2>6 DEF SetIInv
<1> QED
  BY <1>1, <1>3, <1>4 DEF led_execute

LEMMA SetNext == ScanIInv /\ LedIInv /\ SetIInv /\ [Next]_cliVars => SetIInv'
<1> SUFFICES ASSUME LedIInv, SetIInv, [Next]_cliVars PROVE SetIInv'
  OBVIOUS
<1>0. request.kind \in {"set", "identify"} => request.targets = request.targets
  OBVIOUS
<1>1. CASE Scan \/ Bus \/ Finished \/ UNCHANGED cliVars
  <2>1. UNCHANGED <<ledVars, request>>
    BY <1>1, Zenon DEF Scan, Bus, Finished, cliVars
  <2> QED
    BY <2>1, SetStays DEF ledVars
<1>2. ASSUME NEW r, Gone(r) PROVE SetIInv'
  <2>1. session.pc = "idle" /\ session.kind = "none" /\ session'.kind = session.kind
    BY <1>2 DEF Gone, Quit, Session, LedIInv, LedTyped, Positions
  <2> QED
    BY <2>1 DEF SetIInv
<1>3. CASE ScanFailed \/ List
  BY <1>2, <1>3 DEF ScanFailed, List
<1>4. CASE Locate
  BY <1>2, <1>4, SetStarts DEF Locate
<1>5. CASE LedCommand
  BY <1>5, SetStarts DEF LedCommand
<1>6. CASE Light
  BY <1>6, SetStepKeeps DEF Light
<1>7. CASE LightsAround
  <2>1. UNCHANGED request /\ (LedSignal \/ OwnerChanges \/ OwnerWrites)
    BY <1>7 DEF LightsAround
  <2>2. CASE LedSignal \/ OwnerChanges
    BY <2>1, <2>2, SetStays DEF LedSignal, OwnerChanges
  <2>3. CASE OwnerWrites
    <3>1. PICK l \in ToSet(session.targets) \ touched :
            lamps' = [lamps EXCEPT ![l].color = "user"] /\ touched' = touched \cup {l}
      BY <2>3 DEF OwnerWrites
    <3> DEFINE x == [lamps[l] EXCEPT !.color = "user"]
    <3>2. lamps' = [lamps EXCEPT ![l] = x] /\ lamps \in [Lights -> Lamp]
      BY <3>1 DEF LedIInv, LedTyped
    <3> HIDE DEF x
    <3>3. \A k \in Lights \ touched' : lamps'[k] = lamps[k]
      BY <3>1, <3>2
    <3> QED
      BY <2>1, <2>3, <3>1, <3>3, SetStays DEF OwnerWrites
  <2> QED
    BY <2>1, <2>2, <2>3
<1> QED
  BY <1>1, <1>3, <1>4, <1>5, <1>6, <1>7 DEF Next, CommandStep

LEMMA SetInit == Init => SetIInv
<1> SUFFICES ASSUME Init PROVE SetIInv
  OBVIOUS
<1>1. PICK x \in Situations : LedInit(Backend(x.machine.model), x.lamp, x.disturbed)
  BY DEF Init
<1>2. session.kind = "none"
  BY <1>1 DEF LedInit, Idle
<1> QED
  BY <1>2 DEF SetIInv

LEMMA SetSays == LedIInv /\ SetIInv => SetOutcome
<1> SUFFICES ASSUME LedIInv, SetIInv, session.pc = "done", session.why = "set", ~request.compat,
                    NEW i \in 1..Len(session.targets), session.targets[i] \notin touched
             PROVE  /\ session.result = "ok" \/ i <= session.done => Shows(session.targets[i])
                    /\ session.result # "ok" /\ i > session.done + 1 =>
                         lamps[session.targets[i]] = first[session.targets[i]]
  BY DEF SetOutcome, Ended
<1>1. session.kind = "set"
  BY DEF LedIInv, Purpose
<1>2. Progress(Completed) /\ IF Intent.fields = {} THEN Untouched ELSE session.done = Completed
  BY <1>1 DEF SetIInv
<1>3. session.targets[i] \in Lights /\ Len(session.targets) \in Nat
  BY ElementOfSeq, LenProperties DEF LedIInv, LedTyped, Session
<1>4. Has(session.targets[i]) => Shows(session.targets[i])
  <2>1. request.actions \in Seq(Patch)
    BY DEF LedIInv, LedTyped, Askable
  <2>2. Says(Intent, request.actions, Len(request.actions))
    BY <2>1, MergedSays DEF Intent
  <2>3. \A f \in Fields : {k \in 1..Len(request.actions) : f \in request.actions[k].fields}
                           = Asking(request.actions, Len(request.actions), f)
    BY DEF Asking
  <2> QED
    BY <2>2, <2>3 DEF Has, Shows, Says
<1>5. CASE Intent.fields = {}
  BY <1>2, <1>3, <1>4, <1>5 DEF Has, Untouched
<1>6. CASE Intent.fields # {}
  <2>1. session.done = Completed /\ (session.result = "ok" => i <= Completed)
    BY <1>2, <1>3, <1>6 DEF Completed
  <2> QED
    BY <1>2, <1>4, <2>1 DEF Progress
<1> QED
  BY <1>5, <1>6

-----------------------------------------------------------------------------
(* Commands one after the other, undisturbed. *)

\* The light goes from l to m; g is what it shows while k commands are left.
Leads(b, l, cmds, m) ==
    \E g : /\ g[Len(cmds)] = l /\ g[0] = m
           /\ \A k \in 0..Len(cmds) - 1 : g[k] = Perform(b, g[k + 1], cmds[Len(cmds) - k])

LEMMA LeadsNone ==
    ASSUME NEW b, NEW l, NEW m
    PROVE  Leads(b, l, <<>>, m) <=> l = m
<1>1. ASSUME l = m PROVE Leads(b, l, <<>>, m)
  <2> DEFINE g == [k \in {0} |-> l]
  <2>1. g[Len(<<>>)] = l /\ g[0] = m /\ 0..Len(<<>>) - 1 = {}
    BY <1>1
  <2> HIDE DEF g
  <2> QED
    BY <2>1, Zenon DEF Leads
<1>2. ASSUME Leads(b, l, <<>>, m) PROVE l = m
  BY <1>2 DEF Leads
<1> QED
  BY <1>1, <1>2

LEMMA LeadsStep ==
    ASSUME NEW b, NEW l, NEW m, NEW c \in Seq(Cmd), c # <<>>, Leads(b, l, c, m)
    PROVE  Leads(b, Perform(b, l, Head(c)), Tail(c), m)
<1>1. PICK g : /\ g[Len(c)] = l /\ g[0] = m
               /\ \A k \in 0..Len(c) - 1 : g[k] = Perform(b, g[k + 1], c[Len(c) - k])
  BY DEF Leads
<1> DEFINE n == Len(c)
           t == Tail(c)
<1>2. n \in Nat \ {0} /\ Len(t) = n - 1 /\ Head(c) = c[1] /\ \A j \in 1..n - 1 : t[j] = c[j + 1]
  BY LenProperties, HeadTailProperties, EmptySeq
<1> HIDE DEF n, t
<1>3. g[Len(t)] = Perform(b, l, Head(c))
  <2>1. n - 1 \in 0..n - 1 /\ n - (n - 1) = 1 /\ (n - 1) + 1 = n
    BY <1>2
  <2>2. g[n - 1] = Perform(b, g[(n - 1) + 1], c[n - (n - 1)])
    BY <1>1, <2>1 DEF n
  <2> QED
    BY <1>1, <1>2, <2>1, <2>2 DEF n
<1>4. ASSUME NEW k \in 0..Len(t) - 1 PROVE g[k] = Perform(b, g[k + 1], t[Len(t) - k])
  <2>1. k \in 0..n - 1 /\ (n - 1) - k \in 1..n - 1 /\ ((n - 1) - k) + 1 = n - k
    BY <1>2, <1>4
  <2>2. t[Len(t) - k] = c[n - k]
    BY <1>2, <2>1
  <2> QED
    BY <1>1, <2>1, <2>2 DEF n
<1> QED
  BY <1>1, <1>3, <1>4, Zenon DEF Leads, t

LEMMA LeadsOne ==
    ASSUME NEW b, NEW l, NEW set, NEW to
    PROVE  Leads(b, l, Command(set, to), Perform(b, l, [set |-> set, to |-> to]))
<1> DEFINE x == [set |-> set, to |-> to]
           m == Perform(b, l, x)
           c == <<x>>
           g == [k \in {0, 1} |-> IF k = 0 THEN m ELSE l]
<1>1. Command(set, to) = c
  BY DEF Command
<1> HIDE DEF x
<1>2. Len(c) = 1 /\ c[1] = x
  OBVIOUS
<1> HIDE DEF c, m
<1>3. g[1] = l /\ g[0] = m
  OBVIOUS
<1> HIDE DEF g
<1>4. \A k \in 0..Len(c) - 1 : k = 0 /\ Len(c) - k = 1 /\ k + 1 = 1
  BY <1>2
<1>5. \A k \in 0..Len(c) - 1 : g[k] = Perform(b, g[k + 1], c[Len(c) - k])
  BY <1>2, <1>3, <1>4 DEF m
<1>6. Leads(b, l, c, m)
  BY <1>2, <1>3, <1>5, Zenon DEF Leads
<1> QED
  BY <1>1, <1>6 DEF m, x

LEMMA LeadsConcat ==
    ASSUME NEW b, NEW l, NEW m, NEW r, NEW s \in Seq(Cmd), NEW t \in Seq(Cmd), Leads(b, l, s, m), Leads(b, m, t, r)
    PROVE  Leads(b, l, s \o t, r)
<1> DEFINE p == Len(s)
           q == Len(t)
           c == s \o t
<1>1. PICK g : g[p] = l /\ g[0] = m /\ \A k \in 0..p - 1 : g[k] = Perform(b, g[k + 1], s[p - k])
  BY DEF Leads
<1>2. PICK h : h[q] = m /\ h[0] = r /\ \A k \in 0..q - 1 : h[k] = Perform(b, h[k + 1], t[q - k])
  BY DEF Leads
<1>3. /\ p \in Nat /\ q \in Nat /\ Len(c) = p + q
      /\ \A i \in 1..p : c[i] = s[i] 
      /\ \A i \in 1..q : c[p + i] = t[i]
  <2>1. p \in Nat /\ q \in Nat /\ Len(c) = p + q /\ \A i \in 1..p + q : c[i] = IF i <= p THEN s[i] ELSE t[i - p]
    BY LenProperties, ConcatProperties
  <2> HIDE DEF p, q, c
  <2>2. \A i \in 1..p : i \in 1..p + q /\ i <= p
    BY <2>1
  <2>3. \A i \in 1..q : p + i \in 1..p + q /\ ~(p + i <= p) /\ (p + i) - p = i
    BY <2>1
  <2> QED
    BY <2>1, <2>2, <2>3
<1> HIDE DEF p, q, c
<1> DEFINE f == [k \in 0..p + q |-> IF k <= q THEN h[k] ELSE g[k - q]]
<1>4. f[0] = r
  BY <1>2, <1>3
<1>5. f[p + q] = l
  <2>1. CASE p = 0
    BY <1>1, <1>2, <1>3, <2>1
  <2>2. CASE p # 0
    <3>1. ~(p + q <= q) /\ (p + q) - q = p /\ p + q \in 0..p + q
      BY <1>3, <2>2
    <3> QED
      BY <1>1, <3>1
  <2> QED
    BY <2>1, <2>2
<1>6. ASSUME NEW k \in 0..(p + q) - 1 PROVE f[k] = Perform(b, f[k + 1], c[(p + q) - k])
  <2>1. CASE k < q
    <3>1. k \in 0..q - 1 /\ k <= q /\ k + 1 <= q /\ k + 1 \in 0..p + q /\ k \in 0..p + q /\ q - k \in 1..q /\ (p + q) - k = p + (q - k)
      BY <1>3, <2>1
    <3>2. f[k] = h[k] /\ f[k + 1] = h[k + 1] /\ c[(p + q) - k] = t[q - k]
      BY <1>3, <3>1
    <3> QED
      BY <1>2, <3>1, <3>2
  <2>2. CASE k >= q
    <3>1. /\ k - q \in 0..p - 1 /\ ~(k + 1 <= q) /\ k + 1 \in 0..p + q /\ k \in 0..p + q /\ (k + 1) - q = (k - q) + 1
          /\ p - (k - q) \in 1..p /\ (p + q) - k = p - (k - q)
      BY <1>3, <2>2
    <3>2. f[k] = g[k - q]
      <4>1. CASE k = q
        <5>1. k <= q /\ k - q = 0
          BY <1>3, <4>1
        <5>2. f[k] = h[k]
          BY <3>1, <5>1
        <5> QED
          BY <1>1, <1>2, <4>1, <5>1, <5>2
      <4>2. CASE k # q
        <5>1. ~(k <= q)
          BY <1>3, <2>2, <4>2
        <5> QED
          BY <3>1, <5>1
      <4> QED
        BY <4>1, <4>2
    <3>3. f[k + 1] = g[(k - q) + 1] /\ c[(p + q) - k] = s[p - (k - q)]
      BY <1>3, <3>1
    <3> QED
      BY <1>1, <3>1, <3>2, <3>3
  <2> QED
    BY <1>3, <2>1, <2>2
<1> HIDE DEF f
<1>7. f[Len(c)] = l /\ f[0] = r /\ \A k \in 0..Len(c) - 1 : f[k] = Perform(b, f[k + 1], c[Len(c) - k])
  BY <1>3, <1>4, <1>5, <1>6
<1> QED
  BY <1>7, Zenon DEF Leads, c

\* Either nothing, or the commands.
LEMMA LeadsWhen ==
    ASSUME NEW b, NEW l, NEW m, NEW c, NEW s, c => Leads(b, l, s, m), ~c => m = l
    PROVE  Leads(b, l, When(c, s), m)
  BY LeadsNone, Zenon DEF When

\* A light with some of its fields changed.
Changed(m, l, fields) == m \in Lamp /\ \A f \in Fields \ fields : m[f] = l[f]

LEMMA PerformMcu ==
    ASSUME NEW l \in Lamp, NEW p \in Patch
    PROVE  /\ LET m == Perform("mcu", l, [set |-> "color", to |-> p.value.color])
              IN  Changed(m, l, {"color"}) /\ m["color"] = p.value["color"]
           /\ LET m == Perform("mcu", l, [set |-> "bri", to |-> p.value.bri])
              IN  Changed(m, l, {"bri"}) /\ m["bri"] = p.value["bri"]
           /\ LET m == Perform("mcu", l, [set |-> "mode", to |-> p.value.mode])
              IN  Changed(m, l, {"mode"}) /\ m["mode"] = p.value["mode"]
           /\ LET m == Perform("mcu", l, [set |-> "blink", to |-> p.value.timing])
              IN  Changed(m, l, {"mode", "timing"}) /\ m["mode"] = "blink" /\ m["timing"] = p.value["timing"]
<1> DEFINE a == p.value.color
           b == p.value.bri
           c == p.value.mode
           d == p.value.timing
<1>1. a \in Colors /\ b \in 0..2 /\ c \in Modes /\ d \in Timings
  BY PatchParts
<1>2. p.value["color"] = a /\ p.value["bri"] = b /\ p.value["mode"] = c /\ p.value["timing"] = d
  OBVIOUS
<1> HIDE DEF a, b, c, d
<1>3. Perform("mcu", l, [set |-> "color", to |-> a]) = [l EXCEPT !.color = a]
  BY Zenon DEF Perform
<1>4. Perform("mcu", l, [set |-> "bri", to |-> b]) = [l EXCEPT !.bri = b]
  BY Zenon DEF Perform
<1>5. Perform("mcu", l, [set |-> "mode", to |-> c]) = [l EXCEPT !.mode = c]
  BY Zenon DEF Perform
<1>6. Perform("mcu", l, [set |-> "blink", to |-> d]) = [l EXCEPT !.mode = "blink", !.timing = d]
  BY Zenon DEF Perform
<1>7. Changed([l EXCEPT !.color = a], l, {"color"}) /\ [l EXCEPT !.color = a]["color"] = a
  BY <1>1 DEF Changed, Lamp, Fields, Colors
<1>8. Changed([l EXCEPT !.bri = b], l, {"bri"}) /\ [l EXCEPT !.bri = b]["bri"] = b
  BY <1>1 DEF Changed, Lamp, Fields
<1>9. Changed([l EXCEPT !.mode = c], l, {"mode"}) /\ [l EXCEPT !.mode = c]["mode"] = c
  BY <1>1 DEF Changed, Lamp, Fields, Modes
<1>10. Changed([l EXCEPT !.mode = "blink", !.timing = d], l, {"mode", "timing"})
       /\ [l EXCEPT !.mode = "blink", !.timing = d]["mode"] = "blink" /\ [l EXCEPT !.mode = "blink", !.timing = d]["timing"] = d
  BY <1>1 DEF Changed, Lamp, Fields, Timings
<1> QED
  BY <1>2, <1>3, <1>4, <1>5, <1>6, <1>7, <1>8, <1>9, <1>10, Zenon DEF a, b, c, d

\* What a command sends is what the patch asks.
Tells(p, c) == \A l \in Lamp : \A f \in Compared(c) : Perform("mcu", l, c)[f] = p.value[f]
AllTell(p, cmds) == \A i \in 1..Len(cmds) : Tells(p, cmds[i])

LEMMA TellOne ==
    ASSUME NEW p, NEW set, NEW to, Tells(p, [set |-> set, to |-> to])
    PROVE  AllTell(p, Command(set, to))
<1> DEFINE x == [set |-> set, to |-> to]
<1>1. Tells(p, x) /\ Command(set, to) = <<x>>
  BY DEF Command
<1> HIDE DEF x
<1> QED
  BY <1>1 DEF AllTell

LEMMA TellWhen ==
    ASSUME NEW p, NEW c, NEW s, c => AllTell(p, s)
    PROVE  AllTell(p, When(c, s))
<1>1. AllTell(p, <<>>)
  BY DEF AllTell
<1> QED
  BY <1>1, Zenon DEF When

LEMMA TellConcat ==
    ASSUME NEW p, NEW s \in Seq(Cmd), NEW t \in Seq(Cmd), AllTell(p, s), AllTell(p, t)
    PROVE  AllTell(p, s \o t)
<1>1. /\ Len(s) \in Nat /\ Len(t) \in Nat /\ Len(s \o t) = Len(s) + Len(t)
      /\ \A i \in 1..Len(s) + Len(t) : (s \o t)[i] = IF i <= Len(s) THEN s[i] ELSE t[i - Len(s)]
  BY LenProperties, ConcatProperties
<1>2. ASSUME NEW i \in 1..Len(s) + Len(t) PROVE Tells(p, (s \o t)[i])
  <2>1. CASE i <= Len(s)
    BY <1>1, <1>2, <2>1 DEF AllTell
  <2>2. CASE ~(i <= Len(s))
    <3>1. i - Len(s) \in 1..Len(t)
      BY <1>1, <1>2, <2>2
    <3> QED
      BY <1>1, <1>2, <2>2, <3>1 DEF AllTell
  <2> QED
    BY <2>1, <2>2
<1> QED
  BY <1>1, <1>2 DEF AllTell

LEMMA McuLeads ==
    ASSUME NEW p \in Patch, Valid("mcu", p), NEW l \in Lamp
    PROVE  /\ \E m \in Lamp : /\ Leads("mcu", l, McuCommands(p), m)
                              /\ \A f \in Fields : m[f] = IF f \in p.fields THEN p.value[f] ELSE l[f]
           /\ AllTell(p, McuCommands(p))
<1> DEFINE b == "mcu"
           ca == [set |-> "color", to |-> p.value.color]
           cb == [set |-> "bri", to |-> p.value.bri]
           cc == IF p.value.mode = "blink" THEN [set |-> "blink", to |-> p.value.timing] ELSE [set |-> "mode", to |-> p.value.mode]
           sa == Command("color", p.value.color)
           sb == Command("bri", p.value.bri)
           sc == IF p.value.mode = "blink" THEN Command("blink", p.value.timing) ELSE Command("mode", p.value.mode)
           x == IF "color" \in p.fields THEN Perform(b, l, ca) ELSE l
           y == IF "bri" \in p.fields THEN Perform(b, x, cb) ELSE x
           z == IF "mode" \in p.fields THEN Perform(b, y, cc) ELSE y
           sx == When("color" \in p.fields, sa)
           sy == When("bri" \in p.fields, sb)
           sz == When("mode" \in p.fields, sc)
<1>1. /\ sa \in Seq(Cmd) /\ sb \in Seq(Cmd) /\ sc \in Seq(Cmd)
  <2>1. /\ [set |-> "color", to |-> p.value.color] \in Cmd /\ [set |-> "bri", to |-> p.value.bri] \in Cmd
        /\ [set |-> "blink", to |-> p.value.timing] \in Cmd /\ [set |-> "mode", to |-> p.value.mode] \in Cmd
    BY PatchParts DEF Cmd
  <2> QED
    BY <2>1, CommandType, Zenon
<1>2. McuCommands(p) = (sx \o sy) \o sz
  BY DEF McuCommands
<1>3. \A k \in Lamp : Leads(b, k, sa, Perform(b, k, ca)) /\ Leads(b, k, sb, Perform(b, k, cb)) /\ Leads(b, k, sc, Perform(b, k, cc))
  BY LeadsOne, Zenon
<1>4. ASSUME NEW k \in Lamp
      PROVE  /\ Changed(Perform(b, k, ca), k, {"color"}) /\ Perform(b, k, ca)["color"] = p.value["color"]
             /\ Changed(Perform(b, k, cb), k, {"bri"}) /\ Perform(b, k, cb)["bri"] = p.value["bri"]
  BY PerformMcu, Zenon
<1>5. ASSUME NEW k \in Lamp, "mode" \in p.fields
      PROVE  /\ Changed(Perform(b, k, cc), k, {"mode", "timing"} \cap p.fields)
             /\ \A f \in {"mode", "timing"} \cap p.fields : Perform(b, k, cc)[f] = p.value[f]
             /\ \A f \in Compared(cc) : Perform(b, k, cc)[f] = p.value[f]
  <2>1. CASE p.value.mode = "blink"
    <3>1. "timing" \in p.fields /\ {"mode", "timing"} \cap p.fields = {"mode", "timing"}
      BY <1>5, <2>1 DEF Valid
    <3>2. cc = [set |-> "blink", to |-> p.value.timing] /\ Compared(cc) = {"mode", "timing"}
      BY <2>1 DEF Compared
    <3>3. LET m == Perform("mcu", k, cc)
          IN  Changed(m, k, {"mode", "timing"}) /\ m["mode"] = "blink" /\ m["timing"] = p.value["timing"]
      BY <3>2, PerformMcu, Zenon
    <3>4. p.value["mode"] = "blink"
      BY <2>1
    <3> HIDE DEF cc
    <3> QED
      BY <3>1, <3>2, <3>3, <3>4, Zenon
  <2>2. CASE p.value.mode # "blink"
    <3>1. "timing" \notin p.fields /\ {"mode", "timing"} \cap p.fields = {"mode"}
      BY <1>5, <2>2 DEF Valid
    <3>2. cc = [set |-> "mode", to |-> p.value.mode] /\ Compared(cc) = {"mode"}
      BY <2>2 DEF Compared
    <3>3. LET m == Perform("mcu", k, cc)
          IN  Changed(m, k, {"mode"}) /\ m["mode"] = p.value["mode"]
      BY <3>2, PerformMcu, Zenon
    <3> HIDE DEF cc
    <3> QED
      BY <3>1, <3>2, <3>3, Zenon
  <2> QED
    BY <2>1, <2>2
<1>6. Compared(ca) = {"color"} /\ Compared(cb) = {"bri"}
  BY DEF Compared
<1>7. /\ AllTell(p, sa) /\ AllTell(p, sb)
      /\ "mode" \in p.fields => AllTell(p, sc)
  <2>1. Tells(p, ca) /\ Tells(p, cb) /\ ("mode" \in p.fields => Tells(p, cc))
    <3> HIDE DEF ca, cb, cc
    <3> QED
      BY <1>4, <1>5, <1>6, Zenon DEF Tells
  <2> QED
    BY <2>1, TellOne, Zenon
<1> HIDE DEF sa, sb, sc, ca, cb, cc
<1>8. x \in Lamp /\ y \in Lamp /\ z \in Lamp
  <2>1. x \in Lamp
    BY <1>4 DEF Changed
  <2> HIDE DEF x
  <2>2. y \in Lamp
    BY <1>4, <2>1 DEF Changed
  <2> HIDE DEF y
  <2>3. z \in Lamp
    BY <1>5, <2>2 DEF Changed
  <2> QED
    BY <2>1, <2>2, <2>3
<1>9. /\ \A f \in Fields \ {"color"} : x[f] = l[f]
      /\ "color" \in p.fields => x["color"] = p.value["color"]
      /\ "color" \notin p.fields => x["color"] = l["color"]
  BY <1>4 DEF Changed
<1>10. /\ \A f \in Fields \ {"bri"} : y[f] = x[f]
       /\ "bri" \in p.fields => y["bri"] = p.value["bri"]
       /\ "bri" \notin p.fields => y["bri"] = x["bri"]
  <2> HIDE DEF x
  <2> QED
    BY <1>4, <1>8 DEF Changed
<1>11. /\ \A f \in Fields \ {"mode", "timing"} : z[f] = y[f]
       /\ \A f \in {"mode", "timing"} : z[f] = IF f \in p.fields THEN p.value[f] ELSE y[f]
  <2> HIDE DEF x, y
  <2>1. CASE "mode" \in p.fields
    <3>1. Changed(z, y, {"mode", "timing"} \cap p.fields) /\ \A f \in {"mode", "timing"} \cap p.fields : z[f] = p.value[f]
      BY <1>5, <1>8, <2>1
    <3> HIDE DEF z
    <3> QED
      BY <3>1 DEF Changed, Fields
  <2>2. CASE "mode" \notin p.fields
    <3>1. "timing" \notin p.fields
      BY <2>2 DEF Valid
    <3> QED
      BY <2>2, <3>1
  <2> QED
    BY <2>1, <2>2
<1>12. Leads(b, l, (sx \o sy) \o sz, z)
  <2>1. sx \in Seq(Cmd) /\ sy \in Seq(Cmd) /\ sz \in Seq(Cmd)
    BY <1>1, WhenType, Zenon
  <2>2. Leads(b, l, sx, x)
    BY <1>3, LeadsWhen, Zenon
  <2>3. Leads(b, x, sy, y)
    <3> HIDE DEF x
    <3> QED
      BY <1>3, <1>8, LeadsWhen, Zenon
  <2>4. Leads(b, y, sz, z)
    <3> HIDE DEF x, y
    <3> QED
      BY <1>3, <1>8, LeadsWhen, Zenon
  <2> HIDE DEF sx, sy, sz, x, y, z
  <2>5. sx \o sy \in Seq(Cmd)
    BY <2>1, ConcatProperties
  <2>6. Leads(b, l, sx \o sy, y)
    BY <2>1, <2>2, <2>3, LeadsConcat, Zenon
  <2> QED
    BY <2>1, <2>4, <2>5, <2>6, LeadsConcat, Zenon
<1>13. AllTell(p, (sx \o sy) \o sz)
  <2>1. sx \in Seq(Cmd) /\ sy \in Seq(Cmd) /\ sz \in Seq(Cmd)
    BY <1>1, WhenType, Zenon
  <2>2. AllTell(p, sx) /\ AllTell(p, sy) /\ AllTell(p, sz)
    BY <1>7, TellWhen, Zenon
  <2> HIDE DEF sx, sy, sz
  <2>3. sx \o sy \in Seq(Cmd)
    BY <2>1, ConcatProperties
  <2>4. AllTell(p, sx \o sy)
    BY <2>1, <2>2, TellConcat, Zenon
  <2> QED
    BY <2>1, <2>2, <2>3, <2>4, TellConcat, Zenon
<1> HIDE DEF sx, sy, sz, x, y, z
<1>14. \A f \in Fields : z[f] = IF f \in p.fields THEN p.value[f] ELSE l[f]
  BY <1>9, <1>10, <1>11 DEF Fields
<1> QED
  BY <1>2, <1>8, <1>12, <1>13, <1>14

\* The attributes of a LED class light.
Lit(v) == IF v = 0 THEN "off" ELSE "on"

LEMMA SysfsColor ==
    ASSUME NEW k \in Lamp, NEW v \in Colors
    PROVE  LET m == Perform("sysfs", k, [set |-> "color", to |-> v])
           IN  m \in Lamp /\ m.color = v /\ m.bri = k.bri /\ m.mode = k.mode /\ m.timing = k.timing
<1>1. Perform("sysfs", k, [set |-> "color", to |-> v]) = [k EXCEPT !.color = v]
  BY Zenon DEF Perform
<1>2. LET m == [k EXCEPT !.color = v]
      IN  m \in Lamp /\ m.color = v /\ m.bri = k.bri /\ m.mode = k.mode /\ m.timing = k.timing
  BY DEF Lamp, Colors
<1> QED
  BY <1>1, <1>2, Zenon

LEMMA SteadyShows ==
    ASSUME NEW k \in Lamp, NEW v \in 0..2
    PROVE  LET m == Steady(k, v)
           IN  /\ m \in Lamp /\ m.color = k.color /\ m.bri = v /\ m.timing = "none"
               /\ m.mode = Lit(v)
  BY DEF Lamp, Steady, Lit

LEMMA SysfsBri ==
    ASSUME NEW k \in Lamp, NEW v \in 0..2
    PROVE  LET m == Perform("sysfs", k, [set |-> "bri", to |-> v])
           IN  /\ m \in Lamp /\ m.color = k.color /\ m.bri = v
               /\ k.mode # "blink" => m.timing = "none" /\ m.mode = Lit(v)
<1>1. Perform("sysfs", k, [set |-> "bri", to |-> v]) =
        IF v = 0 \/ k.mode # "blink" THEN Steady(k, v) ELSE [k EXCEPT !.bri = v]
  BY Zenon DEF Perform
<1>2. LET m == [k EXCEPT !.bri = v] IN m \in Lamp /\ m.color = k.color /\ m.bri = v
  BY DEF Lamp
<1>3. CASE v = 0 \/ k.mode # "blink"
  <2>1. Perform("sysfs", k, [set |-> "bri", to |-> v]) = Steady(k, v)
    BY <1>1, <1>3, Zenon
  <2> QED
    BY <2>1, SteadyShows
<1>4. CASE ~(v = 0 \/ k.mode # "blink")
  BY <1>1, <1>2, <1>4, Zenon
<1> QED
  BY <1>3, <1>4

LEMMA SysfsTriggers ==
    ASSUME NEW k \in Lamp
    PROVE  /\ LET m == Perform("sysfs", k, [set |-> "trigger", to |-> "none"])
              IN  m \in Lamp /\ m.color = k.color /\ m.mode # "blink" /\ (k.mode # "blink" => m = k)
           /\ LET m == Perform("sysfs", k, [set |-> "trigger", to |-> "timer"])
              IN  m \in Lamp /\ m.color = k.color /\ m.mode = "blink" /\ (k.bri # 0 => m.bri = k.bri)
<1> DEFINE v == IF k.bri = 0 THEN MaxBri("sysfs") ELSE k.bri
<1>1. Perform("sysfs", k, [set |-> "trigger", to |-> "none"]) = IF k.mode = "blink" THEN Steady(k, 0) ELSE k
  BY Zenon DEF Perform
<1>2. Perform("sysfs", k, [set |-> "trigger", to |-> "timer"]) = [k EXCEPT !.mode = "blink", !.timing = "default", !.bri = v]
  BY Zenon DEF Perform
<1>3. v \in 0..2 /\ (k.bri # 0 => v = k.bri)
  BY DEF MaxBri, Lamp
<1> HIDE DEF v
<1>4. LET m == [k EXCEPT !.mode = "blink", !.timing = "default", !.bri = v]
      IN  m \in Lamp /\ m.color = k.color /\ m.mode = "blink" /\ m.bri = v
  BY <1>3 DEF Lamp
<1>5. LET m == Steady(k, 0) IN m \in Lamp /\ m.color = k.color /\ m.mode # "blink"
  BY SteadyShows DEF Lit
<1> QED
  BY <1>1, <1>2, <1>3, <1>4, <1>5, Zenon

LEMMA SysfsDelays ==
    ASSUME NEW k \in Lamp, k.mode = "blink", NEW v \in Timings
    PROVE  /\ LET m == Perform("sysfs", k, [set |-> "delay_on", to |-> v])
              IN  m \in Lamp /\ m.color = k.color /\ m.bri = k.bri /\ m.mode = "blink"
           /\ LET m == Perform("sysfs", k, [set |-> "delay_off", to |-> v])
              IN  m \in Lamp /\ m.color = k.color /\ m.bri = k.bri /\ m.mode = "blink" /\ m.timing = v
<1>1. Perform("sysfs", k, [set |-> "delay_on", to |-> v]) = [k EXCEPT !.timing = "mixed"]
  BY Zenon DEF Perform
<1>2. Perform("sysfs", k, [set |-> "delay_off", to |-> v]) = [k EXCEPT !.timing = v]
  BY Zenon DEF Perform
<1>3. LET m == [k EXCEPT !.timing = "mixed"] IN m \in Lamp /\ m.color = k.color /\ m.bri = k.bri /\ m.mode = "blink"
  BY DEF Lamp
<1>4. LET m == [k EXCEPT !.timing = v] IN m \in Lamp /\ m.color = k.color /\ m.bri = k.bri /\ m.mode = "blink" /\ m.timing = v
  BY DEF Lamp, Timings
<1> QED
  BY <1>1, <1>2, <1>3, <1>4, Zenon

LEMMA SameLamp ==
    ASSUME NEW k \in Lamp, NEW m \in Lamp, k.color = m.color, k.bri = m.bri, k.mode = m.mode, k.timing = m.timing
    PROVE  k = m
  BY DEF Lamp

\* ugreenctl_led_sysfs_apply gets there from any state of the light.
LEMMA SysfsLeads ==
    ASSUME NEW p \in Patch, Valid("sysfs", p), NEW l \in Lamp
    PROVE  \E m \in Lamp : Leads("sysfs", l, SysfsCommands(p, l), m) /\ \A f \in p.fields : m[f] = p.value[f]
<1> DEFINE b == "sysfs"
           v == CASE p.value.mode = "off" -> 0
                  [] "bri" \in p.fields -> p.value.bri
                  [] OTHER -> IF l.bri = 0 THEN MaxBri("sysfs") ELSE l.bri
           ca == [set |-> "color", to |-> p.value.color]
           cb == [set |-> "bri", to |-> p.value.bri]
           ct == [set |-> "trigger", to |-> "none"]
           cw == [set |-> "bri", to |-> v]
           sa == Command("color", p.value.color)
           sb == Command("bri", p.value.bri)
           st == Command("trigger", "none")
           sw == Command("bri", v)
           x == IF "color" \in p.fields THEN Perform(b, l, ca) ELSE l
           y == IF "bri" \in p.fields THEN Perform(b, x, cb) ELSE x
           t == Perform(b, y, ct)
           z == IF "mode" \in p.fields THEN Perform(b, t, cw) ELSE y
           sx == When("color" \in p.fields, sa)
           sy == When("bri" \in p.fields, sb)
           sz == When("mode" \in p.fields, st \o sw)
<1>1. /\ p.value.color \in Colors /\ p.value.bri \in 0..2 /\ p.value.mode \in Modes /\ p.fields \subseteq Fields
  BY PatchParts
<1>2. /\ v \in 0..2
      /\ "mode" \in p.fields => p.value.mode = Lit(v) /\ ("bri" \in p.fields => v = p.value.bri)
  <2>1. CASE p.value.mode = "off"
    <3>1. "mode" \in p.fields /\ "bri" \in p.fields => p.value.bri = 0
      BY <1>1, <2>1 DEF Valid
    <3>2. v = 0 \/ ("bri" \in p.fields /\ v = p.value.bri)
      BY <2>1
    <3> HIDE DEF v
    <3>3. v \in 0..2 /\ ("mode" \in p.fields => v = 0)
      BY <1>1, <3>1, <3>2
    <3> QED
      BY <2>1, <3>1, <3>3 DEF Lit
  <2>2. CASE p.value.mode # "off" /\ "bri" \in p.fields
    <3>1. v = p.value.bri
      BY <2>2
    <3>2. "mode" \in p.fields => p.value.mode = "on" /\ p.value.bri # 0
      BY <1>1, <2>2 DEF Valid, Modes
    <3> HIDE DEF v
    <3> QED
      BY <1>1, <2>2, <3>1, <3>2 DEF Lit
  <2>3. CASE p.value.mode # "off" /\ "bri" \notin p.fields
    <3>1. v = IF l.bri = 0 THEN MaxBri("sysfs") ELSE l.bri
      BY <2>3
    <3> HIDE DEF v
    <3>2. v \in 1..2
      BY <3>1 DEF MaxBri, Lamp
    <3>3. "mode" \in p.fields => p.value.mode = "on"
      BY <1>1, <2>3 DEF Valid, Modes
    <3> QED
      BY <2>3, <3>2, <3>3 DEF Lit
  <2> QED
    BY <2>1, <2>2, <2>3
<1>3. "timing" \notin p.fields
  BY DEF Valid
<1>4. SysfsCommands(p, l) = (sx \o sy) \o sz
  BY DEF SysfsCommands
<1> HIDE DEF v
<1>5. sa \in Seq(Cmd) /\ sb \in Seq(Cmd) /\ st \in Seq(Cmd) /\ sw \in Seq(Cmd)
  <2>1. ca \in Cmd /\ cb \in Cmd /\ ct \in Cmd /\ cw \in Cmd
    BY <1>1, <1>2 DEF Cmd
  <2> QED
    BY <2>1, CommandType, Zenon
<1>6. \A k \in Lamp : /\ Leads(b, k, sa, Perform(b, k, ca)) /\ Leads(b, k, sb, Perform(b, k, cb))
                      /\ Leads(b, k, st, Perform(b, k, ct)) /\ Leads(b, k, sw, Perform(b, k, cw))
  BY LeadsOne, Zenon
<1>7. /\ x \in Lamp /\ ("color" \in p.fields => x.color = p.value.color)
  BY <1>1, SysfsColor
<1>8. /\ y \in Lamp /\ y.color = x.color /\ ("bri" \in p.fields => y.bri = p.value.bri)
  <2> HIDE DEF x
  <2> QED
    BY <1>1, <1>7, SysfsBri
<1>9. t \in Lamp /\ t.color = y.color /\ t.mode # "blink"
  <2> HIDE DEF x, y
  <2> QED
    BY <1>8, SysfsTriggers
<1>10. /\ z \in Lamp /\ z.color = y.color
       /\ "mode" \notin p.fields => z = y
       /\ "mode" \in p.fields => z.bri = v /\ z.mode = Lit(v)
  <2> HIDE DEF x, y, t
  <2>1. LET m == Perform(b, t, cw) IN m \in Lamp /\ m.color = t.color /\ m.bri = v /\ m.mode = Lit(v)
    BY <1>2, <1>9, SysfsBri
  <2> HIDE DEF cw
  <2> QED
    BY <1>8, <1>9, <2>1
<1>11. Leads(b, l, (sx \o sy) \o sz, z)
  <2> HIDE DEF sa, sb, st, sw, ca, cb, ct, cw
  <2>1. st \o sw \in Seq(Cmd)
    BY <1>5, ConcatProperties
  <2>2. sx \in Seq(Cmd) /\ sy \in Seq(Cmd) /\ sz \in Seq(Cmd)
    BY <1>5, <2>1, WhenType, Zenon
  <2>3. Leads(b, l, sx, x)
    BY <1>6, LeadsWhen, Zenon
  <2>4. Leads(b, x, sy, y)
    <3> HIDE DEF x
    <3> QED
      BY <1>6, <1>7, LeadsWhen, Zenon
  <2>5. Leads(b, y, sz, z)
    <3>1. Leads(b, y, st, t)
      <4> HIDE DEF x, y
      <4> QED
        BY <1>6, <1>8, Zenon
    <3>2. Leads(b, t, sw, Perform(b, t, cw))
      <4> HIDE DEF x, y, t
      <4> QED
        BY <1>6, <1>9, Zenon
    <3> HIDE DEF x, y, t
    <3>3. Leads(b, y, st \o sw, Perform(b, t, cw))
      BY <1>5, <3>1, <3>2, LeadsConcat, Zenon
    <3> QED
      BY <3>3, LeadsWhen, Zenon
  <2> HIDE DEF sx, sy, sz, x, y, z
  <2>6. sx \o sy \in Seq(Cmd)
    BY <2>2, ConcatProperties
  <2>7. Leads(b, l, sx \o sy, y)
    BY <2>2, <2>3, <2>4, LeadsConcat, Zenon
  <2> QED
    BY <2>2, <2>5, <2>6, <2>7, LeadsConcat, Zenon
<1> HIDE DEF sx, sy, sz, x, y, t, z
<1>12. ASSUME NEW f \in p.fields PROVE z[f] = p.value[f]
  <2>1. f \in {"color", "bri", "mode"}
    BY <1>1, <1>3, <1>12 DEF Fields
  <2>2. CASE f = "color"
    BY <1>7, <1>8, <1>10, <1>12, <2>2
  <2>3. CASE f = "bri"
    <3>1. "bri" \in p.fields
      BY <1>12, <2>3
    <3>2. z.bri = p.value.bri
      BY <1>2, <1>8, <1>10, <3>1
    <3> QED
      BY <2>3, <3>2
  <2>4. CASE f = "mode"
    <3>1. "mode" \in p.fields
      BY <1>12, <2>4
    <3>2. z.mode = p.value.mode
      BY <1>2, <1>10, <3>1
    <3> QED
      BY <2>4, <3>2
  <2> QED
    BY <2>1, <2>2, <2>3, <2>4
<1> QED
  BY <1>4, <1>10, <1>11, <1>12

\* And its restoration, back to any state such a light can show.
LEMMA SysfsRestoreLeads ==
    ASSUME NEW l \in Lamp, session.saved \in Lamp, Showable("sysfs", session.saved)
    PROVE  Leads("sysfs", l, SysfsRestore, session.saved)
<1> DEFINE s == session.saved
           b == "sysfs"
           n == IF s.mode = "blink" THEN "timer" ELSE "none"
           sa == Command("trigger", "none")
           sb == Command("color", s.color)
           sc == Command("bri", s.bri)
           sd == Command("trigger", n)
           sx == Command("delay_on", s.timing)
           sy == Command("delay_off", s.timing)
           ca == [set |-> "trigger", to |-> "none"]
           cb == [set |-> "color", to |-> s.color]
           cc == [set |-> "bri", to |-> s.bri]
           cd == [set |-> "trigger", to |-> n]
           cx == [set |-> "delay_on", to |-> s.timing]
           cy == [set |-> "delay_off", to |-> s.timing]
           k1 == Perform(b, l, ca)
           k2 == Perform(b, k1, cb)
           k3 == Perform(b, k2, cc)
           k4 == Perform(b, k3, cd)
           k5 == Perform(b, k4, cx)
           k6 == Perform(b, k5, cy)
<1>1. s.color \in Colors /\ s.bri \in 0..2 /\ s.mode \in Modes /\ s.timing \in Timings
  BY DEF Lamp, Colors, Modes, Timings
<1>2. SysfsRestore = (((sa \o sb) \o sc) \o sd) \o When(s.mode = "blink", sx \o sy)
  BY DEF SysfsRestore
<1>3. (s.mode = "off") = (s.bri = 0) /\ (s.mode # "blink" => s.timing = "none")
  BY DEF Showable
<1>4. sa \in Seq(Cmd) /\ sb \in Seq(Cmd) /\ sc \in Seq(Cmd) /\ sd \in Seq(Cmd) /\ sx \in Seq(Cmd) /\ sy \in Seq(Cmd)
  <2>1. ca \in Cmd /\ cb \in Cmd /\ cc \in Cmd /\ cd \in Cmd /\ cx \in Cmd /\ cy \in Cmd
    BY <1>1 DEF Cmd
  <2> QED
    BY <2>1, CommandType, Zenon
<1>5. \A k : /\ Leads(b, k, sa, Perform(b, k, ca)) /\ Leads(b, k, sb, Perform(b, k, cb))
             /\ Leads(b, k, sc, Perform(b, k, cc)) /\ Leads(b, k, sd, Perform(b, k, cd))
             /\ Leads(b, k, sx, Perform(b, k, cx)) /\ Leads(b, k, sy, Perform(b, k, cy))
  BY LeadsOne, Zenon
<1> HIDE DEF s
<1>6. k1 \in Lamp /\ k1.mode # "blink"
  BY SysfsTriggers
<1>7. k2 \in Lamp /\ k2.mode # "blink" /\ k2.color = s.color
  <2> HIDE DEF k1
  <2> QED
    BY <1>1, <1>6, SysfsColor
<1>8. k3 \in Lamp /\ k3.color = s.color /\ k3.bri = s.bri /\ k3.timing = "none" /\ k3.mode = Lit(s.bri)
  <2> HIDE DEF k1, k2
  <2> QED
    BY <1>1, <1>7, SysfsBri
<1> HIDE DEF sa, sb, sc, sd, sx, sy
<1>9. sa \o sb \in Seq(Cmd)
  BY <1>4, ConcatProperties
<1>10. (sa \o sb) \o sc \in Seq(Cmd)
  BY <1>4, <1>9, ConcatProperties
<1>11. ((sa \o sb) \o sc) \o sd \in Seq(Cmd)
  BY <1>4, <1>10, ConcatProperties
<1>12. sx \o sy \in Seq(Cmd)
  BY <1>4, ConcatProperties
<1>13. Leads(b, l, ((sa \o sb) \o sc) \o sd, k4)
  <2>8. Leads(b, k3, sd, k4)
    BY <1>5, Zenon
  <2>9. Leads(b, k2, sc, k3)
    BY <1>5, Zenon
  <2>1. Leads(b, l, sa \o sb, k2)
    BY <1>4, <1>5, LeadsConcat, Zenon
  <2>2. Leads(b, l, (sa \o sb) \o sc, k3)
    <3> HIDE DEF k2, k3
    <3> QED
      BY <1>4, <1>9, <2>1, <2>9, LeadsConcat, Zenon
  <2> HIDE DEF k3, k4
  <2> QED
    BY <1>4, <1>10, <2>2, <2>8, LeadsConcat, Zenon
<1>14. CASE s.mode = "blink"
  <2>1. k4 \in Lamp /\ k4.color = s.color /\ k4.bri = s.bri /\ k4.mode = "blink"
    <3>1. k3.bri # 0 /\ cd = [set |-> "trigger", to |-> "timer"]
      BY <1>3, <1>8, <1>14
    <3> HIDE DEF k3, cd
    <3> QED
      BY <1>8, <3>1, SysfsTriggers
  <2> HIDE DEF k4
  <2>2. k5 \in Lamp /\ k5.color = s.color /\ k5.bri = s.bri /\ k5.mode = "blink"
    BY <1>1, <2>1, SysfsDelays
  <2>3. Leads(b, k4, sx \o sy, k6)
    BY <1>4, <1>5, LeadsConcat, Zenon
  <2> HIDE DEF k5
  <2>4. k6 \in Lamp /\ k6.color = s.color /\ k6.bri = s.bri /\ k6.mode = "blink" /\ k6.timing = s.timing
    BY <1>1, <2>2, SysfsDelays
  <2> HIDE DEF k6
  <2>5. k6 = s
    BY <1>14, <2>4, SameLamp DEF s
  <2>6. Leads(b, k4, When(s.mode = "blink", sx \o sy), s)
    BY <1>14, <2>3, <2>5, Zenon DEF When
  <2>7. When(s.mode = "blink", sx \o sy) \in Seq(Cmd)
    BY <1>12, WhenType, Zenon
  <2> QED
    <3>1. Leads(b, l, (((sa \o sb) \o sc) \o sd) \o When(s.mode = "blink", sx \o sy), s)
      BY <1>11, <1>13, <2>6, <2>7, LeadsConcat, Zenon
    <3> QED
      BY <1>2, <3>1 DEF s
<1>15. CASE s.mode # "blink"
  <2>1. cd = [set |-> "trigger", to |-> "none"] /\ k3.mode # "blink"
    BY <1>8, <1>15 DEF Lit
  <2>2. k4 = k3
    <3> HIDE DEF k3, cd
    <3> QED
      BY <1>8, <2>1, SysfsTriggers
  <2> HIDE DEF k4, k3
  <2>3. k3.mode = s.mode /\ k3.timing = s.timing
    BY <1>1, <1>3, <1>8, <1>15 DEF Modes, Lit
  <2>4. k4 = s
    BY <1>8, <2>2, <2>3, SameLamp DEF s
  <2>5. Leads(b, k4, When(s.mode = "blink", sx \o sy), s)
    BY <1>15, <2>4, LeadsWhen, Zenon
  <2>6. When(s.mode = "blink", sx \o sy) \in Seq(Cmd)
    BY <1>12, WhenType, Zenon
  <2> QED
    <3>1. Leads(b, l, (((sa \o sb) \o sc) \o sd) \o When(s.mode = "blink", sx \o sy), s)
      BY <1>11, <1>13, <2>5, <2>6, LeadsConcat, Zenon
    <3> QED
      BY <1>2, <3>1 DEF s
<1> QED
  BY <1>14, <1>15

-----------------------------------------------------------------------------
(* A command that nobody disturbs. *)

\* The commands that are left lead to what the apply is for.
Goal(m) ==
    /\ \A f \in session.patch.fields : m[f] = session.patch.value[f]
    /\ session.why = "restore_mode" => m = session.saved
Purposes ==
    /\ session.why \in {"set", "effect"} => Valid(session.backend, session.patch)
    /\ session.why # "set" => Showable(session.backend, session.saved)
    /\ session.why = "restore" /\ session.backend = "mcu" => session.patch = RestorePatch
    /\ session.why = "restore" /\ session.backend = "sysfs" =>
        session.pc = "write" /\ session.patch = [fields |-> Fields, value |-> session.saved]
    /\ session.why = "restore_mode" => session.backend = "mcu" /\ session.saved.mode # "blink" /\ session.patch = ModePatch
    /\ session.pc = "wait" => session.why = "effect"
Steered ==
    /\ session.why = "restore_mode" /\ session.pc = "begin" =>
        \A f \in Fields \ {"mode"} : lamps[Target][f] = session.saved[f]
    /\ session.pc \in {"write", "check"} =>
        /\ \E m \in Lamp : Leads(session.backend, lamps[Target], session.cmds, m) /\ Goal(m)
        /\ session.backend = "mcu" => AllTell(session.patch, session.cmds)
    /\ session.pc = "check" => session.backend = "mcu" /\ \A f \in session.sent : lamps[Target][f] = session.patch.value[f]
QuietIInv ==
    ~disturbed =>
        /\ ~owner /\ session.effect = "ok"
        /\ session.pc = "done" /\ session.kind # "none" => session.result \in {"ok", "interrupted"}
        /\ \A i \in 1..Len(session.ops) : Valid(session.backend, session.ops[i].patch)
        /\ session.pc \in Before => \A l \in Lights : Showable(session.backend, lamps[l])
        /\ session.pc \in After => Purposes /\ Steered

LEMMA QuietGoesOn ==
    ASSUME QuietIInv, ~disturbed, UNCHANGED <<disturbed, owner>>, Frame, session'.effect = session.effect,
           session'.pc \in After, Purposes', Steered'
    PROVE  QuietIInv'
<1>1. session'.pc \notin Before \cup {"done"}
  BY DEF After, Before
<1>2. \A i \in 1..Len(session'.ops) : Valid(session'.backend, session'.ops[i].patch)
  BY DEF QuietIInv, Frame
<1> QED
  BY <1>1, <1>2 DEF QuietIInv

LEMMA QuietEnds ==
    ASSUME QuietIInv, ~disturbed, UNCHANGED <<disturbed, owner>>, Frame, session'.effect = session.effect,
           session'.pc = "done", session'.result \in {"ok", "interrupted"}
    PROVE  QuietIInv'
<1>1. session'.pc \notin Before \cup After
  BY DEF After, Before
<1>2. \A i \in 1..Len(session'.ops) : Valid(session'.backend, session'.ops[i].patch)
  BY DEF QuietIInv, Frame
<1> QED
  BY <1>1, <1>2 DEF QuietIInv

LEMMA QuietWaits ==
    ASSUME QuietIInv, ~disturbed, UNCHANGED <<disturbed, owner, lamps>>, Frame, session'.effect = session.effect,
           session.pc \in Before, session'.pc \in Before
    PROVE  QuietIInv'
<1>1. session'.pc \notin After \cup {"done"}
  BY DEF After, Before
<1>2. \A i \in 1..Len(session'.ops) : Valid(session'.backend, session'.ops[i].patch)
  BY DEF QuietIInv, Frame
<1>3. \A l \in Lights : Showable(session'.backend, lamps'[l])
  BY DEF QuietIInv, Frame
<1> QED
  BY <1>1, <1>2, <1>3 DEF QuietIInv

\* The patches of a restoration and of an identify.
LEMMA RestoreSays ==
    ASSUME session.saved \in Lamp
    PROVE  /\ RestorePatch.fields = Fields /\ RestorePatch.value \in Lamp /\ RestorePatch.value.mode = "blink"
           /\ \A f \in Fields \ {"mode"} : RestorePatch.value[f] = session.saved[f]
           /\ Valid("mcu", RestorePatch)
           /\ ModePatch.fields = {"mode"} /\ ModePatch.value = session.saved
           /\ session.saved.mode # "blink" => Valid("mcu", ModePatch)
<1>1. RestorePatch.fields = Fields /\ RestorePatch.value = [session.saved EXCEPT !.mode = "blink"]
  BY DEF RestorePatch
<1> DEFINE s == session.saved
<1>2. s \in Lamp
  OBVIOUS
<1> HIDE DEF s
<1>3. LET v == [s EXCEPT !.mode = "blink"]
      IN  v \in Lamp /\ v.mode = "blink" /\ \A f \in Fields \ {"mode"} : v[f] = s[f]
  BY <1>2 DEF Lamp, Fields
<1>4. RestorePatch.value \in Lamp /\ RestorePatch.value.mode = "blink" /\ \A f \in Fields \ {"mode"} : RestorePatch.value[f] = session.saved[f]
  BY <1>1, <1>3, Zenon DEF s
<1>5. Valid("mcu", RestorePatch)
  BY <1>1, <1>4 DEF Valid, Fields
<1>6. ModePatch.fields = {"mode"} /\ ModePatch.value = session.saved
  BY DEF ModePatch
<1>7. session.saved.mode # "blink" => Valid("mcu", ModePatch)
  BY <1>6 DEF Valid
<1> QED
  BY <1>1, <1>4, <1>5, <1>6, <1>7

LEMMA EffectValid ==
    ASSUME session.backend \in {"mcu", "sysfs"}, NEW tick \in Nat
    PROVE  Valid(session.backend, EffectPatch(tick))
  BY DEF EffectPatch, Valid, MaxBri, Fields

\* The apply of a patch begins.
LEMMA BeginSteers ==
    ASSUME LedIInv, QuietIInv, ~disturbed, session.pc = "begin"
    PROVE  LET c == Commands(session.patch, lamps[Target])
           IN  /\ \E m \in Lamp : Leads(session.backend, lamps[Target], c, m) /\ Goal(m)
               /\ session.backend = "mcu" => AllTell(session.patch, c)
<1>1. session.pc \in After /\ session \in Session /\ session.patch \in Patch /\ session.saved \in Lamp
      /\ session.backend \in {"mcu", "sysfs"} /\ Purposes /\ Steered
  BY DEF After, LedIInv, LedTyped, Session, QuietIInv
<1>2. lamps[Target] \in Lamp
  BY <1>1, TargetType DEF LedIInv, LedTyped
<1>3. session.why \in {"set", "effect", "restore", "restore_mode"}
  BY <1>1, ReasonKnown
<1>4. CASE session.backend = "mcu"
  <2>1. Valid("mcu", session.patch)
    BY <1>1, <1>3, <1>4, RestoreSays DEF Purposes
  <2>2. AllTell(session.patch, McuCommands(session.patch))
    BY <1>1, <1>2, <2>1, McuLeads
  <2>3. PICK m \in Lamp :
          /\ Leads("mcu", lamps[Target], McuCommands(session.patch), m)
          /\ \A f \in Fields : m[f] = IF f \in session.patch.fields THEN session.patch.value[f] ELSE lamps[Target][f]
    BY <1>1, <1>2, <2>1, McuLeads
  <2>4. \A f \in session.patch.fields : m[f] = session.patch.value[f]
    BY <1>1, <2>3, PatchParts
  <2>5. ASSUME session.why = "restore_mode" PROVE m = session.saved
    <3>1. session.patch.fields = {"mode"} /\ session.patch.value = session.saved
      BY <1>1, <2>5, RestoreSays DEF Purposes
    <3>2. \A f \in Fields : m[f] = session.saved[f]
      BY <1>1, <2>3, <2>5, <3>1 DEF Steered
    <3>3. m["color"] = session.saved["color"] /\ m["bri"] = session.saved["bri"] /\ m["mode"] = session.saved["mode"] /\ m["timing"] = session.saved["timing"]
      BY <3>2 DEF Fields
    <3> QED
      BY <1>1, <3>3, SameLamp
  <2>6. Commands(session.patch, lamps[Target]) = McuCommands(session.patch)
    BY <1>4 DEF Commands
  <2> QED
    BY <1>4, <2>2, <2>3, <2>4, <2>5, <2>6 DEF Goal
<1>5. CASE session.backend = "sysfs"
  <2>1. session.why \in {"set", "effect"} /\ Valid("sysfs", session.patch)
    BY <1>1, <1>3, <1>5 DEF Purposes
  <2>2. PICK m \in Lamp :
          /\ Leads("sysfs", lamps[Target], SysfsCommands(session.patch, lamps[Target]), m)
          /\ \A f \in session.patch.fields : m[f] = session.patch.value[f]
    BY <1>1, <1>2, <2>1, SysfsLeads
  <2>3. Commands(session.patch, lamps[Target]) = SysfsCommands(session.patch, lamps[Target])
    BY <1>5 DEF Commands
  <2> QED
    BY <1>5, <2>1, <2>2, <2>3 DEF Goal
<1> QED
  BY <1>1, <1>4, <1>5

\* An apply is complete: the light shows its patch, and goes where the purpose says.
LEMMA QuietApplied ==
    ASSUME LedIInv, QuietIInv, ~disturbed, session.pc \in {"write", "check"}, session.cmds = <<>>, Frame,
           UNCHANGED <<lamps, disturbed, owner>>, Applied(lamps[Target])
    PROVE  QuietIInv'
<1>1. session.pc \in After /\ session \in Session /\ session.saved \in Lamp
      /\ session.backend \in {"mcu", "sysfs"} /\ Purposes /\ Steered /\ session.effect = "ok"
  BY DEF After, LedIInv, LedTyped, Session, QuietIInv
<1> DEFINE lamp == lamps[Target]
<1>2. lamp \in Lamp /\ Target \in Lights
  BY <1>1, TargetType DEF LedIInv, LedTyped
<1>3. Goal(lamp)
  <2>1. PICK m \in Lamp : Leads(session.backend, lamp, <<>>, m) /\ Goal(m)
    BY <1>1 DEF Steered
  <2> QED
    BY <2>1, LeadsNone
<1>4. session.why \in {"set", "effect", "restore", "restore_mode"}
  BY <1>1, ReasonKnown
<1>5. CASE session.why = "set"
  <2> DEFINE d == session.done + (IF session.patch.fields = {} THEN 0 ELSE 1)
             p == session.ops[session.at + 1].patch
             n == session.at + 1
  <2>1. session' = IF session.at = Len(session.ops)
                   THEN [session EXCEPT !.pc = "done", !.result = "ok", !.done = d]
                   ELSE [session EXCEPT !.pc = "begin", !.at = n, !.done = d, !.patch = p]
    BY <1>5 DEF Applied, NextOp
  <2>2. CASE session.at = Len(session.ops)
    <3> HIDE DEF d
    <3>1. session'.pc = "done" /\ session'.result = "ok" /\ session'.effect = session.effect
      BY <1>1, <2>1, <2>2 DEF Session
    <3> QED
      BY <3>1, QuietEnds
  <2>3. CASE session.at # Len(session.ops)
    <3>1. Valid(session.backend, p)
      <4>1. session.at + 1 \in 1..Len(session.ops)
        BY <1>1, <2>3, LenProperties DEF Session, LedIInv, Positions
      <4> QED
        BY <4>1 DEF QuietIInv
    <3> HIDE DEF d, p, n
    <3>2. session'.pc = "begin" /\ session'.patch = p /\ session'.why = session.why /\ session'.effect = session.effect
      BY <1>1, <2>1, <2>3 DEF Session
    <3>3. session'.pc \in After
      BY <3>2 DEF After
    <3>4. Purposes'
      BY <1>5, <3>1, <3>2 DEF Purposes, Frame
    <3>5. Steered'
      BY <1>5, <3>2 DEF Steered
    <3> QED
      BY <3>2, <3>3, <3>4, <3>5, QuietGoesOn
  <2> QED
    BY <2>2, <2>3
<1>6. CASE session.why = "effect"
  <2>1. session' = [session EXCEPT !.pc = "wait"]
    BY <1>6 DEF Applied
  <2>2. /\ session'.pc = "wait" /\ session'.patch = session.patch /\ session'.why = session.why
        /\ session'.effect = session.effect /\ session'.saved = session.saved
    BY <1>1, <2>1 DEF Session
  <2>3. session'.pc \in After
    BY <2>2 DEF After
  <2>4. Purposes'
    BY <1>1, <1>6, <2>2 DEF Purposes, Frame
  <2>5. Steered'
    BY <2>2 DEF Steered
  <2> QED
    BY <2>2, <2>3, <2>4, <2>5, QuietGoesOn
<1>7. CASE session.why = "restore" /\ session.backend = "mcu" /\ session.saved.mode # "blink"
  <2> DEFINE p == ModePatch
  <2>1. session' = [session EXCEPT !.pc = "begin", !.patch = p, !.why = "restore_mode"]
    BY <1>7 DEF Applied, Apply
  <2> HIDE DEF p
  <2>2. /\ session'.pc = "begin" /\ session'.patch = p /\ session'.why = "restore_mode" /\ session'.at = session.at
        /\ session'.effect = session.effect /\ session'.saved = session.saved
    BY <1>1, <2>1 DEF Session
  <2>3. session'.pc \in After
    BY <2>2 DEF After
  <2>4. Purposes'
    <3>1. ModePatch' = p
      BY <2>2 DEF p, ModePatch
    <3>2. Showable(session'.backend, session'.saved)
      BY <1>1, <1>7, <2>2 DEF Purposes, Frame
    <3> QED
      BY <1>7, <2>2, <3>1, <3>2 DEF Purposes, Frame
  <2>5. Steered'
    <3>1. Target' = Target
      BY <2>2 DEF Target, Frame
    <3>2. \A f \in Fields \ {"mode"} : lamp[f] = session.saved[f]
      <4>1. session.patch = RestorePatch
        BY <1>1, <1>7 DEF Purposes
      <4>2. RestorePatch.fields = Fields /\ \A f \in Fields \ {"mode"} : RestorePatch.value[f] = session.saved[f]
        BY <1>1, RestoreSays
      <4> QED
        BY <1>3, <4>1, <4>2 DEF Goal
    <3> QED
      BY <2>2, <3>1, <3>2 DEF Steered
  <2> QED
    BY <2>2, <2>3, <2>4, <2>5, QuietGoesOn
<1>8. CASE session.why \in {"restore", "restore_mode"} /\ ~(session.why = "restore" /\ session.backend = "mcu" /\ session.saved.mode # "blink")
  <2>1. Restored(lamp)
    BY <1>8 DEF Applied
  <2>2. lamp = session.saved
    <3>1. CASE session.why = "restore_mode"
      BY <1>3, <3>1 DEF Goal
    <3>2. CASE session.why = "restore"
      <4>1. session.patch.fields = Fields /\ \A f \in Fields : session.patch.value[f] = session.saved[f]
        <5>1. CASE session.backend = "sysfs"
          BY <1>1, <3>2, <5>1 DEF Purposes
        <5>2. CASE session.backend = "mcu"
          <6>1. session.patch = RestorePatch /\ session.saved.mode = "blink"
            BY <1>1, <1>8, <3>2, <5>2 DEF Purposes
          <6>2. /\ RestorePatch.fields = Fields /\ \A f \in Fields \ {"mode"} : RestorePatch.value[f] = session.saved[f]
                /\ RestorePatch.value.mode = "blink"
            BY <1>1, RestoreSays
          <6>3. RestorePatch.value["mode"] = session.saved["mode"]
            BY <6>1, <6>2
          <6> QED
            BY <6>1, <6>2, <6>3
        <5> QED
          BY <1>1, <5>1, <5>2
      <4>2. \A f \in Fields : lamp[f] = session.saved[f]
        BY <1>3, <4>1 DEF Goal
      <4>3. lamp["color"] = session.saved["color"] /\ lamp["bri"] = session.saved["bri"] /\ lamp["mode"] = session.saved["mode"] /\ lamp["timing"] = session.saved["timing"]
        BY <4>2 DEF Fields
      <4> HIDE DEF lamp
      <4> QED
        BY <1>1, <1>2, <4>3, SameLamp
    <3> QED
      BY <1>8, <3>1, <3>2
  <2>3. Quit(Outcome) /\ Outcome \in {"ok", "interrupted"}
    BY <1>1, <2>1, <2>2 DEF Restored, Outcome
  <2> DEFINE r == Outcome
  <2>4. Quit(r) /\ r \in {"ok", "interrupted"}
    BY <2>3
  <2> HIDE DEF r
  <2>5. session'.pc = "done" /\ session'.result = r /\ session'.effect = session.effect
    BY <1>1, <2>4 DEF Quit, Session
  <2> QED
    BY <2>4, <2>5, QuietEnds
<1> QED
  BY <1>4, <1>5, <1>6, <1>7, <1>8

LEMMA QuietStepKeeps ==
    ASSUME LedIInv, QuietIInv, LedStep
    PROVE  QuietIInv'
<1>0. UNCHANGED <<disturbed, owner>> /\ disturbed \in BOOLEAN
  BY DEF LedStep, LedOpen, LedRead, LedSave, LedBegin, LedWrite, LedCheck, LedSysfsCheck, LedWait, LedRest, LedIInv, LedTyped
<1> SUFFICES ASSUME ~disturbed PROVE QuietIInv'
  BY <1>0 DEF QuietIInv
<1>1. session \in Session /\ Frame /\ ~owner /\ Authorized /\ session.effect = "ok" /\ session.saved \in Lamp
      /\ session.backend \in {"mcu", "sysfs"}
  BY FrameKept DEF LedIInv, LedTyped, QuietIInv, Authorized, Session
<1>2. session.pc \in After => Purposes /\ Steered /\ Target \in Lights /\ lamps[Target] \in Lamp
  BY TargetType DEF QuietIInv, LedIInv, LedTyped
<1>3. CASE LedOpen
  <2>1. session' = [session EXCEPT !.pc = "read"] /\ session.pc = "open" /\ UNCHANGED lamps
    BY <1>1, <1>3 DEF LedOpen, LedRest
  <2>2. session'.pc = "read" /\ session'.effect = session.effect
    BY <1>1, <2>1 DEF Session
  <2>3. session.pc \in Before /\ session'.pc \in Before
    BY <2>1, <2>2 DEF Before
  <2> QED
    BY <1>0, <1>1, <2>1, <2>2, <2>3, QuietWaits
<1>4. CASE LedRead
  <2> DEFINE p == session.ops[1].patch
             n == session.at + 1
             one == 1
  <2>1. session.pc = "read" /\ UNCHANGED lamps
    BY <1>4 DEF LedRead, LedRest
  <2>2. \/ session' = [session EXCEPT !.at = n] \/ session' = [session EXCEPT !.pc = "save", !.at = one]
        \/ session' = [session EXCEPT !.pc = "begin", !.at = one, !.why = "set", !.patch = p]
    BY <1>1, <1>4 DEF LedRead
  <2>3. CASE ~(session' = [session EXCEPT !.pc = "begin", !.at = one, !.why = "set", !.patch = p])
    <3> HIDE DEF n, one, p
    <3>1. session'.pc \in {"read", "save"} /\ session'.effect = session.effect
      BY <1>1, <2>1, <2>2, <2>3 DEF Session
    <3>2. session.pc \in Before /\ session'.pc \in Before
      BY <2>1, <3>1 DEF Before
    <3> QED
      BY <1>0, <1>1, <2>1, <3>1, <3>2, QuietWaits
  <2>4. CASE session' = [session EXCEPT !.pc = "begin", !.at = one, !.why = "set", !.patch = p]
    <3>1. Valid(session.backend, p)
      <4>1. 1 \in 1..Len(session.ops)
        BY <1>1, <2>1, LenProperties DEF LedIInv, Positions, Session
      <4> QED
        BY <4>1 DEF QuietIInv
    <3> HIDE DEF one, p
    <3>2. session'.pc = "begin" /\ session'.patch = p /\ session'.why = "set" /\ session'.effect = session.effect
      BY <1>1, <2>4 DEF Session
    <3>3. session'.pc \in After
      BY <3>2 DEF After
    <3>4. Purposes'
      BY <1>1, <3>1, <3>2 DEF Purposes, Frame
    <3>5. Steered'
      BY <3>2 DEF Steered
    <3> QED
      BY <1>0, <1>1, <3>2, <3>3, <3>4, <3>5, QuietGoesOn
  <2> QED
    BY <2>3, <2>4
<1>5. CASE LedSave
  <2> DEFINE x == lamps[Target]
             p == EffectPatch(0)
  <2>1. session' = [session EXCEPT !.pc = "begin", !.saved = x, !.patch = p, !.why = "effect"] /\ session.pc = "save"
    BY <1>1, <1>5 DEF LedSave
  <2>2. Valid(session.backend, p) /\ Showable(session.backend, x)
    <3>1. session.pc \in Before /\ Target \in Lights
      BY <2>1, TargetType DEF Before
    <3> QED
      BY <1>1, <3>1, EffectValid DEF QuietIInv
  <2> HIDE DEF x, p
  <2>3. session'.pc = "begin" /\ session'.patch = p /\ session'.why = "effect" /\ session'.effect = session.effect /\ session'.saved = x
    BY <1>1, <2>1 DEF Session
  <2>4. session'.pc \in After
    BY <2>3 DEF After
  <2>5. Purposes'
    BY <1>1, <2>2, <2>3 DEF Purposes, Frame
  <2>6. Steered'
    BY <2>3 DEF Steered
  <2> QED
    BY <1>0, <1>1, <2>3, <2>4, <2>5, <2>6, QuietGoesOn
<1>6. CASE LedBegin
  <2> DEFINE c == Commands(session.patch, lamps[Target])
  <2>1. session.pc = "begin" /\ session.pc \in After /\ UNCHANGED lamps
    BY <1>6 DEF LedBegin, LedRest, After
  <2>2. /\ \E m \in Lamp : Leads(session.backend, lamps[Target], c, m) /\ Goal(m)
        /\ session.backend = "mcu" => AllTell(session.patch, c)
    BY <2>1, BeginSteers
  <2>3. \/ session.patch.fields = {} /\ NextOp
        \/ session' = [session EXCEPT !.pc = "write", !.sent = {}, !.cmds = c]
    BY <1>1, <1>6 DEF LedBegin
  <2>4. CASE session.patch.fields = {} /\ NextOp
    <3> DEFINE d == session.done + (IF session.patch.fields = {} THEN 0 ELSE 1)
               p == session.ops[session.at + 1].patch
               n == session.at + 1
    <3>1. session.why = "set"
      BY <2>1, <2>4, ReasonKnown DEF LedIInv, Purpose
    <3>2. session' = IF session.at = Len(session.ops)
                     THEN [session EXCEPT !.pc = "done", !.result = "ok", !.done = d]
                     ELSE [session EXCEPT !.pc = "begin", !.at = n, !.done = d, !.patch = p]
      BY <2>4 DEF NextOp
    <3>3. CASE session.at = Len(session.ops)
      <4> HIDE DEF d
      <4>1. session'.pc = "done" /\ session'.result = "ok" /\ session'.effect = session.effect
        BY <1>1, <3>2, <3>3 DEF Session
      <4> QED
        BY <1>0, <1>1, <4>1, QuietEnds
    <3>4. CASE session.at # Len(session.ops)
      <4>1. Valid(session.backend, p)
        <5>1. session.at + 1 \in 1..Len(session.ops)
          BY <1>1, <2>1, <3>4, LenProperties DEF Session, LedIInv, Positions
        <5> QED
          BY <5>1 DEF QuietIInv
      <4> HIDE DEF d, p, n
      <4>2. session'.pc = "begin" /\ session'.patch = p /\ session'.why = session.why /\ session'.effect = session.effect
        BY <1>1, <3>2, <3>4 DEF Session
      <4>3. session'.pc \in After
        BY <4>2 DEF After
      <4>4. Purposes'
        BY <1>1, <3>1, <4>1, <4>2 DEF Purposes, Frame
      <4>5. Steered'
        BY <3>1, <4>2 DEF Steered
      <4> QED
        BY <1>0, <1>1, <4>2, <4>3, <4>4, <4>5, QuietGoesOn
    <3> QED
      BY <3>3, <3>4
  <2>5. CASE session' = [session EXCEPT !.pc = "write", !.sent = {}, !.cmds = c]
    <3> HIDE DEF c
    <3>1. /\ session'.pc = "write" /\ session'.cmds = c /\ session'.patch = session.patch /\ session'.why = session.why
          /\ session'.effect = session.effect /\ session'.saved = session.saved /\ session'.at = session.at
      BY <1>1, <2>5 DEF Session
    <3>2. session'.pc \in After /\ Target' = Target /\ \A m : Goal(m) => Goal(m)'
      BY <1>1, <3>1 DEF After, Target, Frame, Goal
    <3>3. Purposes'
      <4>1. RestorePatch' = RestorePatch /\ ModePatch' = ModePatch
        BY <3>1 DEF RestorePatch, ModePatch
      <4> QED
        BY <1>1, <1>2, <2>1, <3>1, <4>1 DEF Purposes, Frame
    <3>4. Steered'
      BY <1>1, <2>1, <2>2, <3>1, <3>2 DEF Steered, Frame
    <3> QED
      BY <1>0, <1>1, <3>1, <3>2, <3>3, <3>4, QuietGoesOn
  <2> QED
    BY <2>3, <2>4, <2>5
<1>7. CASE LedWrite
  <2> DEFINE h == Head(session.cmds)
             c == Tail(session.cmds)
             f == Compared(h)
             x == Perform(session.backend, lamps[Target], h)
  <2>1. session.pc = "write" /\ session.pc \in After /\ session.cmds # <<>> /\ session.cmds \in Seq(Cmd)
    BY <1>1, <1>7 DEF LedWrite, After, Session
  <2>2. /\ lamps' = [lamps EXCEPT ![Target] = x]
        /\ session' = IF session.backend = "mcu" THEN [session EXCEPT !.pc = "check", !.cmds = c, !.sent = f]
                      ELSE [session EXCEPT !.cmds = c]
    BY <1>1, <1>7 DEF LedWrite, Written
  <2>3. PICK m \in Lamp : Leads(session.backend, lamps[Target], session.cmds, m) /\ Goal(m)
    BY <1>2, <2>1 DEF Steered
  <2>4. Leads(session.backend, x, c, m)
    BY <2>1, <2>3, LeadsStep
  <2>5. session.backend = "mcu" => AllTell(session.patch, c) /\ \A g \in f : x[g] = session.patch.value[g]
    <3>1. SUFFICES ASSUME session.backend = "mcu" PROVE AllTell(session.patch, c) /\ \A g \in f : x[g] = session.patch.value[g]
      OBVIOUS
    <3>2. AllTell(session.patch, session.cmds)
      BY <1>2, <2>1, <3>1 DEF Steered
    <3>3. /\ Len(session.cmds) \in Nat \ {0} /\ Len(c) = Len(session.cmds) - 1 /\ h = session.cmds[1]
          /\ \A j \in 1..Len(session.cmds) - 1 : c[j] = session.cmds[j + 1]
      BY <2>1, LenProperties, HeadTailProperties, EmptySeq
    <3>4. Tells(session.patch, h)
      BY <3>2, <3>3 DEF AllTell
    <3>5. AllTell(session.patch, c)
      <4> HIDE DEF c, h
      <4>1. ASSUME NEW j \in 1..Len(c) PROVE Tells(session.patch, c[j])
        <5>1. j \in 1..Len(session.cmds) - 1 /\ j + 1 \in 1..Len(session.cmds)
          BY <3>3, <4>1
        <5> QED
          BY <3>2, <3>3, <5>1 DEF AllTell
      <4> QED
        BY <4>1 DEF AllTell
    <3> QED
      BY <1>2, <2>1, <3>1, <3>4, <3>5 DEF Tells
  <2>6. lamps \in [Lights -> Lamp] /\ lamps'[Target] = x
    <3>1. lamps \in [Lights -> Lamp]
      BY DEF LedIInv, LedTyped
    <3> HIDE DEF x
    <3> QED
      BY <1>2, <2>1, <2>2, <3>1
  <2> HIDE DEF c, f, x, h
  <2>7. /\ session'.pc = (IF session.backend = "mcu" THEN "check" ELSE "write") /\ session'.cmds = c
        /\ session'.patch = session.patch /\ session'.why = session.why
        /\ session'.effect = session.effect /\ session'.saved = session.saved /\ session'.at = session.at
        /\ session.backend = "mcu" => session'.sent = f
    BY <1>1, <2>1, <2>2 DEF Session
  <2>8. session'.pc \in After /\ Target' = Target /\ \A k : Goal(k) => Goal(k)'
    BY <1>1, <2>7 DEF After, Target, Frame, Goal
  <2>9. Purposes'
    <3>1. RestorePatch' = RestorePatch /\ ModePatch' = ModePatch
      BY <2>7 DEF RestorePatch, ModePatch
    <3>2. session.backend = "sysfs" => session'.pc = "write"
      BY <2>7
    <3>3. session'.pc # "wait"
      BY <2>7
    <3> QED
      BY <1>1, <1>2, <2>1, <2>7, <3>1, <3>2, <3>3 DEF Purposes, Frame
  <2>10. Steered'
    <3>1. session'.pc # "begin" /\ (session'.pc = "check" => session.backend = "mcu")
      BY <2>7
    <3>2. \E k \in Lamp : Leads(session'.backend, lamps'[Target'], session'.cmds, k) /\ Goal(k)'
      BY <1>1, <2>3, <2>4, <2>6, <2>7, <2>8 DEF Frame
    <3>3. session.backend = "mcu" => AllTell(session'.patch, session'.cmds) /\ \A g \in session'.sent : lamps'[Target'][g] = session'.patch.value[g]
      BY <2>5, <2>6, <2>7, <2>8
    <3> QED
      BY <1>1, <3>1, <3>2, <3>3 DEF Steered, Frame
  <2> QED
    BY <1>0, <1>1, <2>7, <2>8, <2>9, <2>10, QuietGoesOn
<1>8. ASSUME session.pc \in {"write", "check"}, session.cmds = <<>> PROVE Goal(lamps[Target])
  <2>1. session.pc \in After
    BY <1>8 DEF After
  <2>2. PICK m \in Lamp : Leads(session.backend, lamps[Target], <<>>, m) /\ Goal(m)
    BY <1>2, <1>8, <2>1 DEF Steered
  <2> QED
    BY <2>2, LeadsNone
<1>9. CASE LedCheck
  <2> DEFINE fields == session.sent \cup (IF session.cmds = <<>> THEN session.patch.fields ELSE {})
  <2>1. session.pc = "check" /\ session.pc \in After /\ UNCHANGED lamps
    BY <1>9 DEF LedCheck, LedRest, After
  <2>2. \A f \in session.sent : lamps[Target][f] = session.patch.value[f]
    BY <1>2, <2>1 DEF Steered
  <2>3. ~\E f \in fields : lamps[Target][f] # session.patch.value[f]
    BY <1>8, <2>1, <2>2 DEF Goal
  <2>4. IF session.cmds # <<>> THEN session' = [session EXCEPT !.pc = "write"] ELSE Applied(lamps[Target])
    BY <1>1, <1>9, <2>3, Zenon DEF LedCheck
  <2>5. CASE session.cmds = <<>>
    BY <1>0, <1>1, <2>1, <2>4, <2>5, QuietApplied
  <2>6. CASE session.cmds # <<>>
    <3>0. session' = [session EXCEPT !.pc = "write"]
      BY <2>4, <2>6
    <3>1. /\ session'.pc = "write" /\ session'.cmds = session.cmds /\ session'.patch = session.patch /\ session'.why = session.why
          /\ session'.effect = session.effect /\ session'.saved = session.saved /\ session'.at = session.at
      BY <1>1, <3>0 DEF Session
    <3>2. session'.pc \in After /\ Target' = Target /\ \A m : Goal(m) => Goal(m)'
      BY <1>1, <3>1 DEF After, Target, Frame, Goal
    <3>3. Purposes'
      <4>1. RestorePatch' = RestorePatch /\ ModePatch' = ModePatch
        BY <3>1 DEF RestorePatch, ModePatch
      <4> QED
        BY <1>1, <1>2, <2>1, <3>1, <4>1 DEF Purposes, Frame
    <3>4. Steered'
      BY <1>1, <1>2, <2>1, <3>1, <3>2 DEF Steered, Frame
    <3> QED
      BY <1>0, <1>1, <3>1, <3>2, <3>3, <3>4, QuietGoesOn
  <2> QED
    BY <2>5, <2>6
<1>10. CASE LedSysfsCheck
  <2>1. session.pc = "write" /\ session.cmds = <<>> /\ UNCHANGED lamps
    BY <1>10 DEF LedSysfsCheck, LedRest
  <2>2. ~\E f \in session.patch.fields : lamps[Target][f] # session.patch.value[f]
    BY <1>8, <2>1 DEF Goal
  <2>3. Applied(lamps[Target])
    BY <1>10, <2>2, Zenon DEF LedSysfsCheck
  <2> QED
    BY <1>0, <1>1, <2>1, <2>3, QuietApplied
<1>11. CASE LedWait
  <2>1. session.pc = "wait" /\ session.pc \in After /\ UNCHANGED lamps /\ session.why = "effect"
    BY <1>2, <1>11 DEF LedWait, LedRest, After, Purposes
  <2>2. Showable(session.backend, session.saved)
    BY <1>2, <2>1 DEF Purposes
  <2>3. CASE WaitOver /\ session.backend = "mcu"
    <3> DEFINE p == RestorePatch
               e == "ok"
    <3>1. session' = [session EXCEPT !.pc = "begin", !.patch = p, !.why = "restore", !.effect = e]
      BY <1>11, <2>3 DEF LedWait, RestoreNow
    <3>2. e = session.effect
      BY <1>1
    <3> HIDE DEF p, e
    <3>3. /\ session'.pc = "begin" /\ session'.patch = p /\ session'.why = "restore"
          /\ session'.effect = session.effect /\ session'.saved = session.saved
      BY <1>1, <3>1, <3>2 DEF Session
    <3>4. session'.pc \in After
      BY <3>3 DEF After
    <3>5. Purposes'
      <4>1. RestorePatch' = p
        BY <3>3 DEF RestorePatch, p
      <4> QED
        BY <1>1, <2>2, <2>3, <3>3, <4>1 DEF Purposes, Frame
    <3>6. Steered'
      BY <3>3 DEF Steered
    <3> QED
      BY <1>0, <1>1, <3>3, <3>4, <3>5, <3>6, QuietGoesOn
  <2>4. CASE WaitOver /\ session.backend = "sysfs"
    <3> DEFINE p == [fields |-> Fields, value |-> session.saved]
               c == SysfsRestore
               e == "ok"
    <3>1. session' = [session EXCEPT !.pc = "write", !.patch = p, !.why = "restore", !.cmds = c, !.sent = {}, !.effect = e]
      BY <1>11, <2>4 DEF LedWait, RestoreNow
    <3>2. e = session.effect
      BY <1>1
    <3>3. Leads("sysfs", lamps[Target], c, session.saved)
      BY <1>1, <1>2, <2>1, <2>2, <2>4, SysfsRestoreLeads
    <3>4. p.fields = Fields /\ p.value = session.saved
      OBVIOUS
    <3> HIDE DEF p, c, e
    <3>5. /\ session'.pc = "write" /\ session'.patch = p /\ session'.why = "restore" /\ session'.cmds = c
          /\ session'.effect = session.effect /\ session'.saved = session.saved /\ session'.at = session.at
      BY <1>1, <3>1, <3>2 DEF Session
    <3>6. session'.pc \in After /\ Target' = Target
      BY <1>1, <3>5 DEF After, Target, Frame
    <3>7. Purposes'
      BY <1>1, <2>2, <2>4, <3>5 DEF Purposes, Frame, p
    <3>8. Goal(session.saved)'
      BY <3>4, <3>5 DEF Goal
    <3>9. Steered'
      BY <1>1, <2>1, <2>4, <3>3, <3>5, <3>6, <3>8 DEF Steered, Frame
    <3> QED
      BY <1>0, <1>1, <3>5, <3>6, <3>7, <3>9, QuietGoesOn
  <2>5. CASE ~WaitOver
    <3> DEFINE n == session.tick + 1
               p == EffectPatch(session.tick + 1)
    <3>1. session' = [session EXCEPT !.pc = "begin", !.tick = n, !.patch = p]
      BY <1>11, <2>5 DEF LedWait
    <3>2. session.tick + 1 \in Nat
      BY <1>1, LedAssumption DEF Session
    <3>3. Valid(session.backend, p)
      BY <1>1, <3>2, EffectValid
    <3> HIDE DEF n, p
    <3>4. /\ session'.pc = "begin" /\ session'.patch = p /\ session'.why = session.why
          /\ session'.effect = session.effect /\ session'.saved = session.saved
      BY <1>1, <3>1 DEF Session
    <3>5. session'.pc \in After
      BY <3>4 DEF After
    <3>6. Purposes'
      BY <1>1, <2>1, <2>2, <3>3, <3>4 DEF Purposes, Frame
    <3>7. Steered'
      BY <2>1, <3>4 DEF Steered
    <3> QED
      BY <1>0, <1>1, <3>4, <3>5, <3>6, <3>7, QuietGoesOn
  <2> QED
    BY <1>1, <2>3, <2>4, <2>5
<1> QED
  BY <1>3, <1>4, <1>5, <1>6, <1>7, <1>9, <1>10, <1>11 DEF LedStep

\* The operations of a session: the planned ones, or reads.
LEMMA OpsFromActions ==
    ASSUME Askable(request)
    PROVE  /\ Ops \in Seq(Op) /\ Planned \in Seq(Op)
           /\ request.apply => Ops = Planned
           /\ ~request.apply => \A i \in 1..Len(Ops) : Ops[i].patch.fields = {}
<1> DEFINE a == IF request.apply THEN Actions ELSE Reads
<1>1. a \in Seq(Patch) /\ Actions \in Seq(Patch) /\ (~request.apply => \A i \in 1..Len(a) : a[i].fields = {})
  BY ActionsType
<1>2. Ops = OnTargets(a) /\ Planned = OnTargets(Actions) /\ (request.apply => a = Actions)
  BY DEF Ops, Planned
<1> HIDE DEF a
<1>3. /\ Ops \in Seq(Op) /\ Planned \in Seq(Op)
      /\ \A i \in 1..Len(Ops) : \E j \in 1..Len(a) : Ops[i].patch = a[j]
  BY <1>1, <1>2, OnTargetsType
<1> QED
  BY <1>1, <1>2, <1>3

LEMMA QuietStarts ==
    ASSUME LedIInv, QuietIInv, NEW kind \in {"set", "identify"}, NEW targets, led_execute(kind, targets)
    PROVE  QuietIInv'
<1>0. session \in Session /\ Askable(request)
  BY DEF LedIInv, LedTyped
<1>1. ASSUME NEW r, Gone(r) PROVE QuietIInv'
  <2>1. session.pc = "idle" /\ session.kind = "none" /\ UNCHANGED <<disturbed, owner>>
    BY <1>1 DEF Gone, LedIInv, Positions
  <2>2. /\ session'.kind = session.kind /\ session'.effect = session.effect /\ session'.ops = session.ops
        /\ session'.backend = session.backend /\ session'.pc = "done"
    BY <1>0, <1>1 DEF Gone, Quit, Session
  <2>3. session'.pc \notin Before \cup After
    BY <2>2 DEF Before, After
  <2> QED
    BY <2>1, <2>2, <2>3 DEF QuietIInv
<1>2. ASSUME NEW ops, LedStart(kind, targets, ops), \A i \in 1..Len(ops) : Valid(session.backend, ops[i].patch)
      PROVE  QuietIInv'
  <2>1. /\ session'.kind = kind /\ session'.ops = ops /\ session'.effect = session.effect
        /\ session'.backend = session.backend /\ session'.pc = "open"
    BY <1>0, <1>2 DEF LedStart, Session
  <2>2. session.pc = "idle" /\ UNCHANGED <<lamps, disturbed, owner>>
    BY <1>2 DEF LedStart
  <2>3. session.pc \in Before /\ session'.pc \in Before /\ session'.pc \notin After \cup {"done"}
    BY <2>1, <2>2 DEF Before, After
  <2>4. session'.ops = ops /\ \A i \in 1..Len(session'.ops) : Valid(session'.backend, session'.ops[i].patch)
    BY <1>2, <2>1, Zenon
  <2> QED
    BY <2>1, <2>2, <2>3, <2>4 DEF QuietIInv
<1>3. ASSUME NEW b, NEW p, p.fields = {} PROVE Valid(b, p)
  BY <1>3 DEF Valid
<1>4. CASE kind = "identify" /\ LedStart(kind, targets, <<[light |-> targets[1], patch |-> NoPatch]>>)
  <2> DEFINE x == [light |-> targets[1], patch |-> NoPatch]
             o == <<x>>
  <2>1. x.patch.fields = {}
    BY DEF NoPatch
  <2> HIDE DEF x
  <2>2. Len(o) = 1 /\ o[1] = x
    OBVIOUS
  <2>3. LedStart(kind, targets, o)
    BY <1>4 DEF x
  <2> HIDE DEF o
  <2>4. \A i \in 1..Len(o) : Valid(session.backend, o[i].patch)
    BY <1>3, <2>1, <2>2
  <2> QED
    BY <1>2, <2>3, <2>4
<1>5. CASE kind = "set" /\ LedStart(kind, targets, Ops) /\ ~\E i \in 1..Len(Planned) : ~Valid(session.backend, Planned[i].patch)
  <2>1. \A i \in 1..Len(Ops) : Valid(session.backend, Ops[i].patch)
    BY <1>0, <1>3, <1>5, OpsFromActions
  <2> QED
    BY <1>2, <1>5, <2>1
<1> QED
  BY <1>1, <1>4, <1>5 DEF led_execute

LEMMA QuietNext == ScanIInv /\ LedIInv /\ QuietIInv /\ [Next]_cliVars => QuietIInv'
<1> SUFFICES ASSUME LedIInv, QuietIInv, [Next]_cliVars PROVE QuietIInv'
  OBVIOUS
<1>0. ASSUME UNCHANGED <<session, lamps, disturbed, owner>> PROVE QuietIInv'
  <2>1. Target' = Target /\ RestorePatch' = RestorePatch /\ ModePatch' = ModePatch /\ \A m : Goal(m)' <=> Goal(m)
    BY <1>0 DEF Target, RestorePatch, ModePatch, Goal
  <2>2. Purposes' <=> Purposes
    BY <1>0, <2>1 DEF Purposes
  <2>3. Steered' <=> Steered
    BY <1>0, <2>1 DEF Steered
  <2> QED
    BY <1>0, <2>2, <2>3 DEF QuietIInv
<1>1. CASE Scan \/ Bus \/ Finished \/ UNCHANGED cliVars
  <2>1. UNCHANGED <<ledVars, request>>
    BY <1>1, Zenon DEF Scan, Bus, Finished, cliVars
  <2> QED
    BY <1>0, <2>1 DEF ledVars
<1>2. ASSUME NEW r, Gone(r) PROVE QuietIInv'
  <2>1. session.pc = "idle" /\ session.kind = "none" /\ UNCHANGED <<disturbed, owner>>
    BY <1>2 DEF Gone, LedIInv, Positions
  <2>2. /\ session'.kind = session.kind /\ session'.effect = session.effect /\ session'.ops = session.ops
        /\ session'.backend = session.backend /\ session'.pc = "done"
    BY <1>2 DEF Gone, Quit, Session, LedIInv, LedTyped
  <2>3. session'.pc \notin Before \cup After
    BY <2>2 DEF Before, After
  <2> QED
    BY <2>1, <2>2, <2>3 DEF QuietIInv
<1>3. CASE ScanFailed \/ List
  BY <1>2, <1>3 DEF ScanFailed, List
<1>4. CASE Locate
  BY <1>2, <1>4, QuietStarts DEF Locate
<1>5. CASE LedCommand
  BY <1>5, QuietStarts DEF LedCommand
<1>6. CASE Light
  BY <1>6, QuietStepKeeps DEF Light
<1>7. CASE LightsAround
  <2>1. CASE LedSignal
    BY <1>0, <2>1 DEF LedSignal
  <2>2. CASE OwnerChanges
    BY <2>2 DEF OwnerChanges, QuietIInv
  <2>3. CASE OwnerWrites
    <3>1. owner /\ UNCHANGED disturbed
      BY <2>3 DEF OwnerWrites
    <3> QED
      BY <3>1 DEF QuietIInv
  <2> QED
    BY <1>7, <2>1, <2>2, <2>3 DEF LightsAround
<1> QED
  BY <1>1, <1>3, <1>4, <1>5, <1>6, <1>7 DEF Next, CommandStep

LEMMA QuietInit == Init => QuietIInv
<1> SUFFICES ASSUME Init PROVE QuietIInv
  OBVIOUS
<1>1. PICK x \in Situations : LedInit(Backend(x.machine.model), x.lamp, x.disturbed)
  BY DEF Init
<1>2. Showable(Backend(x.machine.model), x.lamp) /\ x.disturbed \in BOOLEAN
  BY <1>1, CliAssumption
<1> DEFINE b == Backend(x.machine.model)
<1>3. /\ lamps = [l \in Lights |-> x.lamp] /\ disturbed = x.disturbed /\ owner \in {FALSE, x.disturbed}
      /\ session.pc = "idle" /\ session.effect = "ok" /\ session.ops = <<>> /\ session.backend = b
  BY <1>1 DEF LedInit, Idle
<1>4. \A l \in Lights : Showable(session.backend, lamps[l])
  BY <1>2, <1>3
<1>5. session.pc \notin After \cup {"done"} /\ Len(session.ops) = 0
  BY <1>3 DEF After
<1>6. ~disturbed => ~owner
  BY <1>2, <1>3
<1> QED
  BY <1>3, <1>4, <1>5, <1>6 DEF QuietIInv

LEMMA QuietSays == QuietIInv => QuietSucceeds
  BY DEF QuietIInv, QuietSucceeds, Ended

LEMMA LedInductive == Spec => [](LedIInv /\ SetIInv /\ QuietIInv)
<1>1. Spec => [](ScanIInv /\ LedIInv)
  BY Inductive
<1> QED
  BY <1>1, SetInit, SetNext, QuietInit, QuietNext, PTL DEF Spec

\* `led set` keeps its word (hardware_cli.c:909-937, merged_patch 542-624, led.c:796-891):
\* "ok" only when every target nobody else wrote shows the last word of every option that
\* was asked, however the writes and readbacks went; and after a failure the targets behind
\* the failing one are as they were found, those before it complete.
THEOREM SetShows == Spec => []SetOutcome
  BY LedInductive, SetSays, PTL

\* Undisturbed, every session that began ends "ok" or "interrupted", from any state its
\* light can show: each sequence of commands of an apply (led.c:796-891, led_sysfs.c:
\* 426-501) leads to what its patch asks, in the controller's order with its side effects,
\* and that of a restoration (led.c:931-989) back to the state that was saved.
THEOREM QuietAlways == Spec => []QuietSucceeds
  BY LedInductive, QuietSays, PTL

-----------------------------------------------------------------------------
(* The firmware's tables, row by row, and the wiring: which bays a place   *)
(* is wired to, and which rules each model's table has.                    *)

\* The bays a place is wired to.
Wired(m, rt, place, b) ==
    \/ \E p \in Wiring(m) : p.at = place.at /\ p.port = place.port /\ p.bay = b
    \/ \E x \in Layout(m, rt) :
        /\ x.kind = "syspath" /\ x.slot[1] = "ata" /\ x.at = place.at
        /\ (x.iface = "sata") = (place.iface = "sata") /\ x.port = place.port
        /\ x.slot[2] = b

LEMMA BayWired ==
    ASSUME NEW m, NEW rt, NEW place
    PROVE  /\ (\A b : ~Wired(m, rt, place, b)) => Bay(m, rt, place) = 0
           /\ (\E b : Wired(m, rt, place, b)) => Wired(m, rt, place, Bay(m, rt, place))
<1> DEFINE W == {p.bay : p \in {x \in Wiring(m) : x.at = place.at /\ x.port = place.port}}
                 \cup {r.slot[2] : r \in {x \in Layout(m, rt) :
                        /\ x.kind = "syspath" /\ x.slot[1] = "ata" /\ x.at = place.at
                        /\ (x.iface = "sata") = (place.iface = "sata") /\ x.port = place.port}}
<1>1. ASSUME NEW b PROVE b \in W <=> Wired(m, rt, place, b)
  BY DEF Wired
<1>2. Bay(m, rt, place) = IF W = {} THEN 0 ELSE CHOOSE b \in W : TRUE
  BY Zenon DEF Bay
<1> HIDE DEF W
<1> QED
  BY <1>1, <1>2

\* Rows of the wiring tables, and the places they are about.
At(place, x, n) == place.at = x /\ place.port \in 1..n
On(place, x) == place.iface = "nvme" /\ place.at = x
Recorded(rows, place, b) == \E p \in rows : p.at = place.at /\ p.port = place.port /\ p.bay = b
Rows(at, n, from) == {[at |-> at, port |-> i, bay |-> from + i] : i \in 1..n}

LEMMA RowsSay ==
    ASSUME NEW at, NEW n \in Nat, NEW from \in Nat, NEW place \in Place, NEW b
    PROVE  Recorded(Rows(at, n, from), place, b) <=> (At(place, at, n) /\ b = from + place.port)
<1> DEFINE Row(i) == [at |-> at, port |-> i, bay |-> from + i]
<1>1. \A i : Row(i).at = at /\ Row(i).port = i /\ Row(i).bay = from + i
  OBVIOUS
<1>2. \A p : p \in Rows(at, n, from) <=> \E i \in 1..n : p = Row(i)
  BY DEF Rows
<1> HIDE DEF Row
<1> QED
  BY <1>1, <1>2 DEF Recorded, At

LEMMA Evidence ==
    /\ Wiring("DXP4800") = Rows("00:17.0", 2, 0) \cup Rows("01:00.0", 2, 2)
    /\ Wiring("DXP4800 Plus") = Rows("01:00.0", 4, 0)
    /\ Wiring("DXP6800 Pro") = Rows("59:00.0", 4, 0) \cup Rows("00:17.0", 2, 4)
    /\ Wiring("DXP8800 Plus") = Rows("59:00.0", 4, 0) \cup Rows("5a:00.0", 4, 4)
    /\ Wiring("DXP2800 GT") = {} /\ Wiring("DXP4800 GT") = {}
  BY DEF Wiring, profiles, FactoryOrder, Rows, bays

LEMMA EvidenceArm ==
    ASSUME NEW place, NEW b
    PROVE  Recorded(Wiring("DH4300 Plus"), place, b)
           <=> \/ place.at = "rk1" /\ place.port = 1 /\ b = 2
               \/ place.at = "rk2" /\ place.port = 1 /\ b = 1
               \/ place.at = "asm" /\ place.port = 1 /\ b = 4
               \/ place.at = "asm" /\ place.port = 2 /\ b = 3
<1> DEFINE p1 == [at |-> "rk1", port |-> 1, bay |-> 2]
           p2 == [at |-> "rk2", port |-> 1, bay |-> 1]
           p3 == [at |-> "asm", port |-> 1, bay |-> 4]
           p4 == [at |-> "asm", port |-> 2, bay |-> 3]
<1>1. Wiring("DH4300 Plus") = {p1, p2, p3, p4}
  BY DEF Wiring, profiles, FactoryOrder
<1>2. /\ p1.at = "rk1" /\ p1.port = 1 /\ p1.bay = 2 /\ p2.at = "rk2" /\ p2.port = 1 /\ p2.bay = 1
      /\ p3.at = "asm" /\ p3.port = 1 /\ p3.bay = 4 /\ p4.at = "asm" /\ p4.port = 2 /\ p4.bay = 3
  OBVIOUS
<1> HIDE DEF p1, p2, p3, p4
<1> QED
  BY <1>1, <1>2, Zenon DEF Recorded

\* What the rules are made of.
LEMMA RuleParts ==
    /\ \A n, i, l : /\ AtaRule(n, i, l).slot = Ata(n) /\ AtaRule(n, i, l).kind = "ata_id"
                    /\ AtaRule(n, i, l).port = i /\ AtaRule(n, i, l).iface = "sata" /\ AtaRule(n, i, l).led = l
    /\ \A n, at, i : /\ PathRule(n, at, i).slot = Ata(n) /\ PathRule(n, at, i).kind = "syspath"
                     /\ PathRule(n, at, i).at = at /\ PathRule(n, at, i).port = i
                     /\ PathRule(n, at, i).iface = "sata" /\ PathRule(n, at, i).led = TRUE
    /\ \A s, k, at, f : /\ DriveRule(s, k, at, f).slot = s /\ DriveRule(s, k, at, f).kind = k
                        /\ DriveRule(s, k, at, f).at = at /\ DriveRule(s, k, at, f).port = 0
                        /\ DriveRule(s, k, at, f).iface = f /\ DriveRule(s, k, at, f).led = (f = "u2")
  BY DEF AtaRule, PathRule, DriveRule

LEMMA SlotParts ==
    /\ \A n : Ata(n)[1] = "ata" /\ Ata(n)[2] = n /\ Nvme(n)[1] = "nvme" /\ Nvme(n)[2] = n
    /\ NoSlot[1] = "none"
  BY DEF Ata, Nvme, NoSlot

\* The tables, by what their rules are.
LEMMA Table4800 ==
    ASSUME NEW rt, NEW r
    PROVE  r \in Layout("DXP4800", rt) <=>
                \/ \E i \in 1..4 : r = AtaRule(i, i, TRUE)
                \/ r = DriveRule(Nvme(1), "block_name", "nvme0n1", "m2")
  BY DEF Layout, InOrder, GtDrives

LEMMA Table4800Plus ==
    ASSUME NEW rt, NEW r
    PROVE  r \in Layout("DXP4800 Plus", rt) <=>
                \/ \E i \in 1..4 : r = AtaRule(i, i, TRUE)
                \/ r = DriveRule(Nvme(1), "pcie_bridge_id", "8086:463d", "m2")
  BY DEF Layout, InOrder, GtDrives

LEMMA Table6800 ==
    ASSUME NEW rt, NEW r
    PROVE  r \in Layout("DXP6800 Pro", rt) <=>
                \/ \E i \in 1..4 : r = AtaRule(i, i + 2, TRUE)
                \/ \E i \in 5..6 : r = AtaRule(i, i - 4, TRUE)
                \/ r = DriveRule(Nvme(1), "pcie_bridge_id", "8086:464d", "m2")
  BY DEF Layout, InOrder, GtDrives

LEMMA Table8800 ==
    ASSUME NEW rt, NEW r
    PROVE  r \in Layout("DXP8800 Plus", rt) <=>
                \/ \E i \in 1..8 : r = AtaRule(i, i, TRUE)
                \/ r = DriveRule(Nvme(1), "pcie_bridge_id", "8086:464d", "m2")
  BY DEF Layout, InOrder, GtDrives

LEMMA Table4300 ==
    ASSUME NEW rt, NEW r
    PROVE  r \in Layout("DH4300 Plus", rt) <=>
                \E i \in 1..4 : r = AtaRule(i, IF i % 2 = 1 THEN i + 1 ELSE i - 1, FALSE)
  BY DEF Layout, InOrder, GtDrives

LEMMA Table4800GT ==
    ASSUME NEW rt, NEW r
    PROVE  r \in Layout("DXP4800 GT", rt) <=>
                \/ \E i \in 1..4 : r = PathRule(i, "00:01.2", i)
                \/ r = DriveRule(Ata(1), "syspath", "00:01.1", "u2")
                \/ r = DriveRule(Ata(2), "syspath", "00:01.3", "u2")
  BY DEF Layout, InOrder, GtDrives

LEMMA Table2800GT ==
    ASSUME NEW rt, NEW r
    PROVE  r \in Layout("DXP2800 GT", rt) <=>
                \/ \E i \in 1..2 : r = PathRule(i, "00:08.2", IF rt = 1 THEN i ELSE 3 - i)
                \/ r = DriveRule(Ata(1), "syspath", "00:01.1", "u2")
                \/ r = DriveRule(Ata(2), "syspath", "00:01.2", "u2")
                \/ r = DriveRule(Nvme(1), "syspath", "00:01.6", "m2")
  BY DEF Layout, InOrder, GtDrives

LEMMA SlotKinds ==
    ASSUME NEW r
    PROVE  /\ (\E n, i, l : r = AtaRule(n, i, l)) => r.kind # "syspath"
           /\ (\E s, at, f : r = DriveRule(s, "block_name", at, f) \/ r = DriveRule(s, "pcie_bridge_id", at, f))
                => r.kind # "syspath"
<1>1. (\E n, i, l : r = AtaRule(n, i, l)) => r.kind # "syspath"
  BY RuleParts
<1>2. (\E s, at, f : r = DriveRule(s, "block_name", at, f) \/ r = DriveRule(s, "pcie_bridge_id", at, f))
      => r.kind # "syspath"
  BY RuleParts
<1> QED
  BY <1>1, <1>2

\* Only the two GT models are wired by the tables' own paths.
LEMMA NoPaths ==
    ASSUME NEW m \in Models \ {"DXP2800 GT", "DXP4800 GT"}, NEW rt, NEW r \in Layout(m, rt)
    PROVE  r.kind # "syspath"
<1>0. m \in {"DXP4800", "DXP4800 Plus", "DXP6800 Pro", "DXP8800 Plus", "DH4300 Plus"}
  BY Zenon DEF Models
<1> DEFINE ata == \E n, i, l : r = AtaRule(n, i, l)
           drive == \E s, at, f : r = DriveRule(s, "block_name", at, f) \/ r = DriveRule(s, "pcie_bridge_id", at, f)
<1>1. ata \/ drive => r.kind # "syspath"
  BY SlotKinds, Zenon
<1>2. CASE m = "DXP4800"
  <2>1. r \in Layout("DXP4800", rt)
    BY <1>2
  <2>2. (\E i \in 1..4 : r = AtaRule(i, i, TRUE)) \/ r = DriveRule(Nvme(1), "block_name", "nvme0n1", "m2")
    BY <2>1, Table4800, Zenon
  <2>3. ata \/ drive
    BY <2>2, Zenon
  <2> HIDE DEF ata, drive
  <2> QED
    BY <1>1, <2>3, Zenon
<1>3. CASE m = "DXP4800 Plus"
  <2>1. r \in Layout("DXP4800 Plus", rt)
    BY <1>3, Zenon
  <2>2. (\E i \in 1..4 : r = AtaRule(i, i, TRUE)) \/ r = DriveRule(Nvme(1), "pcie_bridge_id", "8086:463d", "m2")
    BY <2>1, Table4800Plus, Zenon
  <2>3. ata \/ drive
    BY <2>2, Zenon
  <2> HIDE DEF ata, drive
  <2> QED
    BY <1>1, <2>3, Zenon
<1>4. CASE m = "DXP6800 Pro"
  <2>1. r \in Layout("DXP6800 Pro", rt)
    BY <1>4, Zenon
  <2>2. \/ \E i \in 1..4 : r = AtaRule(i, i + 2, TRUE)
        \/ \E i \in 5..6 : r = AtaRule(i, i - 4, TRUE)
        \/ r = DriveRule(Nvme(1), "pcie_bridge_id", "8086:464d", "m2")
    BY <2>1, Table6800, Zenon
  <2>3. ata \/ drive
    BY <2>2, Zenon
  <2> HIDE DEF ata, drive
  <2> QED
    BY <1>1, <2>3, Zenon
<1>5. CASE m = "DXP8800 Plus"
  <2>1. r \in Layout("DXP8800 Plus", rt)
    BY <1>5, Zenon
  <2>2. (\E i \in 1..8 : r = AtaRule(i, i, TRUE)) \/ r = DriveRule(Nvme(1), "pcie_bridge_id", "8086:464d", "m2")
    BY <2>1, Table8800, Zenon
  <2>3. ata \/ drive
    BY <2>2, Zenon
  <2> HIDE DEF ata, drive
  <2> QED
    BY <1>1, <2>3, Zenon
<1>6. CASE m = "DH4300 Plus"
  <2>1. r \in Layout("DH4300 Plus", rt)
    BY <1>6, Zenon
  <2>2. \E i \in 1..4 : r = AtaRule(i, IF i % 2 = 1 THEN i + 1 ELSE i - 1, FALSE)
    BY <2>1, Table4300, Zenon
  <2>3. ata \/ drive
    BY <2>2, Zenon
  <2> HIDE DEF ata, drive
  <2> QED
    BY <1>1, <2>3, Zenon
<1> QED
  BY <1>0, <1>2, <1>3, <1>4, <1>5, <1>6, Zenon

LEMMA PlaceParts ==
    ASSUME NEW place \in Place
    PROVE  /\ place.iface \in {"sata", "nvme"} /\ place.port \in 0..8
           /\ place.iface = "sata" => place.port \in 1..8
           /\ place.iface = "nvme" => place.port = 0
  BY DEF Place

LEMMA ByEvidence ==
    ASSUME NEW m \in Models \ {"DXP2800 GT", "DXP4800 GT"}, NEW rt, NEW place, NEW b
    PROVE  Wired(m, rt, place, b) <=> Recorded(Wiring(m), place, b)
  BY NoPaths, Zenon DEF Wired, Recorded

\* Where each bay of a model is wired to.
LEMMA Wired4800 ==
    ASSUME NEW rt, NEW place \in Place, NEW b
    PROVE  Wired("DXP4800", rt, place, b) <=>
            \/ At(place, "00:17.0", 2) /\ b = 0 + place.port
            \/ At(place, "01:00.0", 2) /\ b = 2 + place.port
<1>1. Wired("DXP4800", rt, place, b) <=> Recorded(Wiring("DXP4800"), place, b)
  BY ByEvidence, Zenon DEF Models
<1>2. Recorded(Wiring("DXP4800"), place, b)
      <=> Recorded(Rows("00:17.0", 2, 0), place, b) \/ Recorded(Rows("01:00.0", 2, 2), place, b)
  BY Evidence, Zenon DEF Recorded
<1>3. Recorded(Rows("00:17.0", 2, 0), place, b) <=> (At(place, "00:17.0", 2) /\ b = 0 + place.port)
  BY RowsSay
<1>4. Recorded(Rows("01:00.0", 2, 2), place, b) <=> (At(place, "01:00.0", 2) /\ b = 2 + place.port)
  BY RowsSay
<1> QED
  BY <1>1, <1>2, <1>3, <1>4, Zenon

LEMMA Wired4800Plus ==
    ASSUME NEW rt, NEW place \in Place, NEW b
    PROVE  Wired("DXP4800 Plus", rt, place, b) <=> (At(place, "01:00.0", 4) /\ b = 0 + place.port)
<1>1. Wired("DXP4800 Plus", rt, place, b) <=> Recorded(Wiring("DXP4800 Plus"), place, b)
  BY ByEvidence, Zenon DEF Models
<1>2. Recorded(Rows("01:00.0", 4, 0), place, b) <=> (At(place, "01:00.0", 4) /\ b = 0 + place.port)
  BY RowsSay
<1> QED
  BY <1>1, <1>2, Evidence, Zenon

LEMMA Wired6800 ==
    ASSUME NEW rt, NEW place \in Place, NEW b
    PROVE  Wired("DXP6800 Pro", rt, place, b) <=>
            \/ At(place, "59:00.0", 4) /\ b = 0 + place.port
            \/ At(place, "00:17.0", 2) /\ b = 4 + place.port
<1>1. Wired("DXP6800 Pro", rt, place, b) <=> Recorded(Wiring("DXP6800 Pro"), place, b)
  BY ByEvidence, Zenon DEF Models
<1>2. Recorded(Wiring("DXP6800 Pro"), place, b)
      <=> Recorded(Rows("59:00.0", 4, 0), place, b) \/ Recorded(Rows("00:17.0", 2, 4), place, b)
  BY Evidence, Zenon DEF Recorded
<1>3. Recorded(Rows("59:00.0", 4, 0), place, b) <=> (At(place, "59:00.0", 4) /\ b = 0 + place.port)
  BY RowsSay
<1>4. Recorded(Rows("00:17.0", 2, 4), place, b) <=> (At(place, "00:17.0", 2) /\ b = 4 + place.port)
  BY RowsSay
<1> QED
  BY <1>1, <1>2, <1>3, <1>4, Zenon

LEMMA Wired8800 ==
    ASSUME NEW rt, NEW place \in Place, NEW b
    PROVE  Wired("DXP8800 Plus", rt, place, b) <=>
            \/ At(place, "59:00.0", 4) /\ b = 0 + place.port
            \/ At(place, "5a:00.0", 4) /\ b = 4 + place.port
<1>1. Wired("DXP8800 Plus", rt, place, b) <=> Recorded(Wiring("DXP8800 Plus"), place, b)
  BY ByEvidence, Zenon DEF Models
<1>2. Recorded(Wiring("DXP8800 Plus"), place, b)
      <=> Recorded(Rows("59:00.0", 4, 0), place, b) \/ Recorded(Rows("5a:00.0", 4, 4), place, b)
  BY Evidence, Zenon DEF Recorded
<1>3. Recorded(Rows("59:00.0", 4, 0), place, b) <=> (At(place, "59:00.0", 4) /\ b = 0 + place.port)
  BY RowsSay
<1>4. Recorded(Rows("5a:00.0", 4, 4), place, b) <=> (At(place, "5a:00.0", 4) /\ b = 4 + place.port)
  BY RowsSay
<1> QED
  BY <1>1, <1>2, <1>3, <1>4, Zenon

LEMMA Wired4300 ==
    ASSUME NEW rt, NEW place \in Place, NEW b
    PROVE  Wired("DH4300 Plus", rt, place, b)
           <=> \/ place.at = "rk1" /\ place.port = 1 /\ b = 2
               \/ place.at = "rk2" /\ place.port = 1 /\ b = 1
               \/ place.at = "asm" /\ place.port = 1 /\ b = 4
               \/ place.at = "asm" /\ place.port = 2 /\ b = 3
<1>1. Wired("DH4300 Plus", rt, place, b) <=> Recorded(Wiring("DH4300 Plus"), place, b)
  BY ByEvidence, Zenon DEF Models
<1> QED
  BY <1>1, EvidenceArm, Zenon

\* A rule that wires a place, on a GT.
Hit(x, place, b) ==
    /\ x.kind = "syspath" /\ x.slot[1] = "ata" /\ x.at = place.at
    /\ (x.iface = "sata") = (place.iface = "sata") /\ x.port = place.port
    /\ x.slot[2] = b

LEMMA HitSays ==
    ASSUME NEW place \in Place, NEW b, NEW i, NEW at, NEW n
    PROVE  /\ Hit(PathRule(i, at, n), place, b)
                <=> (place.iface = "sata" /\ place.at = at /\ place.port = n /\ b = i)
           /\ Hit(DriveRule(Ata(i), "syspath", at, "u2"), place, b)
                <=> (place.iface # "sata" /\ place.at = at /\ place.port = 0 /\ b = i)
           /\ ~Hit(DriveRule(Nvme(i), "syspath", at, "m2"), place, b)
  BY RuleParts, SlotParts DEF Hit

LEMMA Wired4800GT ==
    ASSUME NEW rt, NEW place \in Place, NEW b
    PROVE  Wired("DXP4800 GT", rt, place, b) <=>
            \/ At(place, "00:01.2", 4) /\ place.iface = "sata" /\ b = place.port
            \/ On(place, "00:01.1") /\ b = 1
            \/ On(place, "00:01.3") /\ b = 2
<1>1. Wired("DXP4800 GT", rt, place, b) <=> \E x \in Layout("DXP4800 GT", rt) : Hit(x, place, b)
  BY Evidence, Zenon DEF Wired, Hit
<1>2. (\E x \in Layout("DXP4800 GT", rt) : Hit(x, place, b)) <=>
        \/ \E i \in 1..4 : Hit(PathRule(i, "00:01.2", i), place, b)
        \/ Hit(DriveRule(Ata(1), "syspath", "00:01.1", "u2"), place, b)
        \/ Hit(DriveRule(Ata(2), "syspath", "00:01.3", "u2"), place, b)
  BY Table4800GT, Zenon
<1>3. (\E i \in 1..4 : Hit(PathRule(i, "00:01.2", i), place, b))
        <=> (At(place, "00:01.2", 4) /\ place.iface = "sata" /\ b = place.port)
  BY HitSays DEF At
<1>4. /\ Hit(DriveRule(Ata(1), "syspath", "00:01.1", "u2"), place, b) <=> (On(place, "00:01.1") /\ b = 1)
      /\ Hit(DriveRule(Ata(2), "syspath", "00:01.3", "u2"), place, b) <=> (On(place, "00:01.3") /\ b = 2)
  BY HitSays, PlaceParts DEF On
<1> QED
  BY <1>1, <1>2, <1>3, <1>4, Zenon

LEMMA Wired2800GT ==
    ASSUME NEW rt, NEW place \in Place, NEW b
    PROVE  Wired("DXP2800 GT", rt, place, b) <=>
            \/ At(place, "00:08.2", 2) /\ place.iface = "sata" /\ b = (IF rt = 1 THEN place.port ELSE 3 - place.port)
            \/ On(place, "00:01.1") /\ b = 1
            \/ On(place, "00:01.2") /\ b = 2
<1>1. Wired("DXP2800 GT", rt, place, b) <=> \E x \in Layout("DXP2800 GT", rt) : Hit(x, place, b)
  BY Evidence, Zenon DEF Wired, Hit
<1>2. (\E x \in Layout("DXP2800 GT", rt) : Hit(x, place, b)) <=>
        \/ \E i \in 1..2 : Hit(PathRule(i, "00:08.2", IF rt = 1 THEN i ELSE 3 - i), place, b)
        \/ Hit(DriveRule(Ata(1), "syspath", "00:01.1", "u2"), place, b)
        \/ Hit(DriveRule(Ata(2), "syspath", "00:01.2", "u2"), place, b)
        \/ Hit(DriveRule(Nvme(1), "syspath", "00:01.6", "m2"), place, b)
  <2> DEFINE P(i) == PathRule(i, "00:08.2", IF rt = 1 THEN i ELSE 3 - i)
  <2>1. \A x : x \in Layout("DXP2800 GT", rt) <=>
            \/ \E i \in 1..2 : x = P(i)
            \/ x = DriveRule(Ata(1), "syspath", "00:01.1", "u2")
            \/ x = DriveRule(Ata(2), "syspath", "00:01.2", "u2")
            \/ x = DriveRule(Nvme(1), "syspath", "00:01.6", "m2")
    BY Table2800GT, Zenon
  <2> HIDE DEF P
  <2>2. (\E x \in Layout("DXP2800 GT", rt) : Hit(x, place, b)) <=>
            \/ \E i \in 1..2 : Hit(P(i), place, b)
            \/ Hit(DriveRule(Ata(1), "syspath", "00:01.1", "u2"), place, b)
            \/ Hit(DriveRule(Ata(2), "syspath", "00:01.2", "u2"), place, b)
            \/ Hit(DriveRule(Nvme(1), "syspath", "00:01.6", "m2"), place, b)
    BY <2>1, Zenon
  <2> QED
    BY <2>2, Zenon DEF P
<1>3. (\E i \in 1..2 : Hit(PathRule(i, "00:08.2", IF rt = 1 THEN i ELSE 3 - i), place, b))
        <=> (At(place, "00:08.2", 2) /\ place.iface = "sata" /\ b = (IF rt = 1 THEN place.port ELSE 3 - place.port))
  <2>1. \A i \in 1..2 : \A n : Hit(PathRule(i, "00:08.2", n), place, b)
            <=> (place.iface = "sata" /\ place.at = "00:08.2" /\ place.port = n /\ b = i)
    BY HitSays
  <2>2. CASE rt = 1
    BY <2>1, <2>2, PlaceParts DEF At
  <2>3. CASE rt # 1
    <3>1. (\E i \in 1..2 : Hit(PathRule(i, "00:08.2", 3 - i), place, b))
          <=> (place.iface = "sata" /\ place.at = "00:08.2" /\ \E i \in 1..2 : place.port = 3 - i /\ b = i)
      BY <2>1
    <3>2. (\E i \in 1..2 : place.port = 3 - i /\ b = i) <=> (place.port \in 1..2 /\ b = 3 - place.port)
      BY PlaceParts
    <3> QED
      BY <2>3, <3>1, <3>2 DEF At
  <2> QED
    BY <2>2, <2>3
<1>4. /\ Hit(DriveRule(Ata(1), "syspath", "00:01.1", "u2"), place, b) <=> (On(place, "00:01.1") /\ b = 1)
      /\ Hit(DriveRule(Ata(2), "syspath", "00:01.2", "u2"), place, b) <=> (On(place, "00:01.2") /\ b = 2)
      /\ ~Hit(DriveRule(Nvme(1), "syspath", "00:01.6", "m2"), place, b)
  BY HitSays, PlaceParts DEF On
<1> QED
  BY <1>1, <1>2, <1>3, <1>4, Zenon

-----------------------------------------------------------------------------
(* The factory's ATA order: how many ports it counts, where each           *)
(* controller's ports start in it, and so the index of every port, on any  *)
(* machine a card may have been added to.                                  *)

\* A set that n different things enumerate has n elements.
Enumerates(f, n, S) ==
    /\ f \in [1..n -> S] /\ \A x \in S : \E i \in 1..n : f[i] = x
    /\ \A i, j \in 1..n : f[i] = f[j] => i = j

LEMMA Counted ==
    ASSUME NEW S, NEW n \in Nat, NEW f, Enumerates(f, n, S)
    PROVE  IsFiniteSet(S) /\ Cardinality(S) = n
<1>1. f \in Surjection(1..n, S)
  BY DEF Surjection, Enumerates
<1>2. f \in Injection(1..n, S)
  BY DEF Injection, IsInjective, Enumerates
<1>3. IsFiniteSet(1..n) /\ Cardinality(1..n) = n
  BY FS_Interval
<1> QED
  BY <1>1, <1>2, <1>3, FS_Surjection

\* The rules by ATA order.
AtaRules(m) == {r \in firmware_layout(m) : r.kind = "ata_id"}

LEMMA AtaRuleIs ==
    ASSUME NEW n, NEW i, NEW l
    PROVE  AtaRule(n, i, l).kind = "ata_id" /\ AtaRule(n, i, l).slot[2] = n
  BY RuleParts, SlotParts

\* f has the rule of each slot.
BySlot(f, n, S) ==
    /\ f \in [1..n -> S] /\ \A i \in 1..n : f[i].slot[2] = i
    /\ \A x \in S : \E i \in 1..n : f[i] = x

LEMMA OneEachRule ==
    ASSUME NEW S, NEW n \in Nat, NEW f, BySlot(f, n, S)
    PROVE  Cardinality(S) = n
<1>1. ASSUME NEW i \in 1..n, NEW j \in 1..n, f[i] = f[j] PROVE i = j
  <2>1. f[i].slot[2] = i /\ f[j].slot[2] = j
    BY DEF BySlot
  <2> QED
    BY <1>1, <2>1, Zenon
<1>2. Enumerates(f, n, S)
  BY <1>1, Zenon DEF Enumerates, BySlot
<1> QED
  BY <1>2, Counted

LEMMA Drives ==
    ASSUME NEW s, NEW at, NEW g
    PROVE  DriveRule(s, "block_name", at, g).kind # "ata_id" /\ DriveRule(s, "pcie_bridge_id", at, g).kind # "ata_id"
<1>1. DriveRule(s, "block_name", at, g).kind = "block_name" /\ DriveRule(s, "pcie_bridge_id", at, g).kind = "pcie_bridge_id"
  BY RuleParts
<1> QED
  BY <1>1

LEMMA Expected ==
    /\ Cardinality(AtaRules("DXP4800")) = 4
    /\ Cardinality(AtaRules("DXP4800 Plus")) = 4
    /\ Cardinality(AtaRules("DXP6800 Pro")) = 6
    /\ Cardinality(AtaRules("DXP8800 Plus")) = 8
    /\ Cardinality(AtaRules("DH4300 Plus")) = 4
<1>1. Cardinality(AtaRules("DXP4800")) = 4
  <2> DEFINE rule(i) == AtaRule(i, i, TRUE)
             f == [i \in 1..4 |-> rule(i)]
  <2>1. \A i \in 1..4 : f[i] = rule(i)
    OBVIOUS
  <2>2. \A i : rule(i).kind = "ata_id" /\ rule(i).slot[2] = i
    BY AtaRuleIs, Zenon
  <2>d. DriveRule(Nvme(1), "block_name", "nvme0n1", "m2").kind # "ata_id"
    BY Drives
  <2>3. \A r : r \in Layout("DXP4800", 1) <=> ((\E i \in 1..4 : r = rule(i)) \/ r = DriveRule(Nvme(1), "block_name", "nvme0n1", "m2"))
    BY Table4800
  <2> HIDE DEF rule
  <2>4. \A r : r \in AtaRules("DXP4800") <=> \E i \in 1..4 : r = rule(i)
    BY <2>2, <2>3, <2>d, Zenon DEF AtaRules, firmware_layout
  <2>5. f \in [1..4 -> AtaRules("DXP4800")]
    BY <2>1, <2>4
  <2>6. BySlot(f, 4, AtaRules("DXP4800"))
    BY <2>1, <2>2, <2>4, <2>5 DEF BySlot
  <2> HIDE DEF f
  <2> QED
    BY <2>6, OneEachRule
<1>2. Cardinality(AtaRules("DXP4800 Plus")) = 4
  <2> DEFINE rule(i) == AtaRule(i, i, TRUE)
             f == [i \in 1..4 |-> rule(i)]
  <2>1. \A i \in 1..4 : f[i] = rule(i)
    OBVIOUS
  <2>2. \A i : rule(i).kind = "ata_id" /\ rule(i).slot[2] = i
    BY AtaRuleIs, Zenon
  <2>d. DriveRule(Nvme(1), "pcie_bridge_id", "8086:463d", "m2").kind # "ata_id"
    BY Drives
  <2>3. \A r : r \in Layout("DXP4800 Plus", 1) <=> ((\E i \in 1..4 : r = rule(i)) \/ r = DriveRule(Nvme(1), "pcie_bridge_id", "8086:463d", "m2"))
    BY Table4800Plus, Zenon
  <2> HIDE DEF rule
  <2>4. \A r : r \in AtaRules("DXP4800 Plus") <=> \E i \in 1..4 : r = rule(i)
    BY <2>2, <2>3, <2>d, Zenon DEF AtaRules, firmware_layout
  <2>5. f \in [1..4 -> AtaRules("DXP4800 Plus")]
    BY <2>1, <2>4, Zenon
  <2>6. BySlot(f, 4, AtaRules("DXP4800 Plus"))
    BY <2>1, <2>2, <2>4, <2>5, Zenon DEF BySlot
  <2> HIDE DEF f
  <2> QED
    BY <2>6, OneEachRule, Zenon
<1>3. Cardinality(AtaRules("DXP6800 Pro")) = 6
  <2> DEFINE port(i) == IF i <= 4 THEN i + 2 ELSE i - 4
             rule(i) == AtaRule(i, port(i), TRUE)
             f == [i \in 1..6 |-> rule(i)]
  <2> HIDE DEF port
  <2>1. \A i \in 1..6 : f[i] = rule(i)
    OBVIOUS
  <2>2. \A i : rule(i).kind = "ata_id" /\ rule(i).slot[2] = i
    BY AtaRuleIs, Zenon
  <2>d. DriveRule(Nvme(1), "pcie_bridge_id", "8086:464d", "m2").kind # "ata_id"
    BY Drives
  <2>3. \A r : r \in Layout("DXP6800 Pro", 1) <=> ((\E i \in 1..6 : r = rule(i)) \/ r = DriveRule(Nvme(1), "pcie_bridge_id", "8086:464d", "m2"))
    <3>1. \A i : /\ i \in 1..4 => rule(i) = AtaRule(i, i + 2, TRUE)
                 /\ i \in 5..6 => rule(i) = AtaRule(i, i - 4, TRUE)
      <4>1. \A i \in 1..4 : i <= 4
        OBVIOUS
      <4>2. \A i \in 5..6 : ~(i <= 4)
        OBVIOUS
      <4> QED
        BY <4>1, <4>2, Zenon DEF port
    <3>2. \A i : i \in 1..6 <=> i \in 1..4 \/ i \in 5..6
      OBVIOUS
    <3> HIDE DEF rule
    <3> QED
      BY <3>1, <3>2, Table6800, Zenon
  <2> HIDE DEF rule
  <2>4. \A r : r \in AtaRules("DXP6800 Pro") <=> \E i \in 1..6 : r = rule(i)
    BY <2>2, <2>3, <2>d, Zenon DEF AtaRules, firmware_layout
  <2>5. f \in [1..6 -> AtaRules("DXP6800 Pro")]
    BY <2>1, <2>4, Zenon
  <2>6. BySlot(f, 6, AtaRules("DXP6800 Pro"))
    BY <2>1, <2>2, <2>4, <2>5, Zenon DEF BySlot
  <2> HIDE DEF f
  <2> QED
    BY <2>6, OneEachRule, Zenon
<1>4. Cardinality(AtaRules("DXP8800 Plus")) = 8
  <2> DEFINE rule(i) == AtaRule(i, i, TRUE)
             f == [i \in 1..8 |-> rule(i)]
  <2>1. \A i \in 1..8 : f[i] = rule(i)
    OBVIOUS
  <2>2. \A i : rule(i).kind = "ata_id" /\ rule(i).slot[2] = i
    BY AtaRuleIs, Zenon
  <2>d. DriveRule(Nvme(1), "pcie_bridge_id", "8086:464d", "m2").kind # "ata_id"
    BY Drives
  <2>3. \A r : r \in Layout("DXP8800 Plus", 1) <=> ((\E i \in 1..8 : r = rule(i)) \/ r = DriveRule(Nvme(1), "pcie_bridge_id", "8086:464d", "m2"))
    BY Table8800, Zenon
  <2> HIDE DEF rule
  <2>4. \A r : r \in AtaRules("DXP8800 Plus") <=> \E i \in 1..8 : r = rule(i)
    BY <2>2, <2>3, <2>d, Zenon DEF AtaRules, firmware_layout
  <2>5. f \in [1..8 -> AtaRules("DXP8800 Plus")]
    BY <2>1, <2>4, Zenon
  <2>6. BySlot(f, 8, AtaRules("DXP8800 Plus"))
    BY <2>1, <2>2, <2>4, <2>5, Zenon DEF BySlot
  <2> HIDE DEF f
  <2> QED
    BY <2>6, OneEachRule, Zenon
<1>5. Cardinality(AtaRules("DH4300 Plus")) = 4
  <2> DEFINE port(i) == IF i % 2 = 1 THEN i + 1 ELSE i - 1
             rule(i) == AtaRule(i, port(i), FALSE)
             f == [i \in 1..4 |-> rule(i)]
  <2> HIDE DEF port
  <2>1. \A i \in 1..4 : f[i] = rule(i)
    OBVIOUS
  <2>2. \A i : rule(i).kind = "ata_id" /\ rule(i).slot[2] = i
    BY AtaRuleIs, Zenon
  <2>3. \A r : r \in Layout("DH4300 Plus", 1) <=> (\E i \in 1..4 : r = rule(i))
    BY Table4300, Zenon DEF port
  <2> HIDE DEF rule
  <2>4. \A r : r \in AtaRules("DH4300 Plus") <=> \E i \in 1..4 : r = rule(i)
    BY <2>2, <2>3, Zenon DEF AtaRules, firmware_layout
  <2>5. f \in [1..4 -> AtaRules("DH4300 Plus")]
    BY <2>1, <2>4, Zenon
  <2>6. BySlot(f, 4, AtaRules("DH4300 Plus"))
    BY <2>1, <2>2, <2>4, <2>5, Zenon DEF BySlot
  <2> HIDE DEF f
  <2> QED
    BY <2>6, OneEachRule, Zenon
<1> QED
  BY <1>1, <1>2, <1>3, <1>4, <1>5, Zenon

\* The index of a port behind a controller.
IndexOf(m, ctrls, c, port) ==
    IF m = "DH4300 Plus" THEN firmware_arm_ata_index(ctrls, c, port)
    ELSE IF m = "DXP4800 Plus" THEN IF single_sata_controller(ctrls) = {c} THEN port ELSE 0
    ELSE IF /\ Cardinality(ctrls) <= 4 /\ PortsOf(ctrls) = Cardinality(AtaRules(m))
            /\ Base(ctrls, c, Cardinality(AtaRules(m))) # NoBase
         THEN Base(ctrls, c, Cardinality(AtaRules(m))) + port ELSE 0

LEMMA IndexIs ==
    ASSUME NEW m, NEW ctrls, NEW place, Cardinality(AtaRules(m)) # 0
    PROVE  IF \E c \in ctrls : c.id = place.at
           THEN \E c \in ctrls : c.id = place.at /\ firmware_ata_index(m, ctrls, place) = IndexOf(m, ctrls, c, place.port)
           ELSE firmware_ata_index(m, ctrls, place) = 0
<1> DEFINE here == {c \in ctrls : c.id = place.at}
           c == CHOOSE x \in here : TRUE
           i == IF here = {} \/ Cardinality(AtaRules(m)) = 0 THEN 0 ELSE
                CASE m = "DH4300 Plus" -> firmware_arm_ata_index(ctrls, c, place.port)
                  [] m \in SingleModels -> IF single_sata_controller(ctrls) = {c} THEN place.port ELSE 0
                  [] OTHER -> IF /\ Cardinality(ctrls) <= 4 /\ PortsOf(ctrls) = Cardinality(AtaRules(m))
                                 /\ Base(ctrls, c, Cardinality(AtaRules(m))) # NoBase
                              THEN Base(ctrls, c, Cardinality(AtaRules(m))) + place.port
                              ELSE 0
<1>1. firmware_ata_index(m, ctrls, place) = i
  BY Zenon DEF firmware_ata_index, AtaRules
<1>2. CASE here = {}
  <2>1. ~ \E x \in ctrls : x.id = place.at
    BY <1>2
  <2>2. i = 0
    BY <1>2
  <2> HIDE DEF i
  <2> QED
    BY <1>1, <2>1, <2>2
<1>3. CASE here # {}
  <2>1. c \in ctrls /\ c.id = place.at
    BY <1>3
  <2> HIDE DEF c, here
  <2>2. i = IndexOf(m, ctrls, c, place.port)
    <3>1. CASE m = "DH4300 Plus"
      BY <1>3, <3>1, Zenon DEF IndexOf, SingleModels
    <3>2. CASE m = "DXP4800 Plus"
      BY <1>3, <3>2, Zenon DEF IndexOf, SingleModels
    <3>3. CASE m # "DH4300 Plus" /\ m # "DXP4800 Plus"
      BY <1>3, <3>3, Zenon DEF IndexOf, SingleModels
    <3> QED
      BY <3>1, <3>2, <3>3, Zenon
  <2> HIDE DEF i
  <2> QED
    BY <1>1, <2>1, <2>2
<1> QED
  BY <1>2, <1>3

LEMMA BasePair ==
    ASSUME NEW ctrls, NEW c \in ctrls, NEW e, Base(ctrls, c, e) # NoBase
    PROVE  \E o \in ctrls : ctrls = {c, o}
<1>1. \/ ctrls = {c} \/ \E o \in ctrls : ctrls = {c, o}
      \/ Base(ctrls, c, e) = NoBase
  BY Zenon DEF Base
<1> QED
  BY <1>1

LEMMA ControllerParts ==
    \A i, v, d, p, b :
        /\ Controller(i, v, d, p, b).id = i /\ Controller(i, v, d, p, b).vendor = v
        /\ Controller(i, v, d, p, b).device = d /\ Controller(i, v, d, p, b).ports = p
        /\ Controller(i, v, d, p, b).bridge = b
  BY DEF Controller

\* The two controllers of a machine in their factory order, and where each begins.
LEMMA BaseIntelFirst ==
    ASSUME NEW I, NEW A, NEW e \in {4, 6}, IntelPair(I), AsmRest(A, e)
    PROVE  Base({I, A}, I, e) = 0 /\ Base({I, A}, A, e) = 2
<1>1. I.vendor = "8086" /\ A.vendor = "1b21" /\ I # A
  BY DEF IntelPair, AsmRest, Intel, Asm
<1>2. {I, A} # {I} /\ {I, A} # {A}
  BY <1>1
<1> DEFINE S == {I, A}
<1>3. \A o \in S : S = {I, o} <=> o = A
  BY <1>1
<1>4. \A o \in S : S = {A, o} <=> o = I
  BY <1>1
<1>5. I \in S /\ A \in S
  OBVIOUS
<1>6. ~AsmQuad(I) /\ ~AsmRest(I, e) /\ ~IntelPair(A)
  BY <1>1 DEF AsmQuad, AsmRest, IntelPair, Intel, Asm
<1> HIDE DEF S
<1>7. Base(S, I, e) = 0
  <2>1. \E o \in S : S = {I, o} /\ IntelPair(I) /\ AsmRest(o, e)
    BY <1>3, <1>5
  <2>2. ~(\E o \in S : S = {I, o} /\ IntelPair(o) /\ AsmRest(I, e))
    BY <1>6
  <2>3. ~(\E o \in S : /\ S = {I, o} /\ I # o /\ e = 8 /\ AsmQuad(I) /\ AsmQuad(o)
                       /\ I.bridge # o.bridge)
    BY <1>6
  <2>4. S # {I} 
    BY <1>2 DEF S
  <2> QED
    BY <2>1, <2>2, <2>3, <2>4, Zenon DEF Base
<1>8. Base(S, A, e) = 2
  <2>1. ~(\E o \in S : S = {A, o} /\ IntelPair(A) /\ AsmRest(o, e))
    BY <1>6
  <2>2. \E o \in S : S = {A, o} /\ IntelPair(o) /\ AsmRest(A, e)
    BY <1>4, <1>5
  <2>3. ~(\E o \in S : /\ S = {A, o} /\ A # o /\ e = 8 /\ AsmQuad(A) /\ AsmQuad(o)
                       /\ A.bridge # o.bridge)
    BY <1>4, <1>6
  <2>4. S # {A}
    BY <1>2 DEF S
  <2> QED
    BY <2>1, <2>2, <2>3, <2>4, Zenon DEF Base
<1> QED
  BY <1>7, <1>8 DEF S

LEMMA BaseByBridge ==
    ASSUME NEW P, NEW Q, AsmQuad(P), AsmQuad(Q), P.bridge = 1, Q.bridge = 2
    PROVE  Base({P, Q}, P, 8) = 0 /\ Base({P, Q}, Q, 8) = 4
<1>1. P # Q /\ P.vendor = "1b21" /\ Q.vendor = "1b21"
  BY DEF AsmQuad, Asm
<1> DEFINE S == {P, Q}
<1>2. S # {P} /\ S # {Q} /\ P \in S /\ Q \in S
  BY <1>1
<1>3. \A o \in S : S = {P, o} <=> o = Q
  BY <1>1
<1>4. \A o \in S : S = {Q, o} <=> o = P
  BY <1>1
<1>5. ~IntelPair(P) /\ ~IntelPair(Q)
  BY <1>1 DEF IntelPair, Intel
<1> HIDE DEF S
<1>6. Base(S, P, 8) = 0
  <2>1. ~(\E o \in S : S = {P, o} /\ IntelPair(P) /\ AsmRest(o, 8))
    BY <1>5
  <2>2. ~(\E o \in S : S = {P, o} /\ IntelPair(o) /\ AsmRest(P, 8))
    BY <1>3, <1>5
  <2>3. \E o \in S : /\ S = {P, o} /\ P # o /\ 8 = 8 /\ AsmQuad(P) /\ AsmQuad(o)
                     /\ P.bridge # o.bridge
    BY <1>1, <1>2, <1>3
  <2> QED
    BY <1>2, <2>1, <2>2, <2>3, Zenon DEF Base
<1>7. Base(S, Q, 8) = 4
  <2>1. ~(\E o \in S : S = {Q, o} /\ IntelPair(Q) /\ AsmRest(o, 8))
    BY <1>5
  <2>2. ~(\E o \in S : S = {Q, o} /\ IntelPair(o) /\ AsmRest(Q, 8))
    BY <1>4, <1>5
  <2>3. \E o \in S : /\ S = {Q, o} /\ Q # o /\ 8 = 8 /\ AsmQuad(Q) /\ AsmQuad(o)
                     /\ Q.bridge # o.bridge
    BY <1>1, <1>2, <1>4
  <2>4. Q.bridge # 1
    OBVIOUS
  <2> QED
    BY <1>2, <2>1, <2>2, <2>3, <2>4, Zenon DEF Base
<1> QED
  BY <1>6, <1>7 DEF S

LEMMA PortsOfOne ==
    ASSUME NEW c, NEW p \in Nat
    PROVE  IsFiniteSet({c} \X (1..p)) /\ Cardinality({c} \X (1..p)) = p
<1> DEFINE U == {c} \X (1..p)
           f == [i \in 1..p |-> <<c, i>>]
<1>1. \A x \in U : \E i \in 1..p : <<c, i>> = x
  OBVIOUS
<1>2. \A i, j \in 1..p : <<c, i>> = <<c, j>> => i = j
  OBVIOUS
<1>3. \A i \in 1..p : f[i] = <<c, i>>
  OBVIOUS
<1>4. f \in [1..p -> U]
  OBVIOUS
<1> HIDE DEF U, f
<1>5. Enumerates(f, p, U)
  BY <1>1, <1>2, <1>3, <1>4 DEF Enumerates
<1> QED
  BY <1>5, Counted DEF U

LEMMA PortsOfTwo ==
    ASSUME NEW I, NEW A, I # A, I.ports \in Nat, A.ports \in Nat
    PROVE  PortsOf({I, A}) = I.ports + A.ports
<1> DEFINE S == {I} \X (1..I.ports)
           T == {A} \X (1..A.ports)
<1>1. UNION {{c} \X (1..c.ports) : c \in {I, A}} = S \cup T
  OBVIOUS
<1>2. S \cap T = {}
  OBVIOUS
<1>3. IsFiniteSet(S) /\ Cardinality(S) = I.ports /\ IsFiniteSet(T) /\ Cardinality(T) = A.ports
  BY PortsOfOne
<1> HIDE DEF S, T
<1>4. Cardinality(S \cup T) = I.ports + A.ports - Cardinality({})
  BY <1>2, <1>3, FS_Union
<1>5. Cardinality(S \cup T) = I.ports + A.ports
  BY <1>4, FS_EmptySet
<1> QED
  BY <1>1, <1>5, Zenon DEF PortsOf

LEMMA TwoElements ==
    ASSUME NEW x, NEW y, x # y
    PROVE  IsFiniteSet({x, y}) /\ Cardinality({x, y}) = 2
<1>1. IsFiniteSet({x}) /\ Cardinality({x}) = 1
  BY FS_Singleton
<1>2. {x, y} = {x} \cup {y} /\ y \notin {x}
  OBVIOUS
<1> QED
  BY <1>1, <1>2, FS_AddElement

\* The controllers each model leaves the factory with.
LEMMA FactoryPairs ==
    /\ Controllers("DXP4800") = {Controller("00:17.0", Intel, "ahci", 2, 0), Controller("01:00.0", Asm, "1062", 2, 0)}
    /\ Controllers("DXP4800 Plus") = {Controller("01:00.0", Asm, "1164", 4, 0)}
    /\ Controllers("DXP6800 Pro") = {Controller("59:00.0", Asm, "1164", 4, 0), Controller("00:17.0", Intel, "ahci", 2, 0)}
    /\ Controllers("DXP8800 Plus") = {Controller("59:00.0", Asm, "1164", 4, 1), Controller("5a:00.0", Asm, "1164", 4, 2)}
    /\ Controllers("DH4300 Plus") = {Controller("rk1", Rockchip, "ahci", 1, 1), Controller("rk2", Rockchip, "ahci", 1, 2),
                                     Controller("asm", Asm, "0612", 2, 0)}
    /\ Controllers("DXP4800 GT") = {Controller("00:01.2", Asm, "1164", 4, 0)}
  BY DEF Controllers

\* The models whose controllers are recognised as a set.
Ordered(m) == m \notin {"DH4300 Plus", "DXP4800 Plus"}

LEMMA IndexInOrder ==
    ASSUME NEW m, Ordered(m), NEW e, Cardinality(AtaRules(m)) = e, NEW ctrls, NEW c, NEW port
    PROVE  IndexOf(m, ctrls, c, port) = IF /\ Cardinality(ctrls) <= 4 /\ PortsOf(ctrls) = e
                                           /\ Base(ctrls, c, e) # NoBase
                                        THEN Base(ctrls, c, e) + port ELSE 0
<1>1. m # "DH4300 Plus" /\ m # "DXP4800 Plus"
  BY Zenon DEF Ordered
<1> QED
  BY <1>1, Zenon DEF IndexOf

\* A recognised pair is the factory's, whatever a card brings.
LEMMA PairIsFactory ==
    ASSUME NEW x, NEW y, x # y, NEW ctrls, {x, y} \subseteq ctrls, NEW c \in ctrls, NEW e, Base(ctrls, c, e) # NoBase
    PROVE  ctrls = {x, y}
<1>1. PICK o \in ctrls : ctrls = {c, o}
  BY BasePair
<1> QED
  BY <1>1

\* Intel's two ports come first.
LEMMA IndexIntelFirst ==
    ASSUME NEW m, NEW e \in {4, 6}, Cardinality(AtaRules(m)) = e, Ordered(m),
           NEW I, NEW A, IntelPair(I), AsmRest(A, e), NEW ctrls, {I, A} \subseteq ctrls,
           NEW port \in Nat, NEW c \in ctrls
    PROVE  /\ IndexOf(m, ctrls, c, port) # 0 => ctrls = {I, A}
           /\ ctrls = {I, A} => IndexOf(m, ctrls, c, port) = IF c = I THEN port ELSE 2 + port
<1>1. I # A /\ I.ports = 2 /\ A.ports = e - 2
  BY DEF IntelPair, AsmRest, Intel, Asm
<1>2. IndexOf(m, ctrls, c, port) = IF /\ Cardinality(ctrls) <= 4 /\ PortsOf(ctrls) = e
                                      /\ Base(ctrls, c, e) # NoBase
                                   THEN Base(ctrls, c, e) + port ELSE 0
  BY IndexInOrder
<1>3. IndexOf(m, ctrls, c, port) # 0 => ctrls = {I, A}
  BY <1>1, <1>2, PairIsFactory
<1>4. ASSUME ctrls = {I, A} PROVE IndexOf(m, ctrls, c, port) = IF c = I THEN port ELSE 2 + port
  <2>1. Cardinality(ctrls) = 2
    BY <1>1, <1>4, TwoElements
  <2>2. PortsOf({I, A}) = 2 + (e - 2)
    <3>1. 2 \in Nat /\ e - 2 \in Nat
      OBVIOUS
    <3> QED
      BY <1>1, <3>1, PortsOfTwo
  <2>3. PortsOf(ctrls) = e
    BY <1>4, <2>2
  <2>4. Base({I, A}, I, e) = 0 /\ Base({I, A}, A, e) = 2
    BY BaseIntelFirst
  <2>5. c = I \/ c = A
    BY <1>4
  <2>6. Base(ctrls, c, e) = IF c = I THEN 0 ELSE 2
    BY <1>1, <1>4, <2>4, <2>5
  <2> QED
    BY <1>2, <2>1, <2>3, <2>6 DEF NoBase
<1> QED
  BY <1>3, <1>4

LEMMA IndexByBridge ==
    ASSUME NEW m, Cardinality(AtaRules(m)) = 8, Ordered(m),
           NEW P, NEW Q, AsmQuad(P), AsmQuad(Q), P.bridge = 1, Q.bridge = 2, NEW ctrls, {P, Q} \subseteq ctrls,
           NEW port \in Nat, NEW c \in ctrls
    PROVE  /\ IndexOf(m, ctrls, c, port) # 0 => ctrls = {P, Q}
           /\ ctrls = {P, Q} => IndexOf(m, ctrls, c, port) = IF c = P THEN port ELSE 4 + port
<1>1. P # Q /\ P.ports = 4 /\ Q.ports = 4
  BY DEF AsmQuad
<1>2. IndexOf(m, ctrls, c, port) = IF /\ Cardinality(ctrls) <= 4 /\ PortsOf(ctrls) = 8
                                      /\ Base(ctrls, c, 8) # NoBase
                                   THEN Base(ctrls, c, 8) + port ELSE 0
  BY IndexInOrder
<1>3. IndexOf(m, ctrls, c, port) # 0 => ctrls = {P, Q}
  BY <1>1, <1>2, PairIsFactory
<1>4. ASSUME ctrls = {P, Q} PROVE IndexOf(m, ctrls, c, port) = IF c = P THEN port ELSE 4 + port
  <2>1. Cardinality(ctrls) = 2
    BY <1>1, <1>4, TwoElements
  <2>2. PortsOf({P, Q}) = 4 + 4
    <3>1. 4 \in Nat
      OBVIOUS
    <3> QED
      BY <1>1, <3>1, PortsOfTwo
  <2>3. PortsOf(ctrls) = 8
    BY <1>4, <2>2
  <2>4. Base({P, Q}, P, 8) = 0 /\ Base({P, Q}, Q, 8) = 4
    BY BaseByBridge
  <2>5. c = P \/ c = Q
    BY <1>4
  <2>6. Base(ctrls, c, 8) = IF c = P THEN 0 ELSE 4
    BY <1>1, <1>4, <2>4, <2>5
  <2> QED
    BY <1>2, <2>1, <2>3, <2>6 DEF NoBase
<1> QED
  BY <1>3, <1>4

\* What the rules of the ATA order are, on each model.
LEMMA Order4800 ==
    ASSUME NEW r
    PROVE  r \in AtaRules("DXP4800") <=> (\E i \in 1..4 : r = AtaRule(i, i, TRUE))
<1> DEFINE P == \E i \in 1..4 : r = AtaRule(i, i, TRUE)
<1>1. r \in Layout("DXP4800", 1) <=> (P \/ r = DriveRule(Nvme(1), "block_name", "nvme0n1", "m2"))
  BY Table4800
<1>2. P => r.kind = "ata_id"
  <2>1. \A n, i, l : r = AtaRule(n, i, l) => r.kind = "ata_id"
    BY RuleParts
  <2> QED
    BY <2>1, Zenon
<1>3. r = DriveRule(Nvme(1), "block_name", "nvme0n1", "m2") => r.kind # "ata_id"
  BY Drives
<1> HIDE DEF P
<1>4. r \in AtaRules("DXP4800") <=> (r \in Layout("DXP4800", 1) /\ r.kind = "ata_id")
  BY DEF AtaRules, firmware_layout
<1>5. r \in AtaRules("DXP4800") <=> P
  BY <1>1, <1>2, <1>3, <1>4
<1> QED
  BY <1>5 DEF P

LEMMA Order4800Plus ==
    ASSUME NEW r
    PROVE  r \in AtaRules("DXP4800 Plus") <=> (\E i \in 1..4 : r = AtaRule(i, i, TRUE))
<1> DEFINE P == \E i \in 1..4 : r = AtaRule(i, i, TRUE)
<1>1. r \in Layout("DXP4800 Plus", 1) <=> (P \/ r = DriveRule(Nvme(1), "pcie_bridge_id", "8086:463d", "m2"))
  BY Table4800Plus, Zenon
<1>2. P => r.kind = "ata_id"
  <2>1. \A n, i, l : r = AtaRule(n, i, l) => r.kind = "ata_id"
    BY RuleParts
  <2> QED
    BY <2>1, Zenon
<1>3. r = DriveRule(Nvme(1), "pcie_bridge_id", "8086:463d", "m2") => r.kind # "ata_id"
  BY Drives
<1> HIDE DEF P
<1>4. r \in AtaRules("DXP4800 Plus") <=> (r \in Layout("DXP4800 Plus", 1) /\ r.kind = "ata_id")
  BY DEF AtaRules, firmware_layout
<1>5. r \in AtaRules("DXP4800 Plus") <=> P
  BY <1>1, <1>2, <1>3, <1>4, Zenon
<1> QED
  BY <1>5, Zenon DEF P

LEMMA Order6800 ==
    ASSUME NEW r
    PROVE  r \in AtaRules("DXP6800 Pro") <=> ((\E i \in 1..4 : r = AtaRule(i, i + 2, TRUE)) \/ (\E i \in 5..6 : r = AtaRule(i, i - 4, TRUE)))
<1> DEFINE P == (\E i \in 1..4 : r = AtaRule(i, i + 2, TRUE)) \/ (\E i \in 5..6 : r = AtaRule(i, i - 4, TRUE))
<1>1. r \in Layout("DXP6800 Pro", 1) <=> (P \/ r = DriveRule(Nvme(1), "pcie_bridge_id", "8086:464d", "m2"))
  BY Table6800, Zenon
<1>2. P => r.kind = "ata_id"
  <2>1. \A n, i, l : r = AtaRule(n, i, l) => r.kind = "ata_id"
    BY RuleParts
  <2> QED
    BY <2>1, Zenon
<1>3. r = DriveRule(Nvme(1), "pcie_bridge_id", "8086:464d", "m2") => r.kind # "ata_id"
  BY Drives
<1> HIDE DEF P
<1>4. r \in AtaRules("DXP6800 Pro") <=> (r \in Layout("DXP6800 Pro", 1) /\ r.kind = "ata_id")
  BY DEF AtaRules, firmware_layout
<1>5. r \in AtaRules("DXP6800 Pro") <=> P
  BY <1>1, <1>2, <1>3, <1>4, Zenon
<1> QED
  BY <1>5, Zenon DEF P

LEMMA Order8800 ==
    ASSUME NEW r
    PROVE  r \in AtaRules("DXP8800 Plus") <=> (\E i \in 1..8 : r = AtaRule(i, i, TRUE))
<1> DEFINE P == \E i \in 1..8 : r = AtaRule(i, i, TRUE)
<1>1. r \in Layout("DXP8800 Plus", 1) <=> (P \/ r = DriveRule(Nvme(1), "pcie_bridge_id", "8086:464d", "m2"))
  BY Table8800, Zenon
<1>2. P => r.kind = "ata_id"
  <2>1. \A n, i, l : r = AtaRule(n, i, l) => r.kind = "ata_id"
    BY RuleParts
  <2> QED
    BY <2>1, Zenon
<1>3. r = DriveRule(Nvme(1), "pcie_bridge_id", "8086:464d", "m2") => r.kind # "ata_id"
  BY Drives
<1> HIDE DEF P
<1>4. r \in AtaRules("DXP8800 Plus") <=> (r \in Layout("DXP8800 Plus", 1) /\ r.kind = "ata_id")
  BY DEF AtaRules, firmware_layout
<1>5. r \in AtaRules("DXP8800 Plus") <=> P
  BY <1>1, <1>2, <1>3, <1>4, Zenon
<1> QED
  BY <1>5, Zenon DEF P

LEMMA Order4300 ==
    ASSUME NEW r
    PROVE  r \in AtaRules("DH4300 Plus") <=> (\E i \in 1..4 : r = AtaRule(i, IF i % 2 = 1 THEN i + 1 ELSE i - 1, FALSE))
<1> DEFINE P == \E i \in 1..4 : r = AtaRule(i, IF i % 2 = 1 THEN i + 1 ELSE i - 1, FALSE)
<1>1. r \in Layout("DH4300 Plus", 1) <=> (P)
  BY Table4300, Zenon
<1>2. P => r.kind = "ata_id"
  <2>1. \A n, i, l : r = AtaRule(n, i, l) => r.kind = "ata_id"
    BY RuleParts
  <2> QED
    BY <2>1, Zenon
<1> HIDE DEF P
<1>4. r \in AtaRules("DH4300 Plus") <=> (r \in Layout("DH4300 Plus", 1) /\ r.kind = "ata_id")
  BY DEF AtaRules, firmware_layout
<1>5. r \in AtaRules("DH4300 Plus") <=> P
  BY <1>1, <1>2, <1>4, Zenon
<1> QED
  BY <1>5, Zenon DEF P

\* The index of a place on a machine of two controllers.
LEMMA IndexOfPair ==
    ASSUME NEW m, NEW I, NEW A, I.id # A.id, NEW ctrls, {I, A} \subseteq ctrls, NEW place, NEW k,
           Cardinality(AtaRules(m)) # 0,
           \A c \in ctrls :
             /\ IndexOf(m, ctrls, c, place.port) # 0 => ctrls = {I, A}
             /\ ctrls = {I, A} => IndexOf(m, ctrls, c, place.port) = IF c = I THEN place.port ELSE k + place.port
    PROVE  /\ ctrls # {I, A} => firmware_ata_index(m, ctrls, place) = 0
           /\ ctrls = {I, A} =>
                /\ place.at = I.id => firmware_ata_index(m, ctrls, place) = place.port
                /\ place.at = A.id => firmware_ata_index(m, ctrls, place) = k + place.port
                /\ place.at # I.id /\ place.at # A.id => firmware_ata_index(m, ctrls, place) = 0
<1> DEFINE index == firmware_ata_index(m, ctrls, place)
<1>1. IF \E c \in ctrls : c.id = place.at
      THEN \E c \in ctrls : c.id = place.at /\ index = IndexOf(m, ctrls, c, place.port)
      ELSE index = 0
  BY IndexIs
<1> HIDE DEF index
<1>2. ctrls # {I, A} => index = 0
  BY <1>1
<1>3. ctrls = {I, A} /\ place.at = I.id => index = place.port
  BY <1>1
<1>4. ctrls = {I, A} /\ place.at = A.id => index = k + place.port
  BY <1>1
<1>5. ctrls = {I, A} /\ place.at # I.id /\ place.at # A.id => index = 0
  BY <1>1
<1> QED
  BY <1>2, <1>3, <1>4, <1>5 DEF index

\* A model by its name.
Is4800(m) == m = "DXP4800"
Is4800Plus(m) == m = "DXP4800 Plus"
Is6800(m) == m = "DXP6800 Pro"
Is8800(m) == m = "DXP8800 Plus"
Is4300(m) == m = "DH4300 Plus"
Is4800GT(m) == m = "DXP4800 GT"
Is2800GT(m) == m = "DXP2800 GT"

LEMMA Index4800 ==
    ASSUME NEW m, Is4800(m), NEW ctrls, Controllers(m) \subseteq ctrls, NEW place \in Place
    PROVE  LET index == firmware_ata_index(m, ctrls, place) IN
           /\ ctrls # Controllers(m) => index = 0
           /\ ctrls = Controllers(m) =>
                /\ place.at = "00:17.0" => index = place.port
                /\ place.at = "01:00.0" => index = 2 + place.port
                /\ place.at # "00:17.0" /\ place.at # "01:00.0" => index = 0
<1> DEFINE I == Controller("00:17.0", Intel, "ahci", 2, 0)
           A == Controller("01:00.0", Asm, "1062", 2, 0)
<1>1. IntelPair(I) /\ I.id = "00:17.0"
  BY DEF IntelPair, Controller
<1>2. AsmRest(A, 4) /\ A.id = "01:00.0"
  <2>1. A.vendor = Asm /\ A.ports = 4 - 2 /\ A.device = "1062" /\ A.id = "01:00.0"
    BY DEF Controller
  <2> QED
    BY <2>1 DEF AsmRest
<1>3. Controllers(m) = {I, A}
  <2>1. Controllers("DXP4800") = {I, A}
    BY FactoryPairs, Zenon
  <2> QED
    BY <2>1, Zenon DEF Is4800
<1>4. Ordered(m)
  BY Zenon DEF Ordered, Is4800
<1>5. Cardinality(AtaRules(m)) = 4
  BY Expected, Zenon DEF Is4800
<1>6. 4 # 0 /\ 4 \in {4, 6} /\ place.port \in Nat
  BY PlaceParts
<1> HIDE DEF I, A
<1>7. {I, A} \subseteq ctrls
  BY <1>3
<1>8. \A c \in ctrls :
        /\ IndexOf(m, ctrls, c, place.port) # 0 => ctrls = {I, A}
        /\ ctrls = {I, A} => IndexOf(m, ctrls, c, place.port) = IF c = I THEN place.port ELSE 2 + place.port
  BY <1>1, <1>2, <1>4, <1>5, <1>6, <1>7, IndexIntelFirst
<1>9. I.id # A.id
  BY <1>1, <1>2
<1>10. Cardinality(AtaRules(m)) # 0
  BY <1>5, <1>6
<1>11. /\ ctrls # {I, A} => firmware_ata_index(m, ctrls, place) = 0
       /\ ctrls = {I, A} =>
            /\ place.at = I.id => firmware_ata_index(m, ctrls, place) = place.port
            /\ place.at = A.id => firmware_ata_index(m, ctrls, place) = 2 + place.port
            /\ place.at # I.id /\ place.at # A.id => firmware_ata_index(m, ctrls, place) = 0
  BY <1>7, <1>8, <1>9, <1>10, IndexOfPair, SMTT(30)
<1> QED
  BY <1>1, <1>2, <1>3, <1>11

LEMMA Index6800 ==
    ASSUME NEW m, Is6800(m), NEW ctrls, Controllers(m) \subseteq ctrls, NEW place \in Place
    PROVE  LET index == firmware_ata_index(m, ctrls, place) IN
           /\ ctrls # Controllers(m) => index = 0
           /\ ctrls = Controllers(m) =>
                /\ place.at = "00:17.0" => index = place.port
                /\ place.at = "59:00.0" => index = 2 + place.port
                /\ place.at # "00:17.0" /\ place.at # "59:00.0" => index = 0
<1> DEFINE I == Controller("00:17.0", Intel, "ahci", 2, 0)
           A == Controller("59:00.0", Asm, "1164", 4, 0)
<1>1. IntelPair(I) /\ I.id = "00:17.0"
  BY DEF IntelPair, Controller
<1>2. AsmRest(A, 6) /\ A.id = "59:00.0"
  <2>1. A.vendor = Asm /\ A.ports = 6 - 2 /\ A.device = "1164" /\ A.id = "59:00.0"
    BY DEF Controller
  <2> QED
    BY <2>1 DEF AsmRest
<1>3. Controllers(m) = {I, A}
  <2>1. Controllers("DXP6800 Pro") = {I, A}
    BY FactoryPairs, Zenon
  <2> QED
    BY <2>1, Zenon DEF Is6800
<1>4. Ordered(m)
  BY Zenon DEF Ordered, Is6800
<1>5. Cardinality(AtaRules(m)) = 6
  BY Expected, Zenon DEF Is6800
<1>6. 6 # 0 /\ 6 \in {4, 6} /\ place.port \in Nat
  BY PlaceParts
<1> HIDE DEF I, A
<1>7. {I, A} \subseteq ctrls
  BY <1>3
<1>8. \A c \in ctrls :
        /\ IndexOf(m, ctrls, c, place.port) # 0 => ctrls = {I, A}
        /\ ctrls = {I, A} => IndexOf(m, ctrls, c, place.port) = IF c = I THEN place.port ELSE 2 + place.port
  BY <1>1, <1>2, <1>4, <1>5, <1>6, <1>7, IndexIntelFirst
<1>9. I.id # A.id
  BY <1>1, <1>2
<1>10. Cardinality(AtaRules(m)) # 0
  BY <1>5, <1>6
<1>11. /\ ctrls # {I, A} => firmware_ata_index(m, ctrls, place) = 0
       /\ ctrls = {I, A} =>
            /\ place.at = I.id => firmware_ata_index(m, ctrls, place) = place.port
            /\ place.at = A.id => firmware_ata_index(m, ctrls, place) = 2 + place.port
            /\ place.at # I.id /\ place.at # A.id => firmware_ata_index(m, ctrls, place) = 0
  BY <1>7, <1>8, <1>9, <1>10, IndexOfPair, SMTT(30)
<1> QED
  BY <1>1, <1>2, <1>3, <1>11

LEMMA Index8800 ==
    ASSUME NEW m, Is8800(m), NEW ctrls, Controllers(m) \subseteq ctrls, NEW place \in Place
    PROVE  LET index == firmware_ata_index(m, ctrls, place) IN
           /\ ctrls # Controllers(m) => index = 0
           /\ ctrls = Controllers(m) =>
                /\ place.at = "59:00.0" => index = place.port
                /\ place.at = "5a:00.0" => index = 4 + place.port
                /\ place.at # "59:00.0" /\ place.at # "5a:00.0" => index = 0
<1> DEFINE I == Controller("59:00.0", Asm, "1164", 4, 1)
           A == Controller("5a:00.0", Asm, "1164", 4, 2)
<1>1. AsmQuad(I) /\ I.id = "59:00.0" /\ I.bridge = 1
  BY DEF AsmQuad, Controller
<1>2. AsmQuad(A) /\ A.id = "5a:00.0" /\ A.bridge = 2
  BY DEF AsmQuad, Controller
<1>3. Controllers(m) = {I, A}
  <2>1. Controllers("DXP8800 Plus") = {I, A}
    BY FactoryPairs, Zenon
  <2> QED
    BY <2>1, Zenon DEF Is8800
<1>4. Ordered(m)
  BY Zenon DEF Ordered, Is8800
<1>5. Cardinality(AtaRules(m)) = 8
  BY Expected, Zenon DEF Is8800
<1>6. 8 # 0 /\ 8 \in {8} /\ place.port \in Nat
  BY PlaceParts
<1> HIDE DEF I, A
<1>7. {I, A} \subseteq ctrls
  BY <1>3
<1>8. \A c \in ctrls :
        /\ IndexOf(m, ctrls, c, place.port) # 0 => ctrls = {I, A}
        /\ ctrls = {I, A} => IndexOf(m, ctrls, c, place.port) = IF c = I THEN place.port ELSE 4 + place.port
  BY <1>1, <1>2, <1>4, <1>5, <1>6, <1>7, IndexByBridge
<1>9. I.id # A.id
  BY <1>1, <1>2
<1>10. Cardinality(AtaRules(m)) # 0
  BY <1>5, <1>6
<1>11. /\ ctrls # {I, A} => firmware_ata_index(m, ctrls, place) = 0
       /\ ctrls = {I, A} =>
            /\ place.at = I.id => firmware_ata_index(m, ctrls, place) = place.port
            /\ place.at = A.id => firmware_ata_index(m, ctrls, place) = 4 + place.port
            /\ place.at # I.id /\ place.at # A.id => firmware_ata_index(m, ctrls, place) = 0
  BY <1>7, <1>8, <1>9, <1>10, IndexOfPair, SMTT(30)
<1> QED
  BY <1>1, <1>2, <1>3, <1>11

LEMMA Index4800Plus ==
    ASSUME NEW m, Is4800Plus(m), NEW ctrls, Controllers(m) \subseteq ctrls, NEW place \in Place
    PROVE  LET index == firmware_ata_index(m, ctrls, place) IN
           /\ ctrls # Controllers(m) => index = 0
           /\ ctrls = Controllers(m) =>
                /\ place.at = "01:00.0" => index = place.port
                /\ place.at # "01:00.0" => index = 0
<1> DEFINE A == Controller("01:00.0", Asm, "1164", 4, 0)
           index == firmware_ata_index(m, ctrls, place)
<1>1. A.id = "01:00.0" /\ A.vendor = Asm /\ A.device = "1164" /\ A.ports = 4
  BY DEF Controller
<1>2. Controllers(m) = {A}
  <2>1. Controllers("DXP4800 Plus") = {A}
    BY FactoryPairs, Zenon
  <2> QED
    BY <2>1, Zenon DEF Is4800Plus
<1>3. Cardinality(AtaRules(m)) # 0
  <2>1. Cardinality(AtaRules(m)) = 4
    BY Expected, Zenon DEF Is4800Plus
  <2> QED
    BY <2>1
<1> HIDE DEF A
<1>4. ASSUME NEW c \in ctrls
      PROVE  IndexOf(m, ctrls, c, place.port) = IF single_sata_controller(ctrls) = {c} THEN place.port ELSE 0
  <2>1. "DXP4800 Plus" # "DH4300 Plus"
    BY Zenon
  <2> QED
    BY <2>1, Zenon DEF IndexOf, Is4800Plus
<1>5. ASSUME NEW c PROVE single_sata_controller(ctrls) = {c} <=> (ctrls = {A} /\ c = A)
  BY <1>1, <1>2 DEF single_sata_controller
<1>6. IF \E c \in ctrls : c.id = place.at
      THEN \E c \in ctrls : c.id = place.at /\ index = IndexOf(m, ctrls, c, place.port)
      ELSE index = 0
  BY <1>3, IndexIs
<1> HIDE DEF index
<1>7. ctrls # {A} => index = 0
  BY <1>4, <1>5, <1>6
<1>8. ctrls = {A} /\ place.at = "01:00.0" => index = place.port
  BY <1>1, <1>4, <1>5, <1>6
<1>9. ctrls = {A} /\ place.at # "01:00.0" => index = 0
  BY <1>1, <1>4, <1>5, <1>6
<1> QED
  BY <1>2, <1>7, <1>8, <1>9 DEF index

LEMMA ThreeElements ==
    ASSUME NEW x, NEW y, NEW z, x # y, x # z, y # z
    PROVE  IsFiniteSet({x, y, z}) /\ Cardinality({x, y, z}) = 3
<1>1. IsFiniteSet({x, y}) /\ Cardinality({x, y}) = 2
  BY TwoElements
<1>2. {x, y, z} = {x, y} \cup {z} /\ z \notin {x, y}
  OBVIOUS
<1> QED
  BY <1>1, <1>2, FS_AddElement

LEMMA Index4300 ==
    ASSUME NEW m, Is4300(m), NEW ctrls, IsFiniteSet(ctrls), Controllers(m) \subseteq ctrls, NEW place \in Place
    PROVE  LET index == firmware_ata_index(m, ctrls, place) IN
           /\ ctrls # Controllers(m) => index = 0
           /\ ctrls = Controllers(m) =>
                /\ place.at = "rk1" => index = 1
                /\ place.at = "rk2" => index = 2
                /\ place.at = "asm" => index = 2 + place.port
                /\ place.at # "rk1" /\ place.at # "rk2" /\ place.at # "asm" => index = 0
<1> DEFINE R == Controller("rk1", Rockchip, "ahci", 1, 1)
           Q == Controller("rk2", Rockchip, "ahci", 1, 2)
           A == Controller("asm", Asm, "0612", 2, 0)
           F == {R, Q, A}
           index == firmware_ata_index(m, ctrls, place)
<1>1. /\ R.id = "rk1" /\ R.vendor = Rockchip /\ R.bridge = 1 /\ R.ports = 1
      /\ Q.id = "rk2" /\ Q.vendor = Rockchip /\ Q.bridge = 2 /\ Q.ports = 1
      /\ A.id = "asm" /\ A.vendor = Asm /\ A.device = "0612" /\ A.ports = 2 /\ Asm # Rockchip
  BY DEF Controller, Asm, Rockchip
<1>2. Controllers(m) = F
  <2>1. Controllers("DH4300 Plus") = F
    BY FactoryPairs, Zenon
  <2> QED
    BY <2>1, Zenon DEF Is4300
<1>3. Cardinality(AtaRules(m)) # 0
  <2>1. Cardinality(AtaRules(m)) = 4
    BY Expected, Zenon DEF Is4300
  <2> QED
    BY <2>1
<1> HIDE DEF R, Q, A
<1>4. IsFiniteSet(F) /\ Cardinality(F) = 3
  <2>1. R # Q /\ R # A /\ Q # A
    BY <1>1
  <2> QED
    BY <2>1, ThreeElements, Zenon
<1>5. ASSUME NEW c \in ctrls
      PROVE  IndexOf(m, ctrls, c, place.port) = firmware_arm_ata_index(ctrls, c, place.port)
  BY Zenon DEF IndexOf, Is4300
<1>6. arm_roles(ctrls) <=> ctrls = F
  <2>1. arm_roles(ctrls) => ctrls = F
    <3>1. arm_roles(ctrls) => Cardinality(ctrls) = 3
      BY DEF arm_roles
    <3> HIDE DEF F
    <3> QED
      BY <1>2, <1>4, <3>1, FS_Subset
  <2>2. ctrls = F => arm_roles(ctrls)
    <3>1. SUFFICES ASSUME ctrls = F PROVE arm_roles(ctrls)
      OBVIOUS
    <3>2. Cardinality(ctrls) = 3
      BY <1>4, <3>1
    <3>3. \A role \in 1..2 : \E c \in ctrls : c.vendor = Rockchip /\ c.bridge = role /\ c.ports = 1
      <4>1. R \in ctrls /\ Q \in ctrls
        BY <3>1
      <4>2. \A role \in 1..2 : role = 1 \/ role = 2
        OBVIOUS
      <4> QED
        BY <1>1, <4>1, <4>2
    <3>4. A \in ctrls
      BY <3>1
    <3> QED
      BY <1>1, <3>2, <3>3, <3>4 DEF arm_roles
  <2> QED
    BY <2>1, <2>2
<1>7. ASSUME NEW c
      PROVE  firmware_arm_ata_index(ctrls, c, place.port) =
             IF ctrls # F THEN 0 ELSE IF c.vendor = Rockchip THEN c.bridge ELSE 2 + place.port
  BY <1>6, Zenon DEF firmware_arm_ata_index
<1>8. IF \E c \in ctrls : c.id = place.at
      THEN \E c \in ctrls : c.id = place.at /\ index = IndexOf(m, ctrls, c, place.port)
      ELSE index = 0
  BY <1>3, IndexIs
<1> HIDE DEF index
<1>9. ctrls # F => index = 0
  BY <1>5, <1>7, <1>8
<1>10. ASSUME ctrls = F
       PROVE  /\ place.at = "rk1" => index = 1
              /\ place.at = "rk2" => index = 2
              /\ place.at = "asm" => index = 2 + place.port
              /\ place.at # "rk1" /\ place.at # "rk2" /\ place.at # "asm" => index = 0
  <2>1. \A c \in ctrls : index = IndexOf(m, ctrls, c, place.port) =>
            index = IF c.vendor = Rockchip THEN c.bridge ELSE 2 + place.port
    BY <1>5, <1>7, <1>10
  <2>2. \A c : c \in ctrls <=> c = R \/ c = Q \/ c = A
    BY <1>10
  <2> HIDE DEF F
  <2>3. place.at = "rk1" => index = 1
    BY <1>1, <1>8, <2>1, <2>2
  <2>4. place.at = "rk2" => index = 2
    BY <1>1, <1>8, <2>1, <2>2
  <2>5. place.at = "asm" => index = 2 + place.port
    BY <1>1, <1>8, <2>1, <2>2
  <2>6. place.at # "rk1" /\ place.at # "rk2" /\ place.at # "asm" => index = 0
    BY <1>1, <1>8, <2>1, <2>2
  <2> QED
    BY <2>3, <2>4, <2>5, <2>6
<1> QED
  BY <1>2, <1>9, <1>10 DEF index

-----------------------------------------------------------------------------
(* On each model, the index the code computes finds the rule of the bay    *)
(* that is wired to the place, or no rule at all.                          *)

\* A machine's controllers are the factory's, with a card's or without.
LEMMA BuiltSays ==
    ASSUME NEW m, NEW ctrls, Built(m, ctrls), IsFiniteSet(Controllers(m)), NEW place, Fits(m, place)
    PROVE  /\ Controllers(m) \subseteq ctrls /\ IsFiniteSet(ctrls)
           /\ \A c \in Controllers(m) : c.id = place.at => place.port <= c.ports
<1>1. IsFiniteSet(Controllers(m) \cup Card.ctrls)
  BY DiskAssumption, FS_Union
<1> QED
  BY <1>1 DEF Built, Fits

\* What the rules of the ATA order find at a place: nothing, or the bay it is wired to; and
\* on the machine as it left the factory, one rule for each bay.
Placed(m, rt, ctrls, place) ==
    LET index == firmware_ata_index(m, ctrls, place) IN
    /\ \A r \in AtaRules(m) :
        r.port = index => \E b \in 1..8 : Wired(m, rt, place, b) /\ r.slot = Ata(b)
    /\ ctrls = Controllers(m) =>
        \A b : Wired(m, rt, place, b) =>
            \E r \in AtaRules(m) : r.slot = Ata(b) /\ \A x \in AtaRules(m) : x.port = index <=> x = r

\* The ATA order of a model: n bays, each with an index of its own.
ByOrder(m, rt, ctrls, place, n, port, led) ==
    /\ \A r : r \in AtaRules(m) <=> \E i \in 1..n : r = AtaRule(i, port[i], led)
    /\ \A i \in 1..n : firmware_ata_index(m, ctrls, place) = port[i] => Wired(m, rt, place, i)
    /\ ctrls = Controllers(m) =>
        \A b : Wired(m, rt, place, b) =>
            b \in 1..n /\ \A i \in 1..n : port[i] = firmware_ata_index(m, ctrls, place) <=> i = b

LEMMA PlacedByOrder ==
    ASSUME NEW m, NEW rt, NEW ctrls, NEW place, NEW n \in 1..8, NEW port, NEW led,
           ByOrder(m, rt, ctrls, place, n, port, led)
    PROVE  Placed(m, rt, ctrls, place)
<1> DEFINE index == firmware_ata_index(m, ctrls, place)
<1> HIDE DEF index
<1>1. \A i : AtaRule(i, port[i], led).port = port[i] /\ AtaRule(i, port[i], led).slot = Ata(i)
  BY RuleParts
<1>2. \A r \in AtaRules(m) :
        r.port = index => \E b \in 1..8 : Wired(m, rt, place, b) /\ r.slot = Ata(b)
  <2>1. SUFFICES ASSUME NEW r \in AtaRules(m), r.port = index
                 PROVE \E b \in 1..8 : Wired(m, rt, place, b) /\ r.slot = Ata(b)
    OBVIOUS
  <2>2. PICK i \in 1..n : r = AtaRule(i, port[i], led)
    BY DEF ByOrder
  <2>3. port[i] = index /\ r.slot = Ata(i)
    BY <1>1, <2>1, <2>2
  <2>4. Wired(m, rt, place, i)
    BY <2>3 DEF index, ByOrder
  <2>5. i \in 1..8
    OBVIOUS
  <2> QED
    BY <2>3, <2>4, <2>5
<1>3. ctrls = Controllers(m) =>
        \A b : Wired(m, rt, place, b) =>
            \E r \in AtaRules(m) : r.slot = Ata(b) /\ \A x \in AtaRules(m) : x.port = index <=> x = r
  <2>1. SUFFICES ASSUME ctrls = Controllers(m), NEW b, Wired(m, rt, place, b)
                 PROVE \E r \in AtaRules(m) : r.slot = Ata(b) /\ \A x \in AtaRules(m) : x.port = index <=> x = r
    OBVIOUS
  <2>2. b \in 1..n /\ \A i \in 1..n : port[i] = index <=> i = b
    BY <2>1 DEF index, ByOrder
  <2> DEFINE r == AtaRule(b, port[b], led)
  <2>3. r \in AtaRules(m) /\ r.slot = Ata(b) /\ r.port = index
    BY <1>1, <2>2 DEF ByOrder
  <2>4. ASSUME NEW x \in AtaRules(m), x.port = index PROVE x = r
    <3>1. PICK i \in 1..n : x = AtaRule(i, port[i], led)
      BY DEF ByOrder
    <3>2. port[i] = index
      BY <1>1, <2>4, <3>1
    <3>3. i = b
      BY <2>2, <3>2
    <3> QED
      BY <3>1, <3>3, Zenon
  <2> HIDE DEF r
  <2> QED
    BY <2>3, <2>4
<1> QED
  BY <1>2, <1>3, Zenon DEF Placed, index

\* The factory's controllers, one by one.
LEMMA Factory4800 ==
    /\ Controller("00:17.0", Intel, "ahci", 2, 0) \in Controllers("DXP4800")
    /\ Controller("01:00.0", Asm, "1062", 2, 0) \in Controllers("DXP4800")
  BY FactoryPairs, Zenon
LEMMA Factory4800Plus == Controller("01:00.0", Asm, "1164", 4, 0) \in Controllers("DXP4800 Plus")
  BY FactoryPairs, Zenon
LEMMA Factory6800 ==
    /\ Controller("00:17.0", Intel, "ahci", 2, 0) \in Controllers("DXP6800 Pro")
    /\ Controller("59:00.0", Asm, "1164", 4, 0) \in Controllers("DXP6800 Pro")
  BY FactoryPairs, Zenon
LEMMA Factory8800 ==
    /\ Controller("59:00.0", Asm, "1164", 4, 1) \in Controllers("DXP8800 Plus")
    /\ Controller("5a:00.0", Asm, "1164", 4, 2) \in Controllers("DXP8800 Plus")
  BY FactoryPairs, Zenon

LEMMA Placed4800 ==
    ASSUME NEW m, Is4800(m), NEW rt, NEW ctrls, Controllers(m) \subseteq ctrls,
           NEW place \in Place, place.iface = "sata", Fits(m, place)
    PROVE  Placed(m, rt, ctrls, place)
<1> DEFINE port == [i \in 1..4 |-> i]
           index == firmware_ata_index(m, ctrls, place)
<1>1. \A r : r \in AtaRules(m) <=> \E i \in 1..4 : r = AtaRule(i, port[i], TRUE)
  <2>1. \A r : r \in AtaRules(m) <=> (\E i \in 1..4 : r = AtaRule(i, i, TRUE))
    BY Order4800, Zenon DEF Is4800
  <2>2. \A i \in 1..4 : port[i] = i
    OBVIOUS
  <2> HIDE DEF port
  <2> QED
    BY <2>1, <2>2, Zenon
<1>2. /\ place.port \in 1..8
      /\ place.at = "00:17.0" => place.port <= 2
      /\ place.at = "01:00.0" => place.port <= 2
  <2>1. Controller("00:17.0", Intel, "ahci", 2, 0) \in Controllers(m)
    BY Factory4800, Zenon DEF Is4800
  <2>2. Controller("01:00.0", Asm, "1062", 2, 0) \in Controllers(m)
    BY Factory4800, Zenon DEF Is4800
  <2> QED
    BY <2>1, <2>2, PlaceParts, ControllerParts DEF Fits
<1>3. \A b : Wired(m, rt, place, b) <=> ((At(place, "00:17.0", 2) /\ b = 0 + place.port) \/
                                       (At(place, "01:00.0", 2) /\ b = 2 + place.port))
  BY Wired4800, Zenon DEF Is4800
<1>4. /\ ctrls # Controllers(m) => index = 0
      /\ ctrls = Controllers(m) =>
            /\ place.at = "00:17.0" => index = place.port
            /\ place.at = "01:00.0" => index = 2 + place.port
            /\ place.at # "00:17.0" /\ place.at # "01:00.0" => index = 0
  BY Index4800, Zenon
<1> HIDE DEF index
<1>5. \A i \in 1..4 : port[i] = i
  OBVIOUS
<1> HIDE DEF port
<1>6. \A i \in 1..4 : index = port[i] => Wired(m, rt, place, i)
  BY <1>2, <1>3, <1>4, <1>5 DEF At
<1>7. ctrls = Controllers(m) =>
        \A b : Wired(m, rt, place, b) => b \in 1..4 /\ \A i \in 1..4 : port[i] = index <=> i = b
  BY <1>2, <1>3, <1>4, <1>5 DEF At
<1>8. 4 \in 1..8
  OBVIOUS
<1>9. ByOrder(m, rt, ctrls, place, 4, port, TRUE)
  BY <1>1, <1>6, <1>7, Zenon DEF index, ByOrder
<1> QED
  BY <1>8, <1>9, PlacedByOrder, Zenon

LEMMA Placed4800Plus ==
    ASSUME NEW m, Is4800Plus(m), NEW rt, NEW ctrls, Controllers(m) \subseteq ctrls,
           NEW place \in Place, place.iface = "sata", Fits(m, place)
    PROVE  Placed(m, rt, ctrls, place)
<1> DEFINE port == [i \in 1..4 |-> i]
           index == firmware_ata_index(m, ctrls, place)
<1>1. \A r : r \in AtaRules(m) <=> \E i \in 1..4 : r = AtaRule(i, port[i], TRUE)
  <2>1. \A r : r \in AtaRules(m) <=> (\E i \in 1..4 : r = AtaRule(i, i, TRUE))
    BY Order4800Plus, Zenon DEF Is4800Plus
  <2>2. \A i \in 1..4 : port[i] = i
    OBVIOUS
  <2> HIDE DEF port
  <2> QED
    BY <2>1, <2>2, Zenon
<1>2. /\ place.port \in 1..8
      /\ place.at = "01:00.0" => place.port <= 4
  <2>1. Controller("01:00.0", Asm, "1164", 4, 0) \in Controllers(m)
    BY Factory4800Plus, Zenon DEF Is4800Plus
  <2> QED
    BY <2>1, PlaceParts, ControllerParts DEF Fits
<1>3. \A b : Wired(m, rt, place, b) <=> (At(place, "01:00.0", 4) /\ b = 0 + place.port)
  BY Wired4800Plus, Zenon DEF Is4800Plus
<1>4. /\ ctrls # Controllers(m) => index = 0
      /\ ctrls = Controllers(m) =>
            /\ place.at = "01:00.0" => index = place.port
            /\ place.at # "01:00.0" => index = 0
  BY Index4800Plus, Zenon
<1> HIDE DEF index
<1>5. \A i \in 1..4 : port[i] = i
  OBVIOUS
<1> HIDE DEF port
<1>6. \A i \in 1..4 : index = port[i] => Wired(m, rt, place, i)
  BY <1>2, <1>3, <1>4, <1>5 DEF At
<1>7. ctrls = Controllers(m) =>
        \A b : Wired(m, rt, place, b) => b \in 1..4 /\ \A i \in 1..4 : port[i] = index <=> i = b
  BY <1>2, <1>3, <1>4, <1>5 DEF At
<1>8. 4 \in 1..8
  OBVIOUS
<1>9. ByOrder(m, rt, ctrls, place, 4, port, TRUE)
  BY <1>1, <1>6, <1>7, Zenon DEF index, ByOrder
<1> QED
  BY <1>8, <1>9, PlacedByOrder, Zenon

LEMMA Placed6800 ==
    ASSUME NEW m, Is6800(m), NEW rt, NEW ctrls, Controllers(m) \subseteq ctrls,
           NEW place \in Place, place.iface = "sata", Fits(m, place)
    PROVE  Placed(m, rt, ctrls, place)
<1> DEFINE port == [i \in 1..6 |-> IF i <= 4 THEN i + 2 ELSE i - 4]
           index == firmware_ata_index(m, ctrls, place)
<1>1. \A r : r \in AtaRules(m) <=> \E i \in 1..6 : r = AtaRule(i, port[i], TRUE)
  <2>1. \A r : r \in AtaRules(m) <=>
            ((\E i \in 1..4 : r = AtaRule(i, i + 2, TRUE)) \/ (\E i \in 5..6 : r = AtaRule(i, i - 4, TRUE)))
    BY Order6800, Zenon DEF Is6800
  <2>2. /\ \A i \in 1..4 : port[i] = i + 2
        /\ \A i \in 5..6 : port[i] = i - 4
        /\ \A i : i \in 1..6 <=> (i \in 1..4 \/ i \in 5..6)
    OBVIOUS
  <2> HIDE DEF port
  <2> QED
    BY <2>1, <2>2, Zenon
<1>2. /\ place.port \in 1..8
      /\ place.at = "00:17.0" => place.port <= 2
      /\ place.at = "59:00.0" => place.port <= 4
  <2>1. Controller("00:17.0", Intel, "ahci", 2, 0) \in Controllers(m)
    BY Factory6800, Zenon DEF Is6800
  <2>2. Controller("59:00.0", Asm, "1164", 4, 0) \in Controllers(m)
    BY Factory6800, Zenon DEF Is6800
  <2> QED
    BY <2>1, <2>2, PlaceParts, ControllerParts DEF Fits
<1>3. \A b : Wired(m, rt, place, b) <=> ((At(place, "59:00.0", 4) /\ b = 0 + place.port) \/
                                       (At(place, "00:17.0", 2) /\ b = 4 + place.port))
  BY Wired6800, Zenon DEF Is6800
<1>4. /\ ctrls # Controllers(m) => index = 0
      /\ ctrls = Controllers(m) =>
            /\ place.at = "00:17.0" => index = place.port
            /\ place.at = "59:00.0" => index = 2 + place.port
            /\ place.at # "00:17.0" /\ place.at # "59:00.0" => index = 0
  BY Index6800, Zenon
<1> HIDE DEF index
<1>5. \A i \in 1..6 : port[i] = IF i <= 4 THEN i + 2 ELSE i - 4
  OBVIOUS
<1> HIDE DEF port
<1>6. \A i \in 1..6 : index = port[i] => Wired(m, rt, place, i)
  BY <1>2, <1>3, <1>4, <1>5 DEF At
<1>7. ctrls = Controllers(m) =>
        \A b : Wired(m, rt, place, b) => b \in 1..6 /\ \A i \in 1..6 : port[i] = index <=> i = b
  BY <1>2, <1>3, <1>4, <1>5 DEF At
<1>8. 6 \in 1..8
  OBVIOUS
<1>9. ByOrder(m, rt, ctrls, place, 6, port, TRUE)
  BY <1>1, <1>6, <1>7, Zenon DEF index, ByOrder
<1> QED
  BY <1>8, <1>9, PlacedByOrder, Zenon

LEMMA Placed8800 ==
    ASSUME NEW m, Is8800(m), NEW rt, NEW ctrls, Controllers(m) \subseteq ctrls,
           NEW place \in Place, place.iface = "sata", Fits(m, place)
    PROVE  Placed(m, rt, ctrls, place)
<1> DEFINE port == [i \in 1..8 |-> i]
           index == firmware_ata_index(m, ctrls, place)
<1>1. \A r : r \in AtaRules(m) <=> \E i \in 1..8 : r = AtaRule(i, port[i], TRUE)
  <2>1. \A r : r \in AtaRules(m) <=> (\E i \in 1..8 : r = AtaRule(i, i, TRUE))
    BY Order8800, Zenon DEF Is8800
  <2>2. \A i \in 1..8 : port[i] = i
    OBVIOUS
  <2> HIDE DEF port
  <2> QED
    BY <2>1, <2>2, Zenon
<1>2. /\ place.port \in 1..8
      /\ place.at = "59:00.0" => place.port <= 4
      /\ place.at = "5a:00.0" => place.port <= 4
  <2>1. Controller("59:00.0", Asm, "1164", 4, 1) \in Controllers(m)
    BY Factory8800, Zenon DEF Is8800
  <2>2. Controller("5a:00.0", Asm, "1164", 4, 2) \in Controllers(m)
    BY Factory8800, Zenon DEF Is8800
  <2> QED
    BY <2>1, <2>2, PlaceParts, ControllerParts DEF Fits
<1>3. \A b : Wired(m, rt, place, b) <=> ((At(place, "59:00.0", 4) /\ b = 0 + place.port) \/
                                       (At(place, "5a:00.0", 4) /\ b = 4 + place.port))
  BY Wired8800, Zenon DEF Is8800
<1>4. /\ ctrls # Controllers(m) => index = 0
      /\ ctrls = Controllers(m) =>
            /\ place.at = "59:00.0" => index = place.port
            /\ place.at = "5a:00.0" => index = 4 + place.port
            /\ place.at # "59:00.0" /\ place.at # "5a:00.0" => index = 0
  BY Index8800, Zenon
<1> HIDE DEF index
<1>5. \A i \in 1..8 : port[i] = i
  OBVIOUS
<1> HIDE DEF port
<1>6. \A i \in 1..8 : index = port[i] => Wired(m, rt, place, i)
  BY <1>2, <1>3, <1>4, <1>5 DEF At
<1>7. ctrls = Controllers(m) =>
        \A b : Wired(m, rt, place, b) => b \in 1..8 /\ \A i \in 1..8 : port[i] = index <=> i = b
  BY <1>2, <1>3, <1>4, <1>5 DEF At
<1>8. 8 \in 1..8
  OBVIOUS
<1>9. ByOrder(m, rt, ctrls, place, 8, port, TRUE)
  BY <1>1, <1>6, <1>7, Zenon DEF index, ByOrder
<1> QED
  BY <1>8, <1>9, PlacedByOrder, Zenon

LEMMA Placed4300 ==
    ASSUME NEW m, Is4300(m), NEW rt, NEW ctrls, IsFiniteSet(ctrls), Controllers(m) \subseteq ctrls,
           NEW place \in Place, place.iface = "sata", Fits(m, place)
    PROVE  Placed(m, rt, ctrls, place)
<1> DEFINE port == [i \in 1..4 |-> IF i % 2 = 1 THEN i + 1 ELSE i - 1]
           index == firmware_ata_index(m, ctrls, place)
<1>1. \A r : r \in AtaRules(m) <=> \E i \in 1..4 : r = AtaRule(i, port[i], FALSE)
  <2>1. \A r : r \in AtaRules(m) <=>
            (\E i \in 1..4 : r = AtaRule(i, IF i % 2 = 1 THEN i + 1 ELSE i - 1, FALSE))
    BY Order4300, Zenon DEF Is4300
  <2>2. \A i \in 1..4 : port[i] = IF i % 2 = 1 THEN i + 1 ELSE i - 1
    OBVIOUS
  <2> HIDE DEF port
  <2> QED
    BY <2>1, <2>2, Zenon
<1>2. /\ place.port \in 1..8
      /\ place.at = "rk1" => place.port <= 1
      /\ place.at = "rk2" => place.port <= 1
      /\ place.at = "asm" => place.port <= 2
  <2>1. Controllers("DH4300 Plus") = {Controller("rk1", Rockchip, "ahci", 1, 1), Controller("rk2", Rockchip, "ahci", 1, 2),
                                      Controller("asm", Asm, "0612", 2, 0)}
    BY FactoryPairs, Zenon
  <2>2. Controllers(m) = {Controller("rk1", Rockchip, "ahci", 1, 1), Controller("rk2", Rockchip, "ahci", 1, 2),
                          Controller("asm", Asm, "0612", 2, 0)}
    BY <2>1, Zenon DEF Is4300
  <2> QED
    BY <2>2, PlaceParts, ControllerParts DEF Fits
<1>3. \A b : Wired(m, rt, place, b) <=> (\/ place.at = "rk1" /\ place.port = 1 /\ b = 2
                                         \/ place.at = "rk2" /\ place.port = 1 /\ b = 1
                                         \/ place.at = "asm" /\ place.port = 1 /\ b = 4
                                         \/ place.at = "asm" /\ place.port = 2 /\ b = 3)
  BY Wired4300, Zenon DEF Is4300
<1>4. /\ ctrls # Controllers(m) => index = 0
      /\ ctrls = Controllers(m) =>
            /\ place.at = "rk1" => index = 1
            /\ place.at = "rk2" => index = 2
            /\ place.at = "asm" => index = 2 + place.port
            /\ place.at # "rk1" /\ place.at # "rk2" /\ place.at # "asm" => index = 0
  BY Index4300, Zenon
<1> HIDE DEF index
<1>5. port[1] = 2 /\ port[2] = 1 /\ port[3] = 4 /\ port[4] = 3
  OBVIOUS
<1> HIDE DEF port
<1>6. \A i \in 1..4 : i = 1 \/ i = 2 \/ i = 3 \/ i = 4
  OBVIOUS
<1>7. \A i \in 1..4 : index = port[i] => Wired(m, rt, place, i)
  BY <1>2, <1>3, <1>4, <1>5, <1>6
<1>8. ctrls = Controllers(m) =>
        \A b : Wired(m, rt, place, b) => b \in 1..4 /\ \A i \in 1..4 : port[i] = index <=> i = b
  BY <1>2, <1>3, <1>4, <1>5, <1>6
<1>9. 4 \in 1..8
  OBVIOUS
<1>10. ByOrder(m, rt, ctrls, place, 4, port, FALSE)
  BY <1>1, <1>7, <1>8, Zenon DEF index, ByOrder
<1> QED
  BY <1>9, <1>10, PlacedByOrder, Zenon

LEMMA ModelCases ==
    ASSUME NEW m \in Models
    PROVE  Is2800GT(m) \/ Is4800GT(m) \/ Is4800(m) \/ Is4800Plus(m) \/ Is6800(m) \/ Is8800(m) \/ Is4300(m)
  BY Zenon DEF Models, Is2800GT, Is4800GT, Is4800, Is4800Plus, Is6800, Is8800, Is4300

\* The factory's controllers are few.
LEMMA FactoryFinite ==
    ASSUME NEW m \in Models
    PROVE  IsFiniteSet(Controllers(m))
<1>1. \A x : IsFiniteSet({x})
  BY FS_Singleton
<1>2. \A x, y : IsFiniteSet({x, y})
  <2> SUFFICES ASSUME NEW x, NEW y PROVE IsFiniteSet({x, y})
    OBVIOUS
  <2>1. IsFiniteSet({x}) /\ IsFiniteSet({y})
    BY <1>1
  <2>2. IsFiniteSet({x} \cup {y})
    BY <2>1, FS_Union
  <2>3. {x, y} = {x} \cup {y}
    OBVIOUS
  <2> QED
    BY <2>2, <2>3
<1>3. \A x, y, z : IsFiniteSet({x, y, z})
  <2> SUFFICES ASSUME NEW x, NEW y, NEW z PROVE IsFiniteSet({x, y, z})
    OBVIOUS
  <2>1. IsFiniteSet({x, y}) /\ IsFiniteSet({z})
    BY <1>1, <1>2
  <2>2. IsFiniteSet({x, y} \cup {z})
    BY <2>1, FS_Union
  <2>3. {x, y, z} = {x, y} \cup {z}
    OBVIOUS
  <2> QED
    BY <2>2, <2>3
<1>4. \/ Is2800GT(m) \/ Is4800GT(m) \/ Is4800(m) \/ Is4800Plus(m) \/ Is6800(m) \/ Is8800(m) \/ Is4300(m)
  BY ModelCases, Zenon
<1>5. Is2800GT(m) => IsFiniteSet(Controllers(m))
  <2>1. Controllers("DXP2800 GT") = {Controller("00:08.2", "1022", "ahci", 2, 0)}
    BY Zenon DEF Controllers
  <2> QED
    BY <1>1, <2>1, Zenon DEF Is2800GT
<1>6. Is4800GT(m) => IsFiniteSet(Controllers(m))
  <2>1. Controllers("DXP4800 GT") = {Controller("00:01.2", Asm, "1164", 4, 0)}
    BY FactoryPairs, Zenon
  <2>2. IsFiniteSet({Controller("00:01.2", Asm, "1164", 4, 0)})
    BY <1>1, Zenon
  <2> QED
    BY <2>1, <2>2, Zenon DEF Is4800GT
<1>7. Is4800(m) => IsFiniteSet(Controllers(m))
  <2>1. Controllers("DXP4800") = {Controller("00:17.0", Intel, "ahci", 2, 0), Controller("01:00.0", Asm, "1062", 2, 0)}
    BY FactoryPairs, Zenon
  <2>2. IsFiniteSet({Controller("00:17.0", Intel, "ahci", 2, 0), Controller("01:00.0", Asm, "1062", 2, 0)})
    BY <1>2, Zenon
  <2> QED
    BY <2>1, <2>2, Zenon DEF Is4800
<1>8. Is4800Plus(m) => IsFiniteSet(Controllers(m))
  <2>1. Controllers("DXP4800 Plus") = {Controller("01:00.0", Asm, "1164", 4, 0)}
    BY FactoryPairs, Zenon
  <2>2. IsFiniteSet({Controller("01:00.0", Asm, "1164", 4, 0)})
    BY <1>1, Zenon
  <2> QED
    BY <2>1, <2>2, Zenon DEF Is4800Plus
<1>9. Is6800(m) => IsFiniteSet(Controllers(m))
  <2>1. Controllers("DXP6800 Pro") = {Controller("59:00.0", Asm, "1164", 4, 0), Controller("00:17.0", Intel, "ahci", 2, 0)}
    BY FactoryPairs, Zenon
  <2>2. IsFiniteSet({Controller("59:00.0", Asm, "1164", 4, 0), Controller("00:17.0", Intel, "ahci", 2, 0)})
    BY <1>2, Zenon
  <2> QED
    BY <2>1, <2>2, Zenon DEF Is6800
<1>10. Is8800(m) => IsFiniteSet(Controllers(m))
  <2>1. Controllers("DXP8800 Plus") = {Controller("59:00.0", Asm, "1164", 4, 1), Controller("5a:00.0", Asm, "1164", 4, 2)}
    BY FactoryPairs, Zenon
  <2>2. IsFiniteSet({Controller("59:00.0", Asm, "1164", 4, 1), Controller("5a:00.0", Asm, "1164", 4, 2)})
    BY <1>2, Zenon
  <2> QED
    BY <2>1, <2>2, Zenon DEF Is8800
<1>11. Is4300(m) => IsFiniteSet(Controllers(m))
  <2>1. Controllers("DH4300 Plus") = {Controller("rk1", Rockchip, "ahci", 1, 1), Controller("rk2", Rockchip, "ahci", 1, 2), Controller("asm", Asm, "0612", 2, 0)}
    BY FactoryPairs, Zenon
  <2>2. IsFiniteSet({Controller("rk1", Rockchip, "ahci", 1, 1), Controller("rk2", Rockchip, "ahci", 1, 2), Controller("asm", Asm, "0612", 2, 0)})
    BY <1>3, Zenon
  <2> QED
    BY <2>1, <2>2, Zenon DEF Is4300
<1> QED
  BY <1>4, <1>5, <1>6, <1>7, <1>8, <1>9, <1>10, <1>11

LEMMA PlacedAll ==
    ASSUME NEW m \in Models, ~Is2800GT(m), ~Is4800GT(m), NEW rt, NEW ctrls, Built(m, ctrls),
           NEW place \in Place, place.iface = "sata", Fits(m, place)
    PROVE  Placed(m, rt, ctrls, place)
<1>1. Controllers(m) \subseteq ctrls /\ IsFiniteSet(ctrls)
  BY FactoryFinite, BuiltSays
<1>2. Is4800(m) \/ Is4800Plus(m) \/ Is6800(m) \/ Is8800(m) \/ Is4300(m)
  BY ModelCases, Zenon
<1> QED
  BY <1>1, <1>2, Placed4800, Placed4800Plus, Placed6800, Placed8800, Placed4300, Zenon

-----------------------------------------------------------------------------
(* A place is wired to one bay, and on most models a bay to one place.     *)

LEMMA SamePlace ==
    ASSUME NEW p \in Place, NEW q \in Place, p.iface = q.iface, p.at = q.at, p.port = q.port
    PROVE  p = q
  BY DEF Place

\* A place is wired to one bay at most.
OneBay(m, rt) ==
    \A p \in Place : \A b, c : Wired(m, rt, p, b) /\ Wired(m, rt, p, c) => b = c /\ b \in 1..8

\* A bay is wired to one place at most, which is a port.
Apart(m, rt) ==
    \A p, q \in Place : \A b : Wired(m, rt, p, b) /\ Wired(m, rt, q, b) => p = q /\ p.iface = "sata"

LEMMA Wiring4800 ==
    ASSUME NEW m, Is4800(m), NEW rt
    PROVE  OneBay(m, rt) /\ Apart(m, rt)
<1>1. \A p \in Place : \A b : Wired(m, rt, p, b) <=>
                \/ At(p, "00:17.0", 2) /\ b = 0 + p.port
                \/ At(p, "01:00.0", 2) /\ b = 2 + p.port
  BY Wired4800, Zenon DEF Is4800
<1>2. OneBay(m, rt)
  BY <1>1, PlaceParts DEF OneBay, At
<1>3. Apart(m, rt)
  <2> SUFFICES ASSUME NEW p \in Place, NEW q \in Place, NEW b, Wired(m, rt, p, b), Wired(m, rt, q, b)
               PROVE  p = q /\ p.iface = "sata"
    BY DEF Apart
  <2>1. p.port \in 1..8 /\ q.port \in 1..8 /\ p.at = q.at /\ p.port = q.port
    BY <1>1, PlaceParts DEF At
  <2>2. p.iface = "sata" /\ q.iface = "sata"
    BY <2>1, PlaceParts
  <2> QED
    BY <2>1, <2>2, SamePlace
<1> QED
  BY <1>2, <1>3

LEMMA Wiring6800 ==
    ASSUME NEW m, Is6800(m), NEW rt
    PROVE  OneBay(m, rt) /\ Apart(m, rt)
<1>1. \A p \in Place : \A b : Wired(m, rt, p, b) <=>
                \/ At(p, "59:00.0", 4) /\ b = 0 + p.port
                \/ At(p, "00:17.0", 2) /\ b = 4 + p.port
  BY Wired6800, Zenon DEF Is6800
<1>2. OneBay(m, rt)
  BY <1>1, PlaceParts DEF OneBay, At
<1>3. Apart(m, rt)
  <2> SUFFICES ASSUME NEW p \in Place, NEW q \in Place, NEW b, Wired(m, rt, p, b), Wired(m, rt, q, b)
               PROVE  p = q /\ p.iface = "sata"
    BY DEF Apart
  <2>1. p.port \in 1..8 /\ q.port \in 1..8 /\ p.at = q.at /\ p.port = q.port
    BY <1>1, PlaceParts DEF At
  <2>2. p.iface = "sata" /\ q.iface = "sata"
    BY <2>1, PlaceParts
  <2> QED
    BY <2>1, <2>2, SamePlace
<1> QED
  BY <1>2, <1>3

LEMMA Wiring8800 ==
    ASSUME NEW m, Is8800(m), NEW rt
    PROVE  OneBay(m, rt) /\ Apart(m, rt)
<1>1. \A p \in Place : \A b : Wired(m, rt, p, b) <=>
                \/ At(p, "59:00.0", 4) /\ b = 0 + p.port
                \/ At(p, "5a:00.0", 4) /\ b = 4 + p.port
  BY Wired8800, Zenon DEF Is8800
<1>2. OneBay(m, rt)
  BY <1>1, PlaceParts DEF OneBay, At
<1>3. Apart(m, rt)
  <2> SUFFICES ASSUME NEW p \in Place, NEW q \in Place, NEW b, Wired(m, rt, p, b), Wired(m, rt, q, b)
               PROVE  p = q /\ p.iface = "sata"
    BY DEF Apart
  <2>1. p.port \in 1..8 /\ q.port \in 1..8 /\ p.at = q.at /\ p.port = q.port
    BY <1>1, PlaceParts DEF At
  <2>2. p.iface = "sata" /\ q.iface = "sata"
    BY <2>1, PlaceParts
  <2> QED
    BY <2>1, <2>2, SamePlace
<1> QED
  BY <1>2, <1>3

LEMMA Wiring4300 ==
    ASSUME NEW m, Is4300(m), NEW rt
    PROVE  OneBay(m, rt) /\ Apart(m, rt)
<1>1. \A p \in Place : \A b : Wired(m, rt, p, b) <=>
                \/ p.at = "rk1" /\ p.port = 1 /\ b = 2
                \/ p.at = "rk2" /\ p.port = 1 /\ b = 1
                \/ p.at = "asm" /\ p.port = 1 /\ b = 4
                \/ p.at = "asm" /\ p.port = 2 /\ b = 3
  BY Wired4300, Zenon DEF Is4300
<1>2. OneBay(m, rt)
  BY <1>1, PlaceParts DEF OneBay, At
<1>3. Apart(m, rt)
  <2> SUFFICES ASSUME NEW p \in Place, NEW q \in Place, NEW b, Wired(m, rt, p, b), Wired(m, rt, q, b)
               PROVE  p = q /\ p.iface = "sata"
    BY DEF Apart
  <2>1. p.port \in 1..8 /\ q.port \in 1..8 /\ p.at = q.at /\ p.port = q.port
    BY <1>1, PlaceParts DEF At
  <2>2. p.iface = "sata" /\ q.iface = "sata"
    BY <2>1, PlaceParts
  <2> QED
    BY <2>1, <2>2, SamePlace
<1> QED
  BY <1>2, <1>3

LEMMA Wiring4800Plus ==
    ASSUME NEW m, Is4800Plus(m), NEW rt
    PROVE  OneBay(m, rt) /\ Apart(m, rt)
<1>1. \A p \in Place : \A b : Wired(m, rt, p, b) <=>
                (At(p, "01:00.0", 4) /\ b = 0 + p.port)
  BY Wired4800Plus, Zenon DEF Is4800Plus
<1>2. OneBay(m, rt)
  BY <1>1, PlaceParts DEF OneBay, At
<1>3. Apart(m, rt)
  <2> SUFFICES ASSUME NEW p \in Place, NEW q \in Place, NEW b, Wired(m, rt, p, b), Wired(m, rt, q, b)
               PROVE  p = q /\ p.iface = "sata"
    BY DEF Apart
  <2>1. p.port \in 1..8 /\ q.port \in 1..8 /\ p.at = q.at /\ p.port = q.port
    BY <1>1, PlaceParts DEF At
  <2>2. p.iface = "sata" /\ q.iface = "sata"
    BY <2>1, PlaceParts
  <2> QED
    BY <2>1, <2>2, SamePlace
<1> QED
  BY <1>2, <1>3

LEMMA Wiring4800GT ==
    ASSUME NEW m, Is4800GT(m), NEW rt
    PROVE  OneBay(m, rt)
<1>1. \A p \in Place : \A b : Wired(m, rt, p, b) <=>
            \/ At(p, "00:01.2", 4) /\ p.iface = "sata" /\ b = p.port
            \/ On(p, "00:01.1") /\ b = 1
            \/ On(p, "00:01.3") /\ b = 2
  BY Wired4800GT, Zenon DEF Is4800GT
<1> QED
  BY <1>1, PlaceParts DEF OneBay, At, On

LEMMA Wiring2800GT ==
    ASSUME NEW m, Is2800GT(m), NEW rt
    PROVE  /\ OneBay(m, rt)
           /\ \A p, q \in Place : \A b :
                Wired(m, rt, p, b) /\ Wired(m, rt, q, b) /\ p.iface = "nvme" /\ q.iface = "nvme" => p = q
<1>1. \A p \in Place : \A b : Wired(m, rt, p, b) <=>
            \/ At(p, "00:08.2", 2) /\ p.iface = "sata" /\ b = (IF rt = 1 THEN p.port ELSE 3 - p.port)
            \/ On(p, "00:01.1") /\ b = 1
            \/ On(p, "00:01.2") /\ b = 2
  BY Wired2800GT, Zenon DEF Is2800GT
<1>2. OneBay(m, rt)
  BY <1>1, PlaceParts DEF OneBay, At, On
<1>3. ASSUME NEW p \in Place, NEW q \in Place, NEW b,
             Wired(m, rt, p, b), Wired(m, rt, q, b), p.iface = "nvme", q.iface = "nvme"
      PROVE  p = q
  <2>1. p.port = 0 /\ q.port = 0 /\ p.at = q.at
    BY <1>1, <1>3, PlaceParts DEF At, On
  <2> QED
    BY <1>3, <2>1, SamePlace
<1> QED
  BY <1>2, <1>3

LEMMA Wirings ==
    ASSUME NEW m \in Models, NEW rt
    PROVE  OneBay(m, rt) /\ (~Is2800GT(m) /\ ~Is4800GT(m) => Apart(m, rt))
<1>1. \/ Is2800GT(m) \/ Is4800GT(m) \/ Is4800(m) \/ Is4800Plus(m) \/ Is6800(m) \/ Is8800(m) \/ Is4300(m)
  BY ModelCases, Zenon
<1>2. Is2800GT(m) => OneBay(m, rt)
  BY Wiring2800GT, Zenon
<1> QED
  BY <1>1, <1>2, Wiring4800GT, Wiring4800, Wiring4800Plus, Wiring6800, Wiring8800, Wiring4300, Zenon

LEMMA BayIs ==
    ASSUME NEW m \in Models, NEW rt, NEW place \in Place, NEW b
    PROVE  Wired(m, rt, place, b) <=> (Bay(m, rt, place) = b /\ b # 0)
<1>1. OneBay(m, rt)
  BY Wirings, Zenon
<1>2. \A c : Wired(m, rt, place, c) => c # 0
  BY <1>1 DEF OneBay
<1>3. Wired(m, rt, place, b) => Bay(m, rt, place) = b
  BY <1>1, BayWired, Zenon DEF OneBay
<1>4. Bay(m, rt, place) # 0 => Wired(m, rt, place, Bay(m, rt, place))
  BY BayWired, Zenon
<1> QED
  BY <1>2, <1>3, <1>4, Zenon

-----------------------------------------------------------------------------
(* What the rules find: nothing that is not wired, and on a machine as it  *)
(* left the factory everything that is.                                    *)

LEMMA ModelFlags ==
    ASSUME NEW m, NEW r
    PROVE  /\ RevisionKnown(m) <=> ~Is2800GT(m)
           /\ firmware_slot_has_led(m, r) <=> (r.led \/ (r.iface = "sata" /\ Is4300(m)))
           /\ gt_rule_revision_independent(r) => r.iface # "sata"
  BY Zenon DEF RevisionKnown, Is2800GT, firmware_slot_has_led, Is4300, gt_rule_revision_independent

LEMMA DriveLed ==
    /\ \A s, k, at : DriveRule(s, k, at, "m2").led = FALSE
    /\ \A s, k, at : DriveRule(s, k, at, "u2").led = TRUE
  BY DEF DriveRule

\* A rule of a model whose bays are wired in the ATA order.
OrderRule(m, r) ==
    \/ \E n, i, l : r = AtaRule(n, i, l) /\ (l = TRUE \/ Is4300(m))
    \/ \E k, at : r = DriveRule(Nvme(1), k, at, "m2") /\ (k = "block_name" \/ k = "pcie_bridge_id")

LEMMA OrderRules ==
    ASSUME NEW m \in Models, ~Is2800GT(m), ~Is4800GT(m), NEW r \in firmware_layout(m)
    PROVE  OrderRule(m, r)
<1>1. Is4800(m) => OrderRule(m, r)
  <2>1. r \in Layout("DXP4800", 1) => \/ \E i \in 1..4 : r = AtaRule(i, i, TRUE)
                                      \/ r = DriveRule(Nvme(1), "block_name", "nvme0n1", "m2")
    BY Table4800, Zenon
  <2> QED
    BY <2>1, Zenon DEF Is4800, firmware_layout, OrderRule
<1>2. Is4800Plus(m) => OrderRule(m, r)
  <2>1. r \in Layout("DXP4800 Plus", 1) => \/ \E i \in 1..4 : r = AtaRule(i, i, TRUE)
                                           \/ r = DriveRule(Nvme(1), "pcie_bridge_id", "8086:463d", "m2")
    BY Table4800Plus, Zenon
  <2> QED
    BY <2>1, Zenon DEF Is4800Plus, firmware_layout, OrderRule
<1>3. Is6800(m) => OrderRule(m, r)
  <2>1. r \in Layout("DXP6800 Pro", 1) => \/ \E i \in 1..4 : r = AtaRule(i, i + 2, TRUE)
                                          \/ \E i \in 5..6 : r = AtaRule(i, i - 4, TRUE)
                                          \/ r = DriveRule(Nvme(1), "pcie_bridge_id", "8086:464d", "m2")
    BY Table6800, Zenon
  <2> QED
    BY <2>1, Zenon DEF Is6800, firmware_layout, OrderRule
<1>4. Is8800(m) => OrderRule(m, r)
  <2>1. r \in Layout("DXP8800 Plus", 1) => \/ \E i \in 1..8 : r = AtaRule(i, i, TRUE)
                                           \/ r = DriveRule(Nvme(1), "pcie_bridge_id", "8086:464d", "m2")
    BY Table8800, Zenon
  <2> QED
    BY <2>1, Zenon DEF Is8800, firmware_layout, OrderRule
<1>5. Is4300(m) => OrderRule(m, r)
  <2>1. r \in Layout("DH4300 Plus", 1) => \E i \in 1..4 : r = AtaRule(i, IF i % 2 = 1 THEN i + 1 ELSE i - 1, FALSE)
    BY Table4300, Zenon
  <2>2. Is4300(m) => r \in Layout("DH4300 Plus", 1)
    BY Zenon DEF Is4300, firmware_layout
  <2> QED
    BY <2>1, <2>2, Zenon DEF OrderRule
<1> QED
  BY <1>1, <1>2, <1>3, <1>4, <1>5, ModelCases, Zenon

\* What a rule that applies gives a disk: nothing that lights up, or the light of the bay
\* that its place is wired to.
Found(m, rt, place, r) ==
    \/ r.slot = Nvme(1) /\ ~firmware_slot_has_led(m, r) /\ r.iface # "u2"
    \/ \E b \in 1..8 : /\ r.slot = Ata(b) /\ Wired(m, rt, place, b)
                       /\ firmware_slot_has_led(m, r) /\ (r.iface = "u2" <=> place.iface = "nvme")

\* Exactly one rule applies where a bay is wired, and it gives that bay.
OneRule(m, rt, mach, place) ==
    \A b : Wired(m, rt, place, b) =>
        \E r \in firmware_layout(m) :
            /\ r.slot = Ata(b)
            /\ \A x \in firmware_layout(m) : firmware_rule_matches(m, mach, place, x) <=> x = r

LEMMA ByKind ==
    ASSUME NEW m, NEW mach, NEW place \in Place, NEW r
    PROVE  /\ r.kind = "ata_id" /\ r.iface = "sata" /\ RevisionKnown(m) =>
                (firmware_rule_matches(m, mach, place, r)
                 <=> (place.iface = "sata" /\ firmware_ata_index(m, mach.ctrls, place) = r.port))
           /\ firmware_rule_matches(m, mach, place, r) =>
                /\ r.iface = "sata" <=> place.iface = "sata"
                /\ RevisionKnown(m) \/ gt_rule_revision_independent(r)
           /\ r.kind = "syspath" /\ (RevisionKnown(m) \/ gt_rule_revision_independent(r)) =>
                (firmware_rule_matches(m, mach, place, r)
                 <=> /\ r.iface = "sata" <=> place.iface = "sata"
                     /\ r.at = place.at
                     /\ \/ place.iface = "nvme"
                        \/ (/\ RevisionKnown(m) /\ r.port = place.port
                            /\ controller_ports(m, mach.ctrls, place.at)))
  BY DEF firmware_rule_matches

LEMMA OrderFound ==
    ASSUME NEW m \in Models, ~Is2800GT(m), ~Is4800GT(m), NEW rt, NEW mach, Built(m, mach.ctrls),
           NEW place \in Place, Fits(m, place)
    PROVE  /\ \A r \in firmware_layout(m) : firmware_rule_matches(m, mach, place, r) => Found(m, rt, place, r)
           /\ mach.ctrls = Controllers(m) => OneRule(m, rt, mach, place)
<1>1. RevisionKnown(m)
  BY ModelFlags
<1>2. \A r \in firmware_layout(m) :
        \/ /\ r.kind = "ata_id" /\ r.iface = "sata" /\ r \in AtaRules(m) /\ firmware_slot_has_led(m, r)
        \/ /\ r.kind # "ata_id" /\ r.iface # "sata" /\ r.iface # "u2" /\ r.slot = Nvme(1)
           /\ ~firmware_slot_has_led(m, r)
  <2> SUFFICES ASSUME NEW r \in firmware_layout(m)
               PROVE  \/ /\ r.kind = "ata_id" /\ r.iface = "sata" /\ r \in AtaRules(m) /\ firmware_slot_has_led(m, r)
                      \/ /\ r.kind # "ata_id" /\ r.iface # "sata" /\ r.iface # "u2" /\ r.slot = Nvme(1)
                         /\ ~firmware_slot_has_led(m, r)
    OBVIOUS
  <2>1. CASE \E n, i, l : r = AtaRule(n, i, l) /\ (l = TRUE \/ Is4300(m))
    <3>1. r.kind = "ata_id" /\ r.iface = "sata" /\ (r.led \/ Is4300(m))
      BY <2>1, RuleParts
    <3> QED
      BY <3>1, ModelFlags DEF AtaRules
  <2>2. CASE \E k, at : r = DriveRule(Nvme(1), k, at, "m2") /\ (k = "block_name" \/ k = "pcie_bridge_id")
    <3>1. r.kind # "ata_id" /\ r.iface = "m2" /\ r.slot = Nvme(1) /\ r.led = FALSE
      BY <2>2, RuleParts, DriveLed
    <3> QED
      BY <3>1, ModelFlags
  <2> QED
    BY <2>1, <2>2, OrderRules DEF OrderRule
<1>3. \A r \in firmware_layout(m) : r.kind = "ata_id" =>
        (firmware_rule_matches(m, mach, place, r)
         <=> (place.iface = "sata" /\ firmware_ata_index(m, mach.ctrls, place) = r.port))
  BY <1>1, <1>2, ByKind
<1>4. \A r \in firmware_layout(m) : firmware_rule_matches(m, mach, place, r) => (r.iface = "sata" <=> place.iface = "sata")
  BY ByKind
<1>5. place.iface = "sata" => Placed(m, rt, mach.ctrls, place)
  BY PlacedAll
<1>6. ASSUME NEW r \in firmware_layout(m), firmware_rule_matches(m, mach, place, r)
      PROVE  Found(m, rt, place, r)
  <2>1. CASE place.iface # "sata"
    BY <1>2, <1>4, <1>6, <2>1 DEF Found
  <2>2. CASE place.iface = "sata"
    <3>1. r \in AtaRules(m) /\ firmware_slot_has_led(m, r) /\ r.iface = "sata"
      BY <1>2, <1>4, <1>6, <2>2
    <3>2. r.port = firmware_ata_index(m, mach.ctrls, place)
      BY <1>3, <1>6, <3>1 DEF AtaRules
    <3>3. \E b \in 1..8 : Wired(m, rt, place, b) /\ r.slot = Ata(b)
      BY <1>5, <2>2, <3>1, <3>2 DEF Placed
    <3> QED
      BY <2>2, <3>1, <3>3 DEF Found
  <2> QED
    BY <2>1, <2>2
<1>7. ASSUME mach.ctrls = Controllers(m), NEW b, Wired(m, rt, place, b)
      PROVE  \E r \in firmware_layout(m) :
                /\ r.slot = Ata(b)
                /\ \A x \in firmware_layout(m) : firmware_rule_matches(m, mach, place, x) <=> x = r
  <2>1. place.iface = "sata"
    <3>1. Apart(m, rt)
      BY Wirings, Zenon
    <3> QED
      BY <1>7, <3>1 DEF Apart
  <2>2. PICK r \in AtaRules(m) :
            /\ r.slot = Ata(b)
            /\ \A x \in AtaRules(m) : x.port = firmware_ata_index(m, mach.ctrls, place) <=> x = r
    BY <1>5, <1>7, <2>1 DEF Placed
  <2>3. r \in firmware_layout(m) /\ r.kind = "ata_id"
    BY DEF AtaRules
  <2>4. \A x \in firmware_layout(m) : firmware_rule_matches(m, mach, place, x) <=> x = r
    BY <1>2, <1>3, <1>4, <2>1, <2>2, <2>3
  <2> QED
    BY <2>2, <2>3, <2>4
<1> QED
  BY <1>6, <1>7 DEF OneRule

LEMMA GtRules ==
    ASSUME NEW m, Is4800GT(m), NEW r
    PROVE  r \in firmware_layout(m) <=>
                \/ \E i \in 1..4 : r = PathRule(i, "00:01.2", i)
                \/ r = DriveRule(Ata(1), "syspath", "00:01.1", "u2")
                \/ r = DriveRule(Ata(2), "syspath", "00:01.3", "u2")
  BY Table4800GT, Zenon DEF Is4800GT, firmware_layout

LEMMA GtPorts ==
    ASSUME NEW m, Is4800GT(m), NEW ctrls, Controllers(m) \subseteq ctrls
    PROVE  controller_ports(m, ctrls, "00:01.2")
<1> DEFINE S == {r \in firmware_layout(m) : r.iface = "sata"}
           rule(i) == PathRule(i, "00:01.2", i)
           f == [i \in 1..4 |-> rule(i)]
<1>1. \A i : rule(i).iface = "sata" /\ rule(i).slot[2] = i
  BY RuleParts, SlotParts
<1>2. \A r : r \in S <=> \E i \in 1..4 : r = rule(i)
  <2>1. \A s, k, at : DriveRule(s, k, at, "u2").iface # "sata"
    BY RuleParts
  <2>2. \A r : r \in firmware_layout(m) <=>
                \/ \E i \in 1..4 : r = rule(i)
                \/ r = DriveRule(Ata(1), "syspath", "00:01.1", "u2")
                \/ r = DriveRule(Ata(2), "syspath", "00:01.3", "u2")
    BY GtRules, Zenon
  <2> HIDE DEF rule
  <2> QED
    BY <1>1, <2>1, <2>2
<1> HIDE DEF rule, S
<1>3. BySlot(f, 4, S)
  BY <1>1, <1>2 DEF BySlot
<1>4. 4 \in Nat
  OBVIOUS
<1>5. Cardinality(S) = 4
  BY <1>3, <1>4, OneEachRule, Zenon
<1>6. Controller("00:01.2", Asm, "1164", 4, 0) \in ctrls
  <2>1. Controllers("DXP4800 GT") = {Controller("00:01.2", Asm, "1164", 4, 0)}
    BY FactoryPairs, Zenon
  <2>2. Controllers(m) = {Controller("00:01.2", Asm, "1164", 4, 0)}
    BY <2>1, Zenon DEF Is4800GT
  <2> QED
    BY <2>2
<1>7. /\ Controller("00:01.2", Asm, "1164", 4, 0).id = "00:01.2"
      /\ Controller("00:01.2", Asm, "1164", 4, 0).ports = Cardinality(S)
  BY <1>5, ControllerParts
<1> QED
  BY <1>6, <1>7, Zenon DEF controller_ports, S

LEMMA BySyspath ==
    ASSUME NEW m, RevisionKnown(m), NEW mach, NEW place \in Place, NEW r, r.kind = "syspath"
    PROVE  /\ r.iface = "sata" => (firmware_rule_matches(m, mach, place, r)
              <=> (/\ place.iface = "sata" /\ r.at = place.at /\ r.port = place.port
                   /\ controller_ports(m, mach.ctrls, place.at)))
           /\ r.iface # "sata" => (firmware_rule_matches(m, mach, place, r)
              <=> (place.iface = "nvme" /\ r.at = place.at))
  BY ByKind, PlaceParts

LEMMA GtFound ==
    ASSUME NEW m, Is4800GT(m), RevisionKnown(m), NEW rt, NEW mach, Controllers(m) \subseteq mach.ctrls, NEW place \in Place
    PROVE  /\ \A r \in firmware_layout(m) : firmware_rule_matches(m, mach, place, r) => Found(m, rt, place, r)
           /\ OneRule(m, rt, mach, place)
<1>1. \A b : Wired(m, rt, place, b) <=>
            \/ At(place, "00:01.2", 4) /\ place.iface = "sata" /\ b = place.port
            \/ On(place, "00:01.1") /\ b = 1
            \/ On(place, "00:01.3") /\ b = 2
  BY Wired4800GT, Zenon DEF Is4800GT
<1> DEFINE path(i) == PathRule(i, "00:01.2", i)
           drive(i, at) == DriveRule(Ata(i), "syspath", at, "u2")
           hit(x) == firmware_rule_matches(m, mach, place, x)
<1>2. \A x : x \in firmware_layout(m) <=>
            \/ \E i \in 1..4 : x = path(i)
            \/ x = drive(1, "00:01.1")
            \/ x = drive(2, "00:01.3")
  BY GtRules, Zenon
<1>3. \A i : /\ path(i).slot = Ata(i) /\ path(i).kind = "syspath" /\ path(i).iface = "sata" /\ path(i).at = "00:01.2"
             /\ path(i).port = i /\ path(i).led = TRUE
  BY RuleParts
<1>4. \A i, at : /\ drive(i, at).slot = Ata(i) /\ drive(i, at).kind = "syspath" /\ drive(i, at).iface = "u2"
                 /\ drive(i, at).at = at /\ drive(i, at).led = TRUE
  BY RuleParts, DriveLed
<1>5. controller_ports(m, mach.ctrls, "00:01.2")
  BY GtPorts
<1> HIDE DEF path, drive
<1>6. \A i : hit(path(i)) <=> (place.iface = "sata" /\ place.at = "00:01.2" /\ place.port = i)
  <2> SUFFICES ASSUME NEW i
               PROVE  hit(path(i)) <=> (place.iface = "sata" /\ place.at = "00:01.2" /\ place.port = i)
    OBVIOUS
  <2>1. path(i).kind = "syspath" /\ path(i).iface = "sata" /\ path(i).at = "00:01.2" /\ path(i).port = i
    BY <1>3
  <2>2. hit(path(i)) <=> (/\ place.iface = "sata" /\ path(i).at = place.at /\ path(i).port = place.port
                          /\ controller_ports(m, mach.ctrls, place.at))
    BY <2>1, BySyspath
  <2> HIDE DEF hit
  <2> QED
    BY <1>5, <2>1, <2>2
<1>7. \A i, at : hit(drive(i, at)) <=> (place.iface = "nvme" /\ place.at = at)
  <2> SUFFICES ASSUME NEW i, NEW at
               PROVE  hit(drive(i, at)) <=> (place.iface = "nvme" /\ place.at = at)
    OBVIOUS
  <2>1. drive(i, at).kind = "syspath" /\ drive(i, at).iface # "sata" /\ drive(i, at).at = at
    BY <1>4
  <2>2. hit(drive(i, at)) <=> (place.iface = "nvme" /\ drive(i, at).at = place.at)
    BY <2>1, BySyspath
  <2> HIDE DEF hit
  <2> QED
    BY <2>1, <2>2
<1> HIDE DEF hit
<1>8. ASSUME NEW r \in firmware_layout(m), hit(r) PROVE Found(m, rt, place, r)
  <2>1. firmware_slot_has_led(m, r)
    BY <1>2, <1>3, <1>4, ModelFlags
  <2>2. CASE \E i \in 1..4 : r = path(i)
    <3>1. PICK i \in 1..4 : r = path(i)
      BY <2>2
    <3>2. place.iface = "sata" /\ place.at = "00:01.2" /\ place.port = i
      BY <1>6, <1>8, <3>1
    <3>3. Wired(m, rt, place, i) /\ i \in 1..8
      BY <1>1, <3>2 DEF At
    <3>4. r.slot = Ata(i) /\ r.iface = "sata"
      BY <1>3, <3>1
    <3> QED
      BY <2>1, <3>2, <3>3, <3>4 DEF Found
  <2>3. CASE r = drive(1, "00:01.1")
    <3>1. place.iface = "nvme" /\ place.at = "00:01.1"
      BY <1>7, <1>8, <2>3
    <3>2. Wired(m, rt, place, 1) /\ r.slot = Ata(1) /\ r.iface = "u2"
      BY <1>1, <1>4, <2>3, <3>1 DEF On
    <3> QED
      BY <2>1, <3>1, <3>2 DEF Found
  <2>4. CASE r = drive(2, "00:01.3")
    <3>1. place.iface = "nvme" /\ place.at = "00:01.3"
      BY <1>7, <1>8, <2>4
    <3>2. Wired(m, rt, place, 2) /\ r.slot = Ata(2) /\ r.iface = "u2"
      BY <1>1, <1>4, <2>4, <3>1 DEF On
    <3> QED
      BY <2>1, <3>1, <3>2 DEF Found
  <2> QED
    BY <1>2, <2>2, <2>3, <2>4
<1>9. ASSUME NEW b, Wired(m, rt, place, b)
      PROVE  \E r \in firmware_layout(m) : r.slot = Ata(b) /\ \A x \in firmware_layout(m) : hit(x) <=> x = r
  <2>1. CASE At(place, "00:01.2", 4) /\ place.iface = "sata" /\ b = place.port
    <3>1. b \in 1..4 /\ place.at = "00:01.2" /\ place.iface = "sata"
      BY <2>1 DEF At
    <3>2. path(b) \in firmware_layout(m) /\ path(b).slot = Ata(b)
      BY <1>2, <1>3, <3>1
    <3>3. \A x \in firmware_layout(m) : hit(x) <=> x = path(b)
      BY <1>2, <1>3, <1>6, <1>7, <2>1, <3>1
    <3> QED
      BY <3>2, <3>3
  <2>2. CASE On(place, "00:01.1") /\ b = 1
    <3>1. drive(1, "00:01.1") \in firmware_layout(m) /\ drive(1, "00:01.1").slot = Ata(b)
      BY <1>2, <1>4, <2>2
    <3>2. \A x \in firmware_layout(m) : hit(x) <=> x = drive(1, "00:01.1")
      BY <1>2, <1>4, <1>6, <1>7, <2>2 DEF On
    <3> QED
      BY <3>1, <3>2
  <2>3. CASE On(place, "00:01.3") /\ b = 2
    <3>1. drive(2, "00:01.3") \in firmware_layout(m) /\ drive(2, "00:01.3").slot = Ata(b)
      BY <1>2, <1>4, <2>3
    <3>2. \A x \in firmware_layout(m) : hit(x) <=> x = drive(2, "00:01.3")
      BY <1>2, <1>4, <1>6, <1>7, <2>3 DEF On
    <3> QED
      BY <3>1, <3>2
  <2> QED
    BY <1>1, <1>9, <2>1, <2>2, <2>3
<1> QED
  BY <1>8, <1>9 DEF hit, OneRule

LEMMA Gt2Found ==
    ASSUME NEW m, Is2800GT(m), ~RevisionKnown(m), NEW rt, NEW mach, NEW place \in Place
    PROVE  \A r \in firmware_layout(m) :
             firmware_rule_matches(m, mach, place, r) => Found(m, rt, place, r) /\ place.iface = "nvme"
<1>1. \A b : Wired(m, rt, place, b) <=>
            \/ At(place, "00:08.2", 2) /\ place.iface = "sata" /\ b = (IF rt = 1 THEN place.port ELSE 3 - place.port)
            \/ On(place, "00:01.1") /\ b = 1
            \/ On(place, "00:01.2") /\ b = 2
  BY Wired2800GT, Zenon DEF Is2800GT
<1> SUFFICES ASSUME NEW r \in firmware_layout(m), firmware_rule_matches(m, mach, place, r)
             PROVE  Found(m, rt, place, r) /\ place.iface = "nvme"
  OBVIOUS
<1>2. \/ \E i \in 1..2 : r = PathRule(i, "00:08.2", IF 1 = 1 THEN i ELSE 3 - i)
      \/ r = DriveRule(Ata(1), "syspath", "00:01.1", "u2")
      \/ r = DriveRule(Ata(2), "syspath", "00:01.2", "u2")
      \/ r = DriveRule(Nvme(1), "syspath", "00:01.6", "m2")
  BY Table2800GT, Zenon DEF Is2800GT, firmware_layout
<1>3. r.iface # "sata" /\ place.iface = "nvme"
  BY ByKind, ModelFlags, PlaceParts
<1>4. r.kind = "syspath" /\ r.at = place.at
  <2>1. r.kind = "syspath"
    BY <1>2, RuleParts
  <2> QED
    BY <2>1, ByKind
<1>5. ~\E i \in 1..2 : r = PathRule(i, "00:08.2", IF 1 = 1 THEN i ELSE 3 - i)
  BY <1>3, RuleParts
<1>6. CASE r = DriveRule(Ata(1), "syspath", "00:01.1", "u2")
  <2>1. r.slot = Ata(1) /\ r.led = TRUE /\ r.iface = "u2" /\ r.at = "00:01.1"
    BY <1>6, RuleParts, DriveLed
  <2>2. Wired(m, rt, place, 1)
    BY <1>1, <1>3, <1>4, <2>1 DEF On
  <2>3. firmware_slot_has_led(m, r)
    BY <2>1, ModelFlags
  <2> QED
    BY <1>3, <2>1, <2>2, <2>3 DEF Found
<1>7. CASE r = DriveRule(Ata(2), "syspath", "00:01.2", "u2")
  <2>1. r.slot = Ata(2) /\ r.led = TRUE /\ r.iface = "u2" /\ r.at = "00:01.2"
    BY <1>7, RuleParts, DriveLed
  <2>2. Wired(m, rt, place, 2)
    BY <1>1, <1>3, <1>4, <2>1 DEF On
  <2>3. firmware_slot_has_led(m, r)
    BY <2>1, ModelFlags
  <2> QED
    BY <1>3, <2>1, <2>2, <2>3 DEF Found
<1>8. CASE r = DriveRule(Nvme(1), "syspath", "00:01.6", "m2")
  <2>1. r.slot = Nvme(1) /\ r.led = FALSE /\ r.iface = "m2"
    BY <1>8, RuleParts, DriveLed
  <2>2. ~firmware_slot_has_led(m, r)
    BY <2>1, ModelFlags
  <2> QED
    BY <1>3, <2>1, <2>2 DEF Found
<1> QED
  BY <1>2, <1>5, <1>6, <1>7, <1>8

\* The machines on which every wired bay is known: the GT whose controller is soldered to
\* its bays, and any other with its own controllers only.
Sure == Is4800GT(model) \/ (RevisionKnown(model) /\ machine.ctrls = Controllers(model))

\* The rules that apply at a place.
LEMMA RulesThere ==
    ASSUME model \in Models, Built(model, machine.ctrls), NEW place \in Place, Fits(model, place)
    PROVE  /\ \A r \in Matches(place) : /\ r \in firmware_layout(model) /\ Found(model, routing, place, r)
                                        /\ RevisionKnown(model) \/ place.iface = "nvme"
           /\ Sure => \A b : Wired(model, routing, place, b) =>
                        \E r : Matches(place) = {r} /\ r.slot = Ata(b)
<1> DEFINE m == model
<1>1. Controllers(m) \subseteq machine.ctrls
  BY DEF Built
<1>2. \A r \in firmware_layout(m) : firmware_rule_matches(m, machine, place, r) =>
            Found(m, routing, place, r) /\ (RevisionKnown(m) \/ place.iface = "nvme")
  <2>1. CASE Is2800GT(m)
    <3>1. ~RevisionKnown(m)
      BY <2>1, ModelFlags
    <3> QED
      BY <2>1, <3>1, Gt2Found, Zenon
  <2>2. CASE ~Is2800GT(m)
    <3>1. RevisionKnown(m)
      BY <2>2, ModelFlags
    <3>2. CASE Is4800GT(m)
      BY <1>1, <3>1, <3>2, GtFound, Zenon
    <3>3. CASE ~Is4800GT(m)
      BY <2>2, <3>1, <3>3, OrderFound, Zenon
    <3> QED
      BY <3>2, <3>3
  <2> QED
    BY <2>1, <2>2
<1>3. Sure => OneRule(m, routing, machine, place)
  <2>1. SUFFICES ASSUME Sure PROVE OneRule(m, routing, machine, place)
    OBVIOUS
  <2>2. CASE Is4800GT(m)
    <3>1. RevisionKnown(m)
      BY <2>2, Zenon DEF RevisionKnown, Is4800GT
    <3> QED
      BY <1>1, <2>2, <3>1, GtFound, Zenon
  <2>3. CASE ~Is4800GT(m)
    <3>1. RevisionKnown(m) /\ machine.ctrls = Controllers(m)
      BY <2>1, <2>3 DEF Sure
    <3>2. ~Is2800GT(m)
      BY <3>1, ModelFlags
    <3> QED
      BY <2>3, <3>1, <3>2, OrderFound, Zenon
  <2> QED
    BY <2>2, <2>3
<1>4. \A r : r \in Matches(place) <=> (r \in firmware_layout(m) /\ firmware_rule_matches(m, machine, place, r))
  BY DEF Matches
<1> HIDE DEF m
<1>5. Sure => \A b : Wired(m, routing, place, b) => \E r : Matches(place) = {r} /\ r.slot = Ata(b)
  <2>1. SUFFICES ASSUME Sure, NEW b, Wired(m, routing, place, b)
                 PROVE  \E r : Matches(place) = {r} /\ r.slot = Ata(b)
    OBVIOUS
  <2>2. PICK r \in firmware_layout(m) :
            /\ r.slot = Ata(b)
            /\ \A x \in firmware_layout(m) : firmware_rule_matches(m, machine, place, x) <=> x = r
    BY <1>3, <2>1 DEF OneRule
  <2>3. \A x : x \in Matches(place) => x = r
    BY <1>4, <2>2
  <2>4. r \in Matches(place)
    BY <1>4, <2>2
  <2>5. Matches(place) = {r}
    BY <2>3, <2>4
  <2> QED
    BY <2>2, <2>5
<1> QED
  BY <1>2, <1>4, <1>5 DEF m

LEMMA PutOnBusParts ==
    ASSUME NEW d \in DiskRecord, NEW s, NEW b, NEW l, NEW x
    PROVE  /\ PutOnBus(d, s, b, l, x).slot = s /\ PutOnBus(d, s, b, l, x).iface = b /\ PutOnBus(d, s, b, l, x).led = l
           /\ PutOnBus(d, s, b, l, x).place = d.place
  BY DEF DiskRecord, PutOnBus

LEMMA PutParts ==
    ASSUME NEW d \in DiskRecord, NEW s, NEW l, NEW x
    PROVE  /\ Put(d, s, l, x).slot = s /\ Put(d, s, l, x).iface = d.iface /\ Put(d, s, l, x).led = l
           /\ Put(d, s, l, x).place = d.place /\ Put(d, s, l, x).source = x
  BY DEF DiskRecord, Put

LEMMA ApplyParts ==
    ASSUME NEW d \in DiskRecord, NEW r
    PROVE  /\ apply_firmware_rule(d, r).slot = r.slot /\ apply_firmware_rule(d, r).place = d.place
           /\ r.iface = "u2" => apply_firmware_rule(d, r).iface = "u2"
           /\ r.iface # "u2" => apply_firmware_rule(d, r).iface = d.iface
           /\ firmware_slot_has_led(model, r) => apply_firmware_rule(d, r).led = r.slot[2]
           /\ ~firmware_slot_has_led(model, r) => apply_firmware_rule(d, r).led = 0
<1> DEFINE s == r.slot
           b == IF r.iface = "u2" THEN "u2" ELSE d.iface
           l == IF firmware_slot_has_led(model, r) THEN r.slot[2] ELSE 0
           x == IF d.source = "single" THEN "single" ELSE "firmware"
<1>1. apply_firmware_rule(d, r) = PutOnBus(d, s, b, l, x)
  BY Zenon DEF apply_firmware_rule, PutOnBus
<1>2. \A s1, b1, l1, x1 :
        /\ PutOnBus(d, s1, b1, l1, x1).slot = s1 /\ PutOnBus(d, s1, b1, l1, x1).iface = b1
        /\ PutOnBus(d, s1, b1, l1, x1).led = l1 /\ PutOnBus(d, s1, b1, l1, x1).place = d.place
  BY PutOnBusParts
<1>3. /\ apply_firmware_rule(d, r).slot = s /\ apply_firmware_rule(d, r).iface = b
      /\ apply_firmware_rule(d, r).led = l /\ apply_firmware_rule(d, r).place = d.place
  <2> DEFINE e == apply_firmware_rule(d, r)
  <2>1. e = PutOnBus(d, s, b, l, x)
    BY <1>1
  <2>2. /\ PutOnBus(d, s, b, l, x).slot = s /\ PutOnBus(d, s, b, l, x).iface = b
        /\ PutOnBus(d, s, b, l, x).led = l /\ PutOnBus(d, s, b, l, x).place = d.place
    <3> HIDE DEF s, b, l, x
    <3> QED
      BY <1>2
  <2> HIDE DEF s, b, l, x, e
  <2>3. e.slot = s /\ e.iface = b /\ e.led = l /\ e.place = d.place
    BY <2>1, <2>2
  <2> QED
    BY <2>3 DEF e
<1> QED
  BY <1>3

LEMMA UnmappedParts ==
    ASSUME NEW d \in DiskRecord
    PROVE  /\ Unmapped(d).slot = NoSlot /\ Unmapped(d).iface = d.iface /\ Unmapped(d).led = 0
           /\ Unmapped(d).place = d.place
<1>1. Unmapped(d) = Put(d, NoSlot, 0, "unknown")
  BY Zenon DEF Unmapped, Put
<1> QED
  BY <1>1, PutParts

\* A disk's bay, if the scan gave it one, is the one its place is wired to; where routing
\* is unknown only a U.2 drive has one.
Bayed(d) ==
    /\ d.led # 0 => d.slot = Ata(d.led) /\ Wired(model, routing, d.place, d.led)
    /\ d.led = 0 => d.slot \in {NoSlot, Nvme(1)}
    /\ d.place.iface = "sata" => d.iface = "sata"
    /\ ~RevisionKnown(model) =>
        /\ d.led # 0 => d.iface = "u2" /\ d.place.iface = "nvme"
        /\ d.place.iface = "sata" => d.slot = NoSlot
\* Whatever its place is wired to is what it was given.
SureDisk(d) == \A b : Wired(model, routing, d.place, b) => d.led = b

LEMMA UnmappedBayed ==
    ASSUME NEW d \in DiskRecord, d.place.iface = "sata" => d.iface = "sata"
    PROVE  Bayed(Unmapped(d))
  BY UnmappedParts DEF Bayed

LEMMA RuleBayed ==
    ASSUME model \in Models, Built(model, machine.ctrls), NEW d \in DiskRecord, Fits(model, d.place),
           d.place.iface = "sata" => d.iface = "sata", NEW r \in Matches(d.place)
    PROVE  Bayed(apply_firmware_rule(d, r))
<1> DEFINE e == apply_firmware_rule(d, r)
<1>1. d.place \in Place
  BY DEF DiskRecord
<1>2. /\ Found(model, routing, d.place, r)
      /\ RevisionKnown(model) \/ d.place.iface = "nvme"
  BY <1>1, RulesThere, Zenon
<1>3. /\ e.slot = r.slot /\ e.place = d.place
      /\ r.iface = "u2" => e.iface = "u2"
      /\ r.iface # "u2" => e.iface = d.iface
      /\ firmware_slot_has_led(model, r) => e.led = r.slot[2]
      /\ ~firmware_slot_has_led(model, r) => e.led = 0
  BY ApplyParts
<1>4. d.place.iface \in {"sata", "nvme"}
  BY <1>1, PlaceParts
<1> HIDE DEF e
<1>5. CASE r.slot = Nvme(1) /\ ~firmware_slot_has_led(model, r) /\ r.iface # "u2"
  BY <1>2, <1>3, <1>4, <1>5 DEF Bayed, e
<1>6. CASE \E b \in 1..8 : /\ r.slot = Ata(b) /\ Wired(model, routing, d.place, b)
                           /\ firmware_slot_has_led(model, r) /\ (r.iface = "u2" <=> d.place.iface = "nvme")
  <2>1. PICK b \in 1..8 : /\ r.slot = Ata(b) /\ Wired(model, routing, d.place, b)
                          /\ firmware_slot_has_led(model, r) /\ (r.iface = "u2" <=> d.place.iface = "nvme")
    BY <1>6
  <2>2. e.led = b /\ e.slot = Ata(b) /\ b # 0
    BY <1>3, <2>1, SlotParts
  <2> QED
    BY <1>2, <1>3, <1>4, <2>1, <2>2 DEF Bayed, e
<1> QED
  BY <1>2, <1>5, <1>6 DEF Found

LEMMA RuleSure ==
    ASSUME model \in Models, Built(model, machine.ctrls), NEW d \in DiskRecord, Fits(model, d.place), Sure,
           NEW b, Wired(model, routing, d.place, b)
    PROVE  \E r : /\ Matches(d.place) = {r}
                  /\ apply_firmware_rule(d, r).led = b /\ apply_firmware_rule(d, r).slot = Ata(b)
<1>1. d.place \in Place
  BY DEF DiskRecord
<1>2. PICK r : Matches(d.place) = {r} /\ r.slot = Ata(b)
  BY <1>1, RulesThere, Zenon
<1>3. r \in Matches(d.place)
  BY <1>2
<1>4. Found(model, routing, d.place, r)
  BY <1>1, <1>3, RulesThere, Zenon
<1>5. firmware_slot_has_led(model, r)
  BY <1>2, <1>4, SlotParts DEF Found
<1>6. apply_firmware_rule(d, r).led = b /\ apply_firmware_rule(d, r).slot = Ata(b)
  BY <1>2, <1>5, ApplyParts, SlotParts
<1> QED
  BY <1>2, <1>6

-----------------------------------------------------------------------------
(* The scan's invariant about bays.                                        *)

\* What is known of a machine and the disks on it.
Fitting ==
    /\ Built(model, machine.ctrls)
    /\ \A n \in Present(bus) : Fits(model, bus[n].place)
    /\ \A d \in scan.disks : Fits(model, d.place)
    /\ scan.auto = {} \/ (Is4800Plus(model) /\ scan.auto = Controllers(model))
    /\ \A d \in scan.disks :
        d.controller = <<>> \/ (d.name \in NvmeNames /\ d.controller = <<d.place.at, Namespaces(d.name)>>)

\* The bay of every disk that was read, as far as the scan is.
Placing == cal = {} => \A d \in scan.disks : Bayed(d) /\ (Sure => SureDisk(d))

\* Of the names that verify_inventory_members has looked at, those it could read are the
\* disks of the scan, each where it was read.
Looked(n) == scan.pc = "done" \/ (scan.pc = "verify" /\ n \notin scan.todo)
Legible(n) == looked[n] # Absent /\ looked[n].ready
Looking ==
    /\ looked \in [Names -> Device \cup {Absent}]
    /\ \A n \in scan.members : Looked(n) /\ Legible(n) => \E d \in scan.disks : d.name = n
    /\ \A d \in scan.disks : Looked(d.name) => Same(d, looked)

\* A finished scan.
Finish ==
    scan.pc = "done" =>
        Present(bus) = scan.members /\ Coalescible /\ scan.report = Resolved(Coalesced)

MapIInv == Fitting /\ Placing /\ Looking /\ Finish

-----------------------------------------------------------------------------
\* What the scan makes of a disk it has just read.
LEMMA SingleIs ==
    ASSUME NEW m, Is4800Plus(m), NEW ctrls, Controllers(m) \subseteq ctrls
    PROVE  /\ single_sata_controller(ctrls) = {} \/ single_sata_controller(ctrls) = Controllers(m)
           /\ ctrls = Controllers(m) => single_sata_controller(ctrls) = Controllers(m)
<1> DEFINE X == Controller("01:00.0", Asm, "1164", 4, 0)
<1>1. Controllers(m) = {X}
  <2>1. Controllers("DXP4800 Plus") = {Controller("01:00.0", Asm, "1164", 4, 0)}
    BY FactoryPairs, Zenon
  <2> QED
    BY <2>1, Zenon DEF Is4800Plus
<1>2. X.vendor = Asm /\ X.device = "1164" /\ X.ports = 4
  BY ControllerParts
<1> HIDE DEF X
<1>3. X \in ctrls
  BY <1>1
<1> QED
  BY <1>1, <1>2, <1>3 DEF single_sata_controller

LEMMA ControllerBayed ==
    ASSUME model \in Models, NEW d \in DiskRecord, d.slot = NoSlot, d.led = 0,
           d.place.iface = "sata" => d.iface = "sata", NEW auto,
           auto = {} \/ (Is4800Plus(model) /\ auto = Controllers(model))
    PROVE  Bayed(ByController(d, auto)) /\ (ByController(d, auto).place.iface = "sata" => ByController(d, auto).iface = "sata")
<1>1. Bayed(d)
  BY DEF Bayed
<1>2. CASE \E c \in auto : c.id = d.place.at /\ d.place.port \in 1..4
  <2>1. Is4800Plus(model) /\ auto = Controllers(model)
    BY <1>2
  <2>2. auto = {Controller("01:00.0", Asm, "1164", 4, 0)}
    <3>1. Controllers("DXP4800 Plus") = {Controller("01:00.0", Asm, "1164", 4, 0)}
      BY FactoryPairs, Zenon
    <3> QED
      BY <2>1, <3>1, Zenon DEF Is4800Plus
  <2>3. d.place.at = "01:00.0" /\ d.place.port \in 1..4
    BY <1>2, <2>2, ControllerParts
  <2> DEFINE n == d.place.port
             e == ByController(d, auto)
  <2>4. d.place \in Place
    BY DEF DiskRecord
  <2>5. Wired(model, routing, d.place, n)
    <3>1. Wired(model, routing, d.place, n) <=> (At(d.place, "01:00.0", 4) /\ n = 0 + d.place.port)
      BY <2>1, <2>4, Wired4800Plus, Zenon DEF Is4800Plus
    <3> QED
      BY <2>3, <3>1 DEF At
  <2>6. RevisionKnown(model)
    BY <2>1, Zenon DEF RevisionKnown, Is4800Plus
  <2>7. e = Put(d, Ata(n), n, "single")
    BY <1>2, Zenon DEF ByController, Put
  <2>8. e.slot = Ata(n) /\ e.led = n /\ e.iface = d.iface /\ e.place = d.place
    <3>1. \A s, l, x : /\ Put(d, s, l, x).slot = s /\ Put(d, s, l, x).iface = d.iface /\ Put(d, s, l, x).led = l
                       /\ Put(d, s, l, x).place = d.place
      BY PutParts
    <3> HIDE DEF n, e
    <3> QED
      BY <2>7, <3>1
  <2>9. n # 0
    BY <2>3
  <2> HIDE DEF n, e
  <2>10. Bayed(e) /\ (e.place.iface = "sata" => e.iface = "sata")
    BY <2>5, <2>6, <2>8, <2>9 DEF Bayed
  <2> QED
    BY <2>10 DEF e
<1>3. CASE ~(\E c \in auto : c.id = d.place.at /\ d.place.port \in 1..4)
  <2>1. ByController(d, auto) = d
    BY <1>3, Zenon DEF ByController
  <2> QED
    BY <1>1, <2>1
<1> QED
  BY <1>2, <1>3

LEMMA MappedBayed ==
    ASSUME Machines, Built(model, machine.ctrls), cal = {}, NEW d \in DiskRecord, Fits(model, d.place),
           d.slot = NoSlot, d.led = 0, d.place.iface = "sata" => d.iface = "sata", NEW auto,
           auto = {} \/ (Is4800Plus(model) /\ auto = Controllers(model))
    PROVE  Bayed(Mapped(d, auto)) /\ (Sure => SureDisk(Mapped(d, auto)))
<1> DEFINE e == ByController(d, auto)
           rules == Matches(d.place)
           r == CHOOSE x \in rules : TRUE
<1>1. e \in DiskRecord /\ SameDisk(e, d)
  BY ControllerDisk
<1>2. Bayed(e) /\ (e.place.iface = "sata" => e.iface = "sata") /\ model \in Models
  BY ControllerBayed DEF Machines
<1>3. /\ Cardinality(rules) = 1 => Mapped(d, auto) = apply_firmware_rule(e, r)
      /\ Mapped(d, auto) = e \/ Mapped(d, auto) = Unmapped(e) \/ Cardinality(rules) = 1
  BY Zenon DEF Mapped
<1>4. e.place = d.place /\ Fits(model, e.place)
  BY <1>1 DEF SameDisk
<1>5. Cardinality(rules) = 1 => r \in Matches(e.place)
  BY <1>4, OnlyOne
<1>6. ASSUME NEW x PROVE rules = {x} => r = x /\ Cardinality(rules) = 1
  <2>1. Cardinality({x}) = 1
    BY FS_Singleton
  <2> QED
    BY <2>1
<1>7. Mapped(d, auto).place = d.place
  <2>1. Mapped(d, auto) = e \/ Mapped(d, auto) = Unmapped(e) \/ Mapped(d, auto) = apply_firmware_rule(e, r)
    BY <1>3
  <2> HIDE DEF e, r, rules
  <2> QED
    BY <1>1, <1>4, <2>1, UnmappedParts, ApplyParts
<1> HIDE DEF e, r
<1>8. Bayed(Mapped(d, auto))
  <2>1. CASE Cardinality(rules) = 1
    <3>1. Bayed(apply_firmware_rule(e, r))
      BY <1>1, <1>2, <1>4, <1>5, <2>1, RuleBayed
    <3> QED
      BY <1>3, <2>1, <3>1, Zenon
  <2>2. CASE Cardinality(rules) # 1
    <3>1. Bayed(Unmapped(e))
      BY <1>1, <1>2, UnmappedBayed
    <3> QED
      BY <1>2, <1>3, <2>2, <3>1, Zenon
  <2> QED
    BY <2>1, <2>2
<1>9. ASSUME Sure, NEW b, Wired(model, routing, d.place, b) PROVE Mapped(d, auto).led = b
  <2>1. PICK x : Matches(e.place) = {x} /\ apply_firmware_rule(e, x).led = b
    BY <1>1, <1>2, <1>4, <1>9, RuleSure
  <2>2. r = x /\ Cardinality(rules) = 1
    BY <1>4, <1>6, <2>1
  <2> QED
    BY <1>3, <2>1, <2>2
<1>10. Sure => SureDisk(Mapped(d, auto))
  BY <1>7, <1>9, Zenon DEF SureDisk
<1> QED
  BY <1>8, <1>10

-----------------------------------------------------------------------------
\* The invariant from the start, and where nothing of the scan changes.
LEMMA MapStarts == Init => MapIInv
<1> SUFFICES ASSUME Init PROVE MapIInv
  OBVIOUS
<1>1. PICK x \in Situations : ScanInit(x.machine)
  BY DEF Init
<1>2. WellFormed(x.machine)
  BY CliAssumption
<1>3. scan = Start /\ scan.pc = "start" /\ scan.disks = {} /\ scan.auto = {} /\ scan.members = {}
  BY <1>1 DEF ScanInit, Start
<1>4. Fitting
  BY <1>1, <1>2, <1>3 DEF ScanInit, WellFormed, Fitting
<1>5. looked \in [Names -> Device \cup {Absent}]
  BY <1>1 DEF ScanInit
<1>6. Placing /\ Looking /\ Finish
  BY <1>3, <1>5 DEF Placing, Looking, Looked, Finish
<1> QED
  BY <1>4, <1>6 DEF MapIInv

LEMMA MapFrame == MapIInv /\ UNCHANGED scanVars => MapIInv'
<1> SUFFICES ASSUME MapIInv, UNCHANGED scanVars PROVE MapIInv'
  OBVIOUS
<1>1. UNCHANGED <<model, routing, machine, bus, cal, moves, seen, scan, looked>>
  BY DEF scanVars, world
<1>2. Fitting'
  BY <1>1 DEF MapIInv, Fitting, Present
<1>3. Placing'
  BY <1>1 DEF MapIInv, Placing, Bayed, Sure, SureDisk
<1>4. Looking'
  BY <1>1 DEF MapIInv, Looking, Looked, Legible, Same
<1>5. Finish'
  <2>1. \A d : Group(d)' = Group(d)
    BY <1>1 DEF Group
  <2>2. Coalescible' <=> Coalescible
    BY <1>1 DEF Coalescible, Group
  <2>3. Coalesced' = Coalesced
    BY <1>1 DEF Coalesced, Group
  <2>4. Resolved(Coalesced)' = Resolved(Coalesced)
    BY <1>1, <2>3 DEF Resolved, InConflict, GtAmbiguous
  <2> QED
    BY <1>1, <2>2, <2>4 DEF MapIInv, Finish, Present
<1> QED
  BY <1>2, <1>3, <1>4, <1>5 DEF MapIInv

\* Hot-plug puts disks only where they fit, and takes no factory controller away.
LEMMA EventMap ==
    ASSUME MapIInv, UNCHANGED <<model, routing, cal, scan, looked>>, Scanning,
           Built(model, machine'.ctrls), machine'.ctrls = Controllers(model) => machine.ctrls = Controllers(model),
           \A n \in Present(bus') : Fits(model, bus'[n].place)
    PROVE  MapIInv'
<1>1. Fitting'
  BY DEF MapIInv, Fitting, Present
<1>2. Placing'
  BY DEF MapIInv, Placing, Bayed, Sure, SureDisk
<1>3. Looking'
  BY DEF MapIInv, Looking, Looked, Legible, Same
<1>4. Finish'
  BY DEF Finish, Scanning
<1> QED
  BY <1>1, <1>2, <1>3, <1>4 DEF MapIInv

LEMMA MapPull ==
    ASSUME ScanIInv, MapIInv, Pull
    PROVE  MapIInv'
<1>1. PICK n \in Names : bus' = [bus EXCEPT ![n] = Absent]
  BY DEF Pull, Present
<1>2. UNCHANGED <<model, routing, cal, scan, looked, machine>> /\ Scanning
  BY DEF Pull, Move
<1>3. bus \in [Names -> Device \cup {Absent}] /\ scan \in ScanRecord
  BY DEF ScanIInv, ScanTyped, Machines
<1>4. bus'[n] = Absent /\ \A m \in Names \ {n} : bus'[m] = bus[m]
  BY <1>1, <1>3
<1>5. \A m \in Present(bus') : Fits(model, bus'[m].place)
  BY <1>4 DEF Present, MapIInv, Fitting
<1>6. Built(model, machine'.ctrls)
  BY <1>2 DEF MapIInv, Fitting
<1> QED
  BY <1>2, <1>5, <1>6, EventMap

LEMMA MapPlug ==
    ASSUME ScanIInv, MapIInv, Plug
    PROVE  MapIInv'
<1>0. PICK n \in Names \ Present(bus), s \in Serials, place \in PlacesOf(model) :
        /\ <<n, s, place>> \notin seen /\ seen' = seen \cup {<<n, s, place>>}
        /\ \E ready \in BOOLEAN : bus' = [bus EXCEPT ![n] = [serial |-> s, place |-> place, ready |-> ready]]
  BY Zenon DEF Plug
<1>1. PICK ready \in BOOLEAN : bus' = [bus EXCEPT ![n] = [serial |-> s, place |-> place, ready |-> ready]]
  BY <1>0
<1>2. UNCHANGED <<model, routing, cal, scan, looked, machine>> /\ Scanning
  BY DEF Plug, Move
<1>3. bus \in [Names -> Device \cup {Absent}] /\ scan \in ScanRecord /\ model \in Models
  BY DEF ScanIInv, ScanTyped, Machines
<1> DEFINE x == [serial |-> s, place |-> place, ready |-> ready]
<1>4. x.serial = s /\ x.place = place
  OBVIOUS
<1> HIDE DEF x
<1>5. bus'[n] = x /\ \A m \in Names \ {n} : bus'[m] = bus[m]
  BY <1>1, <1>3 DEF x
<1>6. Fits(model, place)
  BY <1>3, DiskAssumption
<1>7. \A m \in Present(bus') : Fits(model, bus'[m].place)
  BY <1>4, <1>5, <1>6 DEF Present, MapIInv, Fitting
<1>8. Built(model, machine'.ctrls)
  BY <1>2 DEF MapIInv, Fitting
<1> QED
  BY <1>2, <1>7, <1>8, EventMap

LEMMA MapReady ==
    ASSUME ScanIInv, MapIInv, BecomesReady
    PROVE  MapIInv'
<1>1. PICK n \in Present(bus) : ~bus[n].ready /\ bus' = [bus EXCEPT ![n].ready = TRUE]
  BY DEF BecomesReady
<1>2. UNCHANGED <<model, routing, cal, scan, looked, machine>> /\ Scanning
  BY DEF BecomesReady, Move
<1>3. bus \in [Names -> Device \cup {Absent}] /\ scan \in ScanRecord /\ n \in Names /\ bus[n] \in Device /\ bus[n] # Absent
  BY DEF ScanIInv, ScanTyped, Machines, Present
<1> DEFINE r == bus[n]
           x == [r EXCEPT !.ready = TRUE]
<1>4. bus' = [bus EXCEPT ![n] = x] /\ r \in Device
  BY <1>1, <1>3
<1> HIDE DEF r
<1>5. x.serial = r.serial /\ x.place = r.place
  BY <1>4 DEF Device
<1> HIDE DEF x
<1>6. bus'[n] = x /\ \A m \in Names \ {n} : bus'[m] = bus[m]
  BY <1>3, <1>4
<1>7. bus'[n].serial = bus[n].serial /\ bus'[n].place = bus[n].place
  BY <1>5, <1>6 DEF r
<1>8. \A m \in Present(bus') : Fits(model, bus'[m].place)
  BY <1>3, <1>6, <1>7 DEF Present, MapIInv, Fitting
<1>9. Built(model, machine'.ctrls)
  BY <1>2 DEF MapIInv, Fitting
<1> QED
  BY <1>2, <1>8, <1>9, EventMap

LEMMA MapCard ==
    ASSUME ScanIInv, MapIInv, CardAppears
    PROVE  MapIInv'
<1>1. UNCHANGED <<model, routing, cal, scan, looked, bus>> /\ Scanning
  BY DEF CardAppears, Move
<1>2. machine'.ctrls = machine.ctrls \cup Card.ctrls /\ ~(Card.ctrls \subseteq machine.ctrls)
  BY DEF CardAppears
<1>3. Built(model, machine.ctrls) /\ scan \in ScanRecord
  BY DEF MapIInv, Fitting, ScanIInv, ScanTyped
<1>4. Built(model, machine'.ctrls)
  BY <1>2, <1>3 DEF Built
<1>5. machine'.ctrls = Controllers(model) => machine.ctrls = Controllers(model)
  BY <1>2, <1>3 DEF Built
<1>6. \A m \in Present(bus') : Fits(model, bus'[m].place)
  BY <1>1 DEF Present, MapIInv, Fitting
<1> QED
  BY <1>1, <1>4, <1>5, <1>6, EventMap

LEMMA MapHotPlug == ScanIInv /\ MapIInv /\ HotPlug => MapIInv'
  BY MapPull, MapPlug, MapReady, MapCard DEF HotPlug

\* Nothing of the machine changes in a step of the scan.
LEMMA MapWorld ==
    ASSUME MapIInv, UNCHANGED world
    PROVE  /\ Built(model', machine'.ctrls) /\ (\A n \in Present(bus') : Fits(model', bus'[n].place))
           /\ Sure' = Sure
           /\ \A d : /\ Bayed(d)' <=> Bayed(d)
                     /\ SureDisk(d)' <=> SureDisk(d)
<1>1. UNCHANGED <<model, routing, machine, bus, cal, moves, seen>>
  BY DEF world
<1> QED
  BY <1>1 DEF MapIInv, Fitting, Present, Bayed, Sure, SureDisk

LEMMA MapFail ==
    ASSUME ScanIInv, MapIInv, Fail, UNCHANGED <<world, then, looked>>
    PROVE  MapIInv'
<1>1. /\ scan'.pc = "failed" /\ scan'.disks = {} /\ scan'.auto = scan.auto /\ scan'.members = scan.members
  BY DEF Fail, ScanIInv, ScanTyped, ScanRecord
<1>2. Fitting'
  BY <1>1, MapWorld DEF MapIInv, Fitting, world
<1>3. Placing'
  BY <1>1 DEF Placing
<1>4. Looking'
  BY <1>1 DEF MapIInv, Looking, Looked
<1>5. Finish'
  BY <1>1 DEF Finish
<1> QED
  BY <1>2, <1>3, <1>4, <1>5 DEF MapIInv

LEMMA MapBegin ==
    ASSUME ScanIInv, MapIInv, ScanBegin
    PROVE  MapIInv'
<1> DEFINE a == IF cal = {} /\ model \in SingleModels THEN single_sata_controller(machine.ctrls) ELSE {}
           t == Present(bus)
<1>0. UNCHANGED <<world, then, looked>>
  BY DEF ScanBegin
<1>1. CASE ~read_calibration
  BY <1>0, <1>1, MapFail DEF ScanBegin
<1>2. CASE read_calibration
  <2>1. scan' = [scan EXCEPT !.pc = "enumerate", !.todo = t, !.auto = a]
    BY <1>2 DEF ScanBegin
  <2>2. a = {} \/ (Is4800Plus(model) /\ a = Controllers(model))
    <3>1. model \in SingleModels => Is4800Plus(model)
      BY Zenon DEF SingleModels, Is4800Plus
    <3>2. Controllers(model) \subseteq machine.ctrls
      BY DEF MapIInv, Fitting, Built
    <3>3. a = {} \/ (model \in SingleModels /\ a = single_sata_controller(machine.ctrls))
      OBVIOUS
    <3> HIDE DEF a
    <3> QED
      BY <3>1, <3>2, <3>3, SingleIs, Zenon
  <2> HIDE DEF a, t
  <2>3. scan'.pc = "enumerate" /\ scan'.disks = {} /\ scan'.auto = a /\ scan'.members = {}
    BY <2>1 DEF ScanIInv, ScanTyped, ScanRecord, ScanBegin
  <2>4. Fitting'
    BY <1>0, <2>2, <2>3, MapWorld DEF Fitting, world
  <2>5. Placing'
    BY <2>3 DEF Placing
  <2>6. Looking'
    BY <1>0, <2>3 DEF MapIInv, Looking, Looked
  <2>7. Finish'
    BY <2>3 DEF Finish
  <2> QED
    BY <2>4, <2>5, <2>6, <2>7 DEF MapIInv
<1> QED
  BY <1>1, <1>2

\* What read_one finds out of a disk.
LEMMA ReadParts ==
    ASSUME Machines, NEW n \in Names, Readable(n)
    PROVE  /\ read_one(n).slot = NoSlot /\ read_one(n).led = 0 /\ read_one(n).iface = read_one(n).place.iface
           /\ read_one(n).place = bus[n].place /\ read_one(n).name = n /\ read_one(n) \in DiskRecord
           /\ \/ read_one(n).controller = <<>>
              \/ n \in NvmeNames /\ read_one(n).controller = <<bus[n].place.at, Namespaces(n)>>
<1> DEFINE c == IF n \in NvmeNames THEN <<bus[n].place.at, Namespaces(n)>> ELSE <<>>
           s == bus[n].serial
           q == bus[n].place
           i == q.iface
<1>1. read_one(n) = [name |-> n, serial |-> s, place |-> q, controller |-> c, iface |-> i,
                     slot |-> NoSlot, led |-> 0, source |-> "unknown"]
  BY Zenon DEF read_one
<1>2. c = <<>> \/ (n \in NvmeNames /\ c = <<bus[n].place.at, Namespaces(n)>>)
  OBVIOUS
<1> HIDE DEF c, s, i, NoSlot
<1>3. read_one(n).slot = NoSlot /\ read_one(n).led = 0 /\ read_one(n).iface = i /\ read_one(n).controller = c
  BY <1>1
<1>4. read_one(n).place = bus[n].place /\ read_one(n).name = n /\ read_one(n) \in DiskRecord
  BY ReadOne
<1>5. i = bus[n].place.iface
  BY DEF i
<1> QED
  BY <1>2, <1>3, <1>4, <1>5

LEMMA MapEntry ==
    ASSUME ScanIInv, MapIInv, ScanEntry
    PROVE  MapIInv'
<1>1. PICK n \in scan.todo :
        IF Cardinality(scan.members) = DISK_MAX THEN Fail
        ELSE scan' = [scan EXCEPT !.todo = @ \ {n}, !.members = @ \cup {n},
                        !.disks = @ \cup (IF Readable(n) THEN {Mapped(read_one(n), scan.auto)} ELSE {})]
  BY Zenon DEF ScanEntry
<1>2. scan.pc = "enumerate" /\ UNCHANGED <<world, then, looked>> /\ n \in Names /\ Machines /\ read_calibration
  BY DEF ScanEntry, ScanIInv, ScanTyped, ScanRecord
<1>3. CASE Cardinality(scan.members) = DISK_MAX
  BY <1>1, <1>2, <1>3, MapFail
<1>4. CASE Cardinality(scan.members) # DISK_MAX
  <2> DEFINE D == IF Readable(n) THEN {Mapped(read_one(n), scan.auto)} ELSE {}
             c == read_one(n)
             d == Mapped(c, scan.auto)
  <2>1. scan' = [scan EXCEPT !.todo = @ \ {n}, !.members = @ \cup {n}, !.disks = @ \cup D]
    BY <1>1, <1>4
  <2>2. D \subseteq {d} /\ (D # {} => Readable(n))
    OBVIOUS
  <2>3. ASSUME Readable(n)
        PROVE  /\ SameDisk(d, c) /\ Fits(model, d.place)
               /\ cal = {} => Bayed(d) /\ (Sure => SureDisk(d))
               /\ d.controller = <<>> \/ (d.name \in NvmeNames /\ d.controller = <<d.place.at, Namespaces(d.name)>>)
    <3>1. /\ c.slot = NoSlot /\ c.led = 0 /\ c.iface = c.place.iface
          /\ c.place = bus[n].place /\ c.name = n /\ c \in DiskRecord
          /\ c.controller = <<>> \/ (n \in NvmeNames /\ c.controller = <<bus[n].place.at, Namespaces(n)>>)
      BY <1>2, <2>3, ReadParts
    <3>2. Fits(model, c.place)
      BY <1>2, <2>3, <3>1 DEF MapIInv, Fitting, Present, Readable
    <3>3. Built(model, machine.ctrls) /\ (scan.auto = {} \/ (Is4800Plus(model) /\ scan.auto = Controllers(model)))
      BY DEF MapIInv, Fitting
    <3> HIDE DEF c
    <3>4. SameDisk(Mapped(c, scan.auto), c)
      BY <1>2, <3>1, MappedDisk
    <3>5. cal = {} => Bayed(Mapped(c, scan.auto)) /\ (Sure => SureDisk(Mapped(c, scan.auto)))
      <4>1. c.place.iface = "sata" => c.iface = "sata"
        BY <3>1
      <4> QED
        BY <1>2, <3>1, <3>2, <3>3, <4>1, MappedBayed, Zenon
    <3> HIDE DEF d
    <3>6. SameDisk(d, c) /\ (cal = {} => Bayed(d) /\ (Sure => SureDisk(d)))
      BY <3>4, <3>5 DEF d
    <3>7. d.place = c.place /\ d.name = n /\ d.controller = c.controller
      BY <3>1, <3>6 DEF SameDisk
    <3> QED
      BY <3>1, <3>2, <3>6, <3>7
  <2> HIDE DEF D, d, c
  <2>4. scan'.pc = "enumerate" /\ scan'.disks = scan.disks \cup D /\ scan'.auto = scan.auto
    BY <1>2, <2>1 DEF ScanIInv, ScanTyped, ScanRecord
  <2>5. cal' = cal /\ model' = model
    BY <1>2 DEF world
  <2>6. \A e \in scan'.disks : e \in scan.disks \/ (e = d /\ Readable(n))
    BY <2>2, <2>4
  <2>7. Fitting'
    BY <1>2, <2>3, <2>4, <2>5, <2>6, MapWorld DEF MapIInv, Fitting
  <2>8. Placing'
    <3>1. SUFFICES ASSUME cal = {}, NEW e \in scan'.disks PROVE Bayed(e)' /\ (Sure' => SureDisk(e)')
      BY <2>5 DEF Placing
    <3>2. Bayed(e) /\ (Sure => SureDisk(e))
      BY <2>3, <2>6, <3>1 DEF MapIInv, Placing
    <3> QED
      BY <1>2, <3>2, MapWorld
  <2>9. Looking'
    BY <1>2, <2>4 DEF MapIInv, Looking, Looked
  <2>10. Finish'
    BY <2>4 DEF Finish
  <2> QED
    BY <2>7, <2>8, <2>9, <2>10 DEF MapIInv
<1> QED
  BY <1>3, <1>4

LEMMA MapEnumerated ==
    ASSUME ScanIInv, MapIInv, ScanEnumerated
    PROVE  MapIInv'
<1> DEFINE t == {d.name : d \in scan.disks}
<1>1. UNCHANGED <<world, looked>> /\ scan' = [scan EXCEPT !.pc = "recheck", !.todo = t]
  BY DEF ScanEnumerated
<1> HIDE DEF t
<1>2. scan'.pc = "recheck" /\ scan'.disks = scan.disks /\ scan'.auto = scan.auto /\ scan'.members = scan.members
  BY <1>1 DEF ScanIInv, ScanTyped, ScanRecord
<1>3. UNCHANGED <<model, cal, bus, seen>>
  BY <1>1 DEF world
<1>4. Fitting'
  BY <1>1, <1>2, <1>3, MapWorld DEF MapIInv, Fitting
<1>5. Placing'
  BY <1>1, <1>2, <1>3, MapWorld DEF MapIInv, Placing
<1>6. Looking'
  BY <1>1, <1>2 DEF MapIInv, Looking, Looked
<1>7. Finish'
  BY <1>2 DEF Finish
<1> QED
  BY <1>4, <1>5, <1>6, <1>7 DEF MapIInv

\* Where every bay is known the second reading agrees with the first.
LEMMA SureStillMapped ==
    ASSUME Machines, Built(model, machine.ctrls), Sure, NEW d \in DiskRecord, Fits(model, d.place), Readable(d.name),
           Identity(read_one(d.name)) = Identity(d), Bayed(d), SureDisk(d), NEW b, Wired(model, routing, d.place, b)
    PROVE  StillMapped(d)
<1> DEFINE c == read_one(d.name)
<1>1. d.name \in Names /\ model \in Models /\ d.place \in Place
  BY DEF DiskRecord, Machines
<1>2. c \in DiskRecord
  BY <1>1, ReadParts
<1>3. c.place = d.place
  BY Zenon DEF Identity
<1> HIDE DEF c
<1>4. PICK r : Matches(c.place) = {r} /\ apply_firmware_rule(c, r).led = b /\ apply_firmware_rule(c, r).slot = Ata(b)
  BY <1>1, <1>2, <1>3, RuleSure
<1>5. Matches(d.place) = {r} /\ Cardinality(Matches(d.place)) = 1 /\ (CHOOSE x \in Matches(d.place) : TRUE) = r
  <2>1. Cardinality({r}) = 1
    BY FS_Singleton
  <2> QED
    BY <1>3, <1>4, <2>1
<1>6. d.led = b /\ b # 0
  BY <1>1, BayIs DEF SureDisk
<1>7. d.slot = Ata(b)
  BY <1>6 DEF Bayed
<1>8. apply_firmware_rule(c, CHOOSE x \in Matches(d.place) : TRUE).slot = d.slot
      /\ apply_firmware_rule(c, CHOOSE x \in Matches(d.place) : TRUE).led = d.led
  BY <1>4, <1>5, <1>6, <1>7
<1> QED
  BY <1>5, <1>8, Zenon DEF StillMapped, c

\* A step that only forgets bays.
LEMMA Forgets ==
    ASSUME ScanIInv, MapIInv, UNCHANGED <<world, then>>, NEW D, scan'.disks = D, scan'.auto = scan.auto,
           \A e \in D : \E d \in scan.disks :
               e = d \/ (e = Unmapped(d) /\ (cal = {} /\ Sure => \A b : ~Wired(model, routing, d.place, b)))
    PROVE  Fitting' /\ Placing'
<1>1. scan.disks \subseteq DiskRecord /\ UNCHANGED <<model, cal>>
  BY DEF ScanIInv, ScanTyped, ScanRecord, world
<1>2. ASSUME NEW e \in D
      PROVE  /\ Fits(model, e.place)
             /\ e.controller = <<>> \/ (e.name \in NvmeNames /\ e.controller = <<e.place.at, Namespaces(e.name)>>)
             /\ cal = {} => Bayed(e) /\ (Sure => SureDisk(e))
  <2>1. PICK d \in scan.disks :
            e = d \/ (e = Unmapped(d) /\ (cal = {} /\ Sure => \A b : ~Wired(model, routing, d.place, b)))
    OBVIOUS
  <2>2. CASE e = d
    BY <2>2 DEF MapIInv, Fitting, Placing
  <2>3. CASE e = Unmapped(d) /\ (cal = {} /\ Sure => \A b : ~Wired(model, routing, d.place, b))
    <3>1. SameDisk(e, d) /\ d \in DiskRecord
      BY <1>1, <2>3, UnmappedDisk
    <3>2. e.place = d.place /\ e.name = d.name /\ e.controller = d.controller
      BY <3>1 DEF SameDisk
    <3>3. cal = {} => Bayed(e)
      <4>1. cal = {} => (d.place.iface = "sata" => d.iface = "sata")
        BY DEF MapIInv, Placing, Bayed
      <4> QED
        BY <2>3, <3>1, <4>1, UnmappedBayed
    <3>4. cal = {} /\ Sure => SureDisk(e)
      BY <2>3, <3>2 DEF SureDisk
    <3> QED
      BY <3>2, <3>3, <3>4 DEF MapIInv, Fitting
  <2> QED
    BY <2>1, <2>2, <2>3
<1>3. Fitting'
  BY <1>1, <1>2, MapWorld DEF MapIInv, Fitting
<1>4. Placing'
  <2>1. SUFFICES ASSUME cal = {}, NEW e \in D PROVE Bayed(e)' /\ (Sure' => SureDisk(e)')
    BY <1>1 DEF Placing
  <2>2. Bayed(e) /\ (Sure => SureDisk(e))
    BY <1>2, <2>1
  <2> QED
    BY <2>2, MapWorld
<1> QED
  BY <1>3, <1>4

LEMMA MapRecheck ==
    ASSUME ScanIInv, MapIInv, ScanRecheck
    PROVE  MapIInv'
<1>1. PICK d \in scan.disks :
        /\ d.name \in scan.todo
        /\ IF ~Readable(d.name) \/ Identity(read_one(d.name)) # Identity(d) THEN Fail
           ELSE scan' = [scan EXCEPT !.todo = @ \ {d.name},
                          !.disks = IF cal # {} \/ d.slot = NoSlot \/ StillMapped(d) THEN @
                                    ELSE (@ \ {d}) \cup {Unmapped(d)}]
  BY Zenon DEF ScanRecheck
<1>2. scan.pc = "recheck" /\ UNCHANGED <<world, then, looked>>
  BY DEF ScanRecheck
<1>3. CASE ~Readable(d.name) \/ Identity(read_one(d.name)) # Identity(d)
  BY <1>1, <1>2, <1>3, MapFail
<1>4. CASE Readable(d.name) /\ Identity(read_one(d.name)) = Identity(d)
  <2> DEFINE u == Unmapped(d)
             kept == cal # {} \/ d.slot = NoSlot \/ StillMapped(d)
             D == IF kept THEN scan.disks ELSE (scan.disks \ {d}) \cup {u}
  <2>1. scan' = [scan EXCEPT !.todo = @ \ {d.name}, !.disks = D]
    BY <1>1, <1>4
  <2>2. D = scan.disks \/ (~kept /\ D = (scan.disks \ {d}) \cup {u})
    OBVIOUS
  <2>3. ~kept /\ cal = {} /\ Sure => \A b : ~Wired(model, routing, d.place, b)
    <3>1. SUFFICES ASSUME cal = {}, Sure, NEW b, Wired(model, routing, d.place, b) PROVE StillMapped(d)
      OBVIOUS
    <3>2. d \in DiskRecord /\ Machines
      BY DEF ScanIInv, ScanTyped, ScanRecord
    <3>3. Built(model, machine.ctrls) /\ Fits(model, d.place) /\ Bayed(d) /\ SureDisk(d)
      BY <3>1 DEF MapIInv, Fitting, Placing
    <3> QED
      BY <1>4, <3>1, <3>2, <3>3, SureStillMapped
  <2> HIDE DEF u, kept, D
  <2>4. scan'.pc = "recheck" /\ scan'.disks = D /\ scan'.auto = scan.auto /\ scan'.members = scan.members
    BY <1>2, <2>1 DEF ScanIInv, ScanTyped, ScanRecord
  <2>5. \A e \in D : \E x \in scan.disks :
            e = x \/ (e = Unmapped(x) /\ (cal = {} /\ Sure => \A b : ~Wired(model, routing, x.place, b)))
    <3>1. SUFFICES ASSUME NEW e \in D, e \notin scan.disks
                   PROVE e = Unmapped(d) /\ (cal = {} /\ Sure => \A b : ~Wired(model, routing, d.place, b))
      OBVIOUS
    <3>2. ~kept /\ e = u
      BY <2>2, <3>1
    <3> QED
      BY <2>3, <3>2 DEF u
  <2>6. Fitting' /\ Placing'
    BY <1>2, <2>4, <2>5, Forgets
  <2>7. Looking'
    BY <1>2, <2>4 DEF MapIInv, Looking, Looked
  <2>8. Finish'
    BY <2>4 DEF Finish
  <2> QED
    BY <2>6, <2>7, <2>8 DEF MapIInv
<1> QED
  BY <1>3, <1>4

LEMMA MapControllers ==
    ASSUME ScanIInv, MapIInv, ScanControllers
    PROVE  MapIInv'
<1> DEFINE f(d) == IF d.source = "single" THEN Unmapped(d) ELSE d
           M == {f(d) : d \in scan.disks}
           same == scan.auto = {} \/ single_sata_controller(machine.ctrls) = scan.auto
           D == IF same THEN scan.disks ELSE M
           t == Present(bus)
<1>1. scan.pc = "recheck" /\ scan.todo = {} /\ UNCHANGED <<world, then, looked>>
  BY DEF ScanControllers
<1>2. CASE ~(scan.members \subseteq Present(bus))
  BY <1>1, <1>2, MapFail DEF ScanControllers
<1>3. CASE scan.members \subseteq Present(bus)
  <2>1. scan' = [scan EXCEPT !.pc = "verify", !.todo = t, !.disks = D]
    BY <1>3 DEF ScanControllers
  <2>2. Sure => same
    <3>1. SUFFICES ASSUME Sure, scan.auto # {} PROVE same
      OBVIOUS
    <3>2. Is4800Plus(model) /\ scan.auto = Controllers(model)
      BY <3>1 DEF MapIInv, Fitting
    <3>3. ~Is4800GT(model)
      BY <3>2, Zenon DEF Is4800Plus, Is4800GT
    <3>4. machine.ctrls = Controllers(model)
      BY <3>1, <3>3 DEF Sure
    <3>5. single_sata_controller(machine.ctrls) = Controllers(model)
      BY <3>2, <3>4, SingleIs
    <3> QED
      BY <3>2, <3>5
  <2>3. \A e \in M : \E d \in scan.disks : e = d \/ e = Unmapped(d)
    OBVIOUS
  <2>4. D = scan.disks \/ (~same /\ D = M)
    OBVIOUS
  <2> HIDE DEF f, M, same, D
  <2>5. /\ scan'.pc = "verify" /\ scan'.disks = D /\ scan'.auto = scan.auto /\ scan'.members = scan.members
        /\ scan'.todo = t
    BY <1>1, <2>1 DEF ScanIInv, ScanTyped, ScanRecord
  <2>6. \A e \in D : \E x \in scan.disks :
            e = x \/ (e = Unmapped(x) /\ (cal = {} /\ Sure => \A b : ~Wired(model, routing, x.place, b)))
    BY <2>2, <2>3, <2>4
  <2>7. Fitting' /\ Placing'
    BY <1>1, <2>5, <2>6, Forgets
  <2>8. Looking'
    <3>1. \A n \in scan'.members : ~Looked(n)'
      BY <1>3, <2>5 DEF Looked
    <3>2. \A d \in scan'.disks : d.name \in scan'.members
      <4>1. \A e \in scan'.disks : \E d \in scan.disks : e.name = d.name
        BY <2>5, <2>6, UnmappedDisk DEF SameDisk, ScanIInv, ScanTyped, ScanRecord
      <4> QED
        BY <2>5, <4>1 DEF ScanIInv, ScanTyped
    <3> QED
      BY <1>1, <3>1, <3>2 DEF MapIInv, Looking
  <2>9. Finish'
    BY <2>5 DEF Finish
  <2> QED
    BY <2>7, <2>8, <2>9 DEF MapIInv
<1> QED
  BY <1>2, <1>3

LEMMA MapVerify ==
    ASSUME ScanIInv, MapIInv, ScanVerify
    PROVE  MapIInv'
<1>1. scan.pc = "verify" /\ UNCHANGED <<world, then>>
  BY DEF ScanVerify
<1>2. PICK n \in scan.todo :
        \/ Fail /\ UNCHANGED looked
        \/ /\ n \in scan.members /\ Readable(n) = ({d \in scan.disks : d.name = n} # {})
           /\ \A d \in {e \in scan.disks : e.name = n} : Identity(read_one(n)) = Identity(d)
           /\ scan' = [scan EXCEPT !.todo = @ \ {n}] /\ looked' = [looked EXCEPT ![n] = bus[n]]
  BY DEF ScanVerify
<1>3. CASE Fail /\ UNCHANGED looked
  BY <1>1, <1>3, MapFail
<1>4. CASE /\ n \in scan.members /\ Readable(n) = ({d \in scan.disks : d.name = n} # {})
           /\ \A d \in {e \in scan.disks : e.name = n} : Identity(read_one(n)) = Identity(d)
           /\ scan' = [scan EXCEPT !.todo = @ \ {n}] /\ looked' = [looked EXCEPT ![n] = bus[n]]
  <2>1. /\ scan'.pc = "verify" /\ scan'.disks = scan.disks /\ scan'.auto = scan.auto /\ scan'.members = scan.members
        /\ scan'.todo = scan.todo \ {n}
    BY <1>1, <1>4 DEF ScanIInv, ScanTyped, ScanRecord
  <2>2. \A e \in scan.disks : \E x \in scan.disks :
            e = x \/ (e = Unmapped(x) /\ (cal = {} /\ Sure => \A b : ~Wired(model, routing, x.place, b)))
    OBVIOUS
  <2>3. Fitting' /\ Placing'
    BY <1>1, <2>1, <2>2, Forgets
  <2>4. Looking'
    <3>1. /\ bus \in [Names -> Device \cup {Absent}] /\ looked \in [Names -> Device \cup {Absent}]
          /\ n \in Names /\ \A d \in scan.disks : d.name \in Names
      BY DEF MapIInv, Looking, ScanIInv, ScanTyped, ScanRecord, DiskRecord, Machines
    <3>2. /\ looked' \in [Names -> Device \cup {Absent}] /\ looked'[n] = bus[n]
          /\ \A k \in Names \ {n} : looked'[k] = looked[k]
      BY <1>4, <3>1
    <3>3. ASSUME NEW k \in scan.members, Looked(k)', Legible(k)' PROVE \E d \in scan.disks : d.name = k
      <4>1. CASE k = n
        BY <1>4, <3>2, <3>3, <4>1 DEF Legible, Readable
      <4>2. CASE k # n
        BY <1>1, <2>1, <3>2, <3>3, <4>2 DEF MapIInv, Looking, Looked, Legible, ScanIInv, ScanTyped, ScanRecord
      <4> QED
        BY <4>1, <4>2
    <3>4. ASSUME NEW d \in scan.disks, Looked(d.name)' PROVE Same(d, looked')
      <4>1. CASE d.name = n
        <5>1. Readable(d.name) /\ Identity(read_one(d.name)) = Identity(d)
          BY <1>4, <4>1
        <5>2. Same(d, bus)
          BY <5>1, ReadHere
        <5> QED
          BY <3>2, <4>1, <5>2 DEF Same
      <4>2. CASE d.name # n
        <5>1. Same(d, looked)
          BY <1>1, <2>1, <3>4, <4>2 DEF MapIInv, Looking, Looked
        <5> QED
          BY <3>1, <3>2, <4>2, <5>1 DEF Same
      <4> QED
        BY <4>1, <4>2
    <3> QED
      BY <2>1, <3>2, <3>3, <3>4 DEF Looking, Same
  <2>5. Finish'
    BY <2>1 DEF Finish
  <2> QED
    BY <2>3, <2>4, <2>5 DEF MapIInv
<1> QED
  BY <1>2, <1>3, <1>4

LEMMA MapDone ==
    ASSUME ScanIInv, MapIInv, ScanDone
    PROVE  MapIInv'
<1>1. scan.pc = "verify" /\ scan.todo = {} /\ UNCHANGED <<world, then, looked>>
  BY DEF ScanDone
<1>2. CASE ~(SameMembers /\ Coalescible)
  BY <1>1, <1>2, MapFail DEF ScanDone
<1>3. CASE SameMembers /\ Coalescible
  <2> DEFINE R == Resolved(Coalesced)
  <2>1. scan' = [scan EXCEPT !.pc = "done", !.report = R]
    BY <1>3 DEF ScanDone
  <2> HIDE DEF R
  <2>2. /\ scan'.pc = "done" /\ scan'.disks = scan.disks /\ scan'.auto = scan.auto /\ scan'.members = scan.members
        /\ scan'.todo = {} /\ scan'.report = R
    BY <1>1, <2>1 DEF ScanIInv, ScanTyped, ScanRecord
  <2>3. \A e \in scan.disks : \E x \in scan.disks :
            e = x \/ (e = Unmapped(x) /\ (cal = {} /\ Sure => \A b : ~Wired(model, routing, x.place, b)))
    OBVIOUS
  <2>4. Fitting' /\ Placing'
    BY <1>1, <2>2, <2>3, Forgets
  <2>5. UNCHANGED <<bus, looked, cal, model>>
    BY <1>1 DEF world
  <2>6. Looking'
    BY <1>1, <2>2, <2>5 DEF MapIInv, Looking, Looked, Legible, Same
  <2>7. Finish'
    <3>1. Present(bus') = scan'.members
      BY <1>3, <2>2, <2>5 DEF SameMembers, Present
    <3>2. Coalescible'
      BY <1>3, <2>2 DEF Coalescible, Group
    <3>3. Coalesced' = Coalesced
      BY <2>2 DEF Coalesced, Group
    <3>4. Resolved(Coalesced)' = Resolved(Coalesced)
      BY <2>5, <3>3 DEF Resolved, InConflict, GtAmbiguous
    <3> QED
      BY <2>2, <3>1, <3>2, <3>4 DEF Finish, R
  <2> QED
    BY <2>4, <2>6, <2>7 DEF MapIInv
<1> QED
  BY <1>2, <1>3

LEMMA MapNext == ScanIInv /\ MapIInv /\ [Next]_cliVars => MapIInv'
<1> SUFFICES ASSUME ScanIInv, MapIInv, [Next]_cliVars PROVE MapIInv'
  OBVIOUS
<1>1. CASE Scan
  BY <1>1, MapBegin, MapEntry, MapEnumerated, MapRecheck, MapControllers, MapVerify, MapDone DEF Scan, ScanStep
<1>2. CASE Bus
  BY <1>2, MapHotPlug DEF Bus
<1>3. CASE ScanFailed \/ List \/ Locate \/ LedCommand \/ Light \/ LightsAround \/ Finished \/ UNCHANGED cliVars
  <2>1. UNCHANGED scanVars
    BY <1>3, Zenon DEF ScanFailed, List, Locate, LedCommand, Light, LightsAround, Finished, cliVars
  <2> QED
    BY <2>1, MapFrame
<1> QED
  BY <1>1, <1>2, <1>3 DEF Next, CommandStep

LEMMA Mapping == Spec => [](ScanIInv /\ MapIInv)
  BY ScanStarts, ScanNext, MapStarts, MapNext, PTL DEF Spec

-----------------------------------------------------------------------------
(* The report: what the conflicts leave.                                   *)

\* What the report takes from a disk.
LEMMA EntryParts ==
    ASSUME ScanIInv, NEW d \in scan.disks
    PROVE  /\ EntryOf(d) \in Entry /\ EntryOf(d) \in Coalesced
           /\ EntryOf(d).names = {e.name : e \in Group(d)} /\ d.name \in EntryOf(d).names
           /\ EntryOf(d).serial = d.serial /\ EntryOf(d).place = d.place /\ EntryOf(d).iface = d.iface
           /\ EntryOf(d).slot = d.slot /\ EntryOf(d).led = d.led
<1>1. d \in DiskRecord /\ d \in Group(d) /\ \A e \in Group(d) : e.name \in Names
  BY DEF Group, ScanIInv, ScanTyped, ScanRecord, DiskRecord
<1>2. {e.name : e \in Group(d)} \subseteq Names /\ d.name \in {e.name : e \in Group(d)}
  BY <1>1
<1>3. EntryOf(d) \in Coalesced
  BY Zenon DEF Coalesced, EntryOf
<1> QED
  BY <1>1, <1>2, <1>3 DEF EntryOf, Entry, DiskRecord

\* Every entry of the report comes from a disk.
LEMMA CoalescedIs == \A c \in Coalesced : \E d \in scan.disks : c = EntryOf(d)
  BY DEF Coalesced, EntryOf

LEMMA UnmappedGives ==
    ASSUME NEW e \in Entry
    PROVE  Unmapped(e).led = 0 /\ Unmapped(e).slot = NoSlot
<1>1. ASSUME NEW s, NEW l, NEW x PROVE Put(e, s, l, x).led = l /\ Put(e, s, l, x).slot = s
  BY DEF Put, Entry
<1>2. Unmapped(e) = Put(e, NoSlot, 0, "unknown")
  BY Zenon DEF Unmapped, Put
<1> QED
  BY <1>1, <1>2

\* An entry of the report is what was read, or has lost its slot to a conflict.
LEMMA ReportIs ==
    ASSUME ScanIInv, MapIInv, scan.pc = "done"
    PROVE  /\ \A e \in scan.report : e.led # 0 => e \in Coalesced /\ ~InConflict(e, Coalesced)
           /\ \A c \in Coalesced : ~InConflict(c, Coalesced) => c \in scan.report
<1>1. scan.report = Resolved(Coalesced)
  BY DEF MapIInv, Finish
<1>2. ASSUME NEW e \in scan.report, e.led # 0 PROVE e \in Coalesced /\ ~InConflict(e, Coalesced)
  <2>1. PICK c \in Coalesced : e = IF InConflict(c, Coalesced) THEN Unmapped(c) ELSE c
    BY <1>1, <1>2, Zenon DEF Resolved
  <2>2. c \in Entry
    BY CoalescedIs, EntryParts
  <2>3. Unmapped(c).led = 0
    BY <2>2, UnmappedGives
  <2> QED
    BY <1>2, <2>1, <2>3, Zenon
<1>3. ASSUME NEW c \in Coalesced, ~InConflict(c, Coalesced) PROVE c \in scan.report
  BY <1>1, <1>3, Zenon DEF Resolved
<1> QED
  BY <1>2, <1>3

\* A disk that could be read when its name was last looked at was read before, where it
\* was then.
LEMMA InspectedRead ==
    ASSUME ScanIInv, MapIInv, scan.pc = "done", NEW n \in Inspected
    PROVE  \E y \in scan.disks : y.name = n /\ y.place = LastLook(n).place /\ y.serial = LastLook(n).serial
<1>1. n \in Names /\ LastLook(n) # Absent /\ LastLook(n).ready
  BY DEF Inspected
<1>2. n \in scan.members
  BY <1>1 DEF LastLook, MapIInv, Finish, Present
<1>3. Looked(n) /\ LastLook(n) = looked[n]
  BY <1>2 DEF Looked, LastLook
<1>4. PICK y \in scan.disks : y.name = n
  BY <1>1, <1>2, <1>3 DEF MapIInv, Looking, Legible
<1>5. Same(y, looked)
  BY <1>3, <1>4 DEF MapIInv, Looking
<1> QED
  BY <1>3, <1>4, <1>5 DEF Same

\* A disk loses its light to any other that is wired to the same bay: by its place where
\* a bay has one connector, by the light where the other is mapped for certain, and else
\* by the unknown routing.
LEMMA NoNeighbour ==
    ASSUME ScanIInv, MapIInv, cal = {}, NEW x \in scan.disks, NEW y \in scan.disks, x.led # 0,
           Wired(model, routing, y.place, x.led), EntryOf(y) # EntryOf(x)
    PROVE  InConflict(EntryOf(x), Coalesced)
<1> DEFINE c == EntryOf(x)
           d == EntryOf(y)
<1>1. /\ c.place = x.place /\ c.slot = x.slot /\ c.led = x.led /\ c.iface = x.iface
      /\ d.place = y.place /\ d.slot = y.slot /\ d.led = y.led /\ d.iface = y.iface
      /\ c \in Coalesced /\ d \in Coalesced /\ d # c
  BY EntryParts
<1>2. Bayed(x) /\ Bayed(y) /\ (Sure => SureDisk(y)) /\ model \in Models /\ x.place \in Place /\ y.place \in Place
  BY DEF MapIInv, Placing, ScanIInv, ScanTyped, Machines, ScanRecord, DiskRecord
<1> HIDE DEF c, d
<1>3. Wired(model, routing, x.place, x.led)
  BY <1>2 DEF Bayed
<1>4. c.place = d.place \/ d.led = c.led \/ (GtAmbiguous(Coalesced) /\ c.iface = "u2") => InConflict(c, Coalesced)
  BY <1>1, Zenon DEF InConflict
<1>5. CASE Is4800GT(model)
  BY <1>1, <1>2, <1>4, <1>5 DEF Sure, SureDisk, c
<1>6. CASE Is2800GT(model)
  <2>1. ~RevisionKnown(model)
    BY <1>6, ModelFlags
  <2>2. x.iface = "u2" /\ x.place.iface = "nvme"
    BY <1>2, <2>1 DEF Bayed
  <2>3. CASE y.place.iface = "nvme"
    BY <1>1, <1>2, <1>3, <1>4, <1>6, <2>2, <2>3, Wiring2800GT DEF c
  <2>4. CASE y.place.iface = "sata"
    <3>1. d.slot = NoSlot /\ d.iface = "sata"
      BY <1>1, <1>2, <2>1, <2>4 DEF Bayed
    <3>2. GtAmbiguous(Coalesced)
      BY <1>1, <2>1, <3>1 DEF GtAmbiguous
    <3> QED
      BY <1>1, <1>4, <2>2, <3>2 DEF c
  <2> QED
    BY <1>2, <2>3, <2>4, PlaceParts
<1>7. CASE ~Is4800GT(model) /\ ~Is2800GT(model)
  <2>1. Apart(model, routing)
    BY <1>2, <1>7, Wirings
  <2>2. x.place = y.place
    BY <1>2, <1>3, <2>1 DEF Apart
  <2> QED
    BY <1>1, <1>4, <2>2 DEF c
<1> QED
  BY <1>5, <1>6, <1>7

\* What the invariant says of the lights given away.
LEMMA OwnBay == ScanIInv /\ MapIInv => LedIsOwnBay
<1> SUFFICES ASSUME ScanIInv, MapIInv, scan.pc = "done", NEW d \in scan.report, d.led # 0
             PROVE  /\ cal = {} => Bay(model, routing, d.place) = d.led
                    /\ cal = {} => \A n \in Inspected \ d.names : Bay(model, routing, LastLook(n).place) # d.led
                    /\ \A e \in scan.report \ {d} : e.led # d.led
  BY DEF LedIsOwnBay
<1>1. d \in Coalesced /\ ~InConflict(d, Coalesced)
  BY ReportIs
<1>2. PICK x \in scan.disks : d = EntryOf(x)
  BY <1>1, CoalescedIs
<1>3. d.place = x.place /\ d.led = x.led
  BY <1>2, EntryParts
<1>4. x.place \in Place /\ model \in Models
  BY DEF ScanIInv, ScanTyped, Machines, ScanRecord, DiskRecord
<1>5. cal = {} => Bay(model, routing, d.place) = d.led
  <2>1. cal = {} => Wired(model, routing, x.place, x.led)
    BY <1>3 DEF MapIInv, Placing, Bayed
  <2> QED
    BY <1>3, <1>4, <2>1, BayIs
<1>6. ASSUME cal = {}, NEW n \in Inspected \ d.names PROVE Bay(model, routing, LastLook(n).place) # d.led
  <2>1. PICK y \in scan.disks : y.name = n /\ y.place = LastLook(n).place
    BY <1>6, InspectedRead
  <2>2. y.place \in Place
    BY DEF ScanIInv, ScanTyped, ScanRecord, DiskRecord
  <2>3. EntryOf(y) # EntryOf(x)
    BY <1>2, <1>6, <2>1, EntryParts
  <2>4. ~Wired(model, routing, y.place, x.led)
    BY <1>1, <1>2, <1>3, <1>6, <2>3, NoNeighbour
  <2> QED
    BY <1>3, <1>4, <2>1, <2>2, <2>4, BayIs
<1>7. ASSUME NEW e \in scan.report \ {d}, e.led = d.led PROVE FALSE
  <2>1. e \in Coalesced
    BY <1>7, ReportIs
  <2> QED
    BY <1>1, <1>7, <2>1 DEF InConflict
<1> QED
  BY <1>5, <1>6, <1>7

\* A light never stands for another disk's bay (apply_firmware_layout and the conflicts,
\* disk.c:1283-1381 and 1646-1705): for every model, with a card or without, on either
\* routing, whatever is plugged in or pulled while the scan runs, a disk that is given a
\* light sits in that light's bay, and no other disk that could be read when its name was
\* last looked at does. For the DXP4800, DXP6800 Pro and DXP8800 Plus the bay is the one
\* users recorded (`profiles`, disk.c:33-52); for the others the firmware's own wiring.
THEOREM OwnBayAlways == Spec => []LedIsOwnBay
  BY Mapping, OwnBay, PTL

\* Where every bay is known, a disk alone in its bay meets no conflict.
LEMMA MapUseful == ScanIInv /\ MapIInv => UsefulMap
<1> DEFINE bay(n) == Bay(model, routing, bus[n].place)
<1> SUFFICES ASSUME ScanIInv, MapIInv, scan.pc = "done", looked = bus, cal = {},
                    ~(Card.ctrls \subseteq machine.ctrls), RevisionKnown(model),
                    NEW n \in Present(bus), bus[n].ready, bay(n) # 0,
                    \A o \in Present(bus) \ {n} : bay(o) # bay(n)
             PROVE  \E d \in scan.report : n \in d.names /\ d.led = bay(n)
  BY DEF UsefulMap
<1>1. model \in Models /\ scan.disks \subseteq DiskRecord
  BY DEF ScanIInv, ScanTyped, Machines, ScanRecord
<1>2. Sure
  <2>1. machine.ctrls = Controllers(model)
    BY DEF MapIInv, Fitting, Built
  <2> QED
    BY <2>1 DEF Sure
\* Every disk that was read is mapped to its bay.
<1>3. ASSUME NEW z \in scan.disks
      PROVE  /\ z.name \in Present(bus) /\ z.place = bus[z.name].place /\ z.place \in Place
             /\ Bayed(z) /\ SureDisk(z)
  <2>1. z.name \in Present(bus) /\ Same(z, looked) /\ z.place \in Place
    BY <1>1 DEF ScanIInv, ScanTyped, MapIInv, Looking, Looked, Finish, DiskRecord
  <2> QED
    BY <1>2, <2>1 DEF Same, MapIInv, Placing
<1>4. n \in Inspected /\ LastLook(n) = bus[n]
  BY DEF Inspected, LastLook, Present
<1>5. PICK y \in scan.disks : y.name = n /\ y.place = bus[n].place
  BY <1>4, InspectedRead
<1>6. y.led = bay(n)
  <2>1. Wired(model, routing, y.place, bay(n))
    BY <1>1, <1>3, <1>5, BayIs
  <2> QED
    BY <1>3, <2>1 DEF SureDisk
<1> HIDE DEF bay
<1>7. /\ EntryOf(y) \in Coalesced /\ n \in EntryOf(y).names /\ EntryOf(y).led = bay(n)
      /\ EntryOf(y).place = y.place /\ EntryOf(y).slot = y.slot
  BY <1>5, <1>6, EntryParts
<1>8. ASSUME NEW e \in Coalesced, e # EntryOf(y)
      PROVE  e.place # y.place /\ e.slot # y.slot /\ e.led # y.led
  <2>1. PICK z \in scan.disks : e = EntryOf(z)
    BY CoalescedIs
  <2>2. e.place = z.place /\ e.slot = z.slot /\ e.led = z.led
    BY <2>1, EntryParts
  <2>3. z.name # n
    BY <1>5, <1>8, <2>1 DEF ScanIInv, ScanTyped
  <2>4. bay(z.name) # bay(n)
    BY <1>3, <2>3
  <2>5. z.place # y.place
    BY <1>3, <1>5, <2>4 DEF bay
  <2>6. z.led # y.led
    <3>1. SUFFICES ASSUME z.led = y.led PROVE FALSE
      OBVIOUS
    <3>2. Wired(model, routing, z.place, bay(n))
      BY <1>3, <1>6, <3>1 DEF Bayed
    <3> QED
      BY <1>1, <1>3, <2>4, <3>2, BayIs DEF bay
  <2>7. z.slot # y.slot
    BY <1>3, <1>6, <2>6, SlotParts DEF Bayed
  <2> QED
    BY <2>2, <2>5, <2>6, <2>7
<1>9. ~InConflict(EntryOf(y), Coalesced)
  <2>1. ~GtAmbiguous(Coalesced)
    BY DEF GtAmbiguous
  <2> QED
    BY <1>6, <1>7, <1>8, <2>1 DEF InConflict
<1>10. EntryOf(y) \in scan.report
  BY <1>7, <1>9, ReportIs
<1> QED
  BY <1>7, <1>10

\* The caution never refuses more than it must (firmware_ata_index and the rules,
\* disk.c:1283-1381): on every model whose wiring is known, without a foreign controller and
\* nothing changed since it was last looked at, each ready disk that is alone in its bay gets its bay's light.
THEOREM MapAlwaysUseful == Spec => []UsefulMap
  BY Mapping, MapUseful, PTL

\* A `disk locate` that flashes a light has chosen it from a finished scan.
Chosen ==
    request.kind = "locate" /\ session.kind = "identify" =>
        scan.pc = "done" /\ \E d \in resolve(request.selector) : session.targets = <<d.led>>

\* A session keeps what it was started for.
Keeping == session'.kind = session.kind /\ session'.targets = session.targets

\* How each step leaves it so.
LEMMA QuitKeeping ==
    ASSUME session \in Session, NEW r, Quit(r)
    PROVE  Keeping
  BY DEF Quit, Session, Keeping

LEMMA RestoreKeeping ==
    ASSUME session \in Session, NEW e, RestoreNow(e)
    PROVE  Keeping
<1> DEFINE p == RestorePatch
           w == [fields |-> Fields, value |-> session.saved]
           c == SysfsRestore
<1>1. \/ session' = [session EXCEPT !.pc = "begin", !.patch = p, !.why = "restore", !.effect = e]
      \/ session' = [session EXCEPT !.pc = "write", !.patch = w, !.why = "restore", !.cmds = c, !.sent = {}, !.effect = e]
  BY DEF RestoreNow
<1> HIDE DEF p, w, c
<1>2. CASE session' = [session EXCEPT !.pc = "begin", !.patch = p, !.why = "restore", !.effect = e]
  BY <1>2 DEF Session, Keeping
<1>3. CASE session' = [session EXCEPT !.pc = "write", !.patch = w, !.why = "restore", !.cmds = c, !.sent = {}, !.effect = e]
  BY <1>3 DEF Session, Keeping
<1> QED
  BY <1>1, <1>2, <1>3

LEMMA ApplyKeeping ==
    ASSUME session \in Session, NEW p, NEW why, Apply(p, why)
    PROVE  Keeping
  BY DEF Apply, Session, Keeping

LEMMA NextOpKeeping ==
    ASSUME session \in Session, NextOp
    PROVE  Keeping
<1> DEFINE k == session.done + (IF session.patch.fields = {} THEN 0 ELSE 1)
           p == session.ops[session.at + 1].patch
           n == session.at + 1
<1>1. \/ session' = [session EXCEPT !.pc = "done", !.result = "ok", !.done = k]
      \/ session' = [session EXCEPT !.pc = "begin", !.at = n, !.done = k, !.patch = p]
  BY Zenon DEF NextOp
<1> HIDE DEF k, p, n
<1> QED
  BY <1>1 DEF Session, Keeping

LEMMA FailedKeeping ==
    ASSUME session \in Session, LedIInv, session.pc \in After, Failed
    PROVE  Keeping
<1>1. session.why = "set" \/ session.why = "effect" \/ session.why \in {"restore", "restore_mode"}
  BY ReasonKnown
<1>2. Quit("failed") \/ RestoreNow("failed") \/ Quit("restore_failed")
  BY <1>1 DEF Failed
<1> QED
  BY <1>2, QuitKeeping, RestoreKeeping

LEMMA AppliedKeeping ==
    ASSUME session \in Session, NEW lamp, Applied(lamp)
    PROVE  Keeping
<1>1. NextOp \/ session' = [session EXCEPT !.pc = "wait"] \/ Apply(ModePatch, "restore_mode") \/ Restored(lamp)
  BY Zenon DEF Applied
<1>2. Restored(lamp) => Keeping
  <2>1. Restored(lamp) => Quit(Outcome) \/ Quit("restore_failed")
    BY DEF Restored
  <2> QED
    BY <2>1, QuitKeeping
<1>3. session' = [session EXCEPT !.pc = "wait"] => Keeping
  BY DEF Session, Keeping
<1> QED
  BY <1>1, <1>2, <1>3, NextOpKeeping, ApplyKeeping

LEMMA StepKeeping == LedIInv /\ LedStep => Keeping
<1> SUFFICES ASSUME LedIInv, LedStep PROVE Keeping
  OBVIOUS
<1>1. session \in Session
  BY DEF LedIInv, LedTyped
<1>2. CASE LedOpen
  <2>1. session' = [session EXCEPT !.pc = "read"] \/ Quit("refused")
    BY <1>2 DEF LedOpen
  <2> QED
    BY <1>1, <2>1, QuitKeeping DEF Session, Keeping
<1>3. CASE LedRead
  <2> DEFINE p == session.ops[1].patch
             k == session.at + 1
  <2>1. \/ Quit("refused")
        \/ session' = [session EXCEPT !.at = k]
        \/ session' = [session EXCEPT !.pc = "save", !.at = 1]
        \/ session' = [session EXCEPT !.pc = "begin", !.at = 1, !.why = "set", !.patch = p]
    BY <1>3, Zenon DEF LedRead
  <2> HIDE DEF p, k
  <2> QED
    BY <1>1, <2>1, QuitKeeping DEF Session, Keeping
<1>4. CASE LedSave
  <2> DEFINE p == EffectPatch(0)
             s == lamps[Target]
  <2>1. \/ Quit("refused")
        \/ session' = [session EXCEPT !.pc = "begin", !.saved = s, !.patch = p, !.why = "effect"]
    BY <1>4 DEF LedSave
  <2> HIDE DEF p, s
  <2> QED
    BY <1>1, <2>1, QuitKeeping DEF Session, Keeping
<1>5. CASE LedBegin
  <2> DEFINE c == Commands(session.patch, lamps[Target])
  <2>1. \/ Failed \/ NextOp
        \/ session' = [session EXCEPT !.pc = "write", !.sent = {}, !.cmds = c]
    BY <1>5 DEF LedBegin
  <2>2. session.pc \in After
    BY <1>5 DEF LedBegin, After
  <2> HIDE DEF c
  <2> QED
    BY <1>1, <2>1, <2>2, FailedKeeping, NextOpKeeping DEF Session, Keeping
<1>6. CASE LedWrite
  <2> DEFINE c == Tail(session.cmds)
             s == Compared(Head(session.cmds))
  <2>1. \/ Failed
        \/ session' = [session EXCEPT !.pc = "check", !.cmds = c, !.sent = s]
        \/ session' = [session EXCEPT !.cmds = c]
    BY <1>6, Zenon DEF LedWrite
  <2>2. session.pc \in After
    BY <1>6 DEF LedWrite, After
  <2> HIDE DEF c, s
  <2> QED
    BY <1>1, <2>1, <2>2, FailedKeeping DEF Session, Keeping
<1>7. CASE LedCheck
  <2>1. Failed \/ Applied(lamps[Target]) \/ session' = [session EXCEPT !.pc = "write"]
    BY <1>7, Zenon DEF LedCheck
  <2>2. session.pc \in After
    BY <1>7 DEF LedCheck, After
  <2> QED
    BY <1>1, <2>1, <2>2, FailedKeeping, AppliedKeeping DEF Session, Keeping
<1>8. CASE LedSysfsCheck
  <2>1. Failed \/ Applied(lamps[Target])
    BY <1>8, Zenon DEF LedSysfsCheck
  <2>2. session.pc \in After
    BY <1>8 DEF LedSysfsCheck, After
  <2> QED
    BY <1>1, <2>1, <2>2, FailedKeeping, AppliedKeeping
<1>9. CASE LedWait
  <2> DEFINE p == EffectPatch(session.tick + 1)
             k == session.tick + 1
  <2>1. RestoreNow("ok") \/ session' = [session EXCEPT !.pc = "begin", !.tick = k, !.patch = p]
    BY <1>9, Zenon DEF LedWait
  <2> HIDE DEF p, k
  <2> QED
    BY <1>1, <2>1, RestoreKeeping DEF Session, Keeping
<1> QED
  BY <1>2, <1>3, <1>4, <1>5, <1>6, <1>7, <1>8, <1>9 DEF LedStep

LEMMA ChosenStays ==
    ASSUME Chosen, UNCHANGED <<scan, request>>, Keeping
    PROVE  Chosen'
<1>1. resolve(request.selector)' = resolve(request.selector)
  BY DEF resolve, Selects
<1> QED
  BY <1>1 DEF Chosen, Keeping

LEMMA ChosenInit == Init => Chosen
  BY DEF Init, LedInit, Idle, Chosen

LEMMA ChosenNext == LedIInv /\ Chosen /\ [Next]_cliVars => Chosen'
<1> SUFFICES ASSUME LedIInv, Chosen, [Next]_cliVars PROVE Chosen'
  OBVIOUS
<1>0. session \in Session /\ (session.pc = "idle" => session.kind = "none")
  BY DEF LedIInv, LedTyped, Positions
<1>1. CASE Scan
  <2>1. scan.pc # "done"
    BY <1>1, Zenon DEF Scan, ScanStep, ScanBegin, ScanEntry, ScanEnumerated, ScanRecheck, ScanControllers, ScanVerify, ScanDone
  <2>2. UNCHANGED <<session, request>>
    BY <1>1 DEF Scan, ledVars
  <2> QED
    BY <2>1, <2>2 DEF Chosen
<1>2. CASE Bus
  <2>1. UNCHANGED <<session, request, scan>>
    BY <1>2 DEF Bus, ledVars, HotPlug, Pull, Plug, BecomesReady, CardAppears, Move
  <2> QED
    BY <2>1, ChosenStays DEF Keeping
<1>3. CASE ScanFailed \/ List
  <2>1. UNCHANGED <<scan, request>> /\ (Gone("refused") \/ Gone("ok"))
    BY <1>3 DEF ScanFailed, List, scanVars
  <2>2. Keeping
    BY <1>0, <2>1, QuitKeeping DEF Gone
  <2> QED
    BY <2>1, <2>2, ChosenStays
<1>4. CASE Locate
  <2>1. scan.pc = "done" /\ UNCHANGED <<scan, request>> /\ session.pc = "idle"
    BY <1>4, Zenon DEF Locate, scanVars, led_execute, Gone, LedStart
  <2>2. CASE resolve(request.selector) = {}
    <3>1. Keeping
      BY <1>0, <1>4, <2>2, QuitKeeping DEF Locate, Gone
    <3> QED
      BY <2>1, <3>1, ChosenStays
  <2>3. CASE resolve(request.selector) # {}
    <3>1. PICK d \in resolve(request.selector) : led_execute("identify", <<d.led>>)
      BY <1>4, <2>3 DEF Locate
    <3>2. \/ Gone("refused") \/ Gone("ok")
          \/ \E ops : LedStart("identify", <<d.led>>, ops)
      BY <3>1, Zenon DEF led_execute
    <3>3. CASE Gone("refused") \/ Gone("ok")
      <4>1. Keeping
        BY <1>0, <3>3, QuitKeeping DEF Gone
      <4> QED
        BY <2>1, <4>1, ChosenStays
    <3>4. CASE \E ops : LedStart("identify", <<d.led>>, ops)
      <4>1. PICK ops : LedStart("identify", <<d.led>>, ops)
        BY <3>4
      <4> DEFINE t == <<d.led>>
      <4>2. session' = [session EXCEPT !.pc = "open", !.kind = "identify", !.targets = t, !.ops = ops]
        BY <4>1 DEF LedStart
      <4> HIDE DEF t
      <4>3. session'.targets = t
        BY <1>0, <4>2 DEF Session
      <4>4. resolve(request.selector)' = resolve(request.selector)
        BY <2>1 DEF resolve, Selects
      <4> QED
        BY <2>1, <4>3, <4>4 DEF Chosen, t
    <3> QED
      BY <3>2, <3>3, <3>4
  <2> QED
    BY <2>2, <2>3
<1>5. CASE LedCommand
  <2>1. request.kind # "locate" /\ request' = request
    BY <1>5 DEF LedCommand
  <2> QED
    BY <2>1 DEF Chosen
<1>6. CASE Light
  <2>1. UNCHANGED <<scan, request>> /\ LedStep
    BY <1>6 DEF Light, scanVars
  <2> QED
    BY <2>1, StepKeeping, ChosenStays
<1>7. CASE LightsAround \/ Finished \/ UNCHANGED cliVars
  <2>1. UNCHANGED <<scan, request, session>>
    BY <1>7 DEF LightsAround, Finished, cliVars, scanVars, ledVars, LedSignal, OwnerChanges, OwnerWrites
  <2> QED
    BY <2>1, ChosenStays DEF Keeping
<1> QED
  BY <1>1, <1>2, <1>3, <1>4, <1>5, <1>6, <1>7 DEF Next, CommandStep

\* The namespaces of one controller know each other.
LEMMA GroupNames ==
    ASSUME ScanIInv, MapIInv, NEW x \in scan.disks, NEW m \in EntryOf(x).names, m # x.name
    PROVE  m \in Namespaces(x.name)
<1>1. PICK e \in Group(x) : e.name = m
  BY EntryParts
<1>2. e \in scan.disks /\ e.controller # <<>> /\ e.controller = x.controller
  BY <1>1 DEF Group
<1>3. /\ e.name \in NvmeNames /\ e.controller = <<e.place.at, Namespaces(e.name)>>
      /\ x.controller = <<x.place.at, Namespaces(x.name)>>
  BY <1>2 DEF MapIInv, Fitting
<1>4. Namespaces(m) = Namespaces(x.name)
  <2>1. \A a, b : <<a, b>>[2] = b
    OBVIOUS
  <2>2. e.controller[2] = Namespaces(e.name) /\ x.controller[2] = Namespaces(x.name)
    BY <1>3, <2>1
  <2> QED
    BY <1>1, <1>2, <2>2
<1>5. m \in Namespaces(m)
  BY <1>1, <1>3, DiskAssumption DEF Namespaces
<1> QED
  BY <1>4, <1>5

\* The chosen disk is the only one that answers.
LEMMA RightBay == ScanIInv /\ MapIInv /\ LedIInv /\ Chosen => LocateRightBay
<1> SUFFICES ASSUME ScanIInv, MapIInv, LedIInv, Chosen, request.kind = "locate", session.kind = "identify", cal = {}
             PROVE  \E n \in Present(then) :
                        /\ Answers(n, then[n]) /\ Bay(model, routing, then[n].place) = session.targets[1]
                        /\ \A m \in Inspected \ ({n} \cup Namespaces(n)) : ~Answers(m, LastLook(m))
  BY DEF LocateRightBay
<1> DEFINE s == request.selector
<1>1. PICK d \in resolve(s) : session.targets = <<d.led>>
  BY DEF Chosen
<1>2. scan.pc = "done" /\ LedIsOwnBay /\ Snapshot
  BY OwnBay, ScanSays DEF Chosen
<1>3. s.by \in {"name", "serial", "slot", "nvme"}
  BY DEF LedIInv, LedTyped, Askable
<1> HIDE DEF s
<1>4. /\ d \in scan.report /\ Selects(s, d) /\ d.led # 0
      /\ \A e \in scan.report : Selects(s, e) => e = d
  BY <1>1 DEF resolve
<1>5. d \in Coalesced
  BY <1>2, <1>4, ReportIs
<1>6. PICK x \in scan.disks : d = EntryOf(x)
  BY <1>5, CoalescedIs
<1>7. x.name \in d.names /\ d.place = x.place /\ d.slot = x.slot /\ d.led = x.led /\ d.serial = x.serial /\ d \in Entry
  BY <1>6, EntryParts
<1>8. d.slot = Ata(d.led)
  BY <1>4, <1>7 DEF MapIInv, Placing, Bayed
<1>9. ASSUME NEW n \in d.names
      PROVE  /\ n \in Present(then) /\ then[n].serial = d.serial
             /\ Bay(model, routing, then[n].place) = d.led
  <2>1. n \in Names
    BY <1>7 DEF Entry
  <2> QED
    BY <1>2, <1>4, <2>1 DEF Snapshot, LedIsOwnBay, Present
<1>10. session.targets[1] = d.led
  BY <1>1
<1>11. CASE s.by = "name"
  <2>1. s.value \in d.names
    BY <1>4, <1>11 DEF Selects
  <2>2. \A n, b : Answers(n, b) <=> n = s.value
    BY <1>11 DEF Answers, s
  <2> QED
    BY <1>9, <1>10, <2>1, <2>2
<1>12. CASE s.by = "serial"
  <2>1. s.value = d.serial
    BY <1>4, <1>12 DEF Selects
  <2>2. \A n, b : Answers(n, b) <=> b.serial = s.value
    BY <1>12 DEF Answers, s
  <2>3. ASSUME NEW m \in Inspected, LastLook(m).serial = d.serial, m # x.name PROVE m \in Namespaces(x.name)
    <3>1. PICK y \in scan.disks : y.name = m /\ y.serial = d.serial
      BY <1>2, <2>3, InspectedRead
    <3>2. EntryOf(y) \in Coalesced /\ EntryOf(y) \in Entry /\ EntryOf(y).serial = d.serial /\ m \in EntryOf(y).names
      BY <3>1, EntryParts
    <3>3. EntryOf(y) \in scan.report \/ Unmapped(EntryOf(y)) \in scan.report
      <4>1. scan.report = Resolved(Coalesced)
        BY <1>2 DEF MapIInv, Finish
      <4> QED
        BY <3>2, <4>1, Zenon DEF Resolved
    <3>4. Unmapped(EntryOf(y)).serial = d.serial /\ Unmapped(EntryOf(y)).led = 0
      BY <3>2, UnmappedEntry, UnmappedGives
    <3>5. \A e : Selects(s, e) <=> s.value = e.serial
      BY <1>12 DEF Selects
    <3>6. EntryOf(y) = d
      BY <1>4, <2>1, <3>2, <3>3, <3>4, <3>5
    <3> QED
      BY <1>6, <2>3, <3>2, <3>6, GroupNames
  <2> QED
    BY <1>7, <1>9, <1>10, <2>1, <2>2, <2>3
<1>13. CASE s.by = "slot"
  <2>1. s.value = d.led
    <3>1. d.slot = Ata(s.value)
      BY <1>4, <1>13 DEF Selects
    <3>2. \A a, b : Ata(a) = Ata(b) => a = b
      BY SlotParts
    <3> QED
      BY <1>8, <3>1, <3>2, Zenon
  <2>2. \A n, b : Answers(n, b) <=> Bay(model, routing, b.place) = s.value
    BY <1>13 DEF Answers, s
  <2>3. ASSUME NEW m \in Inspected, Bay(model, routing, LastLook(m).place) = d.led, m # x.name
        PROVE  m \in Namespaces(x.name)
    <3>1. m \in d.names
      BY <1>2, <1>4, <2>3 DEF LedIsOwnBay
    <3> QED
      BY <1>6, <2>3, <3>1, GroupNames
  <2> QED
    BY <1>7, <1>9, <1>10, <2>1, <2>2, <2>3
<1>14. s.by # "nvme"
  <2>1. SUFFICES ASSUME s.by = "nvme" PROVE FALSE
    OBVIOUS
  <2>2. d.slot = Nvme(s.value)
    BY <1>4, <2>1 DEF Selects
  <2> QED
    BY <1>8, <2>2, SlotParts
<1> QED
  BY <1>3, <1>11, <1>12, <1>13, <1>14

\* `disk locate` flashes the bay of a disk that answers to its selector and of no other
\* (ugreenctl_disk_resolve, disk.c:92-155; hardware_cli.c:995-1005): the light chosen from
\* the finished scan is that of the bay the disk sat in when the listing ended, and no
\* other disk that could be read when its name was last looked at, but the namespaces of
\* its own drive, answers to the same name, serial or slot, for any machine, any disks and
\* any selector.
THEOREM LocatesRightBay == Spec => []LocateRightBay
<1>1. Init => LedIInv /\ Chosen
  BY LedStarts, ChosenInit
<1>2. ScanIInv /\ LedIInv /\ Chosen /\ [Next]_cliVars => LedIInv' /\ Chosen'
  BY LedNext, ChosenNext
<1> QED
  BY <1>1, <1>2, Mapping, RightBay, PTL DEF Spec
=============================================================================
