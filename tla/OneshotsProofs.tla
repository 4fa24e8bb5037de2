--------------------------- MODULE OneshotsProofs ---------------------------
(***************************************************************************)
(* The one-shot helpers, for any files, directories, sysctls, modules,     *)
(* rules and swap areas and any number of lines: the right file of each    *)
(* name is loaded once and in order, a sysctl named in full is not touched *)
(* by a pattern, and success means that all that was asked for is in       *)
(* force.                                                                  *)
(***************************************************************************)
EXTENDS Oneshots, FiniteSetTheorems, SequenceTheorems, WellFoundedInduction, TLAPS

-----------------------------------------------------------------------------
(* Lists *)

\* A set of numbers that is not empty has a least element.
LEMMA Least ==
    ASSUME NEW I \in SUBSET Nat, I # {}
    PROVE  \E m \in I : \A y \in I : m <= y
<1>1. PICK m \in I : \A y \in I : <<y, m>> \notin OpToRel(<, Nat)
  BY NatLessThanWellFounded, WFMin
<1>2. \A y \in I : ~(y < m)
  BY <1>1 DEF OpToRel
<1> QED
  BY <1>2

\* f joins the first lists of ss, one more with each argument.
Joins(f, ss, n) == f = [i \in 1..n |-> IF i = 1 THEN ss[i] ELSE f[i - 1] \o ss[i]]

\* One more list can be joined to those that are.
LEMMA JoinsMore ==
    ASSUME NEW ss, NEW n \in Nat, n >= 1, NEW f, Joins(f, ss, n)
    PROVE  \E g : Joins(g, ss, n + 1)
<1>1. PICK g : g = [i \in 1..(n + 1) |-> IF i = n + 1 THEN f[n] \o ss[n + 1] ELSE f[i]]
  OBVIOUS
<1>2. DOMAIN f = 1..n /\ \A i \in 1..n : f[i] = IF i = 1 THEN ss[i] ELSE f[i - 1] \o ss[i]
  BY DEF Joins
<1>3. ASSUME NEW i \in 1..(n + 1) PROVE g[i] = IF i = 1 THEN ss[i] ELSE g[i - 1] \o ss[i]
  <2>1. CASE i = n + 1
    <3>1. i # 1 /\ i - 1 = n /\ n \in 1..(n + 1) /\ n # n + 1
      BY <2>1
    <3>2. g[i] = f[n] \o ss[i] /\ g[i - 1] = f[n]
      BY <1>1, <2>1, <3>1
    <3>3. g[i] = g[i - 1] \o ss[i]
      BY <3>2
    <3> QED
      BY <3>1, <3>3
  <2>2. CASE i \in 1..n /\ i = 1
    <3>1. g[i] = f[i]
      BY <1>1, <2>2
    <3>2. f[i] = ss[i]
      BY <1>2, <2>2
    <3> QED
      BY <2>2, <3>1, <3>2
  <2>3. CASE i \in 1..n /\ i # 1
    <3>1. i - 1 \in 1..n /\ i - 1 # n + 1 /\ i # n + 1
      BY <2>3
    <3>2. g[i] = f[i] /\ g[i - 1] = f[i - 1]
      BY <1>1, <2>3, <3>1
    <3> QED
      BY <1>2, <2>3, <3>2
  <2> QED
    BY <2>1, <2>2, <2>3
<1>4. g = [i \in 1..(n + 1) |-> IF i = 1 THEN ss[i] ELSE g[i - 1] \o ss[i]]
  <2>1. PICK h : h = [i \in 1..(n + 1) |-> IF i = 1 THEN ss[i] ELSE g[i - 1] \o ss[i]]
    OBVIOUS
  <2>2. \A i \in 1..(n + 1) : g[i] = h[i]
    BY <1>3, <2>1
  <2>3. g = [i \in 1..(n + 1) |-> g[i]] /\ h = [i \in 1..(n + 1) |-> h[i]]
    BY <1>1, <2>1
  <2>4. g = h
    BY <2>2, <2>3
  <2> QED
    BY <2>1, <2>4
<1> QED
  BY <1>4 DEF Joins

\* Any number of lists can be joined.
LEMMA JoinsExist ==
    ASSUME NEW ss, NEW n \in Nat, n >= 1
    PROVE  \E f : Joins(f, ss, n)
<1>1. SUFFICES ASSUME ~\E f : Joins(f, ss, n) PROVE FALSE
  OBVIOUS
<1>2. PICK Bad : Bad = {k \in Nat : k >= 1 /\ ~\E f : Joins(f, ss, k)}
  OBVIOUS
<1>3. Bad \in SUBSET Nat /\ n \in Bad
  BY <1>1, <1>2
<1>4. PICK k \in Bad : \A y \in Bad : k <= y
  BY <1>3, Least
<1>5. k \in Nat /\ k >= 1 /\ ~\E f : Joins(f, ss, k)
  BY <1>2, <1>4
<1>6. CASE k = 1
  <2>1. PICK f : f = [i \in 1..1 |-> ss[i]]
    OBVIOUS
  <2>2. f = [i \in 1..1 |-> IF i = 1 THEN ss[i] ELSE f[i - 1] \o ss[i]]
    BY <2>1
  <2> QED
    BY <1>5, <1>6, <2>2 DEF Joins
<1>7. CASE k # 1
  <2>1. PICK j \in Nat : j >= 1 /\ k = j + 1
    BY <1>5, <1>7
  <2>2. j \notin Bad
    BY <1>4, <2>1
  <2>3. \E f : Joins(f, ss, j)
    BY <1>2, <2>1, <2>2
  <2>4. \E f : Joins(f, ss, j + 1)
    BY <2>1, <2>3, JoinsMore
  <2> QED
    BY <1>5, <2>1, <2>4
<1> QED
  BY <1>6, <1>7

\* What the joined lists hold.
LEMMA JoinsType ==
    ASSUME NEW S, NEW n \in Nat, NEW ss, \A i \in 1..n : ss[i] \in Seq(S),
           NEW f, Joins(f, ss, n)
    PROVE  \A i \in 1..n : f[i] \in Seq(S)
<1>1. SUFFICES ASSUME NEW j \in 1..n, f[j] \notin Seq(S) PROVE FALSE
  OBVIOUS
<1>2. PICK Bad : Bad = {k \in 1..n : f[k] \notin Seq(S)}
  OBVIOUS
<1>3. Bad \in SUBSET Nat /\ Bad # {}
  BY <1>1, <1>2
<1>4. PICK k \in Bad : \A y \in Bad : k <= y
  BY <1>3, Least
<1>5. k \in 1..n /\ f[k] \notin Seq(S)
  BY <1>2, <1>4
<1>6. f[k] = IF k = 1 THEN ss[k] ELSE f[k - 1] \o ss[k]
  BY <1>5 DEF Joins
<1>7. k # 1
  BY <1>5, <1>6
<1>8. k - 1 \in 1..n /\ ~(k <= k - 1)
  BY <1>5, <1>7
<1>9. f[k - 1] \in Seq(S) /\ ss[k] \in Seq(S)
  BY <1>2, <1>4, <1>5, <1>8
<1>10. f[k - 1] \o ss[k] \in Seq(S)
  BY <1>9, ConcatProperties
<1> QED
  BY <1>5, <1>6, <1>7, <1>10

\* Lists that are joined make a list.
LEMMA FlattenType ==
    ASSUME NEW S, NEW ss \in Seq(Seq(S))
    PROVE  FlattenSeq(ss) \in Seq(S)
<1>1. PICK n \in Nat : n = Len(ss)
  OBVIOUS
<1>2. CASE n = 0
  <2>1. ss = <<>>
    BY <1>1, <1>2, EmptySeq
  <2>2. FlattenSeq(ss) = <<>>
    BY <1>1, <1>2, <2>1 DEF FlattenSeq
  <2> QED
    BY <2>2
<1>3. CASE n # 0
  <2>1. n >= 1 /\ \A i \in 1..n : ss[i] \in Seq(S)
    BY <1>1, <1>3
  <2>2. PICK f : f = CHOOSE g : Joins(g, ss, n)
    OBVIOUS
  <2>3. Joins(f, ss, n)
    BY <2>1, <2>2, JoinsExist
  <2>4. f[n] \in Seq(S)
    BY <2>1, <2>3, JoinsType
  <2>5. FlattenSeq(ss) = f[n]
    BY <1>1, <1>3, <2>2 DEF FlattenSeq, Joins
  <2> QED
    BY <2>4, <2>5
<1> QED
  BY <1>2, <1>3

\* The names of a set in their order.
LEMMA InOrderType ==
    ASSUME NEW S
    PROVE  InOrder(S) \in Seq(Range(Names))
<1>1. PICK n \in Nat : n = Len(Names)
  BY OneshotAssumption
<1>2. Names \in [1..n -> Range(Names)]
  BY <1>1, OneshotAssumption
<1>3. PICK ss : ss = [i \in 1..n |-> IF Names[i] \in S THEN <<Names[i]>> ELSE <<>>]
  OBVIOUS
<1>4. \A i \in 1..n : ss[i] \in Seq(Range(Names))
  <2> SUFFICES ASSUME NEW i \in 1..n PROVE ss[i] \in Seq(Range(Names))
    OBVIOUS
  <2>1. PICK x \in Range(Names) : x = Names[i]
    BY <1>2
  <2>2. ss[i] = IF x \in S THEN <<x>> ELSE <<>>
    BY <1>3, <2>1
  <2> QED
    BY <2>2
<1>5. ss \in Seq(Seq(Range(Names)))
  BY <1>3, <1>4, IsASeq
<1>6. FlattenSeq(ss) \in Seq(Range(Names))
  BY <1>5, FlattenType
<1>7. InOrder(S) = FlattenSeq(ss)
  BY <1>2, <1>3 DEF InOrder
<1> QED
  BY <1>6, <1>7

\* The lists of the kernel command line name what libkmod knows.
LEMMA CmdlineType ==
    ASSUME NEW p \in Seq(Tokens)
    PROVE  Cmdline(p).load \in Seq(DOMAIN Lookup)
<1>1. PICK n \in Nat : n = Len(p)
  OBVIOUS
<1>2. p \in [1..n -> Tokens]
  BY <1>1
<1>3. PICK ss : ss = [i \in 1..n |-> IF IsLoad(p[i].key) THEN p[i].list ELSE <<>>]
  OBVIOUS
<1>4. \A i \in 1..n : ss[i] \in Seq(DOMAIN Lookup)
  <2> SUFFICES ASSUME NEW i \in 1..n PROVE ss[i] \in Seq(DOMAIN Lookup)
    OBVIOUS
  <2>1. PICK l \in Seq(DOMAIN Lookup) : l = p[i].list
    BY <1>2, OneshotAssumption
  <2>2. ss[i] = l \/ ss[i] = <<>>
    BY <1>3, <2>1
  <2> QED
    BY <2>1, <2>2, EmptySeq
<1>5. ss \in Seq(Seq(DOMAIN Lookup))
  <2>1. PICK T : T = Seq(DOMAIN Lookup)
    OBVIOUS
  <2>2. ss \in [1..n -> T]
    BY <1>3, <1>4, <2>1
  <2>3. ss \in Seq(T)
    BY <2>2
  <2> QED
    BY <2>1, <2>3
<1>6. FlattenSeq(ss) \in Seq(DOMAIN Lookup)
  BY <1>5, FlattenType
<1>7. DOMAIN p = 1..n
  BY <1>2
<1>8. Cmdline(p).load = FlattenSeq(ss)
  BY <1>3, <1>7 DEF Cmdline
<1> QED
  BY <1>6, <1>8

\* SetToSeq lists all of a finite set.
LEMMA ListsAll ==
    ASSUME NEW S, IsFiniteSet(S)
    PROVE  SetToSeq(S) \in Seq(S) /\ \A x \in S : \E i \in DOMAIN SetToSeq(S) : SetToSeq(S)[i] = x
<1>1. PICK n \in Nat : n = Cardinality(S)
  BY FS_CardinalityType
<1>2. \E f \in [1..n -> S] : IsInjective(f)
  <2>1. PICK f : f \in Bijection(1..n, S)
    BY <1>1, FS_CardinalityType DEF ExistsBijection
  <2> QED
    BY <2>1 DEF Bijection, Injection, IsInjective
<1>3. PICK f : f = SetToSeq(S)
  OBVIOUS
<1>4. f \in [1..n -> S] /\ IsInjective(f)
  BY <1>1, <1>2, <1>3 DEF SetToSeq
<1>5. f \in Injection(1..n, S)
  BY <1>4 DEF Injection
<1>6. Cardinality(1..n) = n
  BY FS_Interval
<1>7. f \in Surjection(1..n, S)
  BY <1>1, <1>5, <1>6, FS_Injection
<1>8. f \in Seq(S)
  BY <1>4, SeqDef
<1> QED
  BY <1>3, <1>4, <1>7, <1>8 DEF Surjection

-----------------------------------------------------------------------------
(* The inductive invariant *)

Files == Range(Names) \cup {sys_path}
Scanners == {"sysctl", "modules", "binfmt", "binfmt -p"}

PatternRec == [left : SUBSET Sysctls, opt : BOOLEAN, val : Values \cup {None}, again : BOOLEAN]

HistRec(c) == [tried : Seq(Files),
               want : [Items(c) -> Values \cup {None, "in", "out"}],
               own : [Items(c) -> Values \cup {None, Junk}]]

\* TypeOK, and the types that it leaves open
Control ==
    cmd \in Commands /\ pc \in Phase /\ lines \in 0..MaxLines /\ ret \in BOOLEAN
Lists ==
    /\ seen \in Seq([Range(Names) -> Kind]) /\ Len(seen) <= NDirs
    /\ got_map \in [DOMAIN got_map -> 1..NDirs] /\ DOMAIN got_map \subseteq Range(Names)
    /\ IF cmd = "swap stop" THEN todo \in Seq(Swaps) ELSE todo \in Seq(Files)
    /\ cmdl_mods \in Seq(DOMAIN Lookup)
Kernel ==
    /\ pattern \in PatternRec
    /\ kern \in [Items(cmd) -> States(cmd)]
    /\ hist \in HistRec(cmd)
Shape == Control /\ Lists /\ Kernel

\* Which command is where
Where ==
    /\ pc \in {"scan", "sorted", "file"} => cmd \in Scanners
    /\ pc = "cmdline" => cmd = "modules"
    /\ pc = "swaps" => cmd = "swap stop"
    /\ pc = "glob" => cmd = "sysctl"

\* While the directories are scanned the map is right for those seen so far
Scanning ==
    /\ pc = "start" => seen = <<>> /\ DOMAIN got_map = {}
    /\ pc = "scan" => Len(seen) < NDirs
    /\ pc \in {"scan", "sorted"} =>
        \A n \in Range(Names) :
            IF n \in DOMAIN got_map
            THEN /\ got_map[n] \in DOMAIN seen /\ Accepts(seen[got_map[n]][n])
                 /\ \A e \in 1..(got_map[n] - 1) : ~Accepts(seen[e][n])
            ELSE \A e \in DOMAIN seen : ~Accepts(seen[e][n])

\* The files that were tried and those that are left are the ones found
Order == InOrder(DOMAIN got_map)
Filing ==
    /\ pc \in {"start", "scan", "sorted", "cmdline", "swaps"} => hist.tried = <<>>
    /\ pc \in {"sorted", "cmdline"} => todo = Order
    /\ pc = "file" => todo \in Seq(Range(Names)) /\ hist.tried \o todo = Order
    /\ pc \in {"line", "glob"} =>
        IF cmd \in Scanners
        THEN \/ todo \in Seq(Range(Names)) /\ hist.tried \o todo = Order
             \/ cmd = "sysctl" /\ todo = <<sys_path>> /\ hist.tried = Order \o <<sys_path>>
        ELSE hist.tried = <<>>
    /\ pc = "done" => \/ hist.tried \in {<<>>, Order}
                      \/ cmd = "sysctl" /\ hist.tried = Order \o <<sys_path>>

\* A sysctl that an explicit line left as it is is tracked
Holding ==
    cmd = "sysctl" =>
        \A k \in Sysctls : hist.own[k] # None => k \in entries /\ kern[k] = hist.own[k]

\* What was asked for is in force, unless a failure is remembered or swap stop
\* has yet to come to it
Applied ==
    /\ pc = "start" \/ cmd = "static-modules" => \A i \in Items(cmd) : hist.want[i] = None
    /\ ~ret => \A i \in Items(cmd) : hist.want[i] # None =>
          \/ InForce(i)
          \/ cmd = "swap stop" /\ pc = "swaps" /\ \E j \in DOMAIN todo : todo[j] = i
    /\ cmd = "swap stop" =>
          \A s \in Swaps : hist.want[s] # None => hist.want[s] = "out" /\ s \notin Zram

OneshotInv == Shape /\ Where /\ Scanning /\ Filing /\ Holding /\ Applied

-----------------------------------------------------------------------------
(* The kernel that a command acts on *)

\* What each command changes
LEMMA ItemsOf ==
    /\ cmd = "sysctl" => Items(cmd) = Sysctls /\ States(cmd) = Values \cup {Junk}
    /\ cmd \in Kmod => Items(cmd) = Modules /\ States(cmd) = {"in", "out"}
    /\ cmd \in Binfmt => Items(cmd) = Rules /\ States(cmd) = Values \cup {None}
    /\ cmd \in {"swap start", "swap stop"} => Items(cmd) = Swaps /\ States(cmd) = {"in", "out"}
BY DEF Items, States, Kmod, Binfmt

\* What a command may set an item to is a state that can be asked for.
LEMMA StatesAsked ==
    cmd \in Commands => States(cmd) \subseteq Values \cup {None, Junk, "in", "out"}
BY ItemsOf DEF Commands, Kmod, Binfmt

\* The first state
LEMMA OneshotInit == Init => OneshotInv
<1> SUFFICES ASSUME Init PROVE OneshotInv
  OBVIOUS
<1>1. PICK p \in BoundedSeq(Tokens, IF cmd \in Kmod THEN MaxParams ELSE 0) :
         cmdl_mods = Cmdline(p).load
  BY DEF Init
<1>2. p \in Seq(Tokens)
  <2>1. PICK k \in Nat : k = IF cmd \in Kmod THEN MaxParams ELSE 0
    BY OneshotAssumption
  <2>2. PICK n \in 0..k : p \in [1..n -> Tokens]
    BY <1>1, <2>1 DEF BoundedSeq, SeqOf
  <2>3. n \in Nat
    BY <2>1, <2>2
  <2> QED
    BY <2>2, <2>3, SeqDef
<1>3. cmdl_mods \in Seq(DOMAIN Lookup)
  BY <1>1, <1>2, CmdlineType
<1>4. DOMAIN got_map = {} /\ seen = <<>> /\ Len(seen) = 0 /\ todo = <<>>
  BY DEF Init
<1>5. hist \in HistRec(cmd) /\ hist.tried = <<>>
      /\ \A i \in Items(cmd) : hist.want[i] = None /\ hist.own[i] = None
  BY DEF Init, HistRec
<1>6. Control
  <2>1. lines \in 0..MaxLines
    BY OneshotAssumption DEF Init
  <2> QED
    BY <2>1 DEF Init, Control, Phase
<1>7. Lists /\ Kernel
  <2>1. pattern \in PatternRec
    BY DEF Init, NoPattern, PatternRec
  <2>2. got_map \in [DOMAIN got_map -> 1..NDirs]
    BY <1>4 DEF Init
  <2>3. Len(seen) <= NDirs
    BY <1>4, OneshotAssumption
  <2> QED
    BY <1>3, <1>4, <1>5, <2>1, <2>2, <2>3 DEF Init, Lists, Kernel
<1>8. Where /\ Scanning /\ Filing
  BY <1>4, <1>5 DEF Init, Where, Scanning, Filing
<1>9. Holding /\ Applied
  BY <1>5, ItemsOf DEF Init, Holding, Applied, InForce
<1> QED
  BY <1>6, <1>7, <1>8, <1>9 DEF OneshotInv, Shape

-----------------------------------------------------------------------------
(* The steps *)

\* The end before anything was done
LEMMA KeepsStartEarlyExit == OneshotInv /\ StartEarlyExit => OneshotInv'
<1> SUFFICES ASSUME OneshotInv, StartEarlyExit PROVE OneshotInv'
  OBVIOUS
<1> USE DEF OneshotInv
<1>1. /\ pc' = "done" /\ pc \in {"start", "scan"} /\ ret' \in BOOLEAN /\ (~ret' => ~ret)
      /\ UNCHANGED <<cmd, seen, got_map, cmdl_mods, todo, lines, entries, pattern, kern, hist>>
  BY DEF StartEarlyExit, Fail, Goto, setup, Shape, Control
<1>2. Shape'
  BY <1>1 DEF Shape, Control, Lists, Kernel, Phase
<1>3. Where' /\ Scanning' /\ Filing'
  BY <1>1 DEF Where, Scanning, Filing
<1>4. Holding' /\ Applied'
  BY <1>1 DEF Holding, Applied, InForce
<1> QED
  BY <1>2, <1>3, <1>4

\* binfmt -u
LEMMA KeepsUnregister == OneshotInv /\ Unregister => OneshotInv'
<1> SUFFICES ASSUME OneshotInv, Unregister PROVE OneshotInv'
  OBVIOUS
<1> USE DEF OneshotInv
<1>1. /\ pc' = "done" /\ pc = "start" /\ cmd = "binfmt -u"
      /\ UNCHANGED <<cmd, seen, got_map, cmdl_mods, todo, lines, ret, entries, pattern, hist>>
  BY DEF Unregister, setup
<1>2. Shape'
  <2>1. kern' \in [Items(cmd) -> States(cmd)]
    BY <1>1, ItemsOf DEF Unregister, Binfmt
  <2> QED
    BY <1>1, <2>1 DEF Shape, Control, Lists, Kernel, Phase
<1>3. Where' /\ Scanning' /\ Filing'
  BY <1>1 DEF Where, Scanning, Filing
<1>4. Holding' /\ Applied'
  BY <1>1 DEF Holding, Applied, InForce
<1> QED
  BY <1>2, <1>3, <1>4

\* The first thing a command does; swap stop lists the areas in use.
LEMMA KeepsStart == OneshotInv /\ Start => OneshotInv'
<1> SUFFICES ASSUME OneshotInv, Start PROVE OneshotInv'
  OBVIOUS
<1> USE DEF OneshotInv
<1>1. /\ pc = "start" /\ pc' \in {"line", "swaps", "scan"}
      /\ pc' = "scan" => cmd \in Scanners
      /\ pc' = "swaps" => cmd = "swap stop"
      /\ pc' = "line" => cmd \notin Scanners /\ cmd # "swap stop"
      /\ UNCHANGED <<cmd, seen, got_map, cmdl_mods, lines, ret, entries, pattern, kern>>
  BY DEF Start, setup, Shape, Control, Commands, Kmod, Binfmt, Scanners
<1>2. CASE UNCHANGED <<todo, hist>>
  <2>1. Shape'
    BY <1>1, <1>2 DEF Shape, Control, Lists, Kernel, Phase
  <2>2. Where' /\ Filing'
    BY <1>1, <1>2 DEF Where, Filing
  <2>3. Scanning'
    <3>1. seen = <<>> /\ DOMAIN got_map = {}
      BY <1>1 DEF Scanning
    <3>2. Len(seen) < NDirs /\ DOMAIN seen = {}
      BY <3>1, OneshotAssumption
    <3> QED
      BY <1>1, <3>1, <3>2 DEF Scanning
  <2>4. Holding' /\ Applied'
    BY <1>1, <1>2 DEF Holding, Applied, InForce
  <2> QED
    BY <2>1, <2>2, <2>3, <2>4
<1>3. CASE /\ cmd = "swap stop"
           /\ todo' = SetToSeq({s \in Swaps : kern[s] = "in"})
           /\ hist' = [hist EXCEPT !.want = [s \in Swaps |-> IF s \in Zram THEN None ELSE "out"]]
  <2>1. pc' = "swaps" /\ Items(cmd) = Swaps /\ States(cmd) = {"in", "out"}
    BY <1>1, <1>3, ItemsOf DEF Start
  <2>2. PICK I : I = {s \in Swaps : kern[s] = "in"}
    OBVIOUS
  <2>3. IsFiniteSet(I) /\ I \subseteq Swaps
    BY <2>2, OneshotAssumption, FS_Subset
  <2>4. todo' \in Seq(I) /\ \A s \in I : \E j \in DOMAIN todo' : todo'[j] = s
    BY <1>3, <2>2, <2>3, ListsAll
  <2>5. todo' \in Seq(Swaps)
    BY <2>3, <2>4, SeqMonotonic
  <2>6. /\ hist' \in HistRec(cmd) /\ hist'.tried = hist.tried
        /\ \A s \in Swaps : hist'.want[s] = IF s \in Zram THEN None ELSE "out"
    BY <1>3, <2>1 DEF Shape, Kernel, HistRec
  <2>7. Shape'
    BY <1>1, <1>3, <2>1, <2>5, <2>6 DEF Shape, Control, Lists, Kernel, Phase
  <2>8. Where' /\ Scanning' /\ Filing'
    BY <1>1, <1>3, <2>1, <2>6 DEF Where, Scanning, Filing
  <2>9. Holding'
    BY <1>1, <1>3 DEF Holding
  <2>10. Applied'
    <3>1. \A s \in Swaps : kern[s] = "in" \/ kern[s] = "out"
      BY <2>1 DEF Shape, Kernel
    <3>2. \A s \in Swaps : hist'.want[s] # None => hist'.want[s] = "out" /\ s \notin Zram
      BY <2>6
    <3>3. \A s \in Swaps : kern[s] = "out" \/ \E j \in DOMAIN todo' : todo'[j] = s
      BY <2>2, <2>4, <3>1
    <3>4. Items(cmd)' = Swaps /\ pc' = "swaps" /\ cmd' = "swap stop" /\ kern' = kern
      BY <1>1, <1>3, <2>1
    <3>5. \A i \in Items(cmd)' : hist'.want[i] # None =>
             kern'[i] = hist'.want[i] \/ \E j \in DOMAIN todo' : todo'[j] = i
      BY <3>2, <3>3, <3>4
    <3> QED
      BY <3>2, <3>4, <3>5 DEF Applied, InForce
  <2> QED
    BY <2>7, <2>8, <2>9, <2>10
<1> QED
  BY <1>2, <1>3 DEF Start

\* One more directory: the names that it adds to the map are new.
LEMMA KeepsScanDir == OneshotInv /\ ScanDir => OneshotInv'
<1> SUFFICES ASSUME OneshotInv, ScanDir PROVE OneshotInv'
  OBVIOUS
<1> USE DEF OneshotInv
<1>1. /\ pc = "scan" /\ cmd \in Scanners /\ cmd # "swap stop"
      /\ UNCHANGED <<cmd, lines, ret, entries, pattern, cmdl_mods, kern, hist>>
  BY DEF ScanDir, Where, Scanners
<1>b. PICK found \in [Range(Names) -> Kind] :
         /\ seen' = Append(seen, found)
         /\ got_map' = [n \in DOMAIN got_map \cup Scanned(found) |->
                           IF n \in Scanned(found) THEN Len(seen) + 1 ELSE got_map[n]]
         /\ IF Len(seen) + 1 < NDirs THEN UNCHANGED <<pc, todo>>
            ELSE pc' = "sorted" /\ todo' = InOrder(DOMAIN got_map')
  BY DEF ScanDir
<1>c. PICK d, new : d = Len(seen) + 1 /\ new = Scanned(found)
  OBVIOUS
<1>2. /\ d = Len(seen) + 1 /\ new = Scanned(found)
      /\ seen' = Append(seen, found)
      /\ got_map' = [n \in DOMAIN got_map \cup new |-> IF n \in new THEN d ELSE got_map[n]]
      /\ IF d < NDirs THEN UNCHANGED <<pc, todo>>
         ELSE pc' = "sorted" /\ todo' = InOrder(DOMAIN got_map')
  BY <1>b, <1>c
<1>a. /\ seen \in Seq([Range(Names) -> Kind])
      /\ got_map \in [DOMAIN got_map -> 1..NDirs] /\ DOMAIN got_map \subseteq Range(Names)
  BY DEF Shape, Lists
<1>3. PICK l \in Nat : l = Len(seen)
  BY <1>a
<1>4. /\ DOMAIN seen = 1..l
      /\ NDirs \in Nat /\ l < NDirs /\ d = l + 1
  <2>1. DOMAIN seen = 1..l
    BY <1>a, <1>3
  <2>2. Len(seen) < NDirs
    BY <1>1 DEF Scanning
  <2> QED
    BY <1>2, <1>3, <2>1, <2>2, OneshotAssumption
<1>5. /\ seen' \in Seq([Range(Names) -> Kind]) /\ Len(seen') = d /\ DOMAIN seen' = 1..d
      /\ seen'[d] = found /\ \A e \in 1..l : seen'[e] = seen[e]
  BY <1>2, <1>3, <1>4, <1>a, AppendProperties
<1>6. DOMAIN got_map' = DOMAIN got_map \cup new /\ new \subseteq Range(Names)
  BY <1>2 DEF Scanned
<1>7. /\ \A n \in new : got_map'[n] = d /\ Accepts(found[n]) /\ n \notin DOMAIN got_map
      /\ \A n \in DOMAIN got_map : got_map'[n] = got_map[n]
      /\ \A n \in Range(Names) : n \notin DOMAIN got_map /\ n \notin new => ~Accepts(found[n])
  BY <1>2, <1>6 DEF Scanned
<1>8. got_map' \in [DOMAIN got_map' -> 1..NDirs]
  <2>1. d \in 1..NDirs
    BY <1>4
  <2> QED
    BY <1>2, <1>4, <1>6, <1>a, <2>1
<1>9. \A e : Accepts(e)' <=> Accepts(e)
  BY <1>1 DEF Accepts
<1>10. pc' \in {"scan", "sorted"} /\ (pc' = "scan" => d < NDirs /\ todo' = todo)
       /\ (pc' = "sorted" => todo' = Order')
  BY <1>1, <1>2 DEF Order
<1>11. Shape'
  <2>1. todo' \in Seq(Files)
    <3>1. CASE todo' = todo
      BY <1>1, <3>1 DEF Shape, Lists
    <3>2. CASE todo' = InOrder(DOMAIN got_map')
      <4>1. todo' \in Seq(Range(Names))
        BY <3>2, InOrderType
      <4> QED
        BY <4>1, SeqMonotonic DEF Files
    <3> QED
      BY <1>2, <3>1, <3>2
  <2>2. Len(seen') <= NDirs
    BY <1>4, <1>5
  <2>3. DOMAIN got_map' \subseteq Range(Names)
    BY <1>4, <1>6, <1>a
  <2>4. Lists'
    BY <1>1, <1>5, <1>8, <2>1, <2>2, <2>3 DEF Shape, Lists
  <2> QED
    BY <1>1, <1>10, <2>4 DEF Shape, Control, Kernel, Phase
<1>12. Where' /\ Filing'
  BY <1>1, <1>10 DEF Where, Filing
<1>13. ASSUME NEW n \in Range(Names)
       PROVE  IF n \in DOMAIN got_map'
              THEN /\ got_map'[n] \in DOMAIN seen' /\ Accepts(seen'[got_map'[n]][n])
                   /\ \A e \in 1..(got_map'[n] - 1) : ~Accepts(seen'[e][n])
              ELSE \A e \in DOMAIN seen' : ~Accepts(seen'[e][n])
  <2>1. CASE n \in DOMAIN got_map
    <3>1. PICK k \in 1..l : k = got_map[n]
      BY <1>1, <1>4, <2>1 DEF Scanning
    <3>2. Accepts(seen[k][n]) /\ \A e \in 1..(k - 1) : ~Accepts(seen[e][n])
      BY <1>1, <2>1, <3>1 DEF Scanning
    <3>3. got_map'[n] = k /\ n \in DOMAIN got_map' /\ k \in 1..d
      BY <1>4, <1>6, <1>7, <2>1, <3>1
    <3>4. seen'[k] = seen[k] /\ \A e \in 1..(k - 1) : seen'[e] = seen[e]
      BY <1>5, <3>1
    <3> QED
      BY <1>5, <3>2, <3>3, <3>4
  <2>2. CASE n \notin DOMAIN got_map /\ n \in new
    <3>1. \A e \in 1..l : ~Accepts(seen[e][n])
      BY <1>1, <1>4, <2>2 DEF Scanning
    <3>2. got_map'[n] = d /\ n \in DOMAIN got_map' /\ d \in 1..d /\ d - 1 = l
      BY <1>4, <1>6, <1>7, <2>2
    <3> QED
      BY <1>5, <1>7, <2>2, <3>1, <3>2
  <2>3. CASE n \notin DOMAIN got_map /\ n \notin new
    <3>1. \A e \in 1..l : ~Accepts(seen[e][n])
      BY <1>1, <1>4, <2>3 DEF Scanning
    <3>2. \A e \in 1..d : e = d \/ e \in 1..l
      BY <1>4
    <3>3. ~Accepts(found[n]) /\ n \notin DOMAIN got_map'
      BY <1>6, <1>7, <2>3
    <3>4. \A e \in 1..d : ~Accepts(seen'[e][n])
      BY <1>5, <3>1, <3>2, <3>3
    <3> QED
      BY <1>5, <3>3, <3>4
  <2> QED
    BY <2>1, <2>2, <2>3
<1>14. Scanning'
  <2>1. pc' = "scan" => Len(seen') < NDirs
    BY <1>5, <1>10
  <2>2. pc' # "start"
    BY <1>10
  <2> QED
    BY <1>9, <1>13, <2>1, <2>2 DEF Scanning
<1>15. Holding' /\ Applied'
  BY <1>1, <1>10 DEF Holding, Applied, InForce
<1> QED
  BY <1>11, <1>12, <1>14, <1>15

\* The files are in order, and the directories are done with.
LEMMA KeepsSorted == OneshotInv /\ Sorted => OneshotInv'
<1> SUFFICES ASSUME OneshotInv, Sorted PROVE OneshotInv'
  OBVIOUS
<1> USE DEF OneshotInv
<1>1. /\ pc = "sorted" /\ cmd \in Scanners /\ pc' \in {"cmdline", "file"}
      /\ pc' = "cmdline" => cmd = "modules"
      /\ seen' = <<>>
      /\ UNCHANGED <<cmd, got_map, todo, lines, ret, entries, pattern, cmdl_mods, kern, hist>>
  BY DEF Sorted, Where
<1>2. Shape'
  <2>1. Len(seen') <= NDirs /\ seen' \in Seq([Range(Names) -> Kind])
    BY <1>1, OneshotAssumption
  <2>2. Lists'
    BY <1>1, <2>1 DEF Shape, Lists
  <2> QED
    BY <1>1, <2>2 DEF Shape, Control, Kernel, Phase
<1>3. Where' /\ Scanning'
  BY <1>1 DEF Where, Scanning
<1>4. Filing'
  <2>1. hist.tried = <<>> /\ todo = Order /\ Order' = Order
    BY <1>1 DEF Filing, Order
  <2>2. Order \in Seq(Range(Names))
    BY InOrderType DEF Order
  <2>3. <<>> \o Order = Order
    BY <2>2
  <2> QED
    BY <1>1, <2>1, <2>2, <2>3 DEF Filing
<1>5. Holding' /\ Applied'
  BY <1>1 DEF Holding, Applied, InForce
<1> QED
  BY <1>2, <1>3, <1>4, <1>5

\* The history of a file that is tried
LEMMA TriedMore ==
    ASSUME NEW c, NEW h \in HistRec(c), NEW f \in Files
    PROVE  LET g == [h EXCEPT !.tried = Append(@, f)]
           IN  /\ g \in HistRec(c) /\ g.tried = Append(h.tried, f)
               /\ g.want = h.want /\ g.own = h.own
<1>1. h.tried \in Seq(Files)
  BY DEF HistRec
<1>2. Append(h.tried, f) \in Seq(Files)
  BY <1>1, AppendProperties
<1> QED
  BY <1>2 DEF HistRec

\* A list is its first element and the rest.
LEMMA HeadAndTail ==
    ASSUME NEW S, NEW s \in Seq(S), s # <<>>
    PROVE  Head(s) \in S /\ Tail(s) \in Seq(S) /\ <<Head(s)>> \o Tail(s) = s
<1>1. Head(s) \in S /\ Tail(s) \in Seq(S) /\ Tail(s) = SubSeq(s, 2, Len(s))
  BY HeadTailProperties, TailIsSubSeq
<1>2. Len(s) \in Nat /\ Len(s) >= 1
  BY EmptySeq
<1>3. 1 \in 1..Len(s) /\ Len(s) \in 1..Len(s) /\ 1 + 1 = 2
  BY <1>2
<1>4. SubSeq(s, 1, Len(s)) = <<s[1]>> \o SubSeq(s, 1 + 1, Len(s))
  BY <1>3, SubSeqRecursiveFirst
<1>5. SubSeq(s, 1, Len(s)) = s
  BY SubSeqFull
<1>6. Head(s) = s[1]
  OBVIOUS
<1> QED
  BY <1>1, <1>3, <1>4, <1>5, <1>6

\* The next file is taken from those that are left.
LEMMA KeepsNextFile == OneshotInv /\ NextFile => OneshotInv'
<1> SUFFICES ASSUME OneshotInv, NextFile PROVE OneshotInv'
  OBVIOUS
<1> USE DEF OneshotInv
<1>1. /\ pc = "file" /\ cmd \in Scanners /\ cmd # "swap stop" /\ todo # <<>>
      /\ pc' \in {"line", "file"}
      /\ todo' = Tail(todo)
      /\ hist' = [hist EXCEPT !.tried = Append(@, Head(todo))]
      /\ UNCHANGED <<cmd, seen, got_map, cmdl_mods, lines, entries, pattern, kern>>
  BY DEF NextFile, Where, Scanners, setup
<1>a. ret' \in BOOLEAN /\ (~ret' => ~ret)
  <2>1. ret \in BOOLEAN
    BY DEF Shape, Control
  <2>2. ret' = ret \/ ret' = TRUE
    BY DEF NextFile
  <2> QED
    BY <2>1, <2>2
<1>2. /\ todo \in Seq(Range(Names)) /\ hist.tried \o todo = Order /\ hist \in HistRec(cmd)
      /\ hist.tried \in Seq(Files) /\ Order' = Order
  BY <1>1 DEF Filing, Shape, Kernel, HistRec, Order
<1>3. /\ Head(todo) \in Range(Names) /\ Tail(todo) \in Seq(Range(Names))
      /\ <<Head(todo)>> \o Tail(todo) = todo
  BY <1>1, <1>2, HeadAndTail
<1>4. /\ hist' \in HistRec(cmd) /\ hist'.tried = Append(hist.tried, Head(todo))
      /\ hist'.want = hist.want /\ hist'.own = hist.own
  BY <1>1, <1>2, <1>3, TriedMore DEF Files
<1>5. Tail(todo) \in Seq(Files) /\ todo \in Seq(Files)
  BY <1>2, <1>3, SeqMonotonic DEF Files
<1>6. Append(hist.tried, Head(todo)) \o Tail(todo) = Order
  <2>1. PICK x \in Files, a \in Seq(Files), b \in Seq(Files) :
           x = Head(todo) /\ a = hist.tried /\ b = Tail(todo)
    BY <1>2, <1>3, <1>5 DEF Files
  <2>2. Append(a, x) = a \o <<x>>
    BY <2>1, AppendIsConcat
  <2>3. <<x>> \in Seq(Files)
    BY <2>1
  <2>4. (a \o <<x>>) \o b = a \o (<<x>> \o b)
    BY <2>1, <2>3, ConcatAssociative, SMTT(60)
  <2> QED
    BY <1>2, <1>3, <2>1, <2>2, <2>4
<1>7. Shape'
  BY <1>1, <1>a, <1>4, <1>5 DEF Shape, Control, Lists, Kernel, Phase
<1>8. Where' /\ Scanning'
  BY <1>1 DEF Where, Scanning
<1>9. Filing'
  BY <1>1, <1>2, <1>3, <1>4, <1>6 DEF Filing
<1>10. Holding' /\ Applied'
  BY <1>1, <1>a, <1>4 DEF Holding, Applied, InForce
<1> QED
  BY <1>7, <1>8, <1>9, <1>10

\* All files have been tried: the end, or the global one.
LEMMA KeepsLastFile == OneshotInv /\ LastFile => OneshotInv'
<1> SUFFICES ASSUME OneshotInv, LastFile PROVE OneshotInv'
  OBVIOUS
<1> USE DEF OneshotInv
<1>1. /\ pc = "file" /\ cmd \in Scanners /\ cmd # "swap stop" /\ todo = <<>>
      /\ UNCHANGED <<cmd, seen, got_map, cmdl_mods, lines, entries, pattern, kern>>
  BY DEF LastFile, Where, Scanners, setup
<1>2. ret' \in BOOLEAN /\ (~ret' => ~ret) /\ pc' \in {"line", "done"}
  BY DEF LastFile, Shape, Control
<1>3. hist \in HistRec(cmd) /\ hist.tried \in Seq(Files) /\ hist.tried \o todo = Order
  BY <1>1 DEF Filing, Shape, Kernel, HistRec
<1>4. hist.tried = Order /\ Order' = Order
  <2>1. PICK a \in Seq(Files) : a = hist.tried
    BY <1>3
  <2>2. a \o <<>> = a
    BY <2>1, ConcatEmptySeq
  <2> QED
    BY <1>1, <1>3, <2>1, <2>2 DEF Order
<1>5. CASE pc' = "done" /\ UNCHANGED <<todo, hist, ret>>
  <2>1. Shape'
    BY <1>1, <1>5 DEF Shape, Control, Lists, Kernel, Phase
  <2>2. Where' /\ Scanning' /\ Filing'
    BY <1>1, <1>4, <1>5 DEF Where, Scanning, Filing
  <2>3. Holding' /\ Applied'
    BY <1>1, <1>5 DEF Holding, Applied, InForce
  <2> QED
    BY <2>1, <2>2, <2>3
<1>6. CASE /\ cmd = "sysctl" /\ todo' = <<sys_path>>
           /\ hist' = [hist EXCEPT !.tried = Append(@, sys_path)]
  <2>1. /\ hist' \in HistRec(cmd) /\ hist'.tried = Append(hist.tried, sys_path)
        /\ hist'.want = hist.want /\ hist'.own = hist.own
    BY <1>3, <1>6, TriedMore DEF Files
  <2>2. Append(hist.tried, sys_path) = Order \o <<sys_path>>
    <3>1. PICK x \in Files, a \in Seq(Files) : x = sys_path /\ a = hist.tried
      BY <1>3 DEF Files
    <3>2. Append(a, x) = a \o <<x>>
      BY <3>1, AppendIsConcat
    <3> QED
      BY <1>4, <3>1, <3>2
  <2>3. <<sys_path>> \in Seq(Files)
    <3>1. PICK x \in Files : x = sys_path
      BY DEF Files
    <3>2. <<x>> \in Seq(Files)
      BY <3>1
    <3> QED
      BY <3>1, <3>2
  <2>4. Shape'
    BY <1>1, <1>2, <1>6, <2>1, <2>3 DEF Shape, Control, Lists, Kernel, Phase
  <2>5. Where' /\ Scanning' /\ Filing'
    BY <1>1, <1>2, <1>4, <1>6, <2>1, <2>2 DEF Where, Scanning, Filing
  <2>6. Holding' /\ Applied'
    BY <1>1, <1>2, <2>1 DEF Holding, Applied, InForce
  <2> QED
    BY <2>4, <2>5, <2>6
<1> QED
  BY <1>5, <1>6 DEF LastFile

\* The end of a file leads to the next one, unless it was the last.
LEMMA KeepsEndOfFile == OneshotInv /\ EndOfFile => OneshotInv'
<1> SUFFICES ASSUME OneshotInv, EndOfFile PROVE OneshotInv'
  OBVIOUS
<1> USE DEF OneshotInv
<1>1. /\ pc = "line" /\ pc' = IF cmd \in Scanners /\ todo # <<sys_path>> THEN "file" ELSE "done"
      /\ UNCHANGED <<cmd, seen, got_map, cmdl_mods, todo, lines, ret, entries, pattern, kern, hist>>
  BY DEF EndOfFile, Goto, setup, Scanners
<1>2. Shape'
  BY <1>1 DEF Shape, Control, Lists, Kernel, Phase
<1>3. Where' /\ Scanning'
  BY <1>1 DEF Where, Scanning
<1>4. Filing'
  <2>1. Order' = Order
    BY <1>1 DEF Order
  <2>2. todo = <<sys_path>> => todo \notin Seq(Range(Names))
    <3> SUFFICES ASSUME todo = <<sys_path>>, todo \in Seq(Range(Names)) PROVE FALSE
      OBVIOUS
    <3>1. todo # <<>> /\ Head(todo) = sys_path
      OBVIOUS
    <3>2. sys_path \in Range(Names)
      BY <3>1, HeadAndTail
    <3> QED
      BY <3>2, OneshotAssumption DEF sys_path
  <2>3. CASE cmd \in Scanners /\ todo # <<sys_path>>
    <3>1. pc' = "file" /\ todo \in Seq(Range(Names)) /\ hist.tried \o todo = Order
      BY <1>1, <2>3 DEF Filing
    <3> QED
      BY <1>1, <2>1, <3>1 DEF Filing
  <2>4. CASE ~(cmd \in Scanners /\ todo # <<sys_path>>)
    <3>1. pc' = "done"
      BY <1>1, <2>4
    <3>2. IF cmd \in Scanners
          THEN \/ todo \in Seq(Range(Names)) /\ hist.tried \o todo = Order
               \/ cmd = "sysctl" /\ todo = <<sys_path>> /\ hist.tried = Order \o <<sys_path>>
          ELSE hist.tried = <<>>
      BY <1>1 DEF Filing
    <3>3. \/ hist.tried \in {<<>>, Order}
          \/ cmd = "sysctl" /\ hist.tried = Order \o <<sys_path>>
      BY <2>2, <2>4, <3>2
    <3> QED
      BY <1>1, <2>1, <3>1, <3>3 DEF Filing
  <2> QED
    BY <2>3, <2>4
<1>5. Holding' /\ Applied'
  BY <1>1 DEF Holding, Applied, InForce
<1> QED
  BY <1>2, <1>3, <1>4, <1>5

\* What reading a line does
LEMMA LineRead == OneshotInv /\ ReadLine => pc = "line" /\ lines' \in 0..MaxLines
<1> SUFFICES ASSUME OneshotInv, ReadLine PROVE pc = "line" /\ lines' \in 0..MaxLines
  OBVIOUS
<1>1. lines \in 0..MaxLines
  BY DEF OneshotInv, Shape, Control
<1>2. pc = "line" /\ lines < MaxLines /\ lines' = lines + 1
  BY DEF ReadLine
<1> QED
  BY <1>1, <1>2, OneshotAssumption

\* A line that is printed
LEMMA KeepsPrintLine == OneshotInv /\ PrintLine => OneshotInv'
<1> SUFFICES ASSUME OneshotInv, PrintLine PROVE OneshotInv'
  OBVIOUS
<1> USE DEF OneshotInv
<1>1. /\ pc = "line" /\ lines' \in 0..MaxLines
      /\ UNCHANGED <<cmd, seen, got_map, cmdl_mods, pc, todo, ret, entries, pattern, kern, hist>>
  BY LineRead DEF PrintLine, setup
<1>2. Shape'
  BY <1>1 DEF Shape, Control, Lists, Kernel
<1>3. Where' /\ Scanning' /\ Filing' /\ Holding' /\ Applied'
  BY <1>1 DEF Where, Scanning, Filing, Order, Holding, Applied, InForce
<1> QED
  BY <1>2, <1>3

\* Steps that change only the kernel, its history and the pattern: what is
\* left to show of them is what they do to these.
LEMMA KeepsRest ==
    OneshotInv /\ pc \in {"line", "glob", "swaps", "cmdline"} /\ lines' \in 0..MaxLines
      /\ (pc' = pc \/ (cmd = "sysctl" /\ pc \in {"line", "glob"} /\ pc' \in {"line", "glob"}))
      /\ UNCHANGED <<cmd, seen, got_map, todo>>
      /\ (UNCHANGED cmdl_mods \/ cmdl_mods' \in Seq(DOMAIN Lookup))
      /\ pattern' \in PatternRec /\ ret' \in BOOLEAN /\ kern' \in [Items(cmd) -> States(cmd)]
      /\ hist' \in HistRec(cmd) /\ hist'.tried = hist.tried
    => Shape' /\ Where' /\ Scanning' /\ Filing'
<1> SUFFICES ASSUME OneshotInv, pc \in {"line", "glob", "swaps", "cmdline"}, lines' \in 0..MaxLines,
                    pc' = pc \/ (cmd = "sysctl" /\ pc \in {"line", "glob"} /\ pc' \in {"line", "glob"}),
                    UNCHANGED <<cmd, seen, got_map, todo>>,
                    UNCHANGED cmdl_mods \/ cmdl_mods' \in Seq(DOMAIN Lookup),
                    pattern' \in PatternRec,
                    ret' \in BOOLEAN, kern' \in [Items(cmd) -> States(cmd)],
                    hist' \in HistRec(cmd), hist'.tried = hist.tried
             PROVE  Shape' /\ Where' /\ Scanning' /\ Filing'
  OBVIOUS
<1>1. Shape'
  BY DEF OneshotInv, Shape, Control, Lists, Kernel, Phase
<1>2. Where' /\ Scanning'
  BY DEF OneshotInv, Where, Scanning
<1>3. Filing'
  BY DEF OneshotInv, Filing, Order
<1> QED
  BY <1>1, <1>2, <1>3

\* The history of what is asked for
LEMMA WantMore ==
    ASSUME NEW c, NEW h \in HistRec(c), NEW i \in Items(c), NEW v \in Values \cup {None, "in", "out"}
    PROVE  LET g == [h EXCEPT !.want[i] = v]
           IN  /\ g \in HistRec(c) /\ g.tried = h.tried /\ g.own = h.own
               /\ g.want[i] = v /\ \A j \in Items(c) : j # i => g.want[j] = h.want[j]
BY DEF HistRec

\* binfmt: a line of a file of rules
LEMMA KeepsRuleLine == OneshotInv /\ RuleLine => OneshotInv'
<1> SUFFICES ASSUME OneshotInv, RuleLine PROVE OneshotInv'
  OBVIOUS
<1>1. /\ cmd = "binfmt" /\ pc = "line" /\ lines' \in 0..MaxLines
      /\ UNCHANGED <<cmd, pc, seen, got_map, todo, entries, pattern, cmdl_mods>>
  BY LineRead DEF RuleLine, setup
<1>2. Items(cmd) = Rules /\ States(cmd) = Values \cup {None}
  BY <1>1, ItemsOf DEF Binfmt
<1>a. pattern' \in PatternRec
  BY <1>1 DEF OneshotInv, Shape, Kernel
<1>3. ret \in BOOLEAN /\ kern \in [Rules -> Values \cup {None}] /\ hist \in HistRec(cmd)
  BY <1>2 DEF OneshotInv, Shape, Control, Kernel
<1>4. PICK r \in Rules, body \in Values :
         \/ ret' = TRUE /\ UNCHANGED <<kern, hist>>
         \/ Register(r, body) /\ hist' = [hist EXCEPT !.want[r] = body]
  BY DEF RuleLine
<1>5. Holding'
  BY <1>1 DEF Holding
<1>6. CASE ret' = TRUE /\ UNCHANGED <<kern, hist>>
  <2>1. Shape' /\ Where' /\ Scanning' /\ Filing'
    BY <1>1, <1>2, <1>a, <1>3, <1>6, KeepsRest
  <2>2. Applied'
    BY <1>1, <1>6 DEF Applied, InForce
  <2> QED
    BY <1>5, <2>1, <2>2 DEF OneshotInv
<1>7. CASE Register(r, body) /\ hist' = [hist EXCEPT !.want[r] = body]
  <2>1. /\ hist' \in HistRec(cmd) /\ hist'.tried = hist.tried
        /\ hist'.want[r] = body /\ \A j \in Rules : j # r => hist'.want[j] = hist.want[j]
    BY <1>2, <1>3, <1>7, WantMore
  <2>2. kern' \in [Rules -> Values \cup {None}] /\ \A j \in Rules : j # r => kern'[j] = kern[j]
    BY <1>3, <1>7 DEF Register
  <2>3. (ret' = ret /\ kern'[r] = body) \/ ret' = TRUE
    BY <1>3, <1>7 DEF Register
  <2>4. ret' \in BOOLEAN
    BY <1>3, <2>3
  <2>5. Shape' /\ Where' /\ Scanning' /\ Filing'
    BY <1>1, <1>2, <1>a, <1>3, <2>1, <2>2, <2>4, KeepsRest
  <2>6. Applied'
    <3>1. ~ret' => \A i \in Rules : hist'.want[i] # None => kern'[i] = hist'.want[i]
      <4> SUFFICES ASSUME ~ret', NEW i \in Rules, hist'.want[i] # None
                   PROVE  kern'[i] = hist'.want[i]
        OBVIOUS
      <4>1. ~ret /\ kern'[r] = body
        BY <2>3
      <4>2. CASE i = r
        BY <2>1, <4>1, <4>2
      <4>3. CASE i # r
        BY <1>1, <1>2, <2>1, <2>2, <4>1, <4>3 DEF OneshotInv, Applied, InForce
      <4> QED
        BY <4>2, <4>3
    <3> QED
      BY <1>1, <1>2, <3>1 DEF Applied, InForce
  <2> QED
    BY <1>5, <2>5, <2>6 DEF OneshotInv
<1> QED
  BY <1>4, <1>6, <1>7

-----------------------------------------------------------------------------
(* sysctl *)

\* A sysctl is set, or is not: what it does to the kernel and to the history.
LEMMA SysctlSet ==
    ASSUME OneshotInv, cmd = "sysctl", NEW k, NEW val \in Values, NEW opt \in BOOLEAN,
           NEW v \in {val, Junk}, NEW o \in Endings(k), SetSysctl(k, v, opt, o),
           NEW h, h = Asked(k, val, opt, o)
    PROVE  /\ kern' \in [Sysctls -> Values \cup {Junk}] /\ ret' \in BOOLEAN
           /\ \A j \in Sysctls : j # k => kern'[j] = kern[j]
           /\ h \in HistRec(cmd) /\ h.tried = hist.tried /\ h.own = hist.own
           /\ ~ret' => \A j \in Sysctls : h.want[j] # None => kern'[j] \in {h.want[j], Junk}
<1>1. Items(cmd) = Sysctls /\ kern \in [Sysctls -> Values \cup {Junk}] /\ hist \in HistRec(cmd)
  BY ItemsOf DEF OneshotInv, Shape, Kernel
<1>2. ret \in BOOLEAN
  BY DEF OneshotInv, Shape, Control
<1>3. o = "written" => k \in Sysctls
  BY DEF Endings
<1>4. /\ kern' \in [Sysctls -> Values \cup {Junk}] /\ \A j \in Sysctls : j # k => kern'[j] = kern[j]
      /\ IF o = "written" THEN kern'[k] = v ELSE kern' = kern
  BY <1>1, <1>3 DEF SetSysctl
<1>5. ret' \in BOOLEAN /\ (~ret' => ~ret /\ ~(o = "refused" /\ ~opt))
  BY <1>2 DEF SetSysctl
<1>6. /\ h \in HistRec(cmd) /\ h.tried = hist.tried /\ h.own = hist.own
      /\ \A j \in Sysctls : j # k => h.want[j] = hist.want[j]
      /\ IF k \in Sysctls /\ (o = "written" \/ (o = "refused" /\ ~opt))
         THEN h.want[k] = val ELSE h = hist
  <2>1. CASE k \in Sysctls /\ (o = "written" \/ (o = "refused" /\ ~opt))
    <3>1. h = [hist EXCEPT !.want[k] = val]
      BY <2>1 DEF Asked
    <3> QED
      BY <1>1, <2>1, <3>1, WantMore
  <2>2. CASE ~(k \in Sysctls /\ (o = "written" \/ (o = "refused" /\ ~opt)))
    <3>1. h = hist
      BY <2>2 DEF Asked
    <3> QED
      BY <1>1, <2>2, <3>1
  <2> QED
    BY <2>1, <2>2
<1>7. ASSUME ~ret', NEW j \in Sysctls, h.want[j] # None PROVE kern'[j] \in {h.want[j], Junk}
  <2>1. ~ret /\ ~(o = "refused" /\ ~opt)
    BY <1>5, <1>7
  <2>2. hist.want[j] # None => kern[j] \in {hist.want[j], Junk}
    BY <1>1, <2>1 DEF OneshotInv, Applied, InForce
  <2>3. CASE j # k
    BY <1>4, <1>6, <1>7, <2>2, <2>3
  <2>4. CASE j = k /\ o = "written"
    BY <1>4, <1>6, <2>4
  <2>5. CASE j = k /\ o # "written"
    BY <1>4, <1>6, <1>7, <2>1, <2>2, <2>5
  <2> QED
    BY <2>3, <2>4, <2>5
<1> QED
  BY <1>4, <1>5, <1>6, <1>7

\* An explicit line pins the sysctl.
LEMMA PinnedType ==
    ASSUME NEW h \in HistRec("sysctl"), NEW k, kern' \in [Sysctls -> Values \cup {Junk}]
    PROVE  /\ Pinned(h, k) \in HistRec("sysctl")
           /\ Pinned(h, k).tried = h.tried /\ Pinned(h, k).want = h.want
           /\ \A j \in Sysctls : Pinned(h, k).own[j] = IF j = k THEN kern'[j] ELSE h.own[j]
<1>1. Items("sysctl") = Sysctls
  BY DEF Items, Kmod, Binfmt
<1>2. CASE k \notin Sysctls
  <2>1. Pinned(h, k) = h
    BY <1>2 DEF Pinned
  <2> QED
    BY <1>2, <2>1
<1>3. CASE k \in Sysctls
  <2>1. PICK v \in Values \cup {Junk} : v = kern'[k]
    BY <1>3
  <2>2. Pinned(h, k) = [h EXCEPT !.own[k] = v]
    BY <1>3, <2>1 DEF Pinned
  <2>3. [h EXCEPT !.own[k] = v] \in HistRec("sysctl")
    BY <1>1, <1>3, <2>1 DEF HistRec
  <2>4. /\ [h EXCEPT !.own[k] = v].tried = h.tried /\ [h EXCEPT !.own[k] = v].want = h.want
        /\ \A j \in Sysctls : [h EXCEPT !.own[k] = v].own[j] = IF j = k THEN v ELSE h.own[j]
    BY <1>1, <1>3 DEF HistRec
  <2> QED
    BY <2>1, <2>2, <2>3, <2>4
<1> QED
  BY <1>2, <1>3

\* What an explicit line leaves behind
LEMMA ExplicitKeeps ==
    ASSUME OneshotInv, cmd = "sysctl", pc = "line", lines' \in 0..MaxLines,
           UNCHANGED <<cmd, seen, got_map, todo, cmdl_mods>>,
           NEW k, NEW val \in Values \cup {None}, NEW opt \in BOOLEAN,
           SysctlExplicit(k, val, opt)
    PROVE  OneshotInv'
<1>1. /\ Items(cmd) = Sysctls /\ States(cmd) = Values \cup {Junk} /\ kern \in [Sysctls -> Values \cup {Junk}]
      /\ hist \in HistRec("sysctl") /\ pattern \in PatternRec
  BY ItemsOf DEF OneshotInv, Shape, Kernel
<1>2. ret \in BOOLEAN
  BY DEF OneshotInv, Shape, Control
<1>3. UNCHANGED <<pc, pattern>> /\ entries' = entries \cup {k}
  BY DEF SysctlExplicit, Tracked
<1>4. PICK h : /\ hist' = Pinned(h, k) /\ kern' \in [Sysctls -> Values \cup {Junk}] /\ ret' \in BOOLEAN
               /\ \A j \in Sysctls : j # k => kern'[j] = kern[j]
               /\ h \in HistRec("sysctl") /\ h.tried = hist.tried /\ h.own = hist.own
               /\ ~ret' => \A j \in Sysctls : h.want[j] # None => kern'[j] \in {h.want[j], Junk}
  <2>1. CASE UNCHANGED <<kern, ret>> /\ hist' = Pinned(hist, k)
    <3>1. ~ret => \A j \in Sysctls : hist.want[j] # None => kern[j] \in {hist.want[j], Junk}
      BY <1>1 DEF OneshotInv, Applied, InForce
    <3> QED
      BY <1>1, <1>2, <2>1, <3>1
  <2>2. ASSUME val # None, NEW o \in Endings(k), SetSysctl(k, val, opt, o),
               hist' = Pinned(Asked(k, val, opt, o), k)
        PROVE  \E h : /\ hist' = Pinned(h, k) /\ kern' \in [Sysctls -> Values \cup {Junk}] /\ ret' \in BOOLEAN
                      /\ \A j \in Sysctls : j # k => kern'[j] = kern[j]
                      /\ h \in HistRec("sysctl") /\ h.tried = hist.tried /\ h.own = hist.own
                      /\ ~ret' => \A j \in Sysctls : h.want[j] # None => kern'[j] \in {h.want[j], Junk}
    <3>1. PICK h : h = Asked(k, val, opt, o)
      OBVIOUS
    <3>2. val \in Values
      BY <2>2
    <3>3. /\ kern' \in [Sysctls -> Values \cup {Junk}] /\ ret' \in BOOLEAN
          /\ \A j \in Sysctls : j # k => kern'[j] = kern[j]
          /\ h \in HistRec(cmd) /\ h.tried = hist.tried /\ h.own = hist.own
          /\ ~ret' => \A j \in Sysctls : h.want[j] # None => kern'[j] \in {h.want[j], Junk}
      BY <2>2, <3>1, <3>2, SysctlSet, val \in {val, Junk}
    <3>4. hist' = Pinned(h, k)
      BY <2>2, <3>1
    <3> WITNESS h
    <3> QED
      BY <3>3, <3>4
  <2> QED
    BY <2>1, <2>2 DEF SysctlExplicit
<1>5. /\ hist' \in HistRec("sysctl") /\ hist'.tried = hist.tried /\ hist'.want = h.want
      /\ \A j \in Sysctls : hist'.own[j] = IF j = k THEN kern'[j] ELSE hist.own[j]
  BY <1>4, PinnedType
<1>6. Shape' /\ Where' /\ Scanning' /\ Filing'
  BY <1>1, <1>3, <1>4, <1>5, KeepsRest
<1>7. Holding'
  <2>1. ASSUME NEW j \in Sysctls, hist'.own[j] # None
        PROVE  j \in entries' /\ kern'[j] = hist'.own[j]
    <3>1. CASE j = k
      BY <1>3, <1>5, <3>1
    <3>2. CASE j # k
      BY <1>3, <1>4, <1>5, <2>1, <3>2 DEF OneshotInv, Holding
    <3> QED
      BY <3>1, <3>2
  <2> QED
    BY <2>1 DEF Holding
<1>8. Applied'
  BY <1>1, <1>3, <1>4, <1>5 DEF Applied, InForce
<1> QED
  BY <1>6, <1>7, <1>8 DEF OneshotInv

\* A line of a file of sysctls
LEMMA KeepsSysctlLine == OneshotInv /\ SysctlLine => OneshotInv'
<1> SUFFICES ASSUME OneshotInv, SysctlLine PROVE OneshotInv'
  OBVIOUS
<1>1. /\ cmd = "sysctl" /\ pc = "line" /\ lines' \in 0..MaxLines
      /\ UNCHANGED <<cmd, seen, got_map, todo, cmdl_mods>>
  BY LineRead DEF SysctlLine, setup
<1>a. PICK name \in Written, val \in Values \cup {None}, opt \in BOOLEAN :
         \/ ret' = TRUE /\ UNCHANGED <<pc, entries, pattern, kern, hist>>
         \/ SysctlExplicit(PathOf(name), val, opt)
         \/ SysctlGlob(PathOf(name), val, opt)
  BY DEF SysctlLine
<1>b. PICK k : k = PathOf(name)
  OBVIOUS
<1>2. \/ ret' = TRUE /\ UNCHANGED <<pc, entries, pattern, kern, hist>>
      \/ SysctlExplicit(k, val, opt)
      \/ SysctlGlob(k, val, opt)
  BY <1>a, <1>b
<1>3. CASE SysctlExplicit(k, val, opt)
  BY <1>1, <1>3, ExplicitKeeps
<1>4. CASE (ret' = TRUE /\ UNCHANGED <<pc, entries, pattern, kern, hist>>) \/ SysctlGlob(k, val, opt)
  <2>1. pattern \in PatternRec /\ kern \in [Items(cmd) -> States(cmd)] /\ hist \in HistRec(cmd)
    BY DEF OneshotInv, Shape, Kernel
  <2>2. ret \in BOOLEAN
    BY DEF OneshotInv, Shape, Control
  <2>3. UNCHANGED <<entries, kern, hist>> /\ pc' \in {"line", "glob"}
    BY <1>1, <1>4 DEF SysctlGlob
  <2>4. ret' \in BOOLEAN /\ (~ret' => ~ret)
    <3>1. ret' = ret \/ ret' = TRUE
      BY <1>4 DEF SysctlGlob
    <3> QED
      BY <2>2, <3>1
  <2>5. pattern' \in PatternRec
    <3>1. PICK M \in SUBSET Sysctls : M = Matches(k)
      BY DEF Matches
    <3>2. pattern' = pattern \/ pattern' = [left |-> M, opt |-> opt, val |-> val, again |-> FALSE]
      BY <1>4, <3>1 DEF SysctlGlob
    <3>3. [left |-> M, opt |-> opt, val |-> val, again |-> FALSE] \in PatternRec
      BY DEF PatternRec
    <3> QED
      BY <2>1, <3>2, <3>3
  <2>6. Shape' /\ Where' /\ Scanning' /\ Filing'
    BY <1>1, <2>1, <2>3, <2>4, <2>5, KeepsRest
  <2>7. Holding' /\ Applied'
    BY <1>1, <2>3, <2>4 DEF OneshotInv, Holding, Applied, InForce
  <2> QED
    BY <2>6, <2>7 DEF OneshotInv
<1> QED
  BY <1>2, <1>3, <1>4

\* A match of a pattern: it is not set if it was given explicitly.
LEMMA KeepsSysctlMatch == OneshotInv /\ SysctlMatch => OneshotInv'
<1> SUFFICES ASSUME OneshotInv, SysctlMatch PROVE OneshotInv'
  OBVIOUS
<1>1. /\ cmd = "sysctl" /\ pc = "glob"
      /\ UNCHANGED <<cmd, seen, got_map, cmdl_mods, pc, todo, lines, entries>>
  BY DEF OneshotInv, SysctlMatch, setup, Where
<1>2. lines' \in 0..MaxLines
  BY <1>1 DEF OneshotInv, Shape, Control
<1>3. /\ Items(cmd) = Sysctls /\ States(cmd) = Values \cup {Junk} /\ kern \in [Sysctls -> Values \cup {Junk}]
      /\ hist \in HistRec(cmd) /\ pattern \in PatternRec
  BY <1>1, ItemsOf DEF OneshotInv, Shape, Kernel
<1>4. ret \in BOOLEAN
  BY DEF OneshotInv, Shape, Control
<1>5. PICK k \in pattern.left :
        \/ /\ pattern' = [pattern EXCEPT !.left = @ \ {k}] /\ UNCHANGED <<kern, hist>>
           /\ (UNCHANGED ret \/ ret' = TRUE)
        \/ /\ ~Skipped(k) /\ pattern.val # None
           /\ \E o \in Endings(k), v \in MatchValues :
               /\ SetSysctl(k, v, pattern.opt, o)
               /\ hist' = Asked(k, pattern.val, pattern.opt, o)
               /\ pattern' = [pattern EXCEPT !.left = @ \ {k}, !.again = @ \/ o # "EACCES"]
  BY DEF SysctlMatch
<1>6. k \in Sysctls
  BY <1>3, <1>5 DEF PatternRec
<1>7. CASE /\ pattern' = [pattern EXCEPT !.left = @ \ {k}] /\ UNCHANGED <<kern, hist>>
           /\ (UNCHANGED ret \/ ret' = TRUE)
  <2>1. pattern' \in PatternRec
    BY <1>3, <1>7 DEF PatternRec
  <2>2. ret' \in BOOLEAN /\ (~ret' => ~ret)
    BY <1>4, <1>7
  <2>3. Shape' /\ Where' /\ Scanning' /\ Filing'
    BY <1>1, <1>2, <1>3, <1>7, <2>1, <2>2, KeepsRest
  <2>4. Holding' /\ Applied'
    BY <1>1, <1>7, <2>2 DEF OneshotInv, Holding, Applied, InForce
  <2> QED
    BY <2>3, <2>4 DEF OneshotInv
<1>8. ASSUME ~Skipped(k), pattern.val # None, NEW o \in Endings(k), NEW v \in MatchValues,
             SetSysctl(k, v, pattern.opt, o),
             hist' = Asked(k, pattern.val, pattern.opt, o),
             pattern' = [pattern EXCEPT !.left = @ \ {k}, !.again = @ \/ o # "EACCES"]
      PROVE  OneshotInv'
  <2>1. pattern' \in PatternRec
    BY <1>3, <1>8 DEF PatternRec
  <2>2. PICK val \in Values : val = pattern.val
    BY <1>3, <1>8 DEF PatternRec
  <2>3. v \in {val, Junk} /\ pattern.opt \in BOOLEAN /\ hist' = Asked(k, val, pattern.opt, o)
    BY <1>3, <1>8, <2>2 DEF PatternRec, MatchValues
  <2>4. /\ kern' \in [Sysctls -> Values \cup {Junk}] /\ ret' \in BOOLEAN
        /\ \A j \in Sysctls : j # k => kern'[j] = kern[j]
        /\ hist' \in HistRec(cmd) /\ hist'.tried = hist.tried /\ hist'.own = hist.own
        /\ ~ret' => \A j \in Sysctls : hist'.want[j] # None => kern'[j] \in {hist'.want[j], Junk}
    BY <1>1, <1>8, <2>2, <2>3, SysctlSet
  <2>5. Shape' /\ Where' /\ Scanning' /\ Filing'
    BY <1>1, <1>2, <1>3, <2>1, <2>4, KeepsRest
  <2>6. Holding'
    <3>1. k \notin entries
      BY <1>8 DEF Skipped
    <3>2. \A j \in Sysctls : hist.own[j] # None => j \in entries /\ kern[j] = hist.own[j]
      BY <1>1 DEF OneshotInv, Holding
    <3> QED
      BY <1>1, <2>4, <3>1, <3>2 DEF Holding
  <2>7. Applied'
    BY <1>1, <1>3, <2>4 DEF Applied, InForce
  <2> QED
    BY <2>5, <2>6, <2>7 DEF OneshotInv
<1> QED
  BY <1>5, <1>7, <1>8

\* The pattern is dealt with.
LEMMA KeepsGlobDone == OneshotInv /\ GlobDone => OneshotInv'
<1> SUFFICES ASSUME OneshotInv, GlobDone PROVE OneshotInv'
  OBVIOUS
<1>1. /\ cmd = "sysctl" /\ pc = "glob" /\ pc' = "line" /\ pattern' = NoPattern
      /\ UNCHANGED <<cmd, seen, got_map, cmdl_mods, todo, lines, ret, entries, kern, hist>>
  BY DEF OneshotInv, GlobDone, setup, Where
<1>2. lines' \in 0..MaxLines /\ ret' \in BOOLEAN /\ kern' \in [Items(cmd) -> States(cmd)]
      /\ hist' \in HistRec(cmd)
  BY <1>1 DEF OneshotInv, Shape, Control, Kernel
<1>3. pattern' \in PatternRec
  BY <1>1 DEF NoPattern, PatternRec
<1>4. Shape' /\ Where' /\ Scanning' /\ Filing'
  BY <1>1, <1>2, <1>3, KeepsRest
<1>5. Holding' /\ Applied'
  BY <1>1 DEF OneshotInv, Holding, Applied, InForce
<1> QED
  BY <1>4, <1>5 DEF OneshotInv

-----------------------------------------------------------------------------
(* kmod *)

\* mod_load: whatever becomes of the modules, no failure is forgotten.
LEMMA ModLoadKeeps ==
    ASSUME OneshotInv, cmd \in Kmod, NEW name, NEW ms \in SUBSET Modules, ModLoad(name, ms)
    PROVE  /\ kern' \in [Items(cmd) -> States(cmd)] /\ ret' \in BOOLEAN
           /\ hist' \in HistRec(cmd) /\ hist'.tried = hist.tried
           /\ ~ret' => \A m \in Items(cmd) : hist'.want[m] # None => kern'[m] = hist'.want[m]
<1>1. /\ Items(cmd) = Modules /\ States(cmd) = {"in", "out"}
      /\ kern \in [Modules -> {"in", "out"}] /\ hist \in HistRec(cmd)
  BY ItemsOf DEF OneshotInv, Shape, Kernel
<1>2. ret \in BOOLEAN
  BY DEF OneshotInv, Shape, Control
<1>3. ~ret => \A m \in Modules : hist.want[m] # None => kern[m] = hist.want[m]
  BY <1>1 DEF OneshotInv, Applied, InForce, Kmod
<1>4. CASE ret' = TRUE /\ UNCHANGED <<kern, hist>>
  BY <1>1, <1>4
<1>5. ASSUME NEW o \in [ms -> Probes], Insert(name, ms, o),
             hist' = [hist EXCEPT !.want = [m \in Modules |->
                 IF m \in ms /\ (o[m] = "ok" \/ ~Excused(name, o[m])) THEN "in" ELSE @[m]]]
      PROVE  /\ kern' \in [Items(cmd) -> States(cmd)] /\ ret' \in BOOLEAN
             /\ hist' \in HistRec(cmd) /\ hist'.tried = hist.tried
             /\ ~ret' => \A m \in Items(cmd) : hist'.want[m] # None => kern'[m] = hist'.want[m]
  <2>1. PICK new : new = {m \in ms : kern[m] = "out"}
    OBVIOUS
  <2>2. kern' = [m \in Modules |-> IF m \in new /\ o[m] = "ok" THEN "in" ELSE kern[m]]
    BY <1>5, <2>1 DEF Insert
  <2>3. ret' = (ret \/ \E m \in new : ~Excused(name, o[m]))
    BY <1>5, <2>1 DEF Insert
  <2>4. ret' \in BOOLEAN /\ (~ret' => ~ret /\ \A m \in new : Excused(name, o[m]))
    BY <2>3
  <2>5. PICK w : w = [m \in Modules |->
            IF m \in ms /\ (o[m] = "ok" \/ ~Excused(name, o[m])) THEN "in" ELSE hist.want[m]]
    OBVIOUS
  <2>6. w \in [Modules -> Values \cup {None, "in", "out"}]
    BY <1>1, <2>5 DEF HistRec
  <2>7. hist' = [hist EXCEPT !.want = w]
    BY <1>5, <2>5
  <2>8. hist' \in HistRec(cmd) /\ hist'.tried = hist.tried /\ hist'.want = w
    BY <1>1, <2>6, <2>7 DEF HistRec
  <2>9. kern' \in [Modules -> {"in", "out"}]
    BY <1>1, <2>2
  <2>10. ASSUME ~ret', NEW m \in Modules, w[m] # None PROVE kern'[m] = w[m]
    <3>1. ~ret /\ \A x \in new : Excused(name, o[x])
      BY <2>4, <2>10
    <3>2. CASE m \in new /\ o[m] = "ok"
      BY <2>1, <2>2, <2>5, <3>2
    <3>3. CASE m \in new /\ o[m] # "ok"
      <4>1. w[m] = hist.want[m] /\ kern'[m] = kern[m]
        BY <2>2, <2>5, <3>1, <3>3
      <4> QED
        BY <1>3, <2>10, <3>1, <4>1
    <3>4. CASE m \notin new /\ m \in ms
      <4>1. kern'[m] = "in" /\ kern[m] = "in"
        BY <1>1, <2>1, <2>2, <3>4
      <4>2. w[m] = "in" \/ w[m] = hist.want[m]
        BY <2>5
      <4> QED
        BY <1>3, <2>10, <3>1, <4>1, <4>2
    <3>5. CASE m \notin ms
      <4>1. w[m] = hist.want[m] /\ kern'[m] = kern[m]
        BY <2>1, <2>2, <2>5, <3>5
      <4> QED
        BY <1>3, <2>10, <3>1, <4>1
    <3> QED
      BY <2>1, <3>2, <3>3, <3>4, <3>5
  <2> QED
    BY <1>1, <2>4, <2>8, <2>9, <2>10
<1> QED
  BY <1>4, <1>5 DEF ModLoad

\* Steps that insert modules and stay where they are
LEMMA ModStepKeeps ==
    ASSUME OneshotInv, cmd \in Kmod, cmd # "static-modules",
           NEW name, NEW ms \in SUBSET Modules, ModLoad(name, ms), pc \in {"line", "cmdline"}, lines' \in 0..MaxLines,
           UNCHANGED <<cmd, pc, seen, got_map, todo, pattern>>,
           UNCHANGED cmdl_mods \/ cmdl_mods' \in Seq(DOMAIN Lookup)
    PROVE  OneshotInv'
<1>1. /\ kern' \in [Items(cmd) -> States(cmd)] /\ ret' \in BOOLEAN
      /\ hist' \in HistRec(cmd) /\ hist'.tried = hist.tried
      /\ ~ret' => \A m \in Items(cmd) : hist'.want[m] # None => kern'[m] = hist'.want[m]
  BY ModLoadKeeps
<1>2. pattern' \in PatternRec
  BY DEF OneshotInv, Shape, Kernel
<1>3. Shape' /\ Where' /\ Scanning' /\ Filing'
  BY <1>1, <1>2, KeepsRest
<1>4. Holding' /\ Applied'
  BY <1>1 DEF Holding, Applied, InForce, Kmod
<1> QED
  BY <1>3, <1>4 DEF OneshotInv

\* The modules of the kernel command line, one after the other
LEMMA KeepsModCmdline == OneshotInv /\ ModCmdline => OneshotInv'
<1> SUFFICES ASSUME OneshotInv, ModCmdline PROVE OneshotInv'
  OBVIOUS
<1>1. /\ pc = "cmdline" /\ cmd \in Kmod /\ cmd # "static-modules" /\ cmdl_mods # <<>> /\ cmdl_mods' = Tail(cmdl_mods)
      /\ ModLoad(Head(cmdl_mods), Lookup[Head(cmdl_mods)])
      /\ UNCHANGED <<cmd, pc, seen, got_map, todo, lines, pattern>>
  BY DEF OneshotInv, ModCmdline, Where, Kmod
<1>2. cmdl_mods \in Seq(DOMAIN Lookup) /\ lines' \in 0..MaxLines
  BY <1>1 DEF OneshotInv, Shape, Lists, Control
<1>3. Tail(cmdl_mods) \in Seq(DOMAIN Lookup) /\ Head(cmdl_mods) \in DOMAIN Lookup
  BY <1>1, <1>2, HeadAndTail
<1>4. PICK n \in DOMAIN Lookup, ms \in SUBSET Modules : n = Head(cmdl_mods) /\ ms = Lookup[n]
  BY <1>3, OneshotAssumption
<1>5. ModLoad(n, ms)
  BY <1>1, <1>4
<1> QED
  BY <1>1, <1>2, <1>3, <1>5, ModStepKeeps

\* ... and when they are done, the files
LEMMA KeepsCmdlineDone == OneshotInv /\ CmdlineDone => OneshotInv'
<1> SUFFICES ASSUME OneshotInv, CmdlineDone PROVE OneshotInv'
  OBVIOUS
<1> USE DEF OneshotInv
<1>1. /\ pc = "cmdline" /\ cmd \in Scanners /\ pc' = "file"
      /\ UNCHANGED <<cmd, seen, got_map, todo, lines, ret, entries, pattern, cmdl_mods, kern, hist>>
  BY DEF CmdlineDone, Goto, setup, Where, Scanners
<1>2. Shape' /\ Where' /\ Scanning'
  BY <1>1 DEF Shape, Control, Lists, Kernel, Phase, Where, Scanning
<1>3. Filing'
  <2>1. hist.tried = <<>> /\ todo = Order /\ Order' = Order
    BY <1>1 DEF Filing, Order
  <2>2. Order \in Seq(Range(Names))
    BY InOrderType DEF Order
  <2>3. <<>> \o Order = Order
    BY <2>2
  <2> QED
    BY <1>1, <2>1, <2>2, <2>3 DEF Filing
<1>4. Holding' /\ Applied'
  BY <1>1 DEF Holding, Applied, InForce
<1> QED
  BY <1>2, <1>3, <1>4

\* A line of a file of modules
LEMMA KeepsModLine == OneshotInv /\ ModLine => OneshotInv'
<1> SUFFICES ASSUME OneshotInv, ModLine PROVE OneshotInv'
  OBVIOUS
<1>1. /\ pc = "line" /\ lines' \in 0..MaxLines /\ cmd \in Kmod /\ cmd # "static-modules"
      /\ UNCHANGED <<cmd, pc, seen, got_map, todo, pattern, cmdl_mods>>
  BY LineRead DEF ModLine, setup, Kmod
<1>2. PICK name \in DOMAIN Lookup, indented \in BOOLEAN :
         ModLoad(name, IF indented THEN {} ELSE Lookup[name])
  BY DEF ModLine
<1>3. PICK ms \in SUBSET Modules : ms = IF indented THEN {} ELSE Lookup[name]
  BY OneshotAssumption
<1>4. ModLoad(name, ms)
  BY <1>2, <1>3
<1> QED
  BY <1>1, <1>4, ModStepKeeps

\* kmod load
LEMMA KeepsModOne == OneshotInv /\ ModOne => OneshotInv'
<1> SUFFICES ASSUME OneshotInv, ModOne PROVE OneshotInv'
  OBVIOUS
<1>1. /\ cmd = "load" /\ cmd \in Kmod /\ cmd \notin Scanners /\ pc = "line" /\ pc' = "done"
      /\ UNCHANGED <<cmd, seen, got_map, todo, lines, entries, pattern, cmdl_mods>>
  BY DEF ModOne, setup, Kmod, Scanners
<1>2. PICK name \in DOMAIN Lookup : ModLoad(name, Lookup[name])
  BY DEF ModOne
<1>3. PICK ms \in SUBSET Modules : ms = Lookup[name]
  BY OneshotAssumption
<1>4. ModLoad(name, ms)
  BY <1>2, <1>3
<1>5. /\ kern' \in [Items(cmd) -> States(cmd)] /\ ret' \in BOOLEAN
      /\ hist' \in HistRec(cmd) /\ hist'.tried = hist.tried
      /\ ~ret' => \A m \in Items(cmd) : hist'.want[m] # None => kern'[m] = hist'.want[m]
  BY <1>1, <1>4, ModLoadKeeps
<1>6. Shape'
  BY <1>1, <1>5 DEF OneshotInv, Shape, Control, Lists, Kernel, Phase
<1>7. Where' /\ Scanning' /\ Filing'
  BY <1>1, <1>5 DEF OneshotInv, Where, Scanning, Filing
<1>8. Holding' /\ Applied'
  BY <1>1, <1>5 DEF Holding, Applied, InForce
<1> QED
  BY <1>6, <1>7, <1>8 DEF OneshotInv

\* A line of modules.devname
LEMMA KeepsStaticLine == OneshotInv /\ StaticLine => OneshotInv'
<1> SUFFICES ASSUME OneshotInv, StaticLine PROVE OneshotInv'
  OBVIOUS
<1>1. /\ pc = "line" /\ lines' \in 0..MaxLines /\ cmd = "static-modules" /\ cmd \in Kmod
      /\ UNCHANGED <<cmd, pc, seen, got_map, todo, ret, entries, pattern, cmdl_mods, hist>>
  BY LineRead DEF StaticLine, setup, Kmod
<1>2. /\ Items(cmd) = Modules /\ States(cmd) = {"in", "out"}
      /\ kern \in [Modules -> {"in", "out"}] /\ hist \in HistRec(cmd) /\ pattern \in PatternRec
  BY <1>1, ItemsOf DEF OneshotInv, Shape, Kernel
<1>3. PICK new : kern' = [m \in Modules |-> IF m \in new THEN "in" ELSE kern[m]]
  <2>1. PICK name, o :
           kern' = [m \in Modules |-> IF m \in Lookup[name] /\ o[m] = "ok" THEN "in" ELSE kern[m]]
    BY DEF StaticLine
  <2>2. PICK new : new = {m \in Modules : m \in Lookup[name] /\ o[m] = "ok"}
    OBVIOUS
  <2>3. kern' = [m \in Modules |-> IF m \in new THEN "in" ELSE kern[m]]
    BY <2>1, <2>2
  <2> QED
    BY <2>3
<1>4. kern' \in [Modules -> {"in", "out"}]
  BY <1>2, <1>3
<1>5. ret' \in BOOLEAN
  BY <1>1 DEF OneshotInv, Shape, Control
<1>6. Shape' /\ Where' /\ Scanning' /\ Filing'
  BY <1>1, <1>2, <1>4, <1>5, KeepsRest
<1>7. Holding' /\ Applied'
  BY <1>1 DEF OneshotInv, Holding, Applied, InForce
<1> QED
  BY <1>6, <1>7 DEF OneshotInv

-----------------------------------------------------------------------------
(* swap *)

\* An fstab entry at the start
LEMMA KeepsSwapOn == OneshotInv /\ SwapOn => OneshotInv'
<1> SUFFICES ASSUME OneshotInv, SwapOn PROVE OneshotInv'
  OBVIOUS
<1>1. /\ pc = "line" /\ lines' \in 0..MaxLines /\ cmd = "swap start"
      /\ UNCHANGED <<cmd, pc, seen, got_map, todo, entries, pattern, cmdl_mods>>
  BY LineRead DEF SwapOn, setup
<1>2. /\ Items(cmd) = Swaps /\ States(cmd) = {"in", "out"}
      /\ kern \in [Swaps -> {"in", "out"}] /\ hist \in HistRec(cmd) /\ pattern \in PatternRec
  BY <1>1, ItemsOf DEF OneshotInv, Shape, Kernel
<1>3. ret \in BOOLEAN
  BY DEF OneshotInv, Shape, Control
<1>4. ~ret => \A i \in Swaps : hist.want[i] # None => kern[i] = hist.want[i]
  BY <1>1, <1>2 DEF OneshotInv, Applied, InForce
<1>5. Holding'
  BY <1>1 DEF Holding
<1>6. CASE UNCHANGED <<kern, ret, hist>>
  <2>1. Shape' /\ Where' /\ Scanning' /\ Filing'
    BY <1>1, <1>2, <1>3, <1>6, KeepsRest
  <2>2. Applied'
    BY <1>1, <1>6 DEF OneshotInv, Applied, InForce
  <2> QED
    BY <1>5, <2>1, <2>2 DEF OneshotInv
<1>7. ASSUME NEW s \in Swaps, hist' = [hist EXCEPT !.want[s] = "in"],
             \/ ret' = TRUE /\ UNCHANGED kern
             \/ kern[s] = "out" /\ kern' = [kern EXCEPT ![s] = "in"] /\ UNCHANGED ret
      PROVE  OneshotInv'
  <2>1. /\ hist' \in HistRec(cmd) /\ hist'.tried = hist.tried
        /\ hist'.want[s] = "in" /\ \A j \in Swaps : j # s => hist'.want[j] = hist.want[j]
    BY <1>2, <1>7, WantMore
  <2>2. kern' \in [Swaps -> {"in", "out"}] /\ \A j \in Swaps : j # s => kern'[j] = kern[j]
    BY <1>2, <1>7
  <2>3. ret' = TRUE \/ (ret' = ret /\ kern'[s] = "in")
    BY <1>2, <1>7
  <2>4. ret' \in BOOLEAN
    BY <1>3, <2>3
  <2>5. Shape' /\ Where' /\ Scanning' /\ Filing'
    BY <1>1, <1>2, <2>1, <2>2, <2>4, KeepsRest
  <2>6. ASSUME ~ret', NEW i \in Swaps, hist'.want[i] # None PROVE kern'[i] = hist'.want[i]
    BY <1>4, <2>1, <2>2, <2>3, <2>6
  <2>7. Applied'
    BY <1>1, <1>2, <2>6 DEF Applied, InForce
  <2> QED
    BY <1>5, <2>5, <2>7 DEF OneshotInv
<1> QED
  BY <1>6, <1>7 DEF SwapOn

\* do_swapoff, and an fstab entry that needs none
LEMMA OffKeeps ==
    ASSUME OneshotInv, cmd = "swap stop", NEW s \in Swaps,
           \/ SwapOff(s)
           \/ UNCHANGED <<kern, ret>> /\ kern[s] = "out"
           \/ s \notin Zram /\ ret' = TRUE /\ UNCHANGED kern
    PROVE  /\ kern' \in [Items(cmd) -> States(cmd)] /\ ret' \in BOOLEAN /\ (~ret' => ~ret)
           /\ \A j \in Swaps : kern[j] = "out" => kern'[j] = "out"
           /\ ~ret' /\ s \notin Zram => kern'[s] = "out"
<1>1. /\ Items(cmd) = Swaps /\ States(cmd) = {"in", "out"} /\ kern \in [Swaps -> {"in", "out"}]
  BY ItemsOf DEF OneshotInv, Shape, Kernel
<1>2. ret \in BOOLEAN
  BY DEF OneshotInv, Shape, Control
<1>3. kern' = kern \/ kern' = [kern EXCEPT ![s] = "out"]
  BY DEF SwapOff
<1>4. ret' = ret \/ ret' = TRUE
  BY DEF SwapOff
<1>5. kern' \in [Swaps -> {"in", "out"}] /\ \A j \in Swaps : kern[j] = "out" => kern'[j] = "out"
  BY <1>1, <1>3
<1>6. s \in Zram \/ ret' = TRUE \/ kern'[s] = "out"
  BY <1>1 DEF SwapOff
<1> QED
  BY <1>1, <1>2, <1>4, <1>5, <1>6

\* What is in a list is its head or in its tail.
LEMMA InHeadOrTail ==
    ASSUME NEW S, NEW t \in Seq(S), t # <<>>, NEW j \in DOMAIN t
    PROVE  t[j] = Head(t) \/ \E i \in DOMAIN Tail(t) : Tail(t)[i] = t[j]
<1>1. PICK n \in Nat : n = Len(t)
  OBVIOUS
<1>2. j \in 1..n /\ DOMAIN Tail(t) = 1..(n - 1)
  BY <1>1
<1>3. CASE j = 1
  BY <1>3
<1>4. CASE j # 1
  <2>1. j - 1 \in 1..(n - 1)
    BY <1>1, <1>2, <1>4
  <2>2. Tail(t)[j - 1] = t[j]
    BY <1>1, <1>2, <2>1
  <2> QED
    BY <1>2, <2>1, <2>2
<1> QED
  BY <1>3, <1>4

\* A line of /proc/swaps: the area is off, or was not to be.
LEMMA KeepsProcSwap == OneshotInv /\ ProcSwap => OneshotInv'
<1> SUFFICES ASSUME OneshotInv, ProcSwap PROVE OneshotInv'
  OBVIOUS
<1>1. /\ pc = "swaps" /\ cmd = "swap stop" /\ todo # <<>> /\ todo' = Tail(todo)
      /\ SwapOff(Head(todo))
      /\ UNCHANGED <<cmd, seen, got_map, cmdl_mods, pc, lines, entries, pattern, hist>>
  BY DEF OneshotInv, ProcSwap, setup, Where
<1>2. todo \in Seq(Swaps)
  BY <1>1 DEF OneshotInv, Shape, Lists
<1>3. Tail(todo) \in Seq(Swaps) /\ Head(todo) \in Swaps
  BY <1>1, <1>2, HeadAndTail
<1>4. PICK s \in Swaps : s = Head(todo)
  BY <1>3
<1>5. /\ kern' \in [Items(cmd) -> States(cmd)] /\ ret' \in BOOLEAN /\ (~ret' => ~ret)
      /\ \A j \in Swaps : kern[j] = "out" => kern'[j] = "out"
      /\ ~ret' /\ s \notin Zram => kern'[s] = "out"
  BY <1>1, <1>4, OffKeeps
<1>6. Shape'
  BY <1>1, <1>3, <1>5 DEF OneshotInv, Shape, Control, Lists, Kernel
<1>7. Where' /\ Scanning' /\ Filing' /\ Holding'
  BY <1>1 DEF OneshotInv, Where, Scanning, Filing, Holding
<1>8. \A j \in DOMAIN todo : todo[j] = s \/ \E i \in DOMAIN Tail(todo) : Tail(todo)[i] = todo[j]
  BY <1>1, <1>2, <1>4, InHeadOrTail
<1>9. Applied'
  <2>1. Items(cmd) = Swaps
    BY <1>1, ItemsOf
  <2>2. \A i \in Swaps : hist.want[i] # None => hist.want[i] = "out" /\ i \notin Zram
    BY <1>1 DEF OneshotInv, Applied, InForce
  <2>3. ASSUME ~ret', NEW i \in Swaps, hist.want[i] # None
        PROVE  kern'[i] = "out" \/ \E j \in DOMAIN todo' : todo'[j] = i
    <3>1. kern[i] = "out" \/ \E j \in DOMAIN todo : todo[j] = i
      BY <1>1, <1>5, <2>1, <2>2, <2>3 DEF OneshotInv, Applied, InForce
    <3>2. CASE kern[i] = "out"
      BY <1>5, <3>2
    <3>3. CASE \E j \in DOMAIN todo : todo[j] = i
      BY <1>1, <1>5, <1>8, <2>2, <2>3, <3>3
    <3> QED
      BY <3>1, <3>2, <3>3
  <2> QED
    BY <1>1, <2>1, <2>2, <2>3 DEF Applied, InForce
<1> QED
  BY <1>6, <1>7, <1>9 DEF OneshotInv

\* All of /proc/swaps has been gone through.
LEMMA KeepsProcSwapsDone == OneshotInv /\ ProcSwapsDone => OneshotInv'
<1> SUFFICES ASSUME OneshotInv, ProcSwapsDone PROVE OneshotInv'
  OBVIOUS
<1>1. /\ pc = "swaps" /\ cmd = "swap stop" /\ cmd \notin Scanners /\ todo = <<>> /\ pc' = "line"
      /\ UNCHANGED <<cmd, seen, got_map, todo, lines, ret, entries, pattern, cmdl_mods, kern, hist>>
  BY DEF OneshotInv, ProcSwapsDone, Goto, setup, Where, Scanners
<1>2. Shape'
  BY <1>1 DEF OneshotInv, Shape, Control, Lists, Kernel, Phase
<1>3. Where' /\ Scanning' /\ Filing' /\ Holding'
  BY <1>1 DEF OneshotInv, Where, Scanning, Filing, Holding
<1>4. Applied'
  <2>1. \A t : t = <<>> => DOMAIN t = {}
    OBVIOUS
  <2>2. DOMAIN todo = {}
    BY <1>1, <2>1, Zenon
  <2> QED
    BY <1>1, <2>2 DEF OneshotInv, Applied, InForce
<1> QED
  BY <1>2, <1>3, <1>4 DEF OneshotInv

\* An fstab entry at the stop
LEMMA KeepsFstabSwap == OneshotInv /\ FstabSwap => OneshotInv'
<1> SUFFICES ASSUME OneshotInv, FstabSwap PROVE OneshotInv'
  OBVIOUS
<1>1. /\ pc = "line" /\ lines' \in 0..MaxLines /\ cmd = "swap stop"
      /\ UNCHANGED <<cmd, pc, seen, got_map, todo, entries, pattern, cmdl_mods>>
  BY LineRead DEF FstabSwap, setup
<1>2. PICK s \in Swaps :
        /\ \/ SwapOff(s)
           \/ UNCHANGED <<kern, ret>> /\ kern[s] = "out"
           \/ s \notin Zram /\ ret' = TRUE /\ UNCHANGED kern
        /\ hist' = IF s \in Zram THEN hist ELSE [hist EXCEPT !.want[s] = "out"]
  BY DEF FstabSwap
<1>3. /\ kern' \in [Items(cmd) -> States(cmd)] /\ ret' \in BOOLEAN /\ (~ret' => ~ret)
      /\ \A j \in Swaps : kern[j] = "out" => kern'[j] = "out"
      /\ ~ret' /\ s \notin Zram => kern'[s] = "out"
  BY <1>1, <1>2, OffKeeps
<1>4. hist \in HistRec(cmd) /\ pattern \in PatternRec /\ Items(cmd) = Swaps
  BY <1>1, ItemsOf DEF OneshotInv, Shape, Kernel
<1>5. /\ hist' \in HistRec(cmd) /\ hist'.tried = hist.tried
      /\ \A i \in Swaps :
            \/ hist'.want[i] = hist.want[i]
            \/ i = s /\ s \notin Zram /\ hist'.want[i] = "out"
  <2>1. CASE s \in Zram
    BY <1>2, <1>4, <2>1
  <2>2. CASE s \notin Zram
    <3>1. hist' = [hist EXCEPT !.want[s] = "out"]
      BY <1>2, <2>2
    <3> QED
      BY <1>4, <2>2, <3>1, WantMore
  <2> QED
    BY <2>1, <2>2
<1>6. Shape' /\ Where' /\ Scanning' /\ Filing'
  BY <1>1, <1>3, <1>4, <1>5, KeepsRest
<1>7. Holding'
  BY <1>1 DEF Holding
<1>8. Applied'
  <2>1. \A i \in Swaps : hist.want[i] # None => hist.want[i] = "out" /\ i \notin Zram
    BY <1>1 DEF OneshotInv, Applied, InForce
  <2>2. ~ret => \A i \in Swaps : hist.want[i] # None => kern[i] = "out"
    BY <1>1, <1>4, <2>1 DEF OneshotInv, Applied, InForce
  <2>3. \A i \in Swaps : hist'.want[i] # None => hist'.want[i] = "out" /\ i \notin Zram
    BY <1>5, <2>1
  <2>4. ASSUME ~ret', NEW i \in Swaps, hist'.want[i] # None PROVE kern'[i] = "out"
    BY <1>3, <1>5, <2>2, <2>4
  <2> QED
    BY <1>1, <1>4, <2>3, <2>4 DEF Applied, InForce
<1> QED
  BY <1>6, <1>7, <1>8 DEF OneshotInv

-----------------------------------------------------------------------------
(* The theorems *)

\* Every step keeps the invariant.
LEMMA OneshotNext == OneshotInv /\ [Next]_vars => OneshotInv'
<1> SUFFICES ASSUME OneshotInv, [Next]_vars PROVE OneshotInv'
  OBVIOUS
<1>1. CASE UNCHANGED vars
  <2>1. UNCHANGED <<cmd, pc, seen, got_map, todo, lines, ret, entries, pattern, cmdl_mods, kern, hist>>
    BY <1>1 DEF vars
  <2>2. Shape'
    BY <2>1 DEF OneshotInv, Shape, Control, Lists, Kernel
  <2>3. Where' /\ Holding'
    BY <2>1 DEF OneshotInv, Where, Holding
  <2>4. Scanning'
    BY <2>1, Zenon DEF OneshotInv, Scanning, Accepts
  <2>5. Filing'
    BY <2>1, Zenon DEF OneshotInv, Filing, Order
  <2>6. Applied'
    BY <2>1, Zenon DEF OneshotInv, Applied, InForce
  <2> QED
    BY <2>2, <2>3, <2>4, <2>5, <2>6 DEF OneshotInv
<1>2. CASE Next
  BY <1>2, KeepsStartEarlyExit, KeepsUnregister, KeepsStart, KeepsScanDir, KeepsSorted,
     KeepsNextFile, KeepsLastFile, KeepsEndOfFile, KeepsSysctlLine, KeepsSysctlMatch,
     KeepsGlobDone, KeepsModCmdline, KeepsCmdlineDone, KeepsModLine, KeepsModOne,
     KeepsStaticLine, KeepsRuleLine, KeepsPrintLine, KeepsSwapOn, KeepsProcSwap,
     KeepsProcSwapsDone, KeepsFstabSwap DEF Next
<1> QED
  BY <1>1, <1>2

\* The invariant holds of every behaviour.
LEMMA OneshotInvariance == Spec => []OneshotInv
BY OneshotInit, OneshotNext, PTL DEF Spec

\* For any files, lines and kernel the state keeps its type: a sysctl is set to a
\* value of a line or, by a later match of a pattern, to one that goes on with
\* the rest of the buffer, and never to a value that is missing (load_sysctl).
THEOREM OneshotTypeCorrect == Spec => []TypeOK
<1>1. OneshotInv => TypeOK
  <2> SUFFICES ASSUME OneshotInv PROVE TypeOK
    OBVIOUS
  <2>1. Range(got_map) \subseteq 1..NDirs /\ DOMAIN got_map \subseteq Range(Names)
    BY DEF OneshotInv, Shape, Lists, Range
  <2>2. Range(cmdl_mods) \subseteq DOMAIN Lookup
    <3>1. cmdl_mods \in Seq(DOMAIN Lookup)
      BY DEF OneshotInv, Shape, Lists
    <3> QED
      BY <3>1 DEF Range
  <2>3. pattern.left \subseteq Sysctls /\ kern \in [Items(cmd) -> States(cmd)]
    BY DEF OneshotInv, Shape, Kernel, PatternRec
  <2>4. Len(seen) <= NDirs
    BY DEF OneshotInv, Shape, Lists
  <2>5. cmd \in Commands /\ pc \in Phase /\ lines \in 0..MaxLines /\ ret \in BOOLEAN
    BY DEF OneshotInv, Shape, Control
  <2> QED
    BY <2>1, <2>2, <2>3, <2>4, <2>5 DEF TypeOK
<1> QED
  BY <1>1, OneshotInvariance, PTL

\* Of each name the file of the first directory that has one is loaded, all names
\* in order and once, whatever fails on the way, and nothing else but, by sysctl,
\* /etc/sysctl.conf at the end (main of sysctl, kmod and binfmt).
THEOREM FirstFileWins == Spec => []Precedence
<1>1. OneshotInv => Precedence
  <2> SUFFICES ASSUME OneshotInv PROVE Precedence
    OBVIOUS
  <2>1. ASSUME pc = "sorted"
        PROVE  got_map = [n \in {m \in Range(Names) :
                                    \E d \in DOMAIN seen : Accepts(seen[d][m])} |->
                             CHOOSE d \in DOMAIN seen :
                                /\ Accepts(seen[d][n])
                                /\ \A e \in 1..(d - 1) : ~Accepts(seen[e][n])]
    <3>1. /\ got_map \in [DOMAIN got_map -> 1..NDirs] /\ DOMAIN got_map \subseteq Range(Names)
          /\ seen \in Seq([Range(Names) -> Kind])
      BY DEF OneshotInv, Shape, Lists
    <3>2. PICK l \in Nat : DOMAIN seen = 1..l
      BY <3>1
    <3>3. \A n \in Range(Names) :
            IF n \in DOMAIN got_map
            THEN /\ got_map[n] \in DOMAIN seen /\ Accepts(seen[got_map[n]][n])
                 /\ \A e \in 1..(got_map[n] - 1) : ~Accepts(seen[e][n])
            ELSE \A e \in DOMAIN seen : ~Accepts(seen[e][n])
      BY <2>1 DEF OneshotInv, Scanning
    <3>4. DOMAIN got_map = {m \in Range(Names) : \E d \in DOMAIN seen : Accepts(seen[d][m])}
      BY <3>1, <3>3
    <3>5. ASSUME NEW n \in DOMAIN got_map
          PROVE  got_map[n] = CHOOSE d \in DOMAIN seen :
                                /\ Accepts(seen[d][n])
                                /\ \A e \in 1..(d - 1) : ~Accepts(seen[e][n])
      <4>1. PICK g \in 1..l : g = got_map[n]
        BY <3>1, <3>2, <3>3, <3>5
      <4>2. Accepts(seen[g][n]) /\ \A e \in 1..(g - 1) : ~Accepts(seen[e][n])
        BY <3>1, <3>3, <3>5, <4>1
      <4>3. ASSUME NEW d \in 1..l, Accepts(seen[d][n]),
                   \A e \in 1..(d - 1) : ~Accepts(seen[e][n])
            PROVE  d = g
        <5>1. ~(d \in 1..(g - 1)) /\ ~(g \in 1..(d - 1))
          BY <4>2, <4>3
        <5> QED
          BY <5>1
      <4> QED
        BY <3>2, <4>1, <4>2, <4>3
    <3> QED
      BY <3>1, <3>4, <3>5
  <2>2. pc = "sorted" => todo = Order
    BY DEF OneshotInv, Filing
  <2>3. pc = "done" /\ hist.tried # <<>> =>
            \/ hist.tried = Order
            \/ cmd = "sysctl" /\ hist.tried = Order \o <<sys_path>>
    BY DEF OneshotInv, Filing
  <2> QED
    BY <2>1, <2>2, <2>3 DEF Precedence, Order
<1> QED
  BY <1>1, OneshotInvariance, PTL

\* A sysctl that a line names in full keeps what that line left it with, as
\* load_sysctl skips it in every later pattern.
THEOREM PatternsYield == Spec => []ExplicitPinned
<1>1. OneshotInv => ExplicitPinned
  BY DEF OneshotInv, Holding, ExplicitPinned
<1> QED
  BY <1>1, OneshotInvariance, PTL

\* Exit status 0 means that what was asked for and not excused is in force, for
\* all four helpers: no later success covers up a failure.  Not asked for is the
\* end of swap areas that only a /proc/swaps that cannot be opened would list, and
\* a later match of a pattern may hold its value and the rest of the buffer.
THEOREM SuccessIsComplete == Spec => []SuccessMeansApplied
<1>1. OneshotInv => SuccessMeansApplied
  BY DEF OneshotInv, Applied, InForce, SuccessMeansApplied
<1> QED
  BY <1>1, OneshotInvariance, PTL

=============================================================================
