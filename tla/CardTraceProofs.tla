---------------------------- MODULE CardTraceProofs ----------------------------
(***************************************************************************)
(* What the tracer knows of a card, for any tree of files, any channels    *)
(* and any number of commands.                                             *)
(*                                                                         *)
(* Recursive functions (the ancestors of a file, the elements of a path)   *)
(* are unfolded by lemmas of their own; what holds of all files, or along  *)
(* a path, is proved from a file, or a number, without it that is least.   *)
(***************************************************************************)
EXTENDS CardTrace, WellFoundedInduction, TLAPS

\* What the tracer holds of a channel.
Shown == [file : Known, adf : (Apps \cap Known) \cup {None}]

AllCommands == UNION {Commands(ch) : ch \in Channels}

Reply == [cmd : AllCommands, ok : BOOLEAN, file : Files \cup {None}, chan : Channels, whole : Nat]

-----------------------------------------------------------------------------
(* Recursion.                                                              *)

\* A set of numbers that is not empty has a least one.
LEMMA LeastNumber ==
    ASSUME NEW T \in SUBSET Nat, T # {}
    PROVE  \E i \in T : \A j \in T : i <= j
<1>1. PICK i \in T : \A j \in T : ~(<<j, i>> \in OpToRel(<, Nat))
  BY NatLessThanWellFounded, WFMin
<1>2. ASSUME NEW j \in T PROVE i <= j
  <2>1. i \in Nat /\ j \in Nat
    OBVIOUS
  <2>2. ~(j < i)
    BY <1>1, <2>1 DEF OpToRel
  <2> QED
    BY <2>1, <2>2
<1> QED
  BY <1>2

Steps(n, S) == [(1..n) \X S -> S]

LedBy(step, n, S, begin, h) ==
    /\ h \in [0..n -> S]
    /\ h[0] = begin
    /\ \A i \in 1..n : h[i] = step[<<i, h[i - 1]>>]

\* What is begun and can be gone on with is somewhere after n steps.
LEMMA StepByStep ==
    ASSUME NEW n \in Nat, NEW S, NEW begin \in S, NEW step \in Steps(n, S)
    PROVE  \E h : LedBy(step, n, S, begin, h)
<1> DEFINE Goes(k, h) == /\ h[0] = begin
                         /\ \A i \in 1..k : h[i] = step[<<i, h[i - 1]>>]
           Bad == {k \in 0..n : \A h \in [0..k -> S] : ~Goes(k, h)}
<1>0. step \in [(1..n) \X S -> S]
  BY DEF Steps
<1>1. SUFFICES ASSUME n \in Bad PROVE FALSE
  BY DEF LedBy
<1>2. Bad \in SUBSET Nat /\ Bad # {}
  BY <1>1
<1>3. PICK k \in Bad : \A j \in Bad : k <= j
  <2> HIDE DEF Bad
  <2> QED
    BY <1>2, LeastNumber
<1>4. k # 0
  <2> SUFFICES ASSUME k = 0 PROVE FALSE
    OBVIOUS
  <2> DEFINE h == [i \in 0..0 |-> begin]
  <2>1. h \in [0..k -> S] /\ Goes(k, h)
    OBVIOUS
  <2> QED
    BY <2>1
<1>5. k \in 1..n /\ k - 1 \in 0..n /\ ~(k <= k - 1)
  BY <1>4
<1>6. k - 1 \notin Bad
  <2> HIDE DEF Bad
  <2> QED
    BY <1>3, <1>5
<1>7. PICK g \in [0..(k - 1) -> S] : Goes(k - 1, g)
  BY <1>5, <1>6
<1> DEFINE h == [i \in 0..k |-> IF i = k THEN step[<<k, g[k - 1]>>] ELSE g[i]]
<1>8. step[<<k, g[k - 1]>>] \in S
  BY <1>0, <1>5, <1>7
<1>9. h \in [0..k -> S]
  BY <1>5, <1>7, <1>8
<1>10. Goes(k, h)
  <2>1. h[0] = begin
    BY <1>5, <1>7
  <2>2. ASSUME NEW i \in 1..k PROVE h[i] = step[<<i, h[i - 1]>>]
    <3>1. i - 1 \in 0..(k - 1) /\ i - 1 # k /\ i - 1 \in 0..k /\ i \in 0..k
      BY <1>5
    <3>2. h[i - 1] = g[i - 1]
      BY <3>1
    <3>3. CASE i = k
      BY <3>1, <3>2, <3>3
    <3>4. CASE i # k
      <4>1. i \in 1..(k - 1)
        BY <1>5, <3>4
      <4> QED
        BY <1>7, <3>1, <3>2, <3>4, <4>1
    <3> QED
      BY <3>3, <3>4
  <2> QED
    BY <2>1, <2>2
<1> QED
  BY <1>3, <1>9, <1>10

\* The function that is defined by what a file's ancestors are is one such.
LEMMA AncestorsOf ==
    ASSUME TraceAssumption, NEW f \in Files
    PROVE  ancestors[f] = IF f = MF THEN {} ELSE {Parent[f]} \cup ancestors[Parent[f]]
<1> DEFINE Closed(S) == \A g \in S : g # MF => Parent[g] \in S
           Up(g) == {x \in Files : \A S \in SUBSET Files : g \in S /\ Closed(S) => x \in S}
           a == [g \in Files |-> IF g = MF THEN {} ELSE Up(Parent[g])]
<1>1. ASSUME NEW g \in Files PROVE Up(g) = {g} \cup a[g]
  <2>1. g \in Up(g)
    OBVIOUS
  <2>2. ASSUME NEW x \in a[g] PROVE x \in Up(g)
    <3>1. g # MF /\ x \in Up(Parent[g])
      BY <2>2
    <3>2. ASSUME NEW S \in SUBSET Files, g \in S, Closed(S) PROVE x \in S
      <4>1. Parent[g] \in S
        BY <3>1, <3>2
      <4> QED
        BY <3>1, <3>2, <4>1
    <3> QED
      BY <3>1, <3>2
  <2>3. ASSUME NEW x \in Up(g), x # g PROVE x \in a[g]
    <3>1. CASE g = MF
      <4>1. {g} \in SUBSET Files /\ g \in {g} /\ Closed({g})
        BY <3>1
      <4>2. x \in {g}
        BY <4>1, <2>3
      <4> QED
        BY <2>3, <4>2
    <3>2. CASE g # MF
      <4>1. SUFFICES ASSUME NEW S \in SUBSET Files, Parent[g] \in S, Closed(S) PROVE x \in S
        BY <2>3, <3>2
      <4>2. S \cup {g} \in SUBSET Files /\ g \in S \cup {g} /\ Closed(S \cup {g})
        BY <4>1
      <4>3. x \in S \cup {g}
        BY <4>2, <2>3
      <4> QED
        BY <2>3, <4>3
    <3> QED
      BY <3>1, <3>2
  <2> QED
    BY <2>1, <2>2, <2>3
<1>2. a = [g \in Files |-> IF g = MF THEN {} ELSE {Parent[g]} \cup a[Parent[g]]]
  <2>1. ASSUME NEW g \in Files PROVE a[g] = IF g = MF THEN {} ELSE {Parent[g]} \cup a[Parent[g]]
    <3>1. Parent[g] \in Files
      BY DEF TraceAssumption
    <3> QED
      BY <1>1, <3>1
  <2> HIDE DEF Up, Closed
  <2> QED
    BY <2>1
<1> HIDE DEF a
<1>3. ancestors = [g \in Files |-> IF g = MF THEN {} ELSE {Parent[g]} \cup ancestors[Parent[g]]]
  BY <1>2 DEF ancestors
<1> QED
  BY <1>3

-----------------------------------------------------------------------------
(* What is found by a file identifier.                                     *)

LEMMA AncestorsKnown ==
    ASSUME TraceAssumption, NEW f \in Known
    PROVE  ancestors[f] \subseteq Known
<1> DEFINE S == {g \in Known : ~(ancestors[g] \subseteq Known)}
<1>1. MF \notin S /\ S \in SUBSET Files
  BY AncestorsOf DEF TraceAssumption
<1>2. ASSUME NEW g \in S PROVE Parent[g] \in S
  <2>1. g \in Files /\ Parent[g] \in Known
    BY DEF TraceAssumption
  <2> QED
    BY <2>1, AncestorsOf
<1>3. S = {}
  <2> HIDE DEF S
  <2> QED
    BY <1>1, <1>2 DEF TraceAssumption
<1> QED
  BY <1>3

LEMMA CwdKnown ==
    ASSUME TraceAssumption, NEW f \in Known
    PROVE  Cwd(f) \in Known /\ Cwd(f) \in DFs /\ Cwd(f) \in Selectables(f)
<1>1. f \in Files /\ Parent[f] \in Known \cap DFs /\ MF \in DFs
  BY DEF TraceAssumption
<1>2. ASSUME f # MF PROVE Parent[f] \in ancestors[f]
  <2>1. ancestors[f] = {Parent[f]} \cup ancestors[Parent[f]]
    BY <1>1, <1>2, AncestorsOf
  <2> QED
    BY <2>1
<1> QED
  BY <1>1, <1>2 DEF Cwd, Selectables

LEMMA SelectablesKnown ==
    ASSUME TraceAssumption, NEW f \in Known
    PROVE  Selectables(f) \subseteq Known
BY AncestorsKnown DEF Selectables, ChildrenOf, TraceAssumption

\* One element of a path leads to what the tracer can hold.
LEMMA StepTypes ==
    ASSUME TraceAssumption, NEW ok, NEW at \in Shown, NEW id
    PROVE  Step(ok, at, id) \in Shown
<1>1. at.file \in Known /\ Found(at.file, id) \subseteq Known
  BY SelectablesKnown DEF Shown, Found
<1>2. Usim \in Known /\ Usim \in Apps /\ None \notin Known /\ Apps \subseteq Files
  BY DEF TraceAssumption
<1>3. at.adf # None => at.adf \in Apps /\ at.adf \in Known
  BY DEF Shown
<1>4. at = [file |-> at.file, adf |-> at.adf] /\ at.adf \in (Apps \cap Known) \cup {None}
  BY DEF Shown
<1>5. CASE id = CurrentApp
  <2>1. (IF at.adf = None THEN Usim ELSE at.adf) \in Apps /\ (IF at.adf = None THEN Usim ELSE at.adf) \in Known
    BY <1>2, <1>3
  <2> QED
    BY <1>5, <2>1 DEF Step, Shown
<1>6. CASE id # CurrentApp /\ ok /\ Found(at.file, id) # {}
  <2>1. (CHOOSE g \in Found(at.file, id) : TRUE) \in Known
    BY <1>1, <1>6
  <2> QED
    BY <1>4, <1>6, <2>1 DEF Step, Shown
<1> QED
  BY <1>5, <1>6 DEF Step

-----------------------------------------------------------------------------
(* SELECT by path, at the card and at the tracer.                          *)

MadeAlong(h, path, ok, at) ==
    /\ h \in [0..Len(path) -> Shown]
    /\ h[0] = [at EXCEPT !.file = MF]
    /\ \A i \in 1..Len(path) : h[i] = Step(ok, h[i - 1], path[i])
    /\ select_path(path, ok, at) = h[Len(path)]

\* What the tracer makes of a path is made element by element.
LEMMA PathShown ==
    ASSUME TraceAssumption, NEW path \in Paths, NEW ok, NEW at \in Shown
    PROVE  \E h : MadeAlong(h, path, ok, at)
<1> DEFINE n == Len(path)
           begin == [at EXCEPT !.file = MF]
           step == [x \in (1..n) \X Shown |-> Step(ok, x[2], path[x[1]])]
           after == CHOOSE a : a = [i \in 0..n |-> IF i = 0 THEN begin ELSE Step(ok, a[i - 1], path[i])]
<1>1. n \in Nat /\ begin \in Shown
  BY DEF TraceAssumption, Shown
<1>2. step \in Steps(n, Shown)
  BY StepTypes DEF Steps
<1>3. PICK h \in [0..n -> Shown] : h[0] = begin /\ \A i \in 1..n : h[i] = step[<<i, h[i - 1]>>]
  <2> HIDE DEF step, begin, n
  <2>1. \E h : LedBy(step, n, Shown, begin, h)
    BY <1>1, <1>2, StepByStep
  <2> QED
    BY <2>1 DEF LedBy
<1>4. ASSUME NEW i \in 1..n PROVE h[i] = Step(ok, h[i - 1], path[i])
  <2>1. i - 1 \in 0..n
    BY <1>1
  <2> QED
    BY <1>3, <2>1
<1>5. h = [i \in 0..n |-> IF i = 0 THEN begin ELSE Step(ok, h[i - 1], path[i])]
  <2>1. ASSUME NEW i \in 0..n PROVE h[i] = IF i = 0 THEN begin ELSE Step(ok, h[i - 1], path[i])
    <3>1. i = 0 \/ i \in 1..n
      BY <1>1
    <3> QED
      BY <1>3, <1>4, <3>1
  <2> HIDE DEF begin, n
  <2> QED
    BY <1>3, <2>1
<1>6. after = [i \in 0..n |-> IF i = 0 THEN begin ELSE Step(ok, after[i - 1], path[i])]
  <2> HIDE DEF begin, n
  <2> QED
    BY <1>5
<1>7. select_path(path, ok, at) = after[n]
  BY DEF select_path
<1> HIDE DEF after
\* The function is chosen by what it is, and typed as h is.
<1> DEFINE Wrong == {i \in 0..n : after[i] # h[i]}
<1>8. Wrong = {}
  <2> SUFFICES ASSUME Wrong # {} PROVE FALSE
    OBVIOUS
  <2>1. Wrong \in SUBSET Nat
    BY <1>1
  <2>2. PICK i \in Wrong : \A j \in Wrong : i <= j
    <3> HIDE DEF Wrong
    <3> QED
      BY <2>1, LeastNumber
  <2>3. i \in 1..n /\ i - 1 \in 0..n /\ ~(i <= i - 1)
    BY <1>1, <1>3, <1>6, <2>2
  <2>4. after[i - 1] = h[i - 1]
    BY <2>2, <2>3
  <2> QED
    BY <1>4, <1>6, <2>2, <2>3, <2>4
<1> QED
  BY <1>1, <1>3, <1>4, <1>7, <1>8 DEF MadeAlong

LEMMA SelectPathTypes ==
    ASSUME TraceAssumption, NEW path \in Paths, NEW ok, NEW at \in Shown
    PROVE  select_path(path, ok, at) \in Shown
<1>1. PICK h : MadeAlong(h, path, ok, at)
  BY PathShown
<1>2. Len(path) \in 0..Len(path)
  BY DEF TraceAssumption
<1> QED
  BY <1>1, <1>2 DEF MadeAlong

WalkedAlong(to, path, current) ==
    /\ to \in [0..Len(path) -> SUBSET Files]
    /\ to[0] = {MF}
    /\ \A i \in 1..Len(path) :
          to[i] = IF path[i] = CurrentApp THEN {current} \ {None}
                  ELSE UNION {{g \in ChildrenOf(f, Files) : Fid[g] = path[i]} :
                                 f \in to[i - 1] \cap DFs}
    /\ Walk(path, current) = to[Len(path)]

\* And so is what the card finds.
LEMMA PathWalked ==
    ASSUME TraceAssumption, NEW path \in Paths, NEW current \in Apps \cup {None}
    PROVE  \E to : WalkedAlong(to, path, current)
<1> DEFINE n == Len(path)
           Next1(i, X) == IF path[i] = CurrentApp THEN {current} \ {None}
                          ELSE UNION {{g \in ChildrenOf(f, Files) : Fid[g] = path[i]} : f \in X \cap DFs}
           step == [x \in (1..n) \X SUBSET Files |-> Next1(x[1], x[2])]
           walk == CHOOSE t : t = [i \in 0..n |-> IF i = 0 THEN {MF} ELSE Next1(i, t[i - 1])]
<1>1. n \in Nat /\ {MF} \in SUBSET Files
  BY DEF TraceAssumption
<1>2. ASSUME NEW i, NEW X PROVE Next1(i, X) \in SUBSET Files
  BY DEF TraceAssumption, ChildrenOf
<1> HIDE DEF Next1
<1>3. step \in Steps(n, SUBSET Files)
  BY <1>2 DEF Steps
<1>4. PICK h \in [0..n -> SUBSET Files] : h[0] = {MF} /\ \A i \in 1..n : h[i] = step[<<i, h[i - 1]>>]
  <2> HIDE DEF step, n
  <2>1. \E h : LedBy(step, n, SUBSET Files, {MF}, h)
    BY <1>1, <1>3, StepByStep
  <2> QED
    BY <2>1 DEF LedBy
<1>5. ASSUME NEW i \in 1..n PROVE h[i] = Next1(i, h[i - 1])
  <2>1. i - 1 \in 0..n
    BY <1>1
  <2> QED
    BY <1>4, <2>1
<1>6. h = [i \in 0..n |-> IF i = 0 THEN {MF} ELSE Next1(i, h[i - 1])]
  <2>1. ASSUME NEW i \in 0..n PROVE h[i] = IF i = 0 THEN {MF} ELSE Next1(i, h[i - 1])
    <3>1. i = 0 \/ i \in 1..n
      BY <1>1
    <3> QED
      BY <1>4, <1>5, <3>1
  <2> HIDE DEF n
  <2> QED
    BY <1>4, <2>1
<1>7. walk = [i \in 0..n |-> IF i = 0 THEN {MF} ELSE Next1(i, walk[i - 1])]
  <2> HIDE DEF n
  <2> QED
    BY <1>6
<1>8. Walk(path, current) = walk[n]
  BY DEF Walk, Next1
<1> HIDE DEF walk
<1> DEFINE Wrong == {i \in 0..n : walk[i] # h[i]}
<1>9. Wrong = {}
  <2> SUFFICES ASSUME Wrong # {} PROVE FALSE
    OBVIOUS
  <2>1. Wrong \in SUBSET Nat
    BY <1>1
  <2>2. PICK i \in Wrong : \A j \in Wrong : i <= j
    <3> HIDE DEF Wrong
    <3> QED
      BY <2>1, LeastNumber
  <2>3. i \in 1..n /\ i - 1 \in 0..n /\ ~(i <= i - 1)
    BY <1>1, <1>4, <1>7, <2>2
  <2>4. walk[i - 1] = h[i - 1]
    BY <2>2, <2>3
  <2>5. walk[i] = Next1(i, walk[i - 1])
    <3>1. i \in 0..n /\ i # 0
      BY <1>1, <2>3
    <3>2. walk[i] = IF i = 0 THEN {MF} ELSE Next1(i, walk[i - 1])
      BY <1>7, <3>1
    <3> QED
      BY <3>1, <3>2
  <2>6. h[i] = Next1(i, h[i - 1])
    BY <1>5, <2>3
  <2> QED
    BY <2>2, <2>4, <2>5, <2>6
<1>10. h[n] = Walk(path, current)
  BY <1>1, <1>8, <1>9
<1> QED
  BY <1>4, <1>5, <1>10 DEF Next1, WalkedAlong

\* An identifier means one file to the tracer.
LEMMA FoundOnce ==
    ASSUME TraceAssumption, NEW f \in Known, NEW id, NEW g \in Found(f, id)
    PROVE  Found(f, id) # {} /\ (CHOOSE x \in Found(f, id) : TRUE) = g
<1>1. (CHOOSE x \in Found(f, id) : TRUE) \in Found(f, id)
  OBVIOUS
<1>2. \A x \in Found(f, id) : x \in Selectables(f) \ Apps /\ Fid[x] = id
  BY DEF Found
<1> QED
  BY <1>1, <1>2 DEF TraceAssumption

\* A file of the profile that the card finds by the identifier, the tracer finds too.
LEMMA ReachedIsFound ==
    ASSUME TraceAssumption, NEW f \in Known, NEW id, NEW g \in Reaches(f, id), g \in Known
    PROVE  g \in Found(f, id)
<1>1. f \in Files /\ Cwd(f) \in Known /\ Cwd(f) \in Selectables(f) /\ MF \in Selectables(f)
  BY CwdKnown DEF TraceAssumption, Selectables
<1>2. g \notin Apps /\ Fid[g] = id
  BY DEF Reaches
<1>3. ASSUME g \in ChildrenOf(Cwd(f), Files) PROVE g \in Selectables(f)
  BY <1>3 DEF ChildrenOf, Selectables
<1>4. ASSUME g = Parent[Cwd(f)] PROVE g \in Selectables(f)
  <2>1. CASE Cwd(f) = MF
    BY <1>1, <1>4, <2>1 DEF TraceAssumption
  <2>2. CASE Cwd(f) # MF /\ Cwd(f) = f
    <3>1. ancestors[f] = {Parent[f]} \cup ancestors[Parent[f]]
      BY <1>1, <2>2, AncestorsOf
    <3> QED
      BY <3>1, <2>2, <1>4 DEF Selectables
  <2>3. CASE Cwd(f) # MF /\ Cwd(f) # f
    <3>1. Cwd(f) = Parent[f] /\ f # MF /\ Parent[f] \in Files
      BY <1>1, <2>3 DEF Cwd, TraceAssumption
    <3>2. ancestors[f] = {Parent[f]} \cup ancestors[Parent[f]]
      BY <1>1, <3>1, AncestorsOf
    <3>3. ancestors[Parent[f]] = {Parent[Parent[f]]} \cup ancestors[Parent[Parent[f]]]
      BY <2>3, <3>1, AncestorsOf
    <3> QED
      BY <3>1, <3>2, <3>3, <1>4 DEF Selectables
  <2> QED
    BY <2>1, <2>2, <2>3
<1> QED
  BY <1>1, <1>2, <1>3, <1>4 DEF Reaches, Found

LedTo(path, ok, at, g) == select_path(path, ok, at) = [file |-> g, adf |-> at.adf]

\* The tracer follows the card along a path to a file of the profile.
LEMMA PathFollowed ==
    ASSUME TraceAssumption, NEW path \in Paths, NEW current \in Apps \cup {None},
           NEW ok, ok = TRUE, NEW at \in Shown, at.adf = current,
           NEW g \in Walk(path, current), g \in Known
    PROVE  LedTo(path, ok, at, g)
<1> DEFINE n == Len(path)
<1>0. PICK h : MadeAlong(h, path, ok, at)
  BY PathShown
<1>1. /\ h \in [0..n -> Shown]
      /\ h[0] = [at EXCEPT !.file = MF]
      /\ \A i \in 1..n : h[i] = Step(ok, h[i - 1], path[i])
      /\ select_path(path, ok, at) = h[n]
  BY <1>0 DEF MadeAlong
<1>20. PICK to : WalkedAlong(to, path, current)
  BY PathWalked
<1>2. /\ to \in [0..n -> SUBSET Files]
      /\ to[0] = {MF}
      /\ \A i \in 1..n : to[i] = IF path[i] = CurrentApp THEN {current} \ {None}
                                 ELSE UNION {{x \in ChildrenOf(f, Files) : Fid[x] = path[i]} :
                                                f \in to[i - 1] \cap DFs}
      /\ Walk(path, current) = to[n]
  BY <1>20 DEF WalkedAlong
<1>3. n \in Nat /\ None \notin Apps
  BY DEF TraceAssumption
<1> HIDE DEF n
<1> DEFINE Follows(i) == /\ current # None \/ to[i] # {} => h[i].adf = current
                         /\ \A x \in to[i] \cap Known : h[i].file = x
           Bad == {i \in 0..n : ~Follows(i)}
<1>4. Follows(0)
  BY <1>1, <1>2, <1>3 DEF Shown
<1>5. ASSUME NEW i \in 1..n, Follows(i - 1) PROVE Follows(i)
  <2>0. i - 1 \in 0..n
    BY <1>3
  <2>1. h[i - 1] \in Shown /\ h[i] = Step(ok, h[i - 1], path[i])
    BY <1>1, <2>0
  <2> DEFINE s == h[i - 1]
  <2>2. CASE path[i] = CurrentApp
    <3>1. to[i] = {current} \ {None}
      BY <1>2, <2>2
    <3>2. CASE current = None
      BY <3>1, <3>2
    <3>3. CASE current # None
      <4>1. s.adf = current
        BY <1>5, <3>3
      <4>2. h[i] = [file |-> current, adf |-> current]
        BY <2>1, <2>2, <3>3, <4>1 DEF Step
      <4> QED
        BY <3>1, <4>2
    <3> QED
      BY <3>2, <3>3
  <2>3. CASE path[i] # CurrentApp
    <3>1. to[i] = UNION {{x \in ChildrenOf(f, Files) : Fid[x] = path[i]} : f \in to[i - 1] \cap DFs}
      BY <1>2, <2>3
    <3>2. h[i].adf = s.adf
      BY <2>1, <2>3 DEF Step, Shown
    <3>3. to[i] # {} => to[i - 1] # {}
      BY <3>1
    <3>4. ASSUME NEW x \in to[i], x \in Known PROVE h[i].file = x
      <4>1. PICK f \in to[i - 1] \cap DFs : x \in ChildrenOf(f, Files) /\ Fid[x] = path[i]
        BY <3>1, <3>4
      <4>2. f = Parent[x] /\ f \in Known /\ x \notin Apps
        BY <3>4, <4>1 DEF ChildrenOf, TraceAssumption
      <4>3. s.file = f
        BY <1>5, <4>1, <4>2
      <4>4. x \in Found(f, path[i])
        BY <3>4, <4>1, <4>2 DEF Found, Selectables, ChildrenOf, Cwd
      <4>5. Found(f, path[i]) # {} /\ (CHOOSE y \in Found(f, path[i]) : TRUE) = x
        BY <4>2, <4>4, FoundOnce
      <4>6. h[i] = [s EXCEPT !.file = x]
        BY <2>1, <2>3, <4>3, <4>5 DEF Step
      <4> QED
        BY <2>1, <4>6 DEF Shown
    <3> QED
      BY <1>5, <3>2, <3>3, <3>4
  <2> QED
    BY <2>2, <2>3
<1>6. Bad = {}
  <2> SUFFICES ASSUME Bad # {} PROVE FALSE
    OBVIOUS
  <2>1. Bad \in SUBSET Nat
    BY <1>3
  <2>2. PICK i \in Bad : \A j \in Bad : i <= j
    <3> HIDE DEF Bad
    <3> QED
      BY <2>1, LeastNumber
  <2>3. i # 0 /\ i \in 0..n
    BY <1>4, <2>2
  <2>4. i \in 1..n /\ i - 1 \in 0..n /\ ~(i <= i - 1)
    BY <1>3, <2>3
  <2>5. Follows(i - 1)
    BY <2>2, <2>4
  <2> QED
    BY <1>5, <2>2, <2>4, <2>5
<1>7. Follows(n) /\ h[n] \in Shown
  BY <1>1, <1>3, <1>6
<1>8. g \in to[n]
  BY <1>2
<1>9. h[n].file = g /\ h[n].adf = current
  BY <1>7, <1>8
<1> QED
  BY <1>1, <1>7, <1>9 DEF Shown, LedTo

-----------------------------------------------------------------------------
(* Commands and answers.                                                   *)

CardTypes ==
    /\ 0 \in DOMAIN sel /\ DOMAIN sel \subseteq Channels /\ DOMAIN app = DOMAIN sel
    /\ \A ch \in DOMAIN sel : sel[ch] \in Files /\ app[ch] \in Apps \cup {None}

SeenTypes ==
    /\ 0 \in DOMAIN seen /\ DOMAIN seen \subseteq Channels
    /\ \A ch \in DOMAIN seen : seen[ch] \in Shown

LEMMA CommandShape ==
    ASSUME TraceAssumption, NEW ch \in Channels, NEW c \in Commands(ch)
    PROVE  /\ c \in AllCommands /\ c # Nothing /\ c.ch = ch
           /\ c.what \in {"fid", "path", "aid", "open", "close", "read", "sfi", "status"}
           /\ c.what = "fid" => c.arg # CurrentApp
           /\ c.what = "path" => c.arg \in Paths
           /\ c.what = "aid" => c.arg \in Apps
           /\ c.what = "open" => c.arg \in Channels
           /\ c.what = "close" => c.arg \in Channels \ {0}
<1>1. c \in AllCommands
  BY DEF AllCommands
<1>2. PICK what, arg :
        /\ c = [what |-> what, ch |-> ch, arg |-> arg]
        /\ what \in {"fid", "path", "aid", "open", "close", "read", "sfi", "status"}
        /\ what = "fid" => \E f \in Files \ Apps : arg = Fid[f]
        /\ what = "path" => arg \in Paths
        /\ what = "aid" => arg \in Apps
        /\ what = "open" => arg \in Channels
        /\ what = "close" => arg \in Channels \ {0}
  BY DEF Commands, Command
<1>3. c.what = what /\ c.ch = ch /\ c.arg = arg /\ "ch" \in DOMAIN c
  BY <1>2
<1>4. c # Nothing
  <2>1. "ch" \notin DOMAIN Nothing
    BY DEF Nothing
  <2> QED
    BY <1>3, <2>1
<1>5. what = "fid" => arg # CurrentApp
  BY <1>2 DEF TraceAssumption
<1> QED
  BY <1>1, <1>2, <1>3, <1>4, <1>5

\* A command of all is one of its channel.
LEMMA CommandOfChannel ==
    ASSUME TraceAssumption, NEW c \in AllCommands
    PROVE  c.ch \in Channels /\ c \in Commands(c.ch)
<1>1. PICK ch \in Channels : c \in Commands(ch)
  BY DEF AllCommands
<1> QED
  BY <1>1, CommandShape

LEMMA TargetTypes ==
    ASSUME TraceAssumption, CardTypes, NEW ch \in DOMAIN sel, NEW c \in Commands(ch)
    PROVE  Target(c) \subseteq Files
<1>1. ch \in Channels /\ sel[ch] \in Files /\ app[ch] \in Apps \cup {None}
  BY DEF CardTypes
<1>2. c.ch = ch /\ (c.what = "path" => c.arg \in Paths) /\ (c.what = "aid" => c.arg \in Apps)
  BY <1>1, CommandShape
<1>3. c.what = "path" => Walk(c.arg, app[ch]) \subseteq Files
  <2> SUFFICES ASSUME c.what = "path" PROVE Walk(c.arg, app[ch]) \subseteq Files
    OBVIOUS
  <2>1. PICK to : WalkedAlong(to, c.arg, app[ch])
    BY <1>1, <1>2, PathWalked
  <2>2. Len(c.arg) \in 0..Len(c.arg)
    <3>1. Len(c.arg) \in Nat
      BY <1>2 DEF TraceAssumption
    <3> QED
      BY <3>1
  <2>3. to \in [0..Len(c.arg) -> SUBSET Files] /\ Walk(c.arg, app[ch]) = to[Len(c.arg)]
    BY <2>1 DEF WalkedAlong
  <2> HIDE DEF WalkedAlong
  <2>4. to[Len(c.arg)] \in SUBSET Files
    BY <2>2, <2>3
  <2> QED
    BY <2>3, <2>4
<1>4. Cwd(sel[ch]) \in Files /\ Parent[Cwd(sel[ch])] \in Files /\ Apps \subseteq Files /\ MF \in Files
  BY <1>1 DEF Cwd, TraceAssumption
<1>5. c.what = "fid" => Reaches(sel[ch], c.arg) \subseteq Files
  BY <1>4 DEF Reaches, ChildrenOf
<1>6. ChildrenOf(Cwd(sel[ch]), Files) \subseteq Files
  BY DEF ChildrenOf
<1> QED
  BY <1>1, <1>2, <1>3, <1>4, <1>5, <1>6 DEF Target

Granted(c, file, chan, whole) == Answer(c, TRUE, file, chan, whole)

LEMMA AnswerShape ==
    ASSUME TraceAssumption, CardTypes, NEW ch \in DOMAIN sel, NEW c \in Commands(ch),
           NEW r \in Answers(c)
    PROVE  /\ r \in Reply /\ r.cmd = c
           /\ c.what \in Selects \cup {"read", "sfi"} /\ r.ok => r.file \in Target(c) /\ r.file \in Files
           /\ c.what = "open" /\ r.ok => r.chan \in Channels \ (DOMAIN sel \cup {0}) /\ c.arg \in {0, r.chan}
           /\ c.what = "close" /\ r.ok => c.arg \in DOMAIN sel /\ c.arg # c.ch
           /\ r.whole > 0 => c.what \in Selects /\ r.ok
<1>1. ch \in Channels
  BY DEF CardTypes
<1>2. /\ c \in AllCommands /\ c.ch = ch
      /\ c.what \in {"fid", "path", "aid", "open", "close", "read", "sfi", "status"}
      /\ c.what = "close" => c.arg \in Channels \ {0}
  BY <1>1, CommandShape
<1>3. Target(c) \subseteq Files
  BY TargetTypes
<1>4. 0 \in Channels /\ Channels \subseteq Nat /\ Pieces \subseteq Nat /\ 0 \in Nat
  BY DEF TraceAssumption
<1> DEFINE Shaped(a) ==
        /\ a \in Reply /\ a.cmd = c
        /\ c.what \in Selects \cup {"read", "sfi"} /\ a.ok => a.file \in Target(c)
        /\ c.what = "open" /\ a.ok => a.chan \in Opened(c)
        /\ c.what = "close" /\ a.ok => c.arg \in DOMAIN sel /\ c.arg # c.ch
        /\ a.whole > 0 => c.what \in Selects /\ a.ok
<1>5. Shaped(Refused(c))
  BY <1>2, <1>4 DEF Refused, Answer, Reply
<1>6. ASSUME c.what \in Selects PROVE Shaped(r)
  <2>1. Answers(c) = {Granted(c, f, 0, n) : f \in Target(c), n \in Pieces}
                       \cup (IF Refuses \/ Target(c) = {} THEN {Refused(c)} ELSE {})
    <3>1. CASE c.what = "fid"
      BY <3>1 DEF Answers, Granted, Selects
    <3>2. CASE c.what = "path"
      BY <3>2 DEF Answers, Granted, Selects
    <3>3. CASE c.what = "aid"
      BY <3>3 DEF Answers, Granted, Selects
    <3>4. c.what = "fid" \/ c.what = "path" \/ c.what = "aid"
      BY <1>6 DEF Selects
    <3> QED
      BY <3>1, <3>2, <3>3, <3>4
  <2>2. ASSUME NEW f \in Target(c), NEW n \in Pieces PROVE Shaped(Granted(c, f, 0, n))
    BY <1>2, <1>3, <1>4, <1>6 DEF Granted, Answer, Reply, Selects
  <2> HIDE DEF Shaped
  <2> DEFINE Good == {Granted(c, f, 0, n) : f \in Target(c), n \in Pieces}
             Rest == IF Refuses \/ Target(c) = {} THEN {Refused(c)} ELSE {}
  <2>3. \A x \in Good : Shaped(x)
    BY <2>2
  <2>4. Rest \subseteq {Refused(c)} /\ Answers(c) = Good \cup Rest
    BY <2>1
  <2> HIDE DEF Good, Rest
  <2> QED
    BY <1>5, <2>3, <2>4
<1>7. ASSUME c.what \in {"read", "sfi"} PROVE Shaped(r)
  <2>1. Answers(c) = IF Target(c) = {} THEN {Refused(c)} ELSE {Granted(c, f, 0, 0) : f \in Target(c)}
    BY <1>7 DEF Answers, Granted, Selects
  <2>2. ASSUME NEW f \in Target(c) PROVE Shaped(Granted(c, f, 0, 0))
    BY <1>2, <1>3, <1>4, <1>7 DEF Granted, Answer, Reply, Selects
  <2> HIDE DEF Shaped
  <2>3. CASE Target(c) = {}
    BY <1>5, <2>1, <2>3
  <2>4. CASE Target(c) # {}
    <3>1. r \in {Granted(c, f, 0, 0) : f \in Target(c)}
      BY <2>1, <2>4
    <3> QED
      BY <2>2, <3>1
  <2> QED
    BY <2>3, <2>4
<1>8. ASSUME c.what = "open" PROVE Shaped(r)
  <2>1. Answers(c) = IF Opened(c) = {} THEN {Refused(c)} ELSE {Granted(c, None, n, 0) : n \in Opened(c)}
    BY <1>8 DEF Answers, Granted, Selects
  <2>2. ASSUME NEW n \in Opened(c) PROVE Shaped(Granted(c, None, n, 0))
    BY <1>2, <1>4, <1>8 DEF Granted, Answer, Reply, Selects, Opened
  <2> HIDE DEF Shaped
  <2>3. CASE Opened(c) = {}
    BY <1>5, <2>1, <2>3
  <2>4. CASE Opened(c) # {}
    <3>1. r \in {Granted(c, None, n, 0) : n \in Opened(c)}
      BY <2>1, <2>4
    <3> QED
      BY <2>2, <3>1
  <2> QED
    BY <2>3, <2>4
<1>9. ASSUME c.what = "close" PROVE Shaped(r)
  <2>1. Answers(c) = IF c.arg \in DOMAIN sel /\ c.arg # c.ch THEN {Granted(c, None, c.arg, 0)}
                     ELSE {Refused(c)}
    BY <1>9 DEF Answers, Granted, Selects
  <2>2. ASSUME c.arg \in DOMAIN sel, c.arg # c.ch PROVE Shaped(Granted(c, None, c.arg, 0))
    BY <1>2, <1>4, <1>9, <2>2 DEF Granted, Answer, Reply, Selects
  <2> HIDE DEF Shaped
  <2> QED
    BY <1>5, <2>1, <2>2
<1>10. ASSUME c.what = "status" PROVE Shaped(r)
  <2>1. Answers(c) = {Granted(c, None, 0, 0)} \cup (IF Refuses THEN {Refused(c)} ELSE {})
    BY <1>10 DEF Answers, Granted, Selects
  <2>2. Shaped(Granted(c, None, 0, 0))
    BY <1>2, <1>4, <1>10 DEF Granted, Answer, Reply, Selects
  <2> HIDE DEF Shaped
  <2> QED
    BY <1>5, <2>1, <2>2
<1>11. Shaped(r)
  BY <1>2, <1>6, <1>7, <1>8, <1>9, <1>10 DEF Selects
<1> QED
  BY <1>3, <1>11 DEF Opened

-----------------------------------------------------------------------------
(* The inductive invariant.                                                *)

\* What is not finished: response data that are announced, or a command that is to be repeated.
WaitingTypes ==
    \/ waiting = Nothing
    \/ /\ last_cmd # Nothing
       /\ \E r \in Reply, n \in Nat : waiting = [why |-> "61", r |-> r, left |-> n]
    \/ /\ last_cmd # Nothing
       /\ \E c \in AllCommands : c.ch \in DOMAIN sel /\ waiting = [why |-> "6c", cmd |-> c]

\* A command is remembered while its response is awaited, and after a response was left unfetched.
NothingForgotten == lost = 0 /\ waiting = Nothing => last_cmd = Nothing

TraceTypes ==
    /\ CardTypes /\ SeenTypes /\ WaitingTypes /\ NothingForgotten
    /\ last_cmd \in AllCommands \cup {Nothing}
    /\ belongs \in BOOLEAN
    /\ logged \in [ch : Channels, right : BOOLEAN]
    /\ stopped \in {"no", "channel", "undecodable"}
    /\ astray \subseteq Channels
    /\ lost \in 0..MaxLost

Held(ch) == [file |-> sel[ch], adf |-> app[ch]]

\* The picture of every channel is right but for those astray and these.
RightBut(chs) ==
    /\ DOMAIN seen = DOMAIN sel
    /\ \A ch \in DOMAIN sel \ (astray \cup chs) : seen[ch] = Held(ch)

\* Nothing is awaited.
AtRest ==
    /\ waiting = Nothing /\ RightBut({})
    /\ logged.right \/ logged.ch \in astray

\* What the tracer makes of c, that the card has done with r, on a channel it knows.
Followed(c, r) ==
    (c.what = "aid" \/ c.ch \notin astray) /\ r.file \in Known
        => Selected(c, r.ok, seen[c.ch]) = Held(c.ch)

\* The card has selected, and the tracer will when the response has been fetched.
Fetching ==
    LET r == waiting.r
        c == r.cmd
    IN  /\ waiting.why = "61" /\ last_cmd = c /\ r.ok /\ c.what \in Selects
        /\ c.ch \in DOMAIN sel /\ r.file = sel[c.ch] /\ (c.what = "aid" => r.file = c.arg)
        /\ RightBut({c.ch}) /\ Followed(c, r)

Repeating == waiting.why = "6c" /\ last_cmd = waiting.cmd /\ RightBut({})

TraceInv ==
    lost = 0 => /\ belongs /\ stopped # "channel"
                /\ stopped = "no" => AtRest \/ Fetching \/ Repeating

-----------------------------------------------------------------------------
(* Types.                                                                  *)

\* What the card is left with by each kind of command.
LEMMA CardStep ==
    ASSUME TraceAssumption, CardTypes, NEW ch \in DOMAIN sel, NEW c \in Commands(ch),
           NEW r \in Answers(c), Execute(r)
    PROVE  /\ ~r.ok \/ c.what \in {"read", "status"} => sel' = sel /\ app' = app
           /\ r.ok /\ c.what \in {"fid", "path", "sfi"} =>
                sel' = [sel EXCEPT ![ch] = r.file] /\ app' = app
           /\ r.ok /\ c.what = "aid" =>
                sel' = [sel EXCEPT ![ch] = r.file] /\ app' = [app EXCEPT ![ch] = c.arg]
           /\ r.ok /\ c.what = "open" =>
                /\ sel' = With(sel, r.chan, IF ch = 0 THEN MF ELSE Cwd(sel[ch]))
                /\ app' = With(app, r.chan, IF ch = 0 THEN None ELSE app[ch])
           /\ r.ok /\ c.what = "close" =>
                sel' = Without(sel, c.arg) /\ app' = Without(app, c.arg)
<1>1. ch \in Channels
  BY DEF CardTypes
<1>2. r.cmd = c /\ c.ch = ch
  BY <1>1, AnswerShape, CommandShape
<1>3. ASSUME ~r.ok \/ c.what \in {"read", "status"} PROVE sel' = sel /\ app' = app
  <2>1. CASE ~r.ok
    BY <1>2, <2>1 DEF Execute
  <2>2. CASE r.ok /\ c.what = "read"
    BY <1>2, <2>2 DEF Execute
  <2>3. CASE r.ok /\ c.what = "status"
    BY <1>2, <2>3 DEF Execute
  <2> QED
    BY <1>3, <2>1, <2>2, <2>3
<1>4. ASSUME r.ok, c.what \in {"fid", "path", "sfi"}
      PROVE  sel' = [sel EXCEPT ![ch] = r.file] /\ app' = app
  BY <1>2, <1>4 DEF Execute
<1>5. ASSUME r.ok, c.what = "aid"
      PROVE  sel' = [sel EXCEPT ![ch] = r.file] /\ app' = [app EXCEPT ![ch] = c.arg]
  BY <1>2, <1>5 DEF Execute
<1>6. ASSUME r.ok, c.what = "open"
      PROVE  /\ sel' = With(sel, r.chan, IF ch = 0 THEN MF ELSE Cwd(sel[ch]))
             /\ app' = With(app, r.chan, IF ch = 0 THEN None ELSE app[ch])
  BY <1>2, <1>6 DEF Execute
<1>7. ASSUME r.ok, c.what = "close"
      PROVE  sel' = Without(sel, c.arg) /\ app' = Without(app, c.arg)
  BY <1>2, <1>7 DEF Execute
<1> QED
  BY <1>3, <1>4, <1>5, <1>6, <1>7

LEMMA CardTypesKept ==
    ASSUME TraceAssumption, CardTypes, NEW ch \in DOMAIN sel, NEW c \in Commands(ch),
           NEW r \in Answers(c), Execute(r)
    PROVE  CardTypes'
<1>1. ch \in Channels /\ 0 \in DOMAIN sel /\ DOMAIN app = DOMAIN sel
  BY DEF CardTypes
<1>2. /\ c.what \in {"fid", "path", "aid", "open", "close", "read", "sfi", "status"}
      /\ c.what = "aid" => c.arg \in Apps
      /\ c.what = "close" => c.arg # 0
  BY <1>1, CommandShape DEF TraceAssumption
<1>3. /\ c.what \in {"fid", "path", "aid", "read", "sfi"} /\ r.ok => r.file \in Files
      /\ c.what = "open" /\ r.ok => r.chan \in Channels
  BY AnswerShape DEF Selects
<1>4. sel[ch] \in Files /\ app[ch] \in Apps \cup {None} /\ MF \in Files /\ Cwd(sel[ch]) \in Files
  BY DEF CardTypes, TraceAssumption, Cwd
<1>5. CASE ~r.ok \/ c.what \in {"read", "status"}
  BY <1>5, CardStep DEF CardTypes
<1>6. CASE r.ok /\ c.what \in {"fid", "path", "sfi"}
  <2>1. sel' = [sel EXCEPT ![ch] = r.file] /\ app' = app /\ r.file \in Files
    BY <1>6, <1>3, CardStep
  <2> QED
    BY <2>1 DEF CardTypes
<1>7. CASE r.ok /\ c.what = "aid"
  <2>1. /\ sel' = [sel EXCEPT ![ch] = r.file] /\ app' = [app EXCEPT ![ch] = c.arg]
        /\ r.file \in Files /\ c.arg \in Apps
    BY <1>7, <1>2, <1>3, CardStep
  <2> QED
    BY <2>1 DEF CardTypes
<1>8. CASE r.ok /\ c.what = "open"
  <2>1. /\ sel' = With(sel, r.chan, IF ch = 0 THEN MF ELSE Cwd(sel[ch]))
        /\ app' = With(app, r.chan, IF ch = 0 THEN None ELSE app[ch])
        /\ r.chan \in Channels
    BY <1>8, <1>3, CardStep
  <2> QED
    BY <2>1, <1>4 DEF CardTypes, With
<1>9. CASE r.ok /\ c.what = "close"
  <2>1. sel' = Without(sel, c.arg) /\ app' = Without(app, c.arg) /\ c.arg # 0
    BY <1>9, <1>2, CardStep
  <2> QED
    BY <2>1 DEF CardTypes, Without
<1> QED
  BY <1>2, <1>5, <1>6, <1>7, <1>8, <1>9

\* What the tracer makes of any SELECT is something it can hold.
LEMMA SelectedTypes ==
    ASSUME TraceAssumption, NEW c \in AllCommands, c.what \in Selects, NEW ok, NEW at \in Shown
    PROVE  Selected(c, ok, at) \in Shown
<1>1. /\ c.what = "path" => c.arg \in Paths
      /\ c.what = "aid" => c.arg \in Apps
  BY CommandOfChannel, CommandShape
<1>2. CASE c.what = "fid"
  <2>1. Selected(c, ok, at) = Step(ok, at, c.arg)
    BY <1>2 DEF Selected
  <2> QED
    BY <2>1, StepTypes
<1>3. CASE c.what = "path"
  <2>1. Selected(c, ok, at) = select_path(c.arg, ok, at)
    BY <1>3 DEF Selected
  <2> QED
    BY <1>1, <1>3, <2>1, SelectPathTypes
<1>4. CASE c.what = "aid"
  <2>1. Selected(c, ok, at) = IF c.arg \in Known THEN [file |-> c.arg, adf |-> c.arg] ELSE at
    BY <1>4 DEF Selected
  <2> QED
    BY <1>1, <1>4, <2>1 DEF Shown
<1> QED
  BY <1>2, <1>3, <1>4 DEF Selects

LEMMA ProcessTypes ==
    ASSUME TraceAssumption, SeenTypes, stopped \in {"no", "channel", "undecodable"},
           NEW c \in AllCommands, NEW r \in Reply, Process(c, r)
    PROVE  /\ SeenTypes'
           /\ logged' \in [ch : Channels, right : BOOLEAN]
           /\ stopped' \in {"no", "channel", "undecodable"}
<1>1. /\ c.ch \in Channels
      /\ c.what \in {"fid", "path", "aid", "open", "close", "read", "sfi", "status"}
      /\ c.what = "open" => c.arg \in Channels
      /\ c.what = "close" => c.arg # 0
  BY CommandOfChannel, CommandShape DEF TraceAssumption
<1>2. r.ok \in BOOLEAN /\ r.chan \in Channels
  BY DEF Reply
<1>3. NotLogged \in [ch : Channels, right : BOOLEAN]
  BY DEF NotLogged, TraceAssumption
<1>4. CASE c.what \in {"open", "close"}
  <2>1. ManageChannel(c, r) /\ logged' = NotLogged
    BY <1>4 DEF Process
  <2>2. CASE ~r.ok
    BY <1>3, <2>1, <2>2 DEF ManageChannel, SeenTypes
  <2>3. CASE r.ok /\ c.what = "close"
    <3>1. seen' = Without(seen, c.arg) /\ stopped' = stopped
      BY <2>1, <2>3 DEF ManageChannel
    <3>2. SeenTypes'
      BY <1>1, <2>3, <3>1 DEF SeenTypes, Without
    <3> QED
      BY <1>3, <2>1, <3>1, <3>2
  <2>4. CASE r.ok /\ c.what = "open"
    <3> DEFINE created == IF c.arg # 0 THEN c.arg ELSE r.chan
    <3>1. \/ stopped' = "channel" /\ seen' = seen
          \/ c.ch \in DOMAIN seen /\ seen' = With(seen, created, add_lchan(c.ch)) /\ stopped' = stopped
      BY <2>1, <2>4 DEF ManageChannel
    <3>2. created \in Channels
      BY <1>1, <1>2, <2>4
    <3> HIDE DEF created
    <3>3. ASSUME c.ch \in DOMAIN seen PROVE add_lchan(c.ch) \in Shown
      <4>1. seen[c.ch] \in Shown
        BY <3>3 DEF SeenTypes
      <4>2. seen[c.ch].file \in Known /\ seen[c.ch].adf \in (Apps \cap Known) \cup {None}
        BY <4>1 DEF Shown
      <4>3. Cwd(seen[c.ch].file) \in Known
        BY <4>2, CwdKnown
      <4> QED
        BY <4>2, <4>3 DEF add_lchan, Start, Shown, TraceAssumption
    <3>4. SeenTypes'
      <4>1. CASE seen' = seen
        BY <4>1 DEF SeenTypes
      <4>2. CASE c.ch \in DOMAIN seen /\ seen' = With(seen, created, add_lchan(c.ch))
        <5>1. add_lchan(c.ch) \in Shown
          BY <3>3, <4>2
        <5> HIDE DEF add_lchan
        <5> QED
          BY <3>2, <4>2, <5>1 DEF SeenTypes, With
      <4> QED
        BY <3>1, <4>1, <4>2
    <3> QED
      BY <1>3, <2>1, <3>1, <3>4
  <2> QED
    BY <1>4, <2>2, <2>3, <2>4
<1>5. CASE c.what \notin {"open", "close"} /\ c.ch \notin DOMAIN seen
  <2>1. stopped' = "channel" /\ logged' = NotLogged /\ seen' = seen
    BY <1>5 DEF Process
  <2> QED
    BY <1>3, <2>1 DEF SeenTypes
<1>6. CASE c.what \in Selects /\ c.ch \in DOMAIN seen
  <2>1. /\ seen' = [seen EXCEPT ![c.ch] = Selected(c, r.ok, seen[c.ch])]
        /\ logged' = NotLogged /\ stopped' = stopped
    BY <1>6 DEF Process, Selects
  <2>2. seen[c.ch] \in Shown
    BY <1>6 DEF SeenTypes
  <2>3. Selected(c, r.ok, seen[c.ch]) \in Shown
    BY <1>6, <2>2, SelectedTypes
  <2>4. SeenTypes'
    BY <2>1, <2>3 DEF SeenTypes
  <2> QED
    BY <1>3, <2>1, <2>4
<1>7. CASE c.what \in {"read", "sfi"} /\ c.ch \in DOMAIN seen
  <2>1. Read(c, r) /\ seen' = seen /\ stopped' = stopped
    BY <1>7 DEF Process, Selects
  <2>2. logged' \in [ch : Channels, right : BOOLEAN]
    BY <1>1, <1>2, <2>1 DEF Read
  <2>3. SeenTypes'
    BY <2>1 DEF SeenTypes
  <2> QED
    BY <2>1, <2>2, <2>3
<1>8. CASE c.what = "status" /\ c.ch \in DOMAIN seen
  <2>1. stopped' = (IF r.ok THEN stopped ELSE "undecodable") /\ logged' = NotLogged /\ seen' = seen
    BY <1>8 DEF Process, Selects
  <2>2. SeenTypes'
    BY <2>1 DEF SeenTypes
  <2> QED
    BY <1>3, <2>1, <2>2
<1> QED
  BY <1>1, <1>4, <1>5, <1>6, <1>7, <1>8 DEF Selects

LEMMA ToldTypes ==
    ASSUME TraceAssumption, astray \subseteq Channels, NEW r \in Reply
    PROVE  Told(r) \subseteq Channels
<1>1. r.cmd \in AllCommands /\ r.chan \in Channels
  BY DEF Reply
<1>2. r.cmd.ch \in Channels
  BY <1>1, CommandOfChannel
<1> QED
  BY <1>1, <1>2 DEF Told

LEMMA HandedOnTypes ==
    ASSUME TraceAssumption, TraceTypes, NEW c, NEW r \in Reply, HandedOn(c, r),
           last_cmd # Nothing \/ c \in AllCommands
    PROVE  /\ SeenTypes' /\ last_cmd' = Nothing
           /\ belongs' \in BOOLEAN
           /\ logged' \in [ch : Channels, right : BOOLEAN]
           /\ stopped' \in {"no", "channel", "undecodable"}
           /\ astray' \subseteq Channels
<1> DEFINE icmd == IF last_cmd # Nothing THEN last_cmd ELSE c
<1>1. last_cmd' = Nothing /\ belongs' = (icmd = r.cmd) /\ Process(icmd, r) /\ astray' = Told(r)
  BY DEF HandedOn
<1>2. icmd \in AllCommands
  BY DEF TraceTypes
<1> HIDE DEF icmd
<1> QED
  BY <1>1, <1>2, ProcessTypes, ToldTypes DEF TraceTypes

LEMMA TypesBegin ==
    ASSUME TraceAssumption, Init
    PROVE  TraceTypes
<1>1. MF \in Files /\ MF \in Known /\ 0 \in Channels /\ 0 \in 0..MaxLost
  BY DEF TraceAssumption
<1>2. CardTypes /\ SeenTypes /\ WaitingTypes
  BY <1>1 DEF Init, CardTypes, SeenTypes, WaitingTypes, Start, Shown
<1> QED
  BY <1>1, <1>2 DEF Init, TraceTypes, NotLogged, NothingForgotten

LEMMA SendTypes ==
    ASSUME TraceAssumption, TraceTypes, NEW ch \in DOMAIN sel, NEW c \in Commands(ch), Send(c)
    PROVE  TraceTypes'
<1>1. ch \in Channels /\ CardTypes
  BY DEF TraceTypes, CardTypes
<1>2. c \in AllCommands /\ c # Nothing
  BY <1>1, CommandShape
<1>3. lost' \in 0..MaxLost
  BY DEF Send, TraceTypes, TraceAssumption
<1>4. PICK r \in Answers(c) :
        /\ Execute(r)
        /\ IF r.whole > 0
           THEN waiting' = [why |-> "61", r |-> r, left |-> r.whole] /\ Withheld("command", c)
           ELSE waiting' = Nothing /\ HandedOn(c, r)
  BY DEF Send
<1>5. r \in Reply
  BY <1>1, AnswerShape
<1>6. CardTypes'
  BY <1>1, <1>4, CardTypesKept
<1>7. CASE r.whole > 0
  <2>1. /\ waiting' = [why |-> "61", r |-> r, left |-> r.whole] /\ last_cmd' = c
        /\ UNCHANGED <<seen, belongs, logged, stopped, astray>>
    BY <1>4, <1>7 DEF Withheld, Remembered
  <2>2. r.whole \in Nat
    BY <1>5 DEF Reply
  <2>3. WaitingTypes'
    BY <1>2, <1>5, <2>1, <2>2 DEF WaitingTypes
  <2>4. SeenTypes' /\ NothingForgotten'
    BY <2>1 DEF TraceTypes, SeenTypes, Nothing, NothingForgotten
  <2> QED
    BY <1>2, <1>3, <1>6, <2>1, <2>3, <2>4 DEF TraceTypes
<1>8. CASE ~(r.whole > 0)
  <2>1. waiting' = Nothing /\ HandedOn(c, r)
    BY <1>4, <1>8
  <2>2. WaitingTypes'
    BY <2>1 DEF WaitingTypes
  <2> QED
    BY <1>2, <1>3, <1>5, <1>6, <2>1, <2>2, HandedOnTypes DEF TraceTypes, NothingForgotten
<1> QED
  BY <1>7, <1>8

\* In each state that waits, which it is.
LEMMA WaitingFor ==
    ASSUME WaitingTypes
    PROVE  /\ waiting.why = "none" <=> waiting = Nothing
           /\ waiting.why = "61" =>
                /\ last_cmd # Nothing
                /\ \E r \in Reply, n \in Nat : waiting = [why |-> "61", r |-> r, left |-> n]
           /\ waiting.why = "6c" =>
                /\ last_cmd # Nothing
                /\ \E c \in AllCommands : c.ch \in DOMAIN sel /\ waiting = [why |-> "6c", cmd |-> c]
           /\ waiting.why \in {"none", "61", "6c"}
BY DEF WaitingTypes, Nothing

LEMMA GetResponseTypes ==
    ASSUME TraceAssumption, TraceTypes, GetResponse
    PROVE  TraceTypes'
<1>1. waiting.why = "61" /\ last_cmd # Nothing
  BY WaitingFor DEF GetResponse, TraceTypes
<1>2. PICK r \in Reply, n \in Nat : waiting = [why |-> "61", r |-> r, left |-> n]
  BY <1>1, WaitingFor DEF TraceTypes
<1>3. UNCHANGED <<sel, app, lost>> /\ waiting.r = r /\ waiting.left = n
  BY <1>2 DEF GetResponse
<1>4. CardTypes' /\ lost' \in 0..MaxLost
  BY <1>3 DEF TraceTypes, CardTypes
<1>5. CASE waiting.left > 1
  <2>1. /\ waiting' = [waiting EXCEPT !.left = @ - 1] /\ last_cmd' = last_cmd
        /\ UNCHANGED <<seen, belongs, logged, stopped, astray>>
    BY <1>5 DEF GetResponse, Withheld, Remembered
  <2>2. waiting' = [why |-> "61", r |-> r, left |-> n - 1] /\ n - 1 \in Nat
    BY <1>2, <1>3, <1>5, <2>1
  <2>3. WaitingTypes'
    BY <1>1, <2>1, <2>2 DEF WaitingTypes
  <2>4. SeenTypes' /\ NothingForgotten'
    BY <2>1, <2>2 DEF TraceTypes, SeenTypes, Nothing, NothingForgotten
  <2> QED
    BY <1>4, <2>1, <2>3, <2>4 DEF TraceTypes
<1>6. CASE ~(waiting.left > 1)
  <2>1. waiting' = Nothing /\ HandedOn(Command("get_response", r.cmd.ch, 0), r)
    BY <1>3, <1>6 DEF GetResponse
  <2>2. WaitingTypes'
    BY <2>1 DEF WaitingTypes
  <2> QED
    BY <1>1, <1>4, <2>1, <2>2, HandedOnTypes DEF TraceTypes, NothingForgotten
<1> QED
  BY <1>5, <1>6

LEMMA SendWrongLengthTypes ==
    ASSUME TraceAssumption, TraceTypes, NEW ch \in DOMAIN sel, NEW c \in Commands(ch),
           SendWrongLength(c)
    PROVE  TraceTypes'
<1>1. ch \in Channels /\ CardTypes
  BY DEF TraceTypes, CardTypes
<1>2. c \in AllCommands /\ c # Nothing /\ c.ch = ch
  BY <1>1, CommandShape
<1>3. /\ waiting' = [why |-> "6c", cmd |-> c] /\ last_cmd' = c
      /\ UNCHANGED <<seen, belongs, logged, stopped, astray, sel, app, lost>>
  BY DEF SendWrongLength, Withheld, Remembered
<1>4. CardTypes' /\ SeenTypes' /\ lost' \in 0..MaxLost
  BY <1>3 DEF TraceTypes, CardTypes, SeenTypes
<1>5. WaitingTypes' /\ NothingForgotten'
  BY <1>2, <1>3 DEF WaitingTypes, NothingForgotten, Nothing
<1> QED
  BY <1>2, <1>3, <1>4, <1>5 DEF TraceTypes

LEMMA RepeatTypes ==
    ASSUME TraceAssumption, TraceTypes, Repeat
    PROVE  TraceTypes'
<1>1. waiting.why = "6c"
  BY DEF Repeat
<1>2. PICK c \in AllCommands : c.ch \in DOMAIN sel /\ waiting = [why |-> "6c", cmd |-> c]
  BY <1>1, WaitingFor DEF TraceTypes
<1>3. waiting.cmd = c /\ c \in Commands(c.ch) /\ CardTypes
  BY <1>2, CommandOfChannel DEF TraceTypes
<1>4. PICK r \in Answers(c) : Execute(r) /\ HandedOn(c, r)
  BY <1>3 DEF Repeat
<1>5. r \in Reply /\ CardTypes'
  BY <1>2, <1>3, <1>4, AnswerShape, CardTypesKept
<1>6. waiting' = Nothing /\ lost' = lost
  BY DEF Repeat
<1>7. WaitingTypes'
  BY <1>6 DEF WaitingTypes
<1> QED
  BY <1>4, <1>5, <1>6, <1>7, HandedOnTypes DEF TraceTypes, NothingForgotten

LEMMA CardResetTypes ==
    ASSUME TraceAssumption, TraceTypes, CardReset
    PROVE  TraceTypes'
<1>1. /\ sel' = [ch \in {0} |-> MF] /\ app' = [ch \in {0} |-> None]
      /\ waiting' = Nothing /\ seen' = [ch \in {0} |-> Start]
      /\ belongs' = TRUE /\ logged' = NotLogged /\ astray' = {}
      /\ UNCHANGED <<last_cmd, stopped>>
  BY DEF CardReset
<1>2. MF \in Files /\ MF \in Known /\ 0 \in Channels
  BY DEF TraceAssumption
<1>3. CardTypes' /\ SeenTypes' /\ WaitingTypes'
  BY <1>1, <1>2 DEF CardTypes, SeenTypes, WaitingTypes, Start, Shown
<1>4. lost' \in 0..MaxLost
  <2>1. lost \in 0..MaxLost /\ MaxLost \in Nat /\ (waiting = Nothing \/ MaxLost > 0)
    BY DEF CardReset, TraceTypes, TraceAssumption
  <2>2. last_cmd # Nothing => MaxLost > 0
    BY <2>1 DEF TraceTypes, NothingForgotten
  <2> QED
    BY <2>1, <2>2 DEF CardReset
<1>5. NothingForgotten'
  BY <1>1 DEF CardReset, NothingForgotten
<1> QED
  BY <1>1, <1>2, <1>3, <1>4, <1>5 DEF TraceTypes, NotLogged

-----------------------------------------------------------------------------
(* The picture.                                                            *)

\* A SELECT that succeeds, of a file of the profile, is followed.
LEMMA SelectFollowed ==
    ASSUME TraceAssumption, CardTypes, SeenTypes, NEW ch \in DOMAIN sel, ch \in DOMAIN seen,
           NEW c \in Commands(ch), c.what \in Selects, NEW ok, ok = TRUE,
           NEW g \in Target(c), g \in Known, c.what = "aid" \/ seen[ch] = Held(ch)
    PROVE  Selected(c, ok, seen[ch]) =
               [file |-> g, adf |-> IF c.what = "aid" THEN c.arg ELSE app[ch]]
<1>1. ch \in Channels /\ app[ch] \in Apps \cup {None} /\ seen[ch] \in Shown
  BY DEF CardTypes, SeenTypes
<1>2. /\ c.ch = ch
      /\ c.what = "fid" => c.arg # CurrentApp
      /\ c.what = "path" => c.arg \in Paths
  BY <1>1, CommandShape
<1>3. CASE c.what = "aid"
  <2>1. g = c.arg
    BY <1>3 DEF Target
  <2> QED
    BY <1>3, <2>1 DEF Selected
<1>4. CASE c.what = "fid"
  <2>1. g \in Reaches(sel[ch], c.arg) /\ seen[ch] = [file |-> sel[ch], adf |-> app[ch]]
    BY <1>2, <1>4 DEF Target, Held
  <2>2. sel[ch] \in Known /\ seen[ch].file = sel[ch]
    BY <1>1, <2>1 DEF Shown
  <2>3. g \in Found(seen[ch].file, c.arg)
    BY <2>1, <2>2, ReachedIsFound
  <2>4. Found(seen[ch].file, c.arg) # {} /\ (CHOOSE x \in Found(seen[ch].file, c.arg) : TRUE) = g
    BY <2>2, <2>3, FoundOnce
  <2>5. Step(ok, seen[ch], c.arg) = [seen[ch] EXCEPT !.file = g]
    BY <1>2, <1>4, <2>4 DEF Step
  <2>6. Selected(c, ok, seen[ch]) = Step(ok, seen[ch], c.arg)
    BY <1>4 DEF Selected
  <2>7. [seen[ch] EXCEPT !.file = g] = [file |-> g, adf |-> app[ch]]
    BY <2>1
  <2>8. (IF c.what = "aid" THEN c.arg ELSE app[ch]) = app[ch]
    BY <1>4
  <2> QED
    BY <2>5, <2>6, <2>7, <2>8
<1>5. CASE c.what = "path"
  <2>1. g \in Walk(c.arg, app[ch]) /\ seen[ch].adf = app[ch]
    BY <1>2, <1>5 DEF Target, Held
  <2>2. select_path(c.arg, ok, seen[ch]) = [file |-> g, adf |-> app[ch]]
    <3> DEFINE at == seen[ch]
               current == app[ch]
               path == c.arg
    <3>1. at \in Shown /\ current \in Apps \cup {None} /\ path \in Paths
      BY <1>1, <1>2, <1>5
    <3>2. g \in Walk(path, current) /\ at.adf = current
      BY <2>1
    <3> HIDE DEF at, current, path
    <3>3. LedTo(path, ok, at, g)
      BY <3>1, <3>2, PathFollowed
    <3> QED
      BY <3>2, <3>3 DEF at, current, path, LedTo
  <2>3. Selected(c, ok, seen[ch]) = select_path(c.arg, ok, seen[ch])
    BY <1>5 DEF Selected
  <2> QED
    BY <1>5, <2>2, <2>3
<1> QED
  BY <1>3, <1>4, <1>5 DEF Selects

\* A SELECT is over at both ends.
LEMMA SelectPicture ==
    ASSUME NEW ch \in DOMAIN sel, NEW c, NEW r, NEW s,
           r.ok, r.cmd = c, c.ch = ch, c.what \in Selects, c.what = "aid" => r.file = c.arg,
           DOMAIN sel' = DOMAIN sel, RightBut({ch}),
           \A x \in DOMAIN sel : x # ch => sel'[x] = sel[x] /\ app'[x] = app[x],
           seen' = [seen EXCEPT ![ch] = s], astray' = Told(r),
           (c.what = "aid" \/ ch \notin astray) /\ r.file \in Known => s = Held(ch)'
    PROVE  RightBut({})'
<1>1. DOMAIN seen' = DOMAIN sel'
  BY DEF RightBut
<1>2. \/ astray' = astray \ {ch} /\ c.what = "aid" /\ r.file \in Known
      \/ astray' = astray /\ r.file \in Known
      \/ astray' = astray \cup {ch}
  BY DEF Told, Selects
<1>3. ASSUME NEW x \in DOMAIN sel' \ astray' PROVE seen'[x] = Held(x)'
  <2>1. CASE x = ch
    <3>1. s = Held(ch)'
      BY <1>2, <1>3, <2>1
    <3> QED
      BY <2>1, <3>1 DEF RightBut
  <2>2. CASE x # ch
    <3>1. x \in DOMAIN sel \ (astray \cup {ch})
      BY <1>2, <1>3, <2>2
    <3>2. seen[x] = Held(x)
      BY <3>1 DEF RightBut
    <3> QED
      BY <1>1, <2>2, <3>1, <3>2 DEF Held, RightBut
  <2> QED
    BY <2>1, <2>2
<1> QED
  BY <1>1, <1>3 DEF RightBut

WillFollow(c, r, ch) ==
    (c.what = "aid" \/ ch \notin astray) /\ r.file \in Known
        => Selected(c, r.ok, seen[ch]) = Held(ch)'

SelectionMade(c, r, ch) ==
    /\ WillFollow(c, r, ch) /\ RightBut({ch}) /\ DOMAIN sel' = DOMAIN sel
    /\ \A x \in DOMAIN sel : x # ch => sel'[x] = sel[x] /\ app'[x] = app[x]
    /\ sel'[ch] = r.file /\ (c.what = "aid" => r.file = c.arg)

\* The card has selected, and the tracer, that has not seen the response yet, would follow.
LEMMA SelectExecuted ==
    ASSUME TraceAssumption, TraceTypes, RightBut({}), NEW ch \in DOMAIN sel,
           NEW c \in Commands(ch), NEW r \in Answers(c), Execute(r), r.ok, c.what \in Selects
    PROVE  SelectionMade(c, r, ch)
<1>1. /\ CardTypes /\ SeenTypes /\ ch \in Channels /\ ch \in DOMAIN seen
      /\ DOMAIN seen = DOMAIN sel /\ DOMAIN app = DOMAIN sel
  BY DEF TraceTypes, CardTypes, RightBut
<1>2. r.cmd = c /\ r.ok \in BOOLEAN /\ r.file \in Target(c)
  BY <1>1, AnswerShape DEF Reply
<1>3. \A x \in DOMAIN sel \ astray : seen[x] = Held(x)
  BY DEF RightBut
<1>4. r.file \in Target(c) /\ r.ok = TRUE
  BY <1>2
<1>5. c.what = "aid" => r.file = c.arg
  BY <1>4 DEF Target
<1>6. /\ sel' = [sel EXCEPT ![ch] = r.file]
      /\ app' = IF c.what = "aid" THEN [app EXCEPT ![ch] = c.arg] ELSE app
  BY <1>1, CardStep DEF Selects
<1>7. Held(ch)' = [file |-> r.file, adf |-> IF c.what = "aid" THEN c.arg ELSE app[ch]]
  BY <1>1, <1>6 DEF Held
<1>8. WillFollow(c, r, ch)
  <2> SUFFICES ASSUME c.what = "aid" \/ ch \notin astray, r.file \in Known
               PROVE  Selected(c, r.ok, seen[ch]) = Held(ch)'
    BY DEF WillFollow
  <2>1. c.what = "aid" \/ seen[ch] = Held(ch)
    BY <1>3
  <2> DEFINE ok == r.ok
             g == r.file
  <2>2. ok = TRUE /\ g \in Target(c) /\ g \in Known
    BY <1>4
  <2> HIDE DEF ok, g
  <2>3. Selected(c, ok, seen[ch]) = [file |-> g, adf |-> IF c.what = "aid" THEN c.arg ELSE app[ch]]
    BY <1>1, <2>1, <2>2, SelectFollowed
  <2> QED
    BY <1>7, <2>3 DEF ok, g
<1>9. RightBut({ch}) /\ DOMAIN sel' = DOMAIN sel
  BY <1>1, <1>3, <1>6 DEF RightBut
<1>10. \A x \in DOMAIN sel : x # ch => sel'[x] = sel[x] /\ app'[x] = app[x]
  BY <1>1, <1>6
<1> QED
  BY <1>1, <1>5, <1>6, <1>8, <1>9, <1>10 DEF SelectionMade

\* A command whose response comes at once, at the card and at the tracer.
LEMMA FreshPicture ==
    ASSUME TraceAssumption, TraceTypes, RightBut({}), stopped = "no",
           NEW ch \in DOMAIN sel, NEW c \in Commands(ch), NEW r \in Answers(c),
           Execute(r), Process(c, r), astray' = Told(r)
    PROVE  /\ RightBut({})' /\ stopped' # "channel"
           /\ logged'.right \/ logged'.ch \in astray'
<1>1. /\ CardTypes /\ SeenTypes /\ ch \in Channels /\ ch \in DOMAIN seen
      /\ DOMAIN seen = DOMAIN sel /\ DOMAIN app = DOMAIN sel
  BY DEF TraceTypes, CardTypes, RightBut
<1>2. /\ c \in AllCommands /\ c.ch = ch
      /\ c.what \in {"fid", "path", "aid", "open", "close", "read", "sfi", "status"}
      /\ c.what = "fid" => c.arg # CurrentApp
      /\ c.what = "aid" => c.arg \in Apps
      /\ c.what = "open" => c.arg \in Channels
  BY <1>1, CommandShape
<1>3. /\ r.cmd = c /\ r.ok \in BOOLEAN
      /\ c.what \in Selects \cup {"read", "sfi"} /\ r.ok => r.file \in Target(c) /\ r.file \in Files
      /\ c.what = "open" /\ r.ok => r.chan \in Channels \ (DOMAIN sel \cup {0}) /\ c.arg \in {0, r.chan}
      /\ c.what = "close" /\ r.ok => c.arg \in DOMAIN sel /\ c.arg # c.ch
  BY <1>1, AnswerShape DEF Reply
<1>4. \A x \in DOMAIN sel \ astray : seen[x] = Held(x)
  BY DEF RightBut
<1>5. CASE c.what \in Selects
  <2>1. /\ seen' = [seen EXCEPT ![ch] = Selected(c, r.ok, seen[ch])]
        /\ logged' = NotLogged /\ stopped' = stopped
    BY <1>1, <1>2, <1>5 DEF Process, Selects
  <2>2. CASE ~r.ok
    <3>1. sel' = sel /\ app' = app
      BY <1>1, <2>2, CardStep
    <3>2. CASE c.what = "fid"
      <4>1. Selected(c, r.ok, seen[ch]) = seen[ch]
        BY <1>2, <2>2, <3>2 DEF Selected, Step
      <4>2. DOMAIN seen' = DOMAIN seen /\ \A x \in DOMAIN seen : seen'[x] = seen[x]
        BY <2>1, <4>1
      <4>3. astray' = astray
        BY <1>3, <2>2, <3>2 DEF Told, Selects
      <4> QED
        BY <2>1, <3>1, <4>2, <4>3 DEF RightBut, Held, NotLogged
    <3>3. CASE c.what # "fid"
      <4>1. astray' = astray \cup {ch}
        BY <1>2, <1>3, <1>5, <2>2, <3>3 DEF Told, Selects
      <4>2. \A x \in DOMAIN sel \ (astray \cup {ch}) : seen'[x] = [file |-> sel[x], adf |-> app[x]]
        BY <1>1, <1>4, <2>1 DEF Held
      <4> QED
        BY <1>1, <2>1, <3>1, <4>1, <4>2 DEF RightBut, Held, NotLogged
    <3> QED
      BY <3>2, <3>3
  <2>3. CASE r.ok
    <3> DEFINE s == Selected(c, r.ok, seen[ch])
    <3>1. /\ c.what = "aid" => r.file = c.arg
          /\ WillFollow(c, r, ch) /\ RightBut({ch}) /\ DOMAIN sel' = DOMAIN sel
          /\ \A x \in DOMAIN sel : x # ch => sel'[x] = sel[x] /\ app'[x] = app[x]
      <4>1. SelectionMade(c, r, ch)
        BY <1>5, <2>3, SelectExecuted
      <4> QED
        BY <4>1 DEF SelectionMade
    <3>2. (c.what = "aid" \/ ch \notin astray) /\ r.file \in Known => s = Held(ch)'
      BY <3>1 DEF WillFollow
    <3>3. seen' = [seen EXCEPT ![ch] = s]
      BY <2>1
    <3> HIDE DEF s
    <3>4. RightBut({})'
      BY <1>2, <1>3, <1>5, <2>3, <3>1, <3>2, <3>3, SelectPicture
    <3> QED
      BY <2>1, <3>4 DEF NotLogged
  <2> QED
    BY <1>3, <2>2, <2>3
<1>6. CASE c.what \in {"read", "sfi"}
  <2>1. Read(c, r) /\ seen' = seen /\ stopped' = stopped
    BY <1>1, <1>2, <1>6 DEF Process, Selects
  <2>2. CASE ~r.ok
    <3>1. sel' = sel /\ app' = app
      BY <1>1, <2>2, CardStep
    <3>2. astray' = astray
      BY <1>3, <1>6, <2>2 DEF Told, Selects
    <3>3. logged'.right
      BY <2>1, <2>2 DEF Read
    <3> QED
      BY <2>1, <3>1, <3>2, <3>3 DEF RightBut, Held
  <2>3. CASE r.ok /\ c.what = "read"
    <3>1. sel' = sel /\ app' = app
      BY <1>1, <2>3, CardStep
    <3>2. astray' = astray
      BY <1>3, <2>3 DEF Told, Selects
    <3>3. r.file = sel[ch]
      BY <1>2, <1>3, <2>3 DEF Target
    <3>4. ch \notin astray => seen[ch].file = sel[ch]
      BY <1>1, <1>4 DEF Held
    <3>5. logged' = [ch |-> ch, right |-> r.ok => {seen[ch].file} \subseteq {r.file}]
      BY <1>2, <2>1, <2>3 DEF Read
    <3>6. logged'.right \/ logged'.ch \in astray'
      BY <3>2, <3>3, <3>4, <3>5
    <3> QED
      BY <2>1, <3>1, <3>2, <3>6 DEF RightBut, Held
  <2>4. CASE r.ok /\ c.what = "sfi"
    <3>1. sel' = [sel EXCEPT ![ch] = r.file] /\ app' = app
      BY <1>1, <2>4, CardStep
    <3>2. astray' = astray \cup {ch}
      BY <1>2, <1>3, <2>4 DEF Told, Selects
    <3>3. logged'.ch = ch
      BY <1>2, <2>1 DEF Read
    <3>4. \A x \in DOMAIN sel \ (astray \cup {ch}) : seen'[x] = [file |-> sel'[x], adf |-> app'[x]]
      BY <1>1, <1>4, <2>1, <3>1 DEF Held
    <3> QED
      BY <1>1, <2>1, <3>1, <3>2, <3>3, <3>4 DEF RightBut, Held
  <2> QED
    BY <1>3, <1>6, <2>2, <2>3, <2>4
<1>7. CASE c.what = "status"
  <2>1. /\ stopped' = (IF r.ok THEN stopped ELSE "undecodable") /\ logged' = NotLogged
        /\ seen' = seen
    BY <1>1, <1>2, <1>7 DEF Process, Selects
  <2>2. sel' = sel /\ app' = app
    BY <1>1, <1>7, CardStep
  <2>3. astray' = astray
    BY <1>3, <1>7 DEF Told, Selects
  <2> QED
    BY <2>1, <2>2, <2>3 DEF RightBut, Held, NotLogged
<1>8. CASE c.what = "open"
  <2>1. ManageChannel(c, r) /\ logged' = NotLogged
    BY <1>8 DEF Process
  <2>2. CASE ~r.ok
    <3>1. sel' = sel /\ app' = app
      BY <1>1, <2>2, CardStep
    <3>2. astray' = astray
      BY <1>3, <1>8, <2>2 DEF Told, Selects
    <3> QED
      BY <2>1, <2>2, <3>1, <3>2 DEF ManageChannel, RightBut, Held, NotLogged
  <2>3. CASE r.ok
    <3> DEFINE n == r.chan
    <3>1. /\ sel' = With(sel, n, IF ch = 0 THEN MF ELSE Cwd(sel[ch]))
          /\ app' = With(app, n, IF ch = 0 THEN None ELSE app[ch])
      BY <1>1, <1>8, <2>3, CardStep
    <3>2. n \in Channels /\ n \notin DOMAIN sel /\ n # 0 /\ c.arg \in {0, n}
      BY <1>3, <1>8, <2>3
    <3>3. astray' = IF ch \in astray \ {0} THEN astray \cup {n} ELSE astray \ {n}
      BY <1>2, <1>3, <1>8, <2>3 DEF Told, Selects
    <3>4. seen' = With(seen, n, add_lchan(ch)) /\ stopped' = stopped
      BY <1>1, <1>2, <1>8, <2>1, <2>3, <3>2 DEF ManageChannel
    <3>5. ch \notin astray \ {0} =>
             add_lchan(ch) = [file |-> IF ch = 0 THEN MF ELSE Cwd(sel[ch]),
                              adf |-> IF ch = 0 THEN None ELSE app[ch]]
      BY <1>1, <1>4 DEF add_lchan, Start, Held
    <3> HIDE DEF n, add_lchan
    <3>6. DOMAIN seen' = DOMAIN sel' /\ DOMAIN sel' = DOMAIN sel \cup {n}
      BY <1>1, <3>1, <3>4 DEF With
    <3>7. ASSUME NEW x \in DOMAIN sel' \ astray' PROVE seen'[x] = [file |-> sel'[x], adf |-> app'[x]]
      <4>1. CASE x = n
        <5>1. ch \notin astray \ {0}
          BY <3>3, <3>7, <4>1
        <5> QED
          BY <1>1, <3>1, <3>4, <3>5, <4>1, <5>1 DEF With
      <4>2. CASE x # n
        <5>1. x \in DOMAIN sel \ astray
          BY <3>3, <3>6, <3>7, <4>2
        <5> QED
          BY <1>1, <1>4, <3>1, <3>4, <4>2, <5>1 DEF With, Held
      <4> QED
        BY <4>1, <4>2
    <3> QED
      BY <2>1, <3>4, <3>6, <3>7 DEF RightBut, Held, NotLogged
  <2> QED
    BY <1>3, <2>2, <2>3
<1>9. CASE c.what = "close"
  <2>1. ManageChannel(c, r) /\ logged' = NotLogged
    BY <1>9 DEF Process
  <2>2. CASE ~r.ok
    <3>1. sel' = sel /\ app' = app
      BY <1>1, <2>2, CardStep
    <3>2. astray' = astray
      BY <1>3, <1>9, <2>2 DEF Told, Selects
    <3> QED
      BY <2>1, <2>2, <3>1, <3>2 DEF ManageChannel, RightBut, Held, NotLogged
  <2>3. CASE r.ok
    <3>1. /\ sel' = Without(sel, c.arg) /\ app' = Without(app, c.arg)
      BY <1>1, <1>9, <2>3, CardStep
    <3>2. astray' = astray \ {c.arg}
      BY <1>3, <1>9, <2>3 DEF Told, Selects
    <3>3. seen' = Without(seen, c.arg) /\ stopped' = stopped
      BY <1>9, <2>1, <2>3 DEF ManageChannel
    <3>4. DOMAIN seen' = DOMAIN sel' /\ DOMAIN sel' = DOMAIN sel \ {c.arg}
      BY <1>1, <3>1, <3>3 DEF Without
    <3>5. ASSUME NEW x \in DOMAIN sel' \ astray' PROVE seen'[x] = [file |-> sel'[x], adf |-> app'[x]]
      <4>1. x \in DOMAIN sel \ astray /\ x # c.arg
        BY <3>2, <3>4, <3>5
      <4> QED
        BY <1>1, <1>4, <3>1, <3>3, <4>1 DEF Without, Held
    <3> QED
      BY <2>1, <3>3, <3>4, <3>5 DEF RightBut, Held, NotLogged
  <2> QED
    BY <1>3, <2>2, <2>3
<1> QED
  BY <1>2, <1>5, <1>6, <1>7, <1>8, <1>9 DEF Selects

LEMMA PictureBegins ==
    ASSUME TraceAssumption, Init
    PROVE  TraceInv
<1>1. RightBut({})
  BY DEF Init, RightBut, Held, Start
<1> QED
  BY <1>1 DEF Init, TraceInv, AtRest, NotLogged

\* Which of the three it is.
LEMMA PictureOf ==
    ASSUME TraceTypes, TraceInv, lost = 0, stopped = "no"
    PROVE  /\ belongs
           /\ waiting = Nothing => AtRest /\ last_cmd = Nothing
           /\ waiting.why = "61" => Fetching
           /\ waiting.why = "6c" => Repeating
<1>1. AtRest \/ Fetching \/ Repeating
  BY DEF TraceInv
<1>2. AtRest => waiting.why = "none"
  BY DEF AtRest, Nothing
<1>3. (Fetching => waiting.why = "61") /\ (Repeating => waiting.why = "6c")
  BY DEF Fetching, Repeating
<1>4. waiting = Nothing => waiting.why = "none"
  BY DEF Nothing
<1> QED
  BY <1>1, <1>2, <1>3, <1>4 DEF TraceInv, TraceTypes, NothingForgotten

LEMMA SendPicture ==
    ASSUME TraceAssumption, TraceTypes, TraceInv,
           NEW ch \in DOMAIN sel, NEW c \in Commands(ch), Send(c)
    PROVE  TraceInv'
<1> SUFFICES ASSUME lost' = 0
             PROVE  /\ belongs' /\ stopped' # "channel"
                    /\ stopped' = "no" => AtRest' \/ Fetching' \/ Repeating'
  BY DEF TraceInv
<1>1. lost = 0 /\ waiting = Nothing /\ stopped = "no"
  BY DEF Send, TraceTypes
<1>2. RightBut({}) /\ last_cmd = Nothing /\ belongs
  BY <1>1, PictureOf DEF AtRest
<1>3. ch \in Channels /\ CardTypes
  BY DEF TraceTypes, CardTypes
<1>4. c.ch = ch
  BY <1>3, CommandShape
<1>5. PICK r \in Answers(c) :
        /\ Execute(r)
        /\ IF r.whole > 0
           THEN waiting' = [why |-> "61", r |-> r, left |-> r.whole] /\ Withheld("command", c)
           ELSE waiting' = Nothing /\ HandedOn(c, r)
  BY DEF Send
<1>6. r.cmd = c /\ (r.whole > 0 => c.what \in Selects /\ r.ok)
  BY <1>3, AnswerShape
<1>7. CASE r.whole > 0
  <2>1. /\ waiting' = [why |-> "61", r |-> r, left |-> r.whole] /\ last_cmd' = c
        /\ UNCHANGED <<seen, belongs, logged, stopped, astray>>
    BY <1>5, <1>7 DEF Withheld, Remembered
  <2>2. /\ WillFollow(c, r, ch) /\ RightBut({ch}) /\ DOMAIN sel' = DOMAIN sel
        /\ \A x \in DOMAIN sel : x # ch => sel'[x] = sel[x] /\ app'[x] = app[x]
        /\ sel'[ch] = r.file /\ (c.what = "aid" => r.file = c.arg)
    <3>1. r.ok /\ c.what \in Selects /\ Execute(r)
      BY <1>5, <1>6, <1>7
    <3>2. SelectionMade(c, r, ch)
      BY <1>2, <3>1, SelectExecuted
    <3> QED
      BY <3>2 DEF SelectionMade
  <2>3. RightBut({ch})'
    BY <2>1, <2>2 DEF RightBut, Held
  <2>4. Followed(c, r)'
    BY <1>4, <2>1, <2>2 DEF WillFollow, Followed
  <2>5. waiting'.why = "61" /\ waiting'.r = r
    BY <2>1
  <2>6. Fetching'
    BY <1>4, <1>6, <1>7, <2>1, <2>2, <2>3, <2>4, <2>5 DEF Fetching
  <2> QED
    BY <1>1, <1>2, <2>1, <2>6
<1>8. CASE ~(r.whole > 0)
  <2>1. waiting' = Nothing /\ belongs' = (c = r.cmd) /\ Process(c, r) /\ astray' = Told(r)
    BY <1>2, <1>5, <1>8 DEF HandedOn
  <2>2. /\ RightBut({})' /\ stopped' # "channel"
        /\ logged'.right \/ logged'.ch \in astray'
    BY <1>1, <1>2, <1>5, <2>1, FreshPicture
  <2> QED
    BY <1>6, <2>1, <2>2 DEF AtRest
<1> QED
  BY <1>7, <1>8

LEMMA GetResponsePicture ==
    ASSUME TraceAssumption, TraceTypes, TraceInv, GetResponse
    PROVE  TraceInv'
<1> SUFFICES ASSUME lost' = 0
             PROVE  /\ belongs' /\ stopped' # "channel"
                    /\ stopped' = "no" => AtRest' \/ Fetching' \/ Repeating'
  BY DEF TraceInv
<1>1. lost = 0 /\ waiting.why = "61" /\ stopped = "no" /\ UNCHANGED <<sel, app>>
  BY DEF GetResponse
<1>2. Fetching /\ belongs
  BY <1>1, PictureOf
<1>3. PICK r \in Reply, n \in Nat : waiting = [why |-> "61", r |-> r, left |-> n]
  BY <1>1, WaitingFor DEF TraceTypes
<1>4. waiting.r = r
  BY <1>3
<1> DEFINE c == r.cmd
           ch == c.ch
<1>5. /\ last_cmd = c /\ r.ok /\ c.what \in Selects /\ ch \in DOMAIN sel
      /\ r.file = sel[ch] /\ (c.what = "aid" => r.file = c.arg)
      /\ RightBut({ch}) /\ Followed(c, r)
  BY <1>2, <1>4 DEF Fetching
<1>6. CASE waiting.left > 1
  <2>1. /\ waiting' = [waiting EXCEPT !.left = @ - 1] /\ last_cmd' = last_cmd
        /\ UNCHANGED <<seen, belongs, logged, stopped, astray>>
    BY <1>6 DEF GetResponse, Withheld, Remembered
  <2>2. waiting'.why = "61" /\ waiting'.r = r
    BY <1>3, <2>1
  <2>3. RightBut({ch})' /\ Followed(c, r)'
    BY <1>1, <1>5, <2>1 DEF RightBut, Followed, Held
  <2>4. Fetching'
    BY <1>1, <1>5, <2>1, <2>2, <2>3 DEF Fetching
  <2> QED
    BY <1>1, <1>2, <2>1, <2>4
<1>7. CASE ~(waiting.left > 1)
  <2>1. waiting' = Nothing /\ HandedOn(Command("get_response", ch, 0), r)
    BY <1>4, <1>7 DEF GetResponse
  <2>2. last_cmd # Nothing
    BY <1>1, WaitingFor DEF TraceTypes
  <2>3. belongs' = (c = r.cmd) /\ Process(c, r) /\ astray' = Told(r)
    BY <1>5, <2>1, <2>2 DEF HandedOn
  <2>4. ch \in DOMAIN seen
    BY <1>5 DEF RightBut
  <2> DEFINE s == Selected(c, r.ok, seen[ch])
  <2>5. /\ seen' = [seen EXCEPT ![ch] = s]
        /\ logged' = NotLogged /\ stopped' = stopped
    BY <1>5, <2>3, <2>4 DEF Process, Selects
  <2>6. (c.what = "aid" \/ ch \notin astray) /\ r.file \in Known => s = Held(ch)'
    BY <1>1, <1>5 DEF Followed, Held
  <2>7. /\ DOMAIN sel' = DOMAIN sel
        /\ \A x \in DOMAIN sel : x # ch => sel'[x] = sel[x] /\ app'[x] = app[x]
    BY <1>1
  <2>8. RightBut({})'
    <3> HIDE DEF s
    <3> QED
      BY <1>5, <2>3, <2>5, <2>6, <2>7, SelectPicture
  <2> QED
    BY <1>1, <2>1, <2>3, <2>5, <2>8 DEF AtRest, NotLogged
<1> QED
  BY <1>6, <1>7

LEMMA SendWrongLengthPicture ==
    ASSUME TraceAssumption, TraceTypes, TraceInv,
           NEW ch \in DOMAIN sel, NEW c \in Commands(ch), SendWrongLength(c)
    PROVE  TraceInv'
<1> SUFFICES ASSUME lost' = 0
             PROVE  /\ belongs' /\ stopped' # "channel"
                    /\ stopped' = "no" => AtRest' \/ Fetching' \/ Repeating'
  BY DEF TraceInv
<1>1. /\ lost = 0 /\ waiting = Nothing /\ stopped = "no"
      /\ waiting' = [why |-> "6c", cmd |-> c] /\ last_cmd' = c
      /\ UNCHANGED <<seen, belongs, logged, stopped, astray, sel, app>>
  BY DEF SendWrongLength, Withheld, Remembered
<1>2. RightBut({}) /\ belongs
  BY <1>1, PictureOf DEF AtRest
<1>3. Repeating'
  BY <1>1, <1>2 DEF Repeating, RightBut, Held
<1> QED
  BY <1>1, <1>2, <1>3

LEMMA RepeatPicture ==
    ASSUME TraceAssumption, TraceTypes, TraceInv, Repeat
    PROVE  TraceInv'
<1> SUFFICES ASSUME lost' = 0
             PROVE  /\ belongs' /\ stopped' # "channel"
                    /\ stopped' = "no" => AtRest' \/ Fetching' \/ Repeating'
  BY DEF TraceInv
<1>1. lost = 0 /\ waiting.why = "6c" /\ stopped = "no" /\ waiting' = Nothing
  BY DEF Repeat
<1>2. Repeating /\ belongs
  BY <1>1, PictureOf
<1>3. PICK c \in AllCommands : c.ch \in DOMAIN sel /\ waiting = [why |-> "6c", cmd |-> c]
  BY <1>1, WaitingFor DEF TraceTypes
<1>4. waiting.cmd = c /\ c \in Commands(c.ch) /\ CardTypes
  BY <1>3, CommandOfChannel DEF TraceTypes
<1>5. PICK r \in Answers(c) : Execute(r) /\ HandedOn(c, r)
  BY <1>4 DEF Repeat
<1>6. r.cmd = c
  BY <1>3, <1>4, AnswerShape
<1>7. last_cmd = c /\ RightBut({})
  BY <1>2, <1>4 DEF Repeating
<1>8. belongs' = (c = r.cmd) /\ Process(c, r) /\ astray' = Told(r)
  BY <1>5, <1>7 DEF HandedOn
<1>9. /\ RightBut({})' /\ stopped' # "channel"
      /\ logged'.right \/ logged'.ch \in astray'
  BY <1>1, <1>3, <1>4, <1>5, <1>7, <1>8, FreshPicture
<1> QED
  BY <1>1, <1>6, <1>8, <1>9 DEF AtRest

LEMMA CardResetPicture ==
    ASSUME TraceAssumption, CardReset
    PROVE  TraceInv'
<1>1. /\ sel' = [ch \in {0} |-> MF] /\ app' = [ch \in {0} |-> None]
      /\ waiting' = Nothing /\ seen' = [ch \in {0} |-> Start]
      /\ belongs' = TRUE /\ logged' = NotLogged /\ stopped' = "no"
  BY DEF CardReset
<1>2. RightBut({})'
  BY <1>1 DEF RightBut, Held, Start
<1> QED
  BY <1>1, <1>2 DEF TraceInv, AtRest, NotLogged

-----------------------------------------------------------------------------
(* The theorems.                                                           *)

LEMMA TraceBegins ==
    ASSUME TraceAssumption, Init
    PROVE  TraceTypes /\ TraceInv
BY TypesBegin, PictureBegins

LEMMA TraceKept ==
    ASSUME TraceAssumption, TraceTypes, TraceInv, [Next]_vars
    PROVE  TraceTypes' /\ TraceInv'
<1>1. ASSUME NEW ch \in DOMAIN sel, NEW c \in Commands(ch), Send(c)
      PROVE  TraceTypes' /\ TraceInv'
  BY <1>1, SendTypes, SendPicture
<1>2. ASSUME NEW ch \in DOMAIN sel, NEW c \in Commands(ch), SendWrongLength(c)
      PROVE  TraceTypes' /\ TraceInv'
  BY <1>2, SendWrongLengthTypes, SendWrongLengthPicture
<1>3. CASE GetResponse
  BY <1>3, GetResponseTypes, GetResponsePicture
<1>4. CASE Repeat
  BY <1>4, RepeatTypes, RepeatPicture
<1>5. CASE CardReset
  BY <1>5, CardResetTypes, CardResetPicture
<1>6. CASE UNCHANGED vars
  <2>1. UNCHANGED <<sel, app, waiting, last_cmd, seen, belongs, logged, stopped, astray, lost>>
    BY <1>6 DEF vars, card, tracer
  <2>2. TraceTypes'
    BY <2>1 DEF TraceTypes, CardTypes, SeenTypes, WaitingTypes, NothingForgotten
  <2>3. TraceInv'
    BY <2>1 DEF TraceInv, AtRest, Fetching, Repeating, Followed, RightBut, Held
  <2> QED
    BY <2>2, <2>3
<1> QED
  BY <1>1, <1>2, <1>3, <1>4, <1>5, <1>6 DEF Next

\* The tracer's picture has only files of the profile and applications of the card, on channels
\* of the card's; a command is remembered whenever its response is awaited, and a response is
\* counted as left unfetched before the bound is passed (TpduFilter, RuntimeState).
THEOREM TraceTypeCorrect == Spec => []TypeOK
<1>1. Init => TraceTypes /\ TraceInv
  BY TraceBegins, TraceAssumption
<1>2. TraceTypes /\ TraceInv /\ [Next]_vars => (TraceTypes /\ TraceInv)'
  BY TraceKept, TraceAssumption
<1>3. TraceTypes => TypeOK
  <2> SUFFICES ASSUME TraceTypes PROVE TypeOK
    OBVIOUS
  <2>1. waiting.why \in {"none", "61", "6c"} /\ (waiting # Nothing => last_cmd # Nothing)
    BY WaitingFor DEF TraceTypes
  <2>2. \A ch \in DOMAIN seen : seen[ch].file \in Known /\ seen[ch].adf \in Apps \cup {None}
    BY DEF TraceTypes, SeenTypes, Shown
  <2> QED
    BY <2>1, <2>2 DEF TypeOK, TraceTypes, CardTypes, SeenTypes
<1> QED
  BY <1>1, <1>2, <1>3, PTL DEF Spec

\* With every response fetched the tracer hands each response on with its own command and never
\* meets a channel it does not know, whatever is selected, opened, refused or reset, and however
\* many pieces a response comes in (TpduFilter.input_tpdu, ManageChannel).
THEOREM ResponsesAlwaysBelong == Spec => []ResponsesBelong
<1>1. Init => TraceTypes /\ TraceInv
  BY TraceBegins, TraceAssumption
<1>2. TraceTypes /\ TraceInv /\ [Next]_vars => (TraceTypes /\ TraceInv)'
  BY TraceKept, TraceAssumption
<1>3. TraceTypes /\ TraceInv => ResponsesBelong
  BY TraceAssumption DEF TraceTypes, TraceInv, ResponsesBelong
<1> QED
  BY <1>1, <1>2, <1>3, PTL DEF Spec

\* In any tree of files whose identifiers tell apart what the tracer may select, its picture of
\* every channel on which it was told enough is the card's, with any number of channels astray
\* (UiccSelect, ManageChannel, ReadBinary, RuntimeState.reset).
THEOREM PictureAlwaysRight == Spec => []PictureRight
<1>1. Init => TraceTypes /\ TraceInv
  BY TraceBegins, TraceAssumption
<1>2. TraceTypes /\ TraceInv /\ [Next]_vars => (TraceTypes /\ TraceInv)'
  BY TraceKept, TraceAssumption
<1>3. TraceTypes /\ TraceInv => PictureRight
  <2> SUFFICES ASSUME TraceTypes, TraceInv, waiting = Nothing, stopped = "no", lost = 0
               PROVE  /\ DOMAIN seen = DOMAIN sel
                      /\ \A ch \in DOMAIN sel \ astray : seen[ch] = [file |-> sel[ch], adf |-> app[ch]]
                      /\ logged.right \/ logged.ch \in astray
    BY DEF PictureRight
  <2>1. AtRest
    BY PictureOf
  <2> QED
    BY <2>1 DEF AtRest, RightBut, Held
<1> QED
  BY <1>1, <1>2, <1>3, PTL DEF Spec
===============================================================================
