----------------------- MODULE RepositoryContextProofs -----------------------
(***************************************************************************)
(* Theorems about RepositoryContext for every repository, every sequence   *)
(* of edits, every content of the cache and every bound: the index of a    *)
(* request is that of the present sources, the candidates are the files    *)
(* within some imports of the seeds, and the context keeps within its      *)
(* budget and shows what it names.                                         *)
(***************************************************************************)
EXTENDS RepositoryContext, TLAPS, BoundedRecursion, SequenceTheorems, FiniteSetTheorems

-----------------------------------------------------------------------------
(* Lists of files                                                          *)

(* Nothing stands twice in a list; nor does what comes after a member of   *)
(* it, if it is new.                                                       *)
OnlyOnce(list) == \A m, n \in DOMAIN list : list[m] = list[n] => m = n

LEMMA NewOnlyOnce ==
  ASSUME NEW T, NEW list \in Seq(T), NEW x \in T, OnlyOnce(list),
         \A n \in DOMAIN list : list[n] # x
  PROVE  OnlyOnce(Append(list, x))
<1>1. /\ DOMAIN Append(list, x) = 1..(Len(list) + 1) /\ DOMAIN list = 1..Len(list)
      /\ Len(list) \in Nat /\ Append(list, x)[Len(list) + 1] = x
      /\ \A n \in DOMAIN list : Append(list, x)[n] = list[n]
  OBVIOUS
<1>2. ASSUME NEW m \in 1..(Len(list) + 1), NEW n \in 1..(Len(list) + 1),
             Append(list, x)[m] = Append(list, x)[n]
      PROVE  m = n
  <2>1. (m \in DOMAIN list \/ m = Len(list) + 1) /\ (n \in DOMAIN list \/ n = Len(list) + 1)
    BY <1>1
  <2>2. CASE m \in DOMAIN list /\ n \in DOMAIN list
    BY <1>1, <1>2, <2>2 DEF OnlyOnce
  <2>3. CASE m \in DOMAIN list /\ n = Len(list) + 1
    BY <1>1, <1>2, <2>3
  <2>4. CASE m = Len(list) + 1 /\ n \in DOMAIN list
    BY <1>1, <1>2, <2>4
  <2> QED
    BY <2>1, <2>2, <2>3, <2>4
<1> QED
  BY <1>1, <1>2 DEF OnlyOnce

LEMMA ListedFiles ==
  ASSUME NEW files, files \subseteq Files
  PROVE  /\ Listed(files) \in Seq(files) /\ OnlyOnce(Listed(files))
         /\ \A f \in files : \E k \in DOMAIN Listed(files) : Listed(files)[k] = f
<1> DEFINE N == Len(Order)
           S == Seq(files)
           list == CHOOSE g : g = [n \in 0..N |->
                     IF n = 0 THEN <<>>
                     ELSE IF Order[n] \in files THEN Append(g[n - 1], Order[n]) ELSE g[n - 1]]
           step == [n \in 1..N |-> [s \in S |->
                     IF Order[n] \in files THEN Append(s, Order[n]) ELSE s]]
<1>0. N \in Nat /\ DOMAIN Order = 1..N
  BY ContextAssumption
<1>1. Listed(files) = list[N]
  BY DEF Listed
<1>2. /\ list[0] = <<>>
      /\ \A n \in 1..N : list[n] =
           IF Order[n] \in files THEN Append(list[n - 1], Order[n]) ELSE list[n - 1]
  <2>1. <<>> \in S /\ step \in [1..N -> [S -> S]]
    OBVIOUS
  <2> HIDE DEF N
  <2>2. PICK g \in [0..N -> S] : g[0] = <<>> /\ \A n \in 1..N : g[n] = step[n][g[n - 1]]
    <3>1. step \in Steps(N, S)
      BY <2>1 DEF Steps
    <3> HIDE DEF S, step
    <3>2. IsDefined(N, S, <<>>, step)
      BY <1>0, <2>1, <3>1, RecursiveFunction
    <3> QED
      BY <3>2 DEF IsDefined
  <2>3. \A n \in 1..N : g[n] = IF Order[n] \in files THEN Append(g[n - 1], Order[n]) ELSE g[n - 1]
    <3> TAKE n \in 1..N
    <3>1. n - 1 \in 0..N
      BY <1>0
    <3>2. g[n - 1] \in S
      BY <2>2, <3>1
    <3> QED
      BY <2>2, <3>2
  <2>4. g = [n \in 0..N |->
               IF n = 0 THEN <<>>
               ELSE IF Order[n] \in files THEN Append(g[n - 1], Order[n]) ELSE g[n - 1]]
    <3> DEFINE Body(n) == IF n = 0 THEN <<>>
                          ELSE IF Order[n] \in files THEN Append(g[n - 1], Order[n]) ELSE g[n - 1]
    <3>1. \A n \in 0..N : g[n] = Body(n)
      <4>1. \A n \in 0..N : n = 0 \/ n \in 1..N
        BY <1>0
      <4> QED
        BY <2>2, <2>3, <4>1
    <3> HIDE DEF Body
    <3>2. g = [n \in 0..N |-> Body(n)]
      BY <2>2, <3>1
    <3> QED
      BY <3>2 DEF Body
  <2>5. list = [n \in 0..N |->
                  IF n = 0 THEN <<>>
                  ELSE IF Order[n] \in files THEN Append(list[n - 1], Order[n]) ELSE list[n - 1]]
    BY <2>4
  <2> HIDE DEF list
  <2>6. 0 \in 0..N /\ \A n \in 1..N : n \in 0..N /\ n # 0
    BY <1>0
  <2> QED
    BY <2>5, <2>6
<1> HIDE DEF list, N
<1> DEFINE Good(n) == /\ list[n] \in Seq(files) /\ OnlyOnce(list[n])
                      /\ \A k \in DOMAIN list[n] : \E i \in 1..n : list[n][k] = Order[i]
                      /\ \A i \in 1..n : Order[i] \in files =>
                           \E k \in DOMAIN list[n] : list[n][k] = Order[i]
           P == {n \in 0..N : Good(n)}
<1>3. 0 \in P
  <2>1. list[0] \in Seq(files) /\ OnlyOnce(list[0]) /\ DOMAIN list[0] = {}
    BY <1>2 DEF OnlyOnce
  <2> QED
    BY <1>0, <2>1
<1>4. ASSUME NEW n \in 1..N, n - 1 \in P PROVE n \in P
  <2> DEFINE before == list[n - 1]
  <2>1. /\ before \in Seq(files) /\ OnlyOnce(before)
        /\ \A k \in DOMAIN before : \E i \in 1..(n - 1) : before[k] = Order[i]
        /\ \A i \in 1..(n - 1) : Order[i] \in files => \E k \in DOMAIN before : before[k] = Order[i]
    BY <1>4
  <2>2. list[n] = IF Order[n] \in files THEN Append(before, Order[n]) ELSE before
    BY <1>0, <1>2
  <2> HIDE DEF before
  <2>3. CASE Order[n] \in files
    <3>1. list[n] = Append(before, Order[n])
      BY <2>2, <2>3
    <3>2. /\ list[n] \in Seq(files) /\ DOMAIN list[n] = 1..(Len(before) + 1)
          /\ DOMAIN before = 1..Len(before) /\ Len(before) \in Nat
          /\ list[n][Len(before) + 1] = Order[n]
          /\ \A k \in DOMAIN before : list[n][k] = before[k]
      BY <2>1, <2>3, <3>1
    <3>3. ASSUME NEW i \in 1..n, Order[i] \in files
          PROVE  \E k \in DOMAIN list[n] : list[n][k] = Order[i]
      <4>1. CASE i = n
        BY <3>2, <4>1
      <4>2. CASE i # n
        <5>1. PICK k \in DOMAIN before : before[k] = Order[i]
          BY <2>1, <3>3, <4>2, <1>0
        <5> QED
          BY <3>2, <5>1
      <4> QED
        BY <4>1, <4>2
    <3>4. ASSUME NEW k \in DOMAIN before PROVE before[k] # Order[n]
      <4>1. PICK i \in 1..(n - 1) : before[k] = Order[i]
        BY <2>1
      <4>2. i \in DOMAIN Order /\ n \in DOMAIN Order /\ i # n
        BY <1>0
      <4> QED
        BY <4>1, <4>2, ContextAssumption
    <3>5. OnlyOnce(list[n])
      BY <2>1, <2>3, <3>1, <3>4, NewOnlyOnce
    <3>6. ASSUME NEW k \in DOMAIN list[n] PROVE \E i \in 1..n : list[n][k] = Order[i]
      <4>1. k \in DOMAIN before \/ k = Len(before) + 1
        BY <3>2
      <4>2. CASE k \in DOMAIN before
        <5>1. PICK i \in 1..(n - 1) : before[k] = Order[i]
          BY <2>1, <4>2
        <5> QED
          BY <1>0, <3>2, <4>2, <5>1
      <4>3. CASE k = Len(before) + 1
        BY <1>0, <3>2, <4>3
      <4> QED
        BY <4>1, <4>2, <4>3
    <3> QED
      BY <3>2, <3>3, <3>5, <3>6
  <2>4. CASE Order[n] \notin files
    <3>1. list[n] = before /\ \A i \in 1..n : i = n \/ i \in 1..(n - 1)
      BY <1>0, <2>2, <2>4
    <3>2. 1..(n - 1) \subseteq 1..n
      BY <1>0
    <3> QED
      BY <1>0, <2>1, <2>4, <3>1, <3>2
  <2> QED
    BY <2>3, <2>4
<1> HIDE DEF P
<1>5. N \in P
  BY <1>0, <1>3, <1>4, BoundedInduction
<1> USE DEF P
<1>6. \A f \in files : \E i \in 1..N : Order[i] = f
  BY <1>0 DEF Files, ToSet
<1> QED
  BY <1>1, <1>5, <1>6

LEMMA SequenceOf ==
  ASSUME NEW T, NEW n \in Nat, NEW s \in [1..n -> T]
  PROVE  s \in Seq(T) /\ Len(s) = n
BY SeqDef

LEMMA Flattened ==
  ASSUME NEW T, NEW seqs \in Seq(Seq(T))
  PROVE  FlattenSeq(seqs) \in Seq(T)
<1> DEFINE N == Len(seqs)
           S == Seq(T)
           step == [n \in 1..N |-> [s \in S |-> s \o seqs[n]]]
           flat == CHOOSE g : g = [n \in 1..N |-> IF n = 1 THEN seqs[n] ELSE g[n - 1] \o seqs[n]]
<1>0. N \in Nat /\ \A n \in 1..N : seqs[n] \in S
  OBVIOUS
<1>1. CASE N = 0
  BY <1>1 DEF FlattenSeq
<1>2. CASE N # 0
  <2>1. FlattenSeq(seqs) = flat[N]
    BY <1>2 DEF FlattenSeq
  <2>2. <<>> \in S /\ step \in Steps(N, S)
    BY <1>0 DEF Steps
  <2>3. IsDefined(N, S, <<>>, step)
    <3> HIDE DEF N, S, step
    <3> QED
      BY <1>0, <2>2, RecursiveFunction
  <2>4. PICK f \in [0..N -> S] : f[0] = <<>> /\ \A n \in 1..N : f[n] = step[n][f[n - 1]]
    BY <2>3 DEF IsDefined
  <2> DEFINE g == [n \in 1..N |-> f[n]]
             Body(h, n) == IF n = 1 THEN seqs[n] ELSE h[n - 1] \o seqs[n]
  <2>5. \A n \in 1..N : f[n] = f[n - 1] \o seqs[n] /\ f[n] \in S
    <3> TAKE n \in 1..N
    <3>1. n - 1 \in 0..N /\ n \in 0..N
      BY <1>0
    <3>2. f[n - 1] \in S /\ f[n] \in S
      BY <2>4, <3>1
    <3> QED
      BY <2>4, <3>2
  <2>6. \A n \in 1..N : g[n] = Body(g, n)
    <3> TAKE n \in 1..N
    <3>1. CASE n = 1
      <4>1. f[n] = f[n - 1] \o seqs[n] /\ seqs[n] \in Seq(T)
        BY <1>0, <2>5
      <4>2. f[n - 1] = <<>>
        BY <2>4, <3>1
      <4>3. f[n] = seqs[n]
        BY <4>1, <4>2
      <4> QED
        BY <3>1, <4>3
    <3>2. CASE n # 1
      <4>1. n - 1 \in 1..N
        BY <1>0, <3>2
      <4> QED
        BY <2>5, <3>2, <4>1
    <3> QED
      BY <3>1, <3>2
  <2>7. g = [n \in 1..N |-> Body(g, n)]
    <3> HIDE DEF Body
    <3> QED
      BY <2>6
  <2>8. flat = [n \in 1..N |-> Body(flat, n)]
    <3>1. flat = CHOOSE h : h = [n \in 1..N |-> Body(h, n)]
      OBVIOUS
    <3> HIDE DEF Body, flat, g
    <3> QED
      BY <2>7, <3>1
  <2> HIDE DEF flat
  <2> DEFINE P == {n \in 0..N : n = 0 \/ flat[n] \in S}
  <2>9. ASSUME NEW n \in 1..N, n - 1 \in P PROVE n \in P
    <3>1. flat[n] = Body(flat, n) /\ seqs[n] \in S
      BY <1>0, <2>8
    <3>2. CASE n = 1
      BY <1>0, <3>1, <3>2
    <3>3. CASE n # 1
      <4>1. flat[n - 1] \in Seq(T) /\ seqs[n] \in Seq(T)
        BY <1>0, <2>9, <3>3
      <4>2. flat[n] = flat[n - 1] \o seqs[n]
        BY <3>1, <3>3
      <4>3. flat[n] \in Seq(T)
        BY <4>1, <4>2
      <4> QED
        BY <1>0, <4>3
    <3> QED
      BY <3>2, <3>3
  <2>10. 0 \in P
    BY <1>0
  <2>11. \A n \in 0..N : n \in P
    <3> HIDE DEF P, N
    <3> QED
      BY <1>0, <2>9, <2>10, BoundedInduction
  <2> QED
    BY <1>0, <1>2, <2>1, <2>11
<1> QED
  BY <1>1, <1>2

-----------------------------------------------------------------------------
(* The seeds                                                               *)

IsSequence(s) == \E n \in Nat : DOMAIN s = 1..n

LEMMA TestImportsAreFiles ==
  ASSUME NEW f
  PROVE  TestImports(f) \in Seq(Files)
<1> DEFINE found == {g \in Files \ {f} : Opens(g) /\
                      \E import \in workspace[f].imports :
                        import.level = 0 /\ ModuleOf[g] \in ImportedModules(f, import)}
<1>1. TestImports(f) = IF ~Readable(f) \/ ~workspace[f].parses THEN <<>> ELSE Listed(found)
  BY DEF TestImports
<1>2. found \subseteq Files
  OBVIOUS
<1> HIDE DEF found
<1>3. Listed(found) \in Seq(found)
  BY <1>2, ListedFiles
<1>4. Listed(found) \in Seq(Files)
  BY <1>2, <1>3
<1> QED
  BY <1>1, <1>4

LEMMA SeedFilesAreFiles ==
  ASSUME evidence \in Evidence
  PROVE  /\ SeedFiles \in Seq(Files) /\ OnlyOnce(SeedFiles)
         /\ \A n \in DOMAIN SeedFiles : Opens(SeedFiles[n])
<1> DEFINE frames == [n \in DOMAIN evidence.frames |-> evidence.frames[n].path]
           imports == FlattenSeq([n \in DOMAIN evidence.tests |-> TestImports(evidence.tests[n])])
           all == evidence.tests \o frames \o imports
           N == Len(all)
           S == Seq(Files)
           Keep(n) == Opens(all[n]) /\ \A m \in 1..(n - 1) : all[m] # all[n]
           Body(h, n) == IF n = 0 THEN <<>>
                         ELSE IF Keep(n) THEN Append(h[n - 1], all[n]) ELSE h[n - 1]
           step == [n \in 1..N |-> [s \in S |-> IF Keep(n) THEN Append(s, all[n]) ELSE s]]
           distinct == CHOOSE h : h = [n \in 0..N |-> Body(h, n)]
<1>1. evidence.tests \in S /\ frames \in S
  <2>1. evidence.tests \in Seq(Files) /\ evidence.frames \in Seq([path : Files, line : Nat])
    BY ContextAssumption
  <2> DEFINE lines == evidence.frames
             Frame == [path : Files, line : Nat]
  <2>2. lines \in Seq(Frame)
    BY <2>1
  <2>3. \A frame \in Frame : frame.path \in Files
    OBVIOUS
  <2> HIDE DEF lines, Frame
  <2>4. [n \in DOMAIN lines |-> lines[n].path] \in Seq(Files)
    <3>1. Len(lines) \in Nat /\ DOMAIN lines = 1..Len(lines)
      BY <2>2
    <3>2. \A n \in 1..Len(lines) : lines[n].path \in Files
      BY <2>2, <2>3, <3>1
    <3>3. [n \in DOMAIN lines |-> lines[n].path] \in [1..Len(lines) -> Files]
      BY <3>1, <3>2
    <3> QED
      BY <3>1, <3>3, SequenceOf
  <2> QED
    BY <2>1, <2>4 DEF lines
<1>2. imports \in S
  <2> DEFINE lists == [n \in DOMAIN evidence.tests |-> TestImports(evidence.tests[n])]
  <2>1. lists \in Seq(Seq(Files))
    <3>1. Len(evidence.tests) \in Nat /\ DOMAIN evidence.tests = 1..Len(evidence.tests)
      BY <1>1
    <3>2. lists \in [1..Len(evidence.tests) -> Seq(Files)]
      BY <3>1, TestImportsAreFiles
    <3> QED
      BY <3>1, <3>2, SequenceOf
  <2> HIDE DEF lists
  <2>2. FlattenSeq(lists) \in Seq(Files)
    BY <2>1, Flattened
  <2> QED
    BY <2>2 DEF lists
<1>3. SeedFiles = AtMost(distinct[N], MaxSeeds * Widened)
  BY DEF SeedFiles
<1> HIDE DEF frames, imports
<1>4. all \in S
  BY <1>1, <1>2
<1> HIDE DEF all
<1>5. N \in Nat /\ \A n \in 1..N : all[n] \in Files
  BY <1>4
<1> HIDE DEF Keep, N
<1>6. <<>> \in S /\ step \in Steps(N, S)
  BY <1>5 DEF Steps
<1>7. IsDefined(N, S, <<>>, step)
  <2> HIDE DEF S, step
  <2> QED
    BY <1>5, <1>6, RecursiveFunction
<1>8. PICK g \in [0..N -> S] : g[0] = <<>> /\ \A n \in 1..N : g[n] = step[n][g[n - 1]]
  BY <1>7 DEF IsDefined
<1>9. \A n \in 0..N : g[n] = Body(g, n)
  <2> TAKE n \in 0..N
  <2>1. CASE n = 0
    BY <1>8, <2>1
  <2>2. CASE n # 0
    <3>1. n \in 1..N /\ n - 1 \in 0..N
      BY <1>5, <2>2
    <3>2. g[n - 1] \in S
      BY <1>8, <3>1
    <3> QED
      BY <1>8, <2>2, <3>1, <3>2
  <2> QED
    BY <2>1, <2>2
<1> HIDE DEF Body
<1>10. g = [n \in 0..N |-> Body(g, n)]
  BY <1>8, <1>9
<1>11. distinct = [n \in 0..N |-> Body(distinct, n)]
  BY <1>10
<1> HIDE DEF distinct
<1> DEFINE Good(n) == /\ distinct[n] \in S /\ OnlyOnce(distinct[n])
                      /\ \A k \in DOMAIN distinct[n] :
                           Opens(distinct[n][k]) /\ \E i \in 1..n : distinct[n][k] = all[i]
           P == {n \in 0..N : Good(n)}
<1>12. 0 \in P
  <2>1. distinct[0] = <<>>
    BY <1>5, <1>11 DEF Body
  <2>2. distinct[0] \in S /\ OnlyOnce(distinct[0]) /\ DOMAIN distinct[0] = {}
    BY <2>1 DEF OnlyOnce
  <2> QED
    BY <1>5, <2>2
<1>13. ASSUME NEW n \in 1..N, n - 1 \in P PROVE n \in P
  <2>1. n \in 0..N /\ n # 0 /\ all[n] \in Files
    BY <1>5
  <2>2. distinct[n] = Body(distinct, n)
    BY <1>11, <2>1
  <2> DEFINE before == distinct[n - 1]
  <2>3. /\ before \in Seq(Files) /\ OnlyOnce(before)
        /\ \A k \in DOMAIN before : Opens(before[k]) /\ \E i \in 1..(n - 1) : before[k] = all[i]
    BY <1>13
  <2>4. CASE Keep(n)
    <3>1. distinct[n] = Append(before, all[n])
      BY <2>1, <2>2, <2>4 DEF Body
    <3> HIDE DEF before
    <3>2. Opens(all[n]) /\ \A k \in DOMAIN before : before[k] # all[n]
      BY <2>3, <2>4 DEF Keep
    <3>3. distinct[n] \in Seq(Files) /\ OnlyOnce(distinct[n])
      BY <2>1, <2>3, <3>1, <3>2, NewOnlyOnce
    <3>4. /\ DOMAIN distinct[n] = 1..(Len(before) + 1) /\ DOMAIN before = 1..Len(before)
          /\ Len(before) \in Nat /\ distinct[n][Len(before) + 1] = all[n]
          /\ \A k \in DOMAIN before : distinct[n][k] = before[k]
      BY <2>1, <2>3, <3>1
    <3>5. ASSUME NEW k \in DOMAIN distinct[n]
          PROVE  Opens(distinct[n][k]) /\ \E i \in 1..n : distinct[n][k] = all[i]
      <4>1. k \in DOMAIN before \/ k = Len(before) + 1
        BY <3>4
      <4>2. CASE k \in DOMAIN before
        <5>1. PICK i \in 1..(n - 1) : before[k] = all[i]
          BY <2>3, <4>2
        <5>2. i \in 1..n /\ distinct[n][k] = before[k] /\ Opens(before[k])
          BY <1>5, <2>3, <3>4, <4>2
        <5> QED
          BY <5>1, <5>2
      <4>3. CASE k = Len(before) + 1
        <5>1. distinct[n][k] = all[n] /\ n \in 1..n
          BY <1>5, <3>4, <4>3
        <5> QED
          BY <3>2, <5>1
      <4> QED
        BY <4>1, <4>2, <4>3
    <3> QED
      BY <2>1, <3>3, <3>5
  <2>5. CASE ~Keep(n)
    <3>1. distinct[n] = before /\ 1..(n - 1) \subseteq 1..n
      BY <1>5, <2>1, <2>2, <2>5 DEF Body
    <3> HIDE DEF before
    <3> QED
      BY <2>1, <2>3, <3>1
  <2> QED
    BY <2>4, <2>5
<1>14. \A n \in 0..N : n \in P
  <2> HIDE DEF P
  <2> QED
    BY <1>5, <1>12, <1>13, BoundedInduction
<1> DEFINE list == distinct[N]
<1>15. /\ list \in Seq(Files) /\ OnlyOnce(list)
       /\ \A k \in DOMAIN list : Opens(list[k])
  BY <1>5, <1>14
<1> HIDE DEF list
<1> DEFINE most == Least(Len(list), MaxSeeds * Widened)
<1>16. most \in 0..Len(list)
  <2>1. MaxSeeds * Widened \in Nat
    BY ContextAssumption DEF Widened
  <2> QED
    BY <1>15, <2>1 DEF Least
<1>17. SeedFiles = SubSeq(list, 1, most)
  BY <1>3 DEF AtMost, list
<1> HIDE DEF most
<1>18. /\ SeedFiles \in Seq(Files) /\ DOMAIN SeedFiles = 1..most /\ 1..most \subseteq DOMAIN list
       /\ \A k \in 1..most : SeedFiles[k] = list[k]
  BY <1>15, <1>16, <1>17
<1> QED
  BY <1>15, <1>18 DEF OnlyOnce

(* Selection does not raise only if all it has to read decodes. *)
LEMMA SeedFilesAreReadable ==
  ASSUME evidence \in Evidence, SelectSeeds, ~NeedsAll
  PROVE  \A n \in DOMAIN SeedFiles : Readable(SeedFiles[n])
<1>1. SeedFiles \in Seq(Files) /\ \A n \in DOMAIN SeedFiles : Opens(SeedFiles[n])
  BY SeedFilesAreFiles
<1>2. evidence.tests \in Seq(Files)
  BY ContextAssumption
<1>3. ~\E f \in ToSet(evidence.tests \o SeedFiles) : Opens(f) /\ ~Readable(f)
  BY DEF SelectSeeds, SelectionRaises, NeedsAll
<1> DEFINE last == SeedFiles
           first == evidence.tests
<1>4. \A n \in DOMAIN last : last[n] \in ToSet(first \o last)
  <2>1. first \in Seq(Files) /\ last \in Seq(Files)
    BY <1>1, <1>2
  <2> HIDE DEF first, last
  <2> TAKE n \in DOMAIN last
  <2>2. Len(first) + n \in DOMAIN (first \o last) /\ (first \o last)[Len(first) + n] = last[n]
    BY <2>1
  <2> QED
    BY <2>2 DEF ToSet
<1> QED
  BY <1>1, <1>3, <1>4

LEMMA SeedsOfSelection ==
  ASSUME evidence \in Evidence, SelectSeeds
  PROVE  IsSequence(seeds)' /\ SeedPaths' \subseteq Files
<1>1. CASE NeedsAll
  <2> DEFINE readable == {f \in Files : Readable(f)}
             list == Listed(readable)
  <2>1. list \in Seq(Files)
    <3>1. readable \subseteq Files
      OBVIOUS
    <3> HIDE DEF readable
    <3>2. list \in Seq(readable)
      BY <3>1, ListedFiles
    <3> QED
      BY <3>1, <3>2
  <2>2. seeds' = [n \in DOMAIN list |-> Window(list[n], {}, 0)]
    BY <1>1 DEF SelectSeeds, WholeFiles
  <2> HIDE DEF list
  <2>3. DOMAIN list = 1..Len(list) /\ Len(list) \in Nat /\ \A n \in DOMAIN list : list[n] \in Files
    BY <2>1
  <2>4. DOMAIN seeds' = DOMAIN list /\ \A n \in DOMAIN list : seeds'[n].path = list[n]
    BY <2>2 DEF Window, Snippet
  <2> QED
    BY <2>3, <2>4 DEF IsSequence, SeedPaths
<1>2. CASE ~NeedsAll
  <2>1. SeedFiles \in Seq(Files)
    BY SeedFilesAreFiles
  <2>2. seeds' = [n \in DOMAIN SeedFiles |-> Window(SeedFiles[n], FrameLines(SeedFiles[n]), LineWindow * Widened)]
    BY <1>2 DEF SelectSeeds
  <2>3. /\ DOMAIN SeedFiles = 1..Len(SeedFiles) /\ Len(SeedFiles) \in Nat
        /\ \A n \in DOMAIN SeedFiles : SeedFiles[n] \in Files
    BY <2>1
  <2>4. /\ DOMAIN seeds' = DOMAIN SeedFiles
        /\ \A n \in DOMAIN SeedFiles : seeds'[n].path = SeedFiles[n]
    BY <2>2 DEF Window, Snippet
  <2> QED
    BY <2>3, <2>4 DEF IsSequence, SeedPaths
<1> QED
  BY <1>1, <1>2

-----------------------------------------------------------------------------
(* The files within some imports of the seeds                              *)

Near(f) == Imported(f) \cup Importing(f)

LEMMA ReachIs ==
  ASSUME SeedPaths \subseteq Files
  PROVE  /\ Reach[0] = SeedPaths
         /\ \A d \in 1..MaxDepth : Reach[d] = Reach[d - 1] \cup UNION {Near(f) : f \in Reach[d - 1]}
         /\ \A d \in 0..MaxDepth : Reach[d] \subseteq Files
<1> DEFINE S == SUBSET Files
           around(s) == UNION {Near(f) : f \in s}
           step == [n \in 1..MaxDepth |-> [s \in S |-> s \cup around(s)]]
<1>0. MaxDepth \in Nat
  BY ContextAssumption
<1>1. \A s : around(s) \in S
  BY DEF Near, Imported, Importing
<1> HIDE DEF around
<1>2. step \in Steps(MaxDepth, S) /\ SeedPaths \in S
  BY <1>1 DEF Steps
<1>3. IsDefined(MaxDepth, S, SeedPaths, step)
  <2> HIDE DEF S, step
  <2> QED
    BY <1>0, <1>2, RecursiveFunction
<1>4. PICK g \in [0..MaxDepth -> S] :
        g[0] = SeedPaths /\ \A d \in 1..MaxDepth : g[d] = step[d][g[d - 1]]
  BY <1>3 DEF IsDefined
<1>5. \A d \in 1..MaxDepth : g[d] = g[d - 1] \cup around(g[d - 1])
  <2> TAKE d \in 1..MaxDepth
  <2>1. d - 1 \in 0..MaxDepth
    BY <1>0
  <2>2. g[d - 1] \in S
    BY <1>4, <2>1
  <2> QED
    BY <1>4, <2>2
<1> DEFINE Body(h, d) == IF d = 0 THEN SeedPaths ELSE h[d - 1] \cup around(h[d - 1])
           reach == CHOOSE h : h = [d \in 0..MaxDepth |-> Body(h, d)]
<1>6. Reach = reach
  BY Zenon DEF Reach, around, Near
<1>7. g = [d \in 0..MaxDepth |-> Body(g, d)]
  <2>1. \A d \in 0..MaxDepth : g[d] = Body(g, d)
    <3>1. \A d \in 0..MaxDepth : d = 0 \/ d \in 1..MaxDepth
      BY <1>0
    <3> QED
      BY <1>4, <1>5, <3>1
  <2> HIDE DEF Body
  <2> QED
    BY <1>4, <2>1
<1>8. reach = [d \in 0..MaxDepth |-> Body(reach, d)]
  <2> HIDE DEF Body
  <2> QED
    BY <1>7
<1> HIDE DEF reach
<1>9. 0 \in 0..MaxDepth /\ \A d \in 1..MaxDepth : d \in 0..MaxDepth /\ d # 0
  BY <1>0
<1>10. /\ reach[0] = SeedPaths
       /\ \A d \in 1..MaxDepth : reach[d] = reach[d - 1] \cup around(reach[d - 1])
  BY <1>8, <1>9
<1> DEFINE P == {d \in 0..MaxDepth : reach[d] \in S}
<1>11. 0 \in P
  BY <1>2, <1>9, <1>10
<1>12. ASSUME NEW d \in 1..MaxDepth, d - 1 \in P PROVE d \in P
  BY <1>1, <1>9, <1>10, <1>12
<1> HIDE DEF P
<1>13. \A d \in 0..MaxDepth : d \in P
  BY <1>0, <1>11, <1>12, BoundedInduction
<1>14. \A d \in 0..MaxDepth : reach[d] \subseteq Files
  BY <1>13 DEF P
<1> QED
  BY <1>6, <1>10, <1>14 DEF around

LEMMA ReachGrows ==
  ASSUME SeedPaths \subseteq Files, NEW d \in 0..MaxDepth
  PROVE  \A n \in 0..d : Reach[n] \subseteq Reach[d]
<1>0. MaxDepth \in Nat
  BY ContextAssumption
<1> DEFINE P == {k \in 0..MaxDepth : \A n \in 0..k : Reach[n] \subseteq Reach[k]}
<1>1. 0 \in P
  BY <1>0
<1>2. ASSUME NEW k \in 1..MaxDepth, k - 1 \in P PROVE k \in P
  <2>1. Reach[k - 1] \subseteq Reach[k]
    BY ReachIs
  <2>2. \A n \in 0..k : n = k \/ n \in 0..(k - 1)
    OBVIOUS
  <2> QED
    BY <1>2, <2>1, <2>2
<1> HIDE DEF P
<1>3. \A k \in 0..MaxDepth : k \in P
  BY <1>0, <1>1, <1>2, BoundedInduction
<1> QED
  BY <1>3 DEF P

-----------------------------------------------------------------------------
(* The walk. Files are visited in the order of their distance from the     *)
(* seeds: no file that waits is more than one import further than the next *)
(* one, so the first distance recorded for a file is the least.            *)

Waiting == {queue[n].path : n \in DOMAIN queue}
Visited(f) == f \in DOMAIN depth \ Waiting /\ depth[f] < MaxDepth

Tasks == [path : Files, depth : Nat]
Records == [score : Int, depth : Nat, reason : {"dependency", "importer"}]

(* What the visit of f, one import further than d - 1, makes of g.         *)
Dep(d) == [score |-> 800 - 100 * d, depth |-> d, reason |-> "dependency"]
Imp(d) == [score |-> 600 - 100 * d, depth |-> d, reason |-> "importer"]
Offered(f, d, g, r) == (g \in Imported(f) /\ r = Dep(d)) \/ (g \in Importing(f) /\ r = Imp(d))

AtLeast(a, b) == a = b \/ Better(a, b)

HaveSeeds ==
  /\ evidence \in Evidence
  /\ pc \in {"index", "rank"} => IsSequence(seeds) /\ SeedPaths \subseteq Files
  /\ pc \in {"select", "index"} => candidates = NoneOf

DepthsAreKnown ==
  /\ queue \in Seq(Tasks)
  /\ DOMAIN depth \subseteq Files
  /\ \A f \in DOMAIN depth : depth[f] \in 0..MaxDepth /\ f \in Reach[depth[f]]
  /\ \A f \in SeedPaths : f \in DOMAIN depth /\ depth[f] = 0

QueueIsOrdered ==
  /\ \A n \in DOMAIN queue : /\ queue[n].path \in DOMAIN depth
                             /\ queue[n].depth = depth[queue[n].path]
  /\ \A n \in DOMAIN queue : \A m \in 1..n : queue[m].depth <= queue[n].depth
  /\ queue # <<>> => \A f \in DOMAIN depth : depth[f] <= queue[1].depth + 1

VisitedIsExpanded ==
  \A f \in Files : Visited(f) =>
    \A g \in Near(f) : g \in DOMAIN depth /\ depth[g] <= depth[f] + 1

CandidatesAreRecorded ==
  /\ DOMAIN candidates \subseteq DOMAIN depth
  /\ DOMAIN depth \ SeedPaths \subseteq DOMAIN candidates
  /\ \A g \in DOMAIN candidates :
       /\ candidates[g] \in Records
       /\ \E d \in 1..MaxDepth : \E f \in Reach[d - 1] : Offered(f, d, g, candidates[g])
  /\ \A f \in Files : Visited(f) =>
       \A g, r : Offered(f, depth[f] + 1, g, r) =>
         g \in DOMAIN candidates /\ AtLeast(candidates[g], r)

Walked ==
  pc = "rank" => DepthsAreKnown /\ QueueIsOrdered /\ VisitedIsExpanded /\ CandidatesAreRecorded

WalkInv == HaveSeeds /\ Walked

(* A best record among a few: Better is a total order.                     *)
LEMMA BetterIsTotal ==
  /\ \A a, b \in Records : a # b => Better(a, b) \/ Better(b, a)
  /\ \A a, b, c \in Records : Better(a, b) /\ Better(b, c) => Better(a, c)
<1>1. ASSUME NEW a \in Records, NEW b \in Records, a # b PROVE Better(a, b) \/ Better(b, a)
  <2>1. a.score # b.score \/ a.depth # b.depth \/ a.reason # b.reason
    BY <1>1 DEF Records
  <2>2. a.score \in Int /\ b.score \in Int /\ a.depth \in Nat /\ b.depth \in Nat
    BY DEF Records
  <2>3. a.reason \in {"dependency", "importer"} /\ b.reason \in {"dependency", "importer"}
    BY DEF Records
  <2> QED
    BY <2>1, <2>2, <2>3 DEF Better
<1>2. ASSUME NEW a \in Records, NEW b \in Records, NEW c \in Records, Better(a, b), Better(b, c)
      PROVE  Better(a, c)
  BY <1>2 DEF Better, Records
<1> QED
  BY <1>1, <1>2

LEMMA AtLeastIsTransitive ==
  ASSUME NEW a \in Records, NEW b \in Records, NEW c \in Records, AtLeast(a, b), AtLeast(b, c)
  PROVE  AtLeast(a, c)
BY BetterIsTotal DEF AtLeast

Best(options) == CHOOSE a \in options : \A b \in options \ {a} : Better(a, b)

LEMMA BestOf ==
  ASSUME NEW x \in Records, NEW y \in Records, NEW z \in Records,
         NEW options, options \subseteq {x, y, z}, options # {}
  PROVE  /\ Best(options) \in options
         /\ \A b \in options : AtLeast(Best(options), b)
<1>1. \E a \in options : \A b \in options \ {a} : Better(a, b)
  BY BetterIsTotal
<1>2. /\ Best(options) \in options
      /\ \A b \in options \ {Best(options)} : Better(Best(options), b)
  BY <1>1 DEF Best
<1> QED
  BY <1>2 DEF AtLeast

(* What recording the offers of one file makes of the candidates.          *)
IsRecorded(new, f, d) ==
  /\ DOMAIN new = DOMAIN candidates \cup Near(f)
  /\ \A g \in DOMAIN new :
       /\ new[g] \in Records
       /\ \/ g \in DOMAIN candidates /\ new[g] = candidates[g]
          \/ Offered(f, d, g, new[g])
  /\ \A g, r : Offered(f, d, g, r) => AtLeast(new[g], r)
  /\ \A g \in DOMAIN candidates : AtLeast(new[g], candidates[g])

LEMMA RecordedIs ==
  ASSUME NEW f, NEW d \in Nat, \A g \in DOMAIN candidates : candidates[g] \in Records
  PROVE  IsRecorded(Recorded(Offers(f, d)), f, d)
<1> DEFINE new == Recorded(Offers(f, d))
<1> DEFINE dep == Dep(d)
           imp == Imp(d)
           all == Offers(f, d) \cup {<<g, candidates[g]>> : g \in DOMAIN candidates}
           of(g) == {o[2] : o \in {o \in all : o[1] = g}}
<1>1. dep \in Records /\ imp \in Records
  BY DEF Records, Dep, Imp
<1>2. new = [g \in {o[1] : o \in all} |-> Best(of(g))]
  BY DEF Recorded, Best
<1> HIDE DEF new
<1>3. \A o : o \in all <=> \/ \E g \in Imported(f) : o = <<g, dep>>
                           \/ \E g \in Importing(f) : o = <<g, imp>>
                           \/ \E g \in DOMAIN candidates : o = <<g, candidates[g]>>
  BY DEF Offers, Dep, Imp
<1> HIDE DEF all, dep, imp
<1> DEFINE Given(g, r) == \/ g \in Imported(f) /\ r = dep
                          \/ g \in Importing(f) /\ r = imp
                          \/ g \in DOMAIN candidates /\ r = candidates[g]
<1>4. \A o : o \in all <=> \E g, r : o = <<g, r>> /\ Given(g, r)
  BY <1>3
<1> HIDE DEF Given
<1>5. ASSUME NEW g, NEW r
      PROVE  Given(g, r) <=> \E o \in all : o[1] = g /\ o[2] = r
  <2>1. <<g, r>>[1] = g /\ <<g, r>>[2] = r
    OBVIOUS
  <2>2. Given(g, r) => <<g, r>> \in all
    BY <1>4
  <2>3. ASSUME NEW o \in all, o[1] = g, o[2] = r PROVE Given(g, r)
    <3>1. PICK h, q : o = <<h, q>> /\ Given(h, q)
      BY <1>4
    <3>2. o[1] = h /\ o[2] = q
      BY <3>1
    <3>3. h = g /\ q = r
      BY <2>3, <3>2
    <3> QED
      BY <3>1, <3>3
  <2> QED
    BY <2>1, <2>2, <2>3
<1>6. {o[1] : o \in all} = DOMAIN candidates \cup Near(f)
  <2>1. \A g : g \in DOMAIN candidates \cup Near(f) <=> \E r : Given(g, r)
    BY DEF Near, Given
  <2>2. \A g : (\E r : Given(g, r)) <=> \E o \in all : o[1] = g
    BY <1>5
  <2>3. \A g : g \in {o[1] : o \in all} <=> \E o \in all : o[1] = g
    OBVIOUS
  <2> HIDE DEF Given
  <2> QED
    BY <2>1, <2>2, <2>3, Zenon
<1>7. ASSUME NEW g, NEW r PROVE r \in of(g) <=> Given(g, r)
  <2>1. r \in of(g) <=> \E o \in all : o[1] = g /\ o[2] = r
    OBVIOUS
  <2> HIDE DEF of
  <2> QED
    BY <1>5, <2>1
<1>8. \A g, r : r \in of(g) <=> \/ g \in Imported(f) /\ r = dep
                                \/ g \in Importing(f) /\ r = imp
                                \/ g \in DOMAIN candidates /\ r = candidates[g]
  BY <1>7 DEF Given
<1> HIDE DEF of
<1>9. ASSUME NEW g \in DOMAIN candidates \cup Near(f)
      PROVE  /\ Best(of(g)) \in of(g)
             /\ \A b \in of(g) : AtLeast(Best(of(g)), b)
  <2>1. of(g) # {}
    BY <1>8 DEF Near
  <2>2. CASE g \in DOMAIN candidates
    <3>1. of(g) \subseteq {dep, imp, candidates[g]} /\ candidates[g] \in Records
      BY <1>8, <2>2
    <3> QED
      BY <1>1, <2>1, <3>1, BestOf
  <2>3. CASE g \notin DOMAIN candidates
    <3>1. of(g) \subseteq {dep, imp, dep}
      BY <1>8, <2>3
    <3> QED
      BY <1>1, <2>1, <3>1, BestOf
  <2> QED
    BY <2>2, <2>3
<1>10. DOMAIN new = DOMAIN candidates \cup Near(f)
  BY <1>2, <1>6
<1>11. \A g \in DOMAIN new : new[g] = Best(of(g))
  BY <1>2
<1>12. \A g, r : Offered(f, d, g, r) <=> \/ g \in Imported(f) /\ r = dep
                                         \/ g \in Importing(f) /\ r = imp
  BY DEF Offered, dep, imp
<1>13. ASSUME NEW g \in DOMAIN new
       PROVE  /\ new[g] \in Records
              /\ \/ g \in DOMAIN candidates /\ new[g] = candidates[g]
                 \/ Offered(f, d, g, new[g])
  <2>1. new[g] \in of(g)
    BY <1>9, <1>10, <1>11
  <2> QED
    BY <1>1, <1>8, <1>12, <2>1
<1>14. ASSUME NEW g, NEW r, Offered(f, d, g, r) PROVE AtLeast(new[g], r)
  <2>1. g \in DOMAIN new /\ r \in of(g)
    BY <1>8, <1>10, <1>12, <1>14 DEF Near
  <2> QED
    BY <1>9, <1>10, <1>11, <2>1
<1>15. ASSUME NEW g \in DOMAIN candidates PROVE AtLeast(new[g], candidates[g])
  <2>1. g \in DOMAIN new /\ candidates[g] \in of(g)
    BY <1>8, <1>10
  <2> QED
    BY <1>9, <1>10, <1>11, <2>1
<1>16. IsRecorded(new, f, d)
  BY <1>10, <1>13, <1>14, <1>15 DEF IsRecorded
<1> QED
  BY <1>16 DEF new

(* Files are added at the end of the queue.                                *)
Extends(longer, s, files, d) ==
  /\ longer \in Seq(Tasks) /\ Len(s) <= Len(longer)
  /\ \A n \in 1..Len(s) : longer[n] = s[n]
  /\ \A n \in 1..Len(longer) :
       n > Len(s) => longer[n].path \in files /\ longer[n].depth = d
  /\ \A f \in files : \E n \in 1..Len(longer) : longer[n].path = f

LEMMA QueuedExtends ==
  ASSUME NEW s \in Seq(Tasks), NEW files, files \subseteq Files, NEW d \in Nat
  PROVE  Extends(s \o Queued(files, d), s, files, d)
<1> DEFINE list == Listed(files)
           added == Queued(files, d)
<1>1. list \in Seq(files) /\ \A f \in files : \E k \in DOMAIN list : list[k] = f
  BY ListedFiles
<1>2. added = [n \in DOMAIN list |-> [path |-> list[n], depth |-> d]]
  BY DEF Queued
<1> HIDE DEF list
<1>3. Len(list) \in Nat /\ DOMAIN list = 1..Len(list) /\ \A n \in 1..Len(list) : list[n] \in files
  BY <1>1
<1>4. \A n \in 1..Len(list) : [path |-> list[n], depth |-> d] \in Tasks
  BY <1>3 DEF Tasks
<1>5. added \in [1..Len(list) -> Tasks]
  BY <1>2, <1>3, <1>4
<1>6. added \in Seq(Tasks) /\ Len(added) = Len(list)
  BY <1>3, <1>5, SequenceOf
<1>7. \A n \in 1..Len(list) : added[n].path = list[n] /\ added[n].depth = d
  BY <1>2, <1>3
<1> HIDE DEF added
<1>8. /\ s \o added \in Seq(Tasks) /\ Len(s \o added) = Len(s) + Len(list)
      /\ \A n \in 1..(Len(s) + Len(list)) :
           (s \o added)[n] = IF n <= Len(s) THEN s[n] ELSE added[n - Len(s)]
  <2>1. s \o added \in Seq(Tasks) /\ Len(s \o added) = Len(s) + Len(added)
    BY <1>6
  <2>2. \A n \in 1..(Len(s) + Len(added)) :
           (s \o added)[n] = IF n <= Len(s) THEN s[n] ELSE added[n - Len(s)]
    BY <1>6
  <2> QED
    BY <1>6, <2>1, <2>2
<1>9. Len(s) \in Nat
  OBVIOUS
<1>10. \A n \in 1..Len(s) : (s \o added)[n] = s[n]
  BY <1>3, <1>8, <1>9
<1>11. ASSUME NEW n \in 1..Len(s \o added), n > Len(s)
       PROVE  (s \o added)[n].path \in files /\ (s \o added)[n].depth = d
  <2>1. n - Len(s) \in 1..Len(list) /\ (s \o added)[n] = added[n - Len(s)]
    BY <1>3, <1>8, <1>9, <1>11
  <2> QED
    BY <1>3, <1>7, <2>1
<1>12. ASSUME NEW f \in files PROVE \E n \in 1..Len(s \o added) : (s \o added)[n].path = f
  <2>1. PICK k \in 1..Len(list) : list[k] = f
    BY <1>1, <1>3
  <2>2. Len(s) + k \in 1..Len(s \o added) /\ (s \o added)[Len(s) + k] = added[k]
    <3>1. Len(s) + k \in 1..(Len(s) + Len(list)) /\ ~(Len(s) + k <= Len(s)) /\ Len(s) + k - Len(s) = k
      BY <1>3, <1>9
    <3> QED
      BY <1>8, <3>1
  <2>3. (s \o added)[Len(s) + k].path = f
    BY <1>7, <2>1, <2>2
  <2> QED
    BY <2>2, <2>3
<1>13. Len(s) <= Len(s \o added)
  BY <1>3, <1>8, <1>9
<1>14. Extends(s \o added, s, files, d)
  BY <1>8, <1>10, <1>11, <1>12, <1>13 DEF Extends
<1> QED
  BY <1>14 DEF added

LEMMA ExtendsTwice ==
  ASSUME NEW s \in Seq(Tasks), NEW t, NEW u, NEW A, NEW B, NEW d,
         Extends(t, s, A, d), Extends(u, t, B, d)
  PROVE  Extends(u, s, A \cup B, d)
<1>1. Len(s) \in Nat /\ Len(t) \in Nat /\ Len(u) \in Nat /\ Len(s) <= Len(t) /\ Len(t) <= Len(u)
  BY DEF Extends
<1>2. \A n \in 1..Len(s) : u[n] = s[n]
  BY <1>1 DEF Extends
<1>3. ASSUME NEW n \in 1..Len(u), n > Len(s) PROVE u[n].path \in A \cup B /\ u[n].depth = d
  <2>1. CASE n > Len(t)
    BY <2>1 DEF Extends
  <2>2. CASE ~(n > Len(t))
    <3>1. n \in 1..Len(t)
      BY <1>1, <2>2
    <3> QED
      BY <1>3, <3>1 DEF Extends
  <2> QED
    BY <2>1, <2>2
<1>4. ASSUME NEW f \in A \cup B PROVE \E n \in 1..Len(u) : u[n].path = f
  <2>1. CASE f \in A
    <3>1. PICK n \in 1..Len(t) : t[n].path = f
      BY <2>1 DEF Extends
    <3>2. n \in 1..Len(u) /\ u[n] = t[n]
      BY <1>1 DEF Extends
    <3> QED
      BY <3>1, <3>2
  <2>2. CASE f \in B
    BY <2>2 DEF Extends
  <2> QED
    BY <2>1, <2>2
<1>5. u \in Seq(Tasks) /\ Len(s) <= Len(u)
  BY <1>1 DEF Extends
<1> QED
  BY <1>2, <1>3, <1>4, <1>5 DEF Extends

LEMMA ReachStarts == SeedPaths \subseteq Files => Reach[0] = SeedPaths
BY ReachIs

LEMMA WalkStarts ==
  ASSUME HaveSeeds, pc = "index", NEW found, Walk(found)
  PROVE  Walked'
<1>1. PICK k \in Nat : DOMAIN seeds = 1..k
  BY DEF HaveSeeds, IsSequence
<1>2. SeedPaths \subseteq Files /\ SeedPaths' = SeedPaths
  BY DEF HaveSeeds, SeedPaths, Walk
<1>3. (SeedPaths \subseteq Files => Reach[0] = SeedPaths)'
  BY ReachStarts, PTL
<1>4. Reach'[0] = SeedPaths
  BY <1>2, <1>3
<1>5. \A n \in 1..k : seeds[n].path \in SeedPaths
  BY <1>1 DEF SeedPaths
<1>6. /\ queue' \in Seq(Tasks) /\ DOMAIN queue' = 1..k
      /\ \A n \in 1..k : queue'[n].path = seeds[n].path /\ queue'[n].depth = 0
  <2>1. queue' = [n \in 1..k |-> [path |-> seeds[n].path, depth |-> 0]]
    BY <1>1 DEF Walk
  <2>2. \A n \in 1..k : [path |-> seeds[n].path, depth |-> 0] \in Tasks
    BY <1>2, <1>5 DEF Tasks
  <2>3. queue' \in [1..k -> Tasks]
    BY <2>1, <2>2
  <2> QED
    BY <2>1, <2>3, SequenceOf
<1>7. DOMAIN depth' = SeedPaths /\ \A f \in SeedPaths : depth'[f] = 0
  BY DEF Walk, SeedPaths
<1>8. MaxDepth \in Nat
  BY ContextAssumption
<1>9. DepthsAreKnown'
  BY <1>2, <1>4, <1>6, <1>7, <1>8 DEF DepthsAreKnown
<1>10. QueueIsOrdered'
  BY <1>5, <1>6, <1>7 DEF QueueIsOrdered
<1>11. \A f : ~Visited(f)'
  <2>1. \A f \in SeedPaths : \E n \in 1..k : seeds[n].path = f
    BY <1>1 DEF SeedPaths
  <2> QED
    BY <1>6, <1>7, <2>1 DEF Visited, Waiting
<1>12. DOMAIN candidates' = {}
  BY DEF HaveSeeds, Walk, NoneOf
<1> QED
  BY <1>2, <1>7, <1>9, <1>10, <1>11, <1>12 DEF Walked, VisitedIsExpanded, CandidatesAreRecorded

LEMMA VisitedIsReached ==
  ASSUME SeedPaths \subseteq Files, NEW d \in 1..MaxDepth, NEW f \in Reach[d - 1], NEW g \in Near(f)
  PROVE  g \in Reach[d]
BY ReachIs

(* What is reached depends on the seeds and on the graph alone.            *)
ReachAlong(start, edges) ==
  LET within[d \in 0..MaxDepth] ==
        IF d = 0 THEN start
        ELSE within[d - 1] \cup UNION {{g \in Files : <<f, g>> \in edges} \cup
                                       {g \in Files : <<g, f>> \in edges} : f \in within[d - 1]}
  IN  within

LEMMA ReachIsAlong == Reach = ReachAlong(SeedPaths, index.edges)
BY Zenon DEF Reach, ReachAlong, Imported, Importing

LEMMA ReachIsThatOf ==
  ASSUME UNCHANGED <<seeds, index>>
  PROVE  /\ Reach' = Reach /\ SeedPaths' = SeedPaths
         /\ \A f : Imported(f)' = Imported(f) /\ Near(f)' = Near(f)
         /\ \A f, d, g, r : Offered(f, d, g, r)' <=> Offered(f, d, g, r)
<1>1. SeedPaths' = SeedPaths
  BY DEF SeedPaths
<1>2. \A f : Imported(f)' = Imported(f) /\ Importing(f)' = Importing(f)
  BY DEF Imported, Importing
<1>3. Reach' = Reach
  <2>1. Reach = ReachAlong(SeedPaths, index.edges)
    BY ReachIsAlong
  <2>2. (Reach = ReachAlong(SeedPaths, index.edges))'
    BY ReachIsAlong, PTL
  <2> QED
    BY <1>1, <2>1, <2>2
<1> QED
  BY <1>1, <1>2, <1>3 DEF Near, Offered, Dep, Imp

(* The head of the queue leaves; what remains begins with the second task. *)
LEMMA TailOf ==
  ASSUME NEW s \in Seq(Tasks), s # <<>>
  PROVE  /\ Head(s) = s[1] /\ s[1] \in Tasks /\ 1 \in DOMAIN s
         /\ Tail(s) \in Seq(Tasks) /\ Len(Tail(s)) = Len(s) - 1 /\ Len(s) \in Nat \ {0}
         /\ DOMAIN s = 1..Len(s)
         /\ \A n \in 1..(Len(s) - 1) : Tail(s)[n] = s[n + 1]
OBVIOUS

LEMMA DropWalks ==
  ASSUME SeedPaths \subseteq Files, DepthsAreKnown, QueueIsOrdered, VisitedIsExpanded,
         CandidatesAreRecorded,
         queue # <<>>, Head(queue).depth + 1 > MaxDepth,
         queue' = Tail(queue), UNCHANGED <<depth, candidates, seeds, index>>
  PROVE  DepthsAreKnown' /\ QueueIsOrdered' /\ VisitedIsExpanded' /\ CandidatesAreRecorded'
<1>0. MaxDepth \in Nat
  BY ContextAssumption
<1>1. queue \in Seq(Tasks)
  BY DEF DepthsAreKnown
<1>2. /\ Reach' = Reach /\ SeedPaths' = SeedPaths
      /\ \A f : Imported(f)' = Imported(f) /\ Near(f)' = Near(f)
      /\ \A f, d, g, r : Offered(f, d, g, r)' <=> Offered(f, d, g, r)
  BY ReachIsThatOf
<1>3. DepthsAreKnown'
  BY <1>1, <1>2, TailOf DEF DepthsAreKnown
<1>4. DOMAIN queue' = 1..(Len(queue) - 1) /\ \A n \in DOMAIN queue' : queue'[n] = queue[n + 1] /\ n + 1 \in DOMAIN queue
  BY <1>1, TailOf
<1>5. QueueIsOrdered'
  <2>1. \A n \in DOMAIN queue' : /\ queue'[n].path \in DOMAIN depth'
                                 /\ queue'[n].depth = depth'[queue'[n].path]
    BY <1>4 DEF QueueIsOrdered
  <2>2. \A n \in DOMAIN queue' : \A m \in 1..n : queue'[m].depth <= queue'[n].depth
    <3> TAKE n \in DOMAIN queue'
    <3> TAKE m \in 1..n
    <3>1. m \in DOMAIN queue' /\ m + 1 \in 1..(n + 1) /\ n + 1 \in DOMAIN queue
      BY <1>4
    <3>2. queue[m + 1].depth <= queue[n + 1].depth
      BY <3>1 DEF QueueIsOrdered
    <3> QED
      BY <1>4, <3>1, <3>2
  <2>3. ASSUME queue' # <<>>, NEW f \in DOMAIN depth' PROVE depth'[f] <= queue'[1].depth + 1
    <3>1. 1 \in DOMAIN queue'
      <4>1. queue' \in Seq(Tasks)
        BY <1>1, TailOf
      <4> QED
        BY <2>3, <4>1
    <3>2. queue'[1] = queue[2] /\ 2 \in DOMAIN queue /\ 1 \in 1..2
      BY <1>4, <3>1
    <3>3. queue[1].depth <= queue[2].depth
      BY <3>2 DEF QueueIsOrdered
    <3>4. depth[f] <= queue[1].depth + 1
      BY <2>3 DEF QueueIsOrdered
    <3>5. queue[1] \in Tasks /\ queue[2] \in Tasks
      BY <1>1, <3>2, TailOf
    <3>6. queue[1].depth \in Nat /\ queue[2].depth \in Nat /\ depth[f] \in Nat
      BY <1>0, <2>3, <3>5 DEF Tasks, DepthsAreKnown
    <3>7. depth[f] <= queue[2].depth + 1
      BY <3>3, <3>4, <3>6
    <3> QED
      BY <3>2, <3>7
  <2> QED
    BY <2>1, <2>2, <2>3 DEF QueueIsOrdered
<1>6. \A f : Visited(f)' => Visited(f)
  <2> SUFFICES ASSUME NEW f, Visited(f)' PROVE f \notin Waiting
    BY DEF Visited
  <2>1. SUFFICES ASSUME NEW n \in DOMAIN queue, queue[n].path = f PROVE FALSE
    BY DEF Waiting
  <2>2. CASE n = 1
    <3>1. depth[f] = Head(queue).depth
      BY <1>1, <2>1, <2>2, TailOf DEF QueueIsOrdered
    <3>2. depth[f] \in Nat
      BY <1>0, <1>1, <2>1 DEF QueueIsOrdered, DepthsAreKnown
    <3> QED
      BY <1>0, <3>1, <3>2 DEF Visited
  <2>3. CASE n # 1
    <3>1. n - 1 \in DOMAIN queue' /\ queue'[n - 1] = queue[n]
      <4>1. DOMAIN queue = 1..Len(queue) /\ Len(queue) \in Nat
        BY <1>1
      <4>2. n - 1 \in 1..(Len(queue) - 1) /\ n - 1 + 1 = n
        BY <2>1, <2>3, <4>1
      <4> QED
        BY <1>4, <4>2
    <3> QED
      BY <2>1, <3>1 DEF Visited, Waiting
  <2> QED
    BY <2>2, <2>3
<1>7. VisitedIsExpanded'
  BY <1>2, <1>6 DEF VisitedIsExpanded
<1>8. CandidatesAreRecorded'
  BY <1>2, <1>6 DEF CandidatesAreRecorded, AtLeast, Better
<1> QED
  BY <1>3, <1>5, <1>7, <1>8

(* A visit in the range of the walk: the files near the one visited that   *)
(* are not known yet are recorded, one import further, and wait.           *)
LEMMA ExpandWalks ==
  ASSUME SeedPaths \subseteq Files, DepthsAreKnown, QueueIsOrdered, VisitedIsExpanded,
         CandidatesAreRecorded, queue # <<>>,
         NEW f, f = Head(queue).path, NEW d, d = Head(queue).depth + 1, d <= MaxDepth,
         NEW found, found = Nearer(Near(f), d), Extends(queue', Tail(queue), found, d),
         depth' = [g \in DOMAIN depth \cup found |-> IF g \in found THEN d ELSE depth[g]],
         candidates' = Recorded(Offers(f, d)), UNCHANGED <<seeds, index>>
  PROVE  DepthsAreKnown' /\ QueueIsOrdered' /\ VisitedIsExpanded' /\ CandidatesAreRecorded'
<1>0. MaxDepth \in Nat
  BY ContextAssumption
<1>1. queue \in Seq(Tasks)
  BY DEF DepthsAreKnown
<1>2. /\ Reach' = Reach /\ SeedPaths' = SeedPaths
      /\ \A g : Imported(g)' = Imported(g) /\ Near(g)' = Near(g)
      /\ \A g, n, h, r : Offered(g, n, h, r)' <=> Offered(g, n, h, r)
  BY ReachIsThatOf
<1>3. /\ f = queue[1].path /\ d = queue[1].depth + 1 /\ f \in DOMAIN depth /\ f \in Files
      /\ queue[1].depth = depth[f] /\ depth[f] \in Nat /\ d = depth[f] + 1
      /\ d \in 1..MaxDepth /\ d - 1 = depth[f] /\ f \in Reach[d - 1]
  <2>1. Head(queue) = queue[1] /\ 1 \in DOMAIN queue
    BY <1>1, TailOf
  <2>2. f = queue[1].path /\ d = queue[1].depth + 1
    BY <2>1
  <2>3. f \in DOMAIN depth /\ queue[1].depth = depth[f]
    BY <2>1, <2>2 DEF QueueIsOrdered
  <2>4. f \in Files /\ depth[f] \in 0..MaxDepth /\ f \in Reach[depth[f]]
    BY <2>3 DEF DepthsAreKnown
  <2>5. d - 1 = depth[f]
    BY <2>2, <2>3, <2>4, <1>0
  <2> QED
    BY <1>0, <2>2, <2>3, <2>4, <2>5
<1>4. \A g \in DOMAIN depth : depth[g] \in 0..MaxDepth /\ depth[g] <= d
  BY <1>3 DEF QueueIsOrdered, DepthsAreKnown
<1>5. found = Near(f) \ DOMAIN depth
  <2>1. \A g \in DOMAIN depth : ~(d < depth[g])
    BY <1>0, <1>3, <1>4
  <2> QED
    BY <2>1 DEF Nearer
<1>6. /\ DOMAIN depth' = DOMAIN depth \cup Near(f)
      /\ \A g \in DOMAIN depth : depth'[g] = depth[g]
      /\ \A g \in found : depth'[g] = d
      /\ \A g \in DOMAIN depth' : depth'[g] \in 0..MaxDepth /\ depth'[g] <= d
  <2>1. DOMAIN depth' = DOMAIN depth \cup Near(f)
    BY <1>5
  <2>2. \A g \in DOMAIN depth : depth'[g] = depth[g]
    BY <1>5
  <2>3. \A g \in found : depth'[g] = d
    OBVIOUS
  <2>4. d \in 0..MaxDepth /\ d <= d
    BY <1>0, <1>3
  <2> QED
    BY <1>4, <1>5, <2>1, <2>2, <2>3, <2>4
<1>7. Near(f) \subseteq Files /\ Imported(f) \subseteq Near(f)
  BY DEF Near, Imported, Importing
<1> DEFINE rest == Tail(queue)
<1>8. /\ rest \in Seq(Tasks) /\ DOMAIN rest = 1..Len(rest) /\ Len(rest) = Len(queue) - 1
      /\ Len(queue) \in Nat \ {0} /\ DOMAIN queue = 1..Len(queue)
      /\ \A n \in 1..Len(rest) : rest[n] = queue[n + 1] /\ n + 1 \in DOMAIN queue
  BY <1>1, TailOf
<1>9. /\ queue' \in Seq(Tasks) /\ DOMAIN queue' = 1..Len(queue') /\ Len(queue') \in Nat
      /\ Len(rest) <= Len(queue')
      /\ \A n \in 1..Len(rest) : queue'[n] = queue[n + 1] /\ n + 1 \in DOMAIN queue
      /\ \A n \in 1..Len(queue') : n > Len(rest) => queue'[n].path \in found /\ queue'[n].depth = d
      /\ \A g \in found : \E n \in 1..Len(queue') : queue'[n].path = g
  BY <1>8 DEF Extends
<1> HIDE DEF rest
<1>10. DepthsAreKnown'
  <2>1. \A g \in found : g \in Reach[d]
    BY <1>3, <1>5, VisitedIsReached
  <2>2. \A g \in DOMAIN depth' : g \in Reach[depth'[g]]
    BY <1>5, <1>6, <2>1 DEF DepthsAreKnown
  <2> QED
    BY <1>2, <1>6, <1>7, <1>9, <2>2 DEF DepthsAreKnown
<1>11. \A n \in DOMAIN queue' : /\ queue'[n].path \in DOMAIN depth'
                                /\ queue'[n].depth = depth'[queue'[n].path]
                                /\ queue'[n].depth \in Nat /\ queue'[n].depth <= d
                                /\ queue[1].depth <= queue'[n].depth
  <2> TAKE n \in DOMAIN queue'
  <2>1. CASE n > Len(rest)
    <3>1. queue'[n].path \in found /\ queue'[n].depth = d
      BY <1>9, <2>1
    <3> QED
      BY <1>3, <1>5, <1>6, <3>1
  <2>2. CASE ~(n > Len(rest))
    <3>1. n \in 1..Len(rest) /\ 1 \in 1..(n + 1)
      BY <1>8, <1>9, <2>2
    <3>2. queue'[n] = queue[n + 1] /\ n + 1 \in DOMAIN queue
      BY <1>9, <3>1
    <3>3. /\ queue[n + 1].path \in DOMAIN depth
          /\ queue[n + 1].depth = depth[queue[n + 1].path]
          /\ queue[1].depth <= queue[n + 1].depth
      BY <3>1, <3>2 DEF QueueIsOrdered
    <3> QED
      BY <1>0, <1>4, <1>6, <3>2, <3>3
  <2> QED
    BY <2>1, <2>2
<1>12. QueueIsOrdered'
  <2>1. ASSUME NEW n \in DOMAIN queue', NEW m \in 1..n
        PROVE  queue'[m].depth <= queue'[n].depth
    <3>1. m \in DOMAIN queue' /\ n \in 1..Len(queue')
      BY <1>9
    <3>2. CASE n > Len(rest)
      <4>1. queue'[n].depth = d
        BY <1>9, <3>1, <3>2
      <4> QED
        BY <1>11, <3>1, <4>1
    <3>3. CASE ~(n > Len(rest))
      <4>1. n \in 1..Len(rest) /\ m \in 1..Len(rest) /\ m + 1 \in 1..(n + 1)
        BY <1>8, <1>9, <3>3
      <4>2. queue'[n] = queue[n + 1] /\ n + 1 \in DOMAIN queue /\ queue'[m] = queue[m + 1]
        BY <1>9, <4>1
      <4>3. queue[m + 1].depth <= queue[n + 1].depth
        BY <4>1, <4>2 DEF QueueIsOrdered
      <4> QED
        BY <4>2, <4>3
    <3> QED
      BY <3>2, <3>3
  <2>2. ASSUME queue' # <<>>, NEW g \in DOMAIN depth' PROVE depth'[g] <= queue'[1].depth + 1
    <3>1. 1 \in DOMAIN queue'
      BY <1>9, <2>2
    <3>2. queue'[1].depth \in Nat /\ queue[1].depth <= queue'[1].depth
      BY <1>11, <3>1
    <3>3. depth'[g] \in 0..MaxDepth /\ depth'[g] <= d
      BY <1>6
    <3> QED
      BY <1>0, <1>3, <3>2, <3>3
  <2> QED
    BY <1>11, <2>1, <2>2 DEF QueueIsOrdered
<1>13. ASSUME NEW g, Visited(g)' PROVE g = f \/ Visited(g)
  <2>1. g \in DOMAIN depth' /\ depth'[g] < MaxDepth /\ ~\E n \in DOMAIN queue' : queue'[n].path = g
    BY <1>13 DEF Visited, Waiting
  <2>2. g \notin found
    BY <1>9, <2>1
  <2>3. g \in DOMAIN depth /\ depth'[g] = depth[g]
    BY <1>5, <1>6, <2>1, <2>2
  <2>4. ASSUME g # f, NEW n \in DOMAIN queue, queue[n].path = g PROVE FALSE
    <3>1. n # 1
      BY <1>3, <2>4
    <3>2. n - 1 \in 1..Len(rest) /\ n - 1 + 1 = n
      BY <1>8, <3>1
    <3>3. n - 1 \in DOMAIN queue' /\ queue'[n - 1] = queue[n]
      BY <1>8, <1>9, <3>2
    <3> QED
      BY <2>1, <2>4, <3>3
  <2> QED
    BY <2>1, <2>3, <2>4 DEF Visited, Waiting
<1>14. VisitedIsExpanded'
  <2> SUFFICES ASSUME NEW g \in Files, Visited(g)', NEW h \in Near(g)
               PROVE  h \in DOMAIN depth' /\ depth'[h] <= depth'[g] + 1
    BY <1>2 DEF VisitedIsExpanded
  <2>1. CASE g = f
    <3>1. h \in DOMAIN depth' /\ depth'[h] <= d
      BY <1>6, <2>1
    <3>2. depth'[g] + 1 = d
      BY <1>3, <1>6, <2>1
    <3> QED
      BY <3>1, <3>2
  <2>2. CASE g # f
    <3>1. Visited(g) /\ g \in DOMAIN depth
      BY <1>13, <2>2 DEF Visited
    <3>2. h \in DOMAIN depth /\ depth[h] <= depth[g] + 1
      BY <3>1 DEF VisitedIsExpanded
    <3> QED
      BY <1>6, <3>1, <3>2
  <2> QED
    BY <2>1, <2>2
<1>15. /\ DOMAIN candidates' = DOMAIN candidates \cup Near(f)
       /\ \A g \in DOMAIN candidates' :
            /\ candidates'[g] \in Records
            /\ \/ g \in DOMAIN candidates /\ candidates'[g] = candidates[g]
               \/ Offered(f, d, g, candidates'[g])
       /\ \A g, r : Offered(f, d, g, r) => AtLeast(candidates'[g], r)
       /\ \A g \in DOMAIN candidates : AtLeast(candidates'[g], candidates[g])
  <2>1. \A g \in DOMAIN candidates : candidates[g] \in Records
    BY DEF CandidatesAreRecorded
  <2>2. d \in Nat
    BY <1>0, <1>3
  <2>3. IsRecorded(candidates', f, d)
    BY <2>1, <2>2, RecordedIs
  <2> QED
    BY <2>3 DEF IsRecorded
<1>16. CandidatesAreRecorded'
  <2>1. DOMAIN candidates' \subseteq DOMAIN depth' /\ DOMAIN depth' \ SeedPaths' \subseteq DOMAIN candidates'
    BY <1>2, <1>6, <1>15 DEF CandidatesAreRecorded
  <2>2. ASSUME NEW g \in DOMAIN candidates'
        PROVE  /\ candidates'[g] \in Records
               /\ \E n \in 1..MaxDepth : \E h \in Reach[n - 1] : Offered(h, n, g, candidates'[g])
    <3>1. CASE g \in DOMAIN candidates /\ candidates'[g] = candidates[g]
      BY <1>15, <3>1 DEF CandidatesAreRecorded
    <3>2. CASE Offered(f, d, g, candidates'[g])
      BY <1>3, <1>15, <3>2
    <3> QED
      BY <1>15, <3>1, <3>2
  <2>3. ASSUME NEW g \in Files, Visited(g)', NEW h, NEW r, Offered(g, depth'[g] + 1, h, r)
        PROVE  h \in DOMAIN candidates' /\ AtLeast(candidates'[h], r)
    <3>1. CASE g = f
      <4>1. depth'[g] + 1 = d
        BY <1>3, <1>6, <3>1
      <4>2. h \in Near(f) /\ Offered(f, d, h, r)
        BY <2>3, <3>1, <4>1 DEF Offered, Near
      <4> QED
        BY <1>15, <4>2
    <3>2. CASE g # f
      <4>1. Visited(g) /\ g \in DOMAIN depth
        BY <1>13, <2>3, <3>2 DEF Visited
      <4>2. depth'[g] = depth[g] /\ depth[g] + 1 \in Nat
        BY <1>0, <1>4, <1>6, <4>1
      <4>3. h \in DOMAIN candidates /\ AtLeast(candidates[h], r)
        BY <2>3, <4>1, <4>2 DEF CandidatesAreRecorded
      <4>4. /\ candidates'[h] \in Records /\ candidates[h] \in Records
            /\ AtLeast(candidates'[h], candidates[h]) /\ h \in DOMAIN candidates'
        BY <1>15, <4>3 DEF CandidatesAreRecorded
      <4>5. r \in Records
        BY <2>3, <4>2 DEF Offered, Records, Dep, Imp
      <4> QED
        BY <4>3, <4>4, <4>5, AtLeastIsTransitive
    <3> QED
      BY <3>1, <3>2
  <2>4. \A g \in DOMAIN candidates' :
          /\ candidates'[g] \in Records
          /\ \E n \in 1..MaxDepth : \E h \in Reach'[n - 1] : Offered(h, n, g, candidates[g])'
    BY <1>2, <2>2
  <2>5. \A g \in Files : Visited(g)' =>
          \A h, r : Offered(g, depth'[g] + 1, h, r) =>
            h \in DOMAIN candidates' /\ AtLeast(candidates'[h], r)
    BY <2>3
  <2>6. \A g \in Files : Visited(g)' =>
          \A h, r : Offered(g, depth[g] + 1, h, r)' =>
            h \in DOMAIN candidates' /\ AtLeast(candidates'[h], r)
    BY <1>2, <2>5
  <2> QED
    BY <2>1, <2>4, <2>6 DEF CandidatesAreRecorded, AtLeast, Better
<1> QED
  BY <1>10, <1>12, <1>14, <1>16

LEMMA VisitWalks ==
  ASSUME HaveSeeds, Walked, Visit
  PROVE  Walked'
<1>0. MaxDepth \in Nat
  BY ContextAssumption
<1>1. /\ pc = "rank" /\ queue # <<>> /\ SeedPaths \subseteq Files
      /\ DepthsAreKnown /\ QueueIsOrdered /\ VisitedIsExpanded /\ CandidatesAreRecorded
      /\ UNCHANGED <<seeds, index>>
  BY DEF Visit, HaveSeeds, Walked
<1> DEFINE f == Head(queue).path
           d == Head(queue).depth + 1
           targets == Nearer(Imported(f), d)
           sources == Nearer(Importing(f) \ Imported(f), d)
           found == targets \cup sources
<1>2. queue \in Seq(Tasks) /\ Tail(queue) \in Seq(Tasks) /\ d \in Nat
  <2>1. queue \in Seq(Tasks)
    BY <1>1 DEF DepthsAreKnown
  <2>2. Head(queue) \in Tasks /\ Tail(queue) \in Seq(Tasks)
    BY <1>1, <2>1, TailOf
  <2> QED
    BY <2>1, <2>2 DEF Tasks
<1>3. CASE d > MaxDepth
  <2>1. queue' = Tail(queue) /\ UNCHANGED <<depth, candidates>>
    BY <1>3 DEF Visit
  <2> QED
    BY <1>1, <1>3, <2>1, DropWalks DEF Walked
<1>4. CASE ~(d > MaxDepth)
  <2>1. /\ candidates' = Recorded(Offers(f, d))
        /\ queue' = Tail(queue) \o Queued(targets, d) \o Queued(sources, d)
        /\ depth' = [g \in DOMAIN depth \cup found |-> IF g \in found THEN d ELSE depth[g]]
    BY <1>4 DEF Visit
  <2>2. found = Nearer(Near(f), d)
    BY DEF Nearer, Near
  <2>3. targets \subseteq Files /\ sources \subseteq Files
    BY DEF Nearer, Imported, Importing
  <2>4. d <= MaxDepth
    BY <1>0, <1>2, <1>4
  <2> HIDE DEF targets, sources
  <2>5. Extends(queue', Tail(queue), found, d)
    <3> DEFINE longer == Tail(queue) \o Queued(targets, d)
    <3>1. Extends(longer, Tail(queue), targets, d)
      BY <1>2, <2>3, QueuedExtends
    <3>2. longer \in Seq(Tasks)
      BY <3>1 DEF Extends
    <3> HIDE DEF longer
    <3>3. Extends(longer \o Queued(sources, d), longer, sources, d)
      BY <1>2, <2>3, <3>2, QueuedExtends
    <3>4. Extends(longer \o Queued(sources, d), Tail(queue), found, d)
      BY <1>2, <3>1, <3>3, ExtendsTwice
    <3> QED
      BY <2>1, <3>4 DEF longer
  <2> HIDE DEF f, d, found
  <2>6. f = Head(queue).path /\ d = Head(queue).depth + 1
    BY DEF f, d
  <2>7. DepthsAreKnown' /\ QueueIsOrdered' /\ VisitedIsExpanded' /\ CandidatesAreRecorded'
    BY <1>1, <2>1, <2>2, <2>4, <2>5, <2>6, ExpandWalks
  <2> QED
    BY <2>7 DEF Walked
<1> QED
  BY <1>3, <1>4

LEMMA InitWalk == Init => WalkInv
BY DEF Init, WalkInv, HaveSeeds, Walked

LEMMA NextWalk ==
  ASSUME WalkInv, [Next]_vars
  PROVE  WalkInv'
<1> USE DEF WalkInv
<1>1. CASE SelectSeeds
  BY <1>1, SeedsOfSelection DEF SelectSeeds, HaveSeeds, Walked
<1>2. CASE FindIndex \/ BuildIndex
  <2>1. PICK found : pc = "index" /\ Walk(found)
    BY <1>2 DEF FindIndex, BuildIndex
  <2>2. Walked'
    BY <2>1, WalkStarts
  <2>3. HaveSeeds'
    BY <2>1 DEF Walk, HaveSeeds, IsSequence, SeedPaths
  <2> QED
    BY <2>2, <2>3
<1>3. CASE Visit
  <2>1. Walked'
    BY <1>3, VisitWalks
  <2>2. HaveSeeds'
    BY <1>3 DEF Visit, HaveSeeds, IsSequence, SeedPaths
  <2> QED
    BY <2>1, <2>2
<1>4. CASE SelectionFails \/ LoadRaises \/ SaveFails \/ Expand
  BY <1>4 DEF SelectionFails, LoadRaises, SaveFails, Expand, HaveSeeds, Walked
<1>5. CASE EditAndAsk
  BY <1>5 DEF EditAndAsk, HaveSeeds, Walked
<1>6. CASE Damage
  BY <1>6 DEF Damage, Event, HaveSeeds, Walked
<1>7. CASE UNCHANGED vars
  <2>1. HaveSeeds'
    BY <1>7 DEF vars, requestVars, HaveSeeds, IsSequence, SeedPaths
  <2>2. Walked'
    BY <1>7, ReachIsThatOf
    DEF vars, requestVars, Walked, DepthsAreKnown, QueueIsOrdered, VisitedIsExpanded,
        CandidatesAreRecorded, AtLeast, Better, Visited, Waiting
  <2> QED
    BY <2>1, <2>2
<1> QED
  BY <1>1, <1>2, <1>3, <1>4, <1>5, <1>6, <1>7 DEF Next

(* When no file waits, every file within n imports of the seeds is known,  *)
(* at most n away.                                                         *)
LEMMA NearIsKnown ==
  ASSUME SeedPaths \subseteq Files, DepthsAreKnown, VisitedIsExpanded, queue = <<>>
  PROVE  \A n \in 0..MaxDepth : \A f \in Reach[n] : f \in DOMAIN depth /\ depth[f] <= n
<1>0. MaxDepth \in Nat
  BY ContextAssumption
<1> DEFINE P == {n \in 0..MaxDepth : \A f \in Reach[n] : f \in DOMAIN depth /\ depth[f] <= n}
<1>1. 0 \in P
  BY <1>0, ReachIs DEF DepthsAreKnown
<1>2. ASSUME NEW n \in 1..MaxDepth, n - 1 \in P PROVE n \in P
  <2> SUFFICES ASSUME NEW f \in Reach[n] PROVE f \in DOMAIN depth /\ depth[f] <= n
    BY <1>0
  <2>1. n - 1 \in 0..MaxDepth /\ \A g \in Reach[n - 1] : g \in DOMAIN depth /\ depth[g] <= n - 1
    BY <1>2
  <2>2. CASE f \in Reach[n - 1]
    BY <1>0, <2>1, <2>2 DEF DepthsAreKnown
  <2>3. CASE f \notin Reach[n - 1]
    <3>1. PICK g \in Reach[n - 1] : f \in Near(g)
      BY <2>3, ReachIs
    <3>2. g \in DOMAIN depth /\ depth[g] <= n - 1 /\ depth[g] \in 0..MaxDepth /\ g \in Files
      BY <2>1 DEF DepthsAreKnown
    <3>3. Visited(g)
      BY <1>0, <3>2 DEF Visited, Waiting
    <3>4. f \in DOMAIN depth /\ depth[f] <= depth[g] + 1 /\ depth[f] \in 0..MaxDepth
      BY <3>1, <3>2, <3>3 DEF VisitedIsExpanded, DepthsAreKnown
    <3> QED
      BY <1>0, <3>2, <3>4
  <2> QED
    BY <2>2, <2>3
<1>3. \A n \in 0..MaxDepth : n \in P
  <2> HIDE DEF P
  <2> QED
    BY <1>0, <1>1, <1>2, BoundedInduction
<1> QED
  BY <1>3

LEMMA OptionsAre ==
  ASSUME NEW f
  PROVE  \A r : r \in Options(f) <=> \E d \in 1..MaxDepth : \E g \in Reach[d - 1] : Offered(g, d, f, r)
<1>1. ASSUME NEW g, NEW d
      PROVE  \A o : o \in Offers(g, d) <=> \E h, r : o = <<h, r>> /\ Offered(g, d, h, r)
  BY DEF Offers, Offered, Dep, Imp
<1> DEFINE all == UNION {UNION {Offers(g, d) : g \in Reach[d - 1]} : d \in 1..MaxDepth}
<1>2. \A o : o \in all <=> \E d \in 1..MaxDepth : \E g \in Reach[d - 1] : o \in Offers(g, d)
  OBVIOUS
<1>3. Options(f) = {o[2] : o \in {o \in all : o[1] = f}}
  BY DEF Options
<1> HIDE DEF all
<1>4. ASSUME NEW r \in Options(f)
      PROVE  \E d \in 1..MaxDepth : \E g \in Reach[d - 1] : Offered(g, d, f, r)
  <2>1. PICK o \in all : o[1] = f /\ o[2] = r
    BY <1>3
  <2>2. PICK d \in 1..MaxDepth : \E g \in Reach[d - 1] : o \in Offers(g, d)
    BY <1>2, <2>1
  <2>3. PICK g \in Reach[d - 1] : o \in Offers(g, d)
    BY <2>2
  <2>4. PICK h, q : o = <<h, q>> /\ Offered(g, d, h, q)
    BY <1>1, <2>3
  <2>5. h = f /\ q = r
    BY <2>1, <2>4
  <2> QED
    BY <2>4, <2>5
<1>5. ASSUME NEW r, NEW d \in 1..MaxDepth, NEW g \in Reach[d - 1], Offered(g, d, f, r)
      PROVE  r \in Options(f)
  <2>1. <<f, r>> \in Offers(g, d)
    BY <1>1, <1>5
  <2>2. <<f, r>> \in all /\ <<f, r>>[1] = f /\ <<f, r>>[2] = r
    BY <1>2, <2>1
  <2> QED
    BY <1>3, <2>2
<1> QED
  BY <1>4, <1>5

LEMMA WalkedIsExact ==
  ASSUME HaveSeeds, Walked
  PROVE  CandidatesAreNeighbours
<1>0. MaxDepth \in Nat
  BY ContextAssumption
<1> SUFFICES ASSUME pc = "rank", queue = <<>>
             PROVE  /\ DOMAIN candidates \ SeedPaths = Reach[MaxDepth] \ SeedPaths
                    /\ \A f \in DOMAIN candidates :
                         /\ candidates[f] \in Options(f)
                         /\ \A a \in Options(f) \ {candidates[f]} : Better(candidates[f], a)
  BY DEF CandidatesAreNeighbours
<1>1. /\ SeedPaths \subseteq Files
      /\ DepthsAreKnown /\ QueueIsOrdered /\ VisitedIsExpanded /\ CandidatesAreRecorded
  BY DEF HaveSeeds, Walked
<1>2. \A n \in 0..MaxDepth : \A f \in Reach[n] : f \in DOMAIN depth /\ depth[f] <= n
  BY <1>1, NearIsKnown
<1>3. DOMAIN depth = Reach[MaxDepth]
  <2>1. MaxDepth \in 0..MaxDepth
    BY <1>0
  <2>2. \A f \in DOMAIN depth : f \in Reach[MaxDepth]
    <3>1. \A n \in 0..MaxDepth : Reach[n] \subseteq Reach[MaxDepth]
      BY <1>1, <2>1, ReachGrows
    <3> QED
      BY <1>1, <3>1 DEF DepthsAreKnown
  <2> QED
    BY <1>2, <2>1, <2>2
<1>4. DOMAIN candidates \ SeedPaths = Reach[MaxDepth] \ SeedPaths
  BY <1>1, <1>3 DEF CandidatesAreRecorded
<1>5. \A f \in DOMAIN candidates : candidates[f] \in Records /\ candidates[f] \in Options(f)
  BY <1>1, OptionsAre DEF CandidatesAreRecorded
<1>6. ASSUME NEW f \in DOMAIN candidates, NEW a \in Options(f), a # candidates[f]
      PROVE  Better(candidates[f], a)
  <2>0. PICK d \in 1..MaxDepth : \E g \in Reach[d - 1] : Offered(g, d, f, a)
    BY OptionsAre
  <2>1. PICK g \in Reach[d - 1] : Offered(g, d, f, a)
    BY <2>0
  <2>2. /\ g \in DOMAIN depth /\ depth[g] <= d - 1 /\ depth[g] \in 0..MaxDepth /\ g \in Files
        /\ d - 1 \in 0..MaxDepth
    BY <1>0, <1>1, <1>2 DEF DepthsAreKnown
  <2>3. Visited(g)
    BY <1>0, <2>2 DEF Visited, Waiting
  (* The same edge, offered at the least distance of g.                    *)
  <2> DEFINE n == depth[g] + 1
             best == IF a = Dep(d) THEN Dep(n) ELSE Imp(n)
  <2>4. n \in Nat /\ d \in Nat /\ n <= d
    BY <1>0, <2>2
  <2>5. a \in Records /\ best \in Records
    BY <2>1, <2>4 DEF Offered, Records, Dep, Imp
  <2>6. Offered(g, n, f, best) /\ AtLeast(best, a)
    <3>1. Dep(d) # Imp(d)
      BY DEF Dep, Imp
    <3>2. CASE a = Dep(d)
      <4>1. f \in Imported(g) /\ best = Dep(n)
        BY <2>1, <3>1, <3>2 DEF Offered
      <4> HIDE DEF n, best
      <4>2. AtLeast(Dep(n), Dep(d))
        BY <2>4 DEF AtLeast, Better, Dep
      <4> QED
        BY <3>2, <4>1, <4>2 DEF Offered
    <3>3. CASE a # Dep(d)
      <4>1. f \in Importing(g) /\ a = Imp(d) /\ best = Imp(n)
        BY <2>1, <3>3 DEF Offered
      <4> HIDE DEF n, best
      <4>2. AtLeast(Imp(n), Imp(d))
        BY <2>4 DEF AtLeast, Better, Imp
      <4> QED
        BY <4>1, <4>2 DEF Offered
    <3> QED
      BY <3>2, <3>3
  <2> HIDE DEF best
  <2>7. AtLeast(candidates[f], best)
    BY <1>1, <2>2, <2>3, <2>6 DEF CandidatesAreRecorded
  <2>8. AtLeast(candidates[f], a)
    BY <1>5, <2>5, <2>6, <2>7, AtLeastIsTransitive
  <2> QED
    BY <1>6, <2>8 DEF AtLeast
<1> QED
  BY <1>4, <1>5, <1>6

-----------------------------------------------------------------------------
(* The fingerprint of a workspace determines its index.                    *)

LEMMA EntriesAreReadable ==
  ASSUME NEW w, NEW f \in Entries(w)
  PROVE  f \in Files /\ w[f] \notin {Absent, Unreadable}
BY DEF Entries, Files, ToSet

LEMMA FingerprintOfFile ==
  ASSUME NEW w, NEW f \in Files
  PROVE  /\ f \in Entries(w) <=> Fingerprint(w)[f] \notin {Absent, Unreadable}
         /\ f \in Entries(w) => Fingerprint(w)[f] = w[f]
<1>1. Fingerprint(w)[f] = IF w[f] = Absent THEN Absent
                          ELSE IF f \in Entries(w) THEN w[f] ELSE Unreadable
  BY DEF Fingerprint
<1> QED
  BY <1>1, EntriesAreReadable

LEMMA FingerprintDetermines ==
  ASSUME NEW w, NEW v, Fingerprint(w) = Fingerprint(v)
  PROVE  Build(w) = Build(v)
<1>1. Entries(w) = Entries(v)
  BY EntriesAreReadable, FingerprintOfFile
<1>2. \A f \in Entries(w) : w[f] = v[f]
  BY <1>1, EntriesAreReadable, FingerprintOfFile
<1> DEFINE Asked(u, f) == UNION {ImportedModules(f, import) : import \in u[f].imports}
           Named(u, f) == UNION { {<<f, g>> : g \in Resolve(Entries(u), module) \ {f}} :
                                  module \in Asked(u, f) }
           Parsed(u) == {f \in Entries(u) : u[f].parses}
<1>3. \A f \in Entries(w) : Named(w, f) = Named(v, f)
  BY <1>1, <1>2
<1>4. Parsed(w) = Parsed(v) /\ Parsed(w) \subseteq Entries(w)
  BY <1>1, <1>2
<1>5. Edges(w) = UNION {Named(w, f) : f \in Parsed(w)}
  BY DEF Edges
<1>6. Edges(v) = UNION {Named(v, f) : f \in Parsed(v)}
  BY DEF Edges
<1> HIDE DEF Named, Parsed
<1>7. Edges(w) = Edges(v)
  BY <1>3, <1>4, <1>5, <1>6
<1> QED
  BY <1>7 DEF Build

-----------------------------------------------------------------------------
(* The inductive invariant                                                 *)

(* What the process remembers is genuine, perhaps without its edges, and   *)
(* remembered under its name; what the directory holds is so under         *)
(* whatever name, or no index at all.                                      *)
Genuine(w) == {Build(w), Emptied(Build(w))}

IsOf(entry, key) == \E w \in Workspaces : entry \in Genuine(w) /\ key = Fingerprint(w)

IsFile(entry) == entry \in {NoIndex, NotAnObject} \/ \E w \in Workspaces : entry \in Genuine(w)

CachesAreGenuine ==
  /\ workspace \in Workspaces
  /\ \A key \in DOMAIN memory : IsOf(memory[key], key)
  /\ \A key \in DOMAIN disk : IsFile(disk[key])

IInv == CachesAreGenuine /\ IndexIsCurrent

LEMMA GenuineAre ==
  ASSUME NEW w, NEW entry \in Genuine(w)
  PROVE  entry.fingerprint = Fingerprint(w) /\ Emptied(entry) = Emptied(Build(w))
<1>1. Build(w).fingerprint = Fingerprint(w)
  BY DEF Build
<1>2. \A e : /\ Emptied(e).fingerprint = e.fingerprint
             /\ Emptied(e) = [fingerprint |-> e.fingerprint, edges |-> {}, complete |-> FALSE]
  BY DEF Emptied
<1>3. \A d, e : d.fingerprint = e.fingerprint => Emptied(d) = Emptied(e)
  BY DEF Emptied
<1>4. entry = Build(w) \/ entry = Emptied(Build(w))
  BY DEF Genuine
<1>5. entry.fingerprint = Build(w).fingerprint
  BY <1>2, <1>4
<1> QED
  BY <1>1, <1>3, <1>5

LEMMA CachedIsCurrent ==
  ASSUME CachesAreGenuine, Cached \notin {NoIndex, NotAnObject}
  PROVE  Cached \in Genuine(workspace)
<1>1. PICK w \in Workspaces : Cached \in Genuine(w) /\ Fingerprint(workspace) = Fingerprint(w)
  <2>1. CASE Fingerprint(workspace) \in DOMAIN memory
    BY <2>1 DEF Cached, CachesAreGenuine, IsOf
  <2>2. CASE Fingerprint(workspace) \notin DOMAIN memory
    <3> DEFINE key == Fingerprint(workspace)
    <3>1. Cached = disk[key] /\ key \in DOMAIN disk /\ disk[key].fingerprint = key
      BY <2>2 DEF Cached, Load
    <3>2. PICK w \in Workspaces : disk[key] \in Genuine(w)
      BY <3>1 DEF CachesAreGenuine, IsFile
    <3> QED
      BY <3>1, <3>2, GenuineAre
  <2> QED
    BY <2>1, <2>2
<1> QED
  BY <1>1, FingerprintDetermines DEF Genuine

(* A walk starts with a genuine index, which the process remembers. *)
LEMMA WalkIInv ==
  ASSUME CachesAreGenuine, NEW found \in Genuine(workspace), Walk(found),
         \A key \in DOMAIN disk' : IsFile(disk'[key])
  PROVE  IInv'
<1>1. found.fingerprint = Fingerprint(workspace) /\ workspace' = workspace
  BY GenuineAre DEF Walk
<1>2. \A key \in DOMAIN memory' : IsOf(memory'[key], key)
  BY <1>1 DEF Walk, Put, CachesAreGenuine, IsOf
<1>3. IndexIsCurrent'
  BY <1>1 DEF Walk, IndexIsCurrent, Genuine
<1> QED
  BY <1>1, <1>2, <1>3 DEF IInv, CachesAreGenuine

LEMMA InitIInv == Init => IInv
BY DEF Init, IInv, CachesAreGenuine, IndexIsCurrent, NoneOf

LEMMA NextIInv ==
  ASSUME IInv, [Next]_vars
  PROVE  IInv'
<1>1. CASE FindIndex
  BY <1>1, CachedIsCurrent, WalkIInv DEF FindIndex, IInv, CachesAreGenuine
<1>2. CASE BuildIndex
  <2>1. Build(workspace) \in Genuine(workspace)
    BY DEF Genuine
  <2>2. \A key \in DOMAIN disk' : IsFile(disk'[key])
    BY <1>2, <2>1 DEF BuildIndex, IInv, CachesAreGenuine, IsFile, Put
  <2> QED
    BY <1>2, <2>1, <2>2, WalkIInv DEF BuildIndex, IInv
<1>3. CASE EditAndAsk
  BY <1>3 DEF EditAndAsk, IInv, CachesAreGenuine, IndexIsCurrent, NoneOf
<1>4. CASE Damage
  <2>1. PICK key \in DOMAIN disk, k \in DOMAIN disk :
          \E entry \in {NoIndex, NotAnObject, disk[k]}
                       \cup {Emptied(e) : e \in {disk[key]} \ {NoIndex, NotAnObject}} :
            disk' = [disk EXCEPT ![key] = entry]
    BY <1>4 DEF Damage
  <2>2. PICK entry \in {NoIndex, NotAnObject, disk[k]}
                        \cup {Emptied(e) : e \in {disk[key]} \ {NoIndex, NotAnObject}} :
          disk' = [disk EXCEPT ![key] = entry]
    BY <2>1
  <2>3. \A j \in DOMAIN disk' : j \in DOMAIN disk /\ (disk'[j] = entry \/ disk'[j] = disk[j])
    BY <2>2
  <2>4. IsFile(entry)
    <3>1. CASE entry \in {NoIndex, NotAnObject, disk[k]}
      BY <2>1, <3>1 DEF IInv, CachesAreGenuine, IsFile
    <3>2. CASE entry = Emptied(disk[key]) /\ disk[key] \notin {NoIndex, NotAnObject}
      <4>1. PICK w \in Workspaces : disk[key] \in Genuine(w)
        BY <2>1, <3>2 DEF IInv, CachesAreGenuine, IsFile
      <4> QED
        BY <3>2, <4>1, GenuineAre DEF IsFile, Genuine
    <3> QED
      BY <2>2, <3>1, <3>2
  <2> QED
    BY <1>4, <2>3, <2>4 DEF Damage, requestVars, IInv, CachesAreGenuine, IndexIsCurrent
<1>5. CASE UNCHANGED <<workspace, memory, disk, index>>
  BY <1>5 DEF IInv, CachesAreGenuine, IndexIsCurrent
<1> QED
  BY <1>1, <1>2, <1>3, <1>4, <1>5
  DEF Next, vars, requestVars, SelectionFails, SelectSeeds, LoadRaises, SaveFails, Visit, Expand

LEMMA Invariance == Spec => []IInv
BY InitIInv, NextIInv, PTL DEF Spec

LEMMA WalkInvariance == Spec => []WalkInv
BY InitWalk, NextWalk, PTL DEF Spec

-----------------------------------------------------------------------------
(* Sizes                                                                   *)

Sums(h, N, lines) ==
  /\ h \in [0..N -> Nat]
  /\ h[0] = 0
  /\ \A n \in 1..N : h[n] = h[n - 1] + lines[n]
  /\ Size(lines) = h[N]

LEMMA SizeUnfolds ==
  ASSUME NEW lines \in Seq(Nat)
  PROVE  \E h : Sums(h, Len(lines), lines)
<1> DEFINE N == Len(lines)
           Next1(s, n) == s + lines[n]
           Body(h, n) == IF n = 0 THEN 0 ELSE Next1(h[n - 1], n)
           step == [n \in 1..N |-> [s \in Nat |-> Next1(s, n)]]
           sum == CHOOSE h : h = [n \in 0..N |-> Body(h, n)]
<1>1. N \in Nat /\ \A n \in 1..N : lines[n] \in Nat
  OBVIOUS
<1>2. Size(lines) = sum[N]
  BY DEF Size
<1>3. \A n \in 1..N : \A s \in Nat : Next1(s, n) \in Nat
  BY <1>1
<1> HIDE DEF N, Next1
<1>4. step \in Steps(N, Nat)
  BY <1>3 DEF Steps
<1>5. IsDefined(N, Nat, 0, step)
  <2> HIDE DEF step
  <2> QED
    BY <1>1, <1>4, RecursiveFunction
<1>6. PICK g \in [0..N -> Nat] : g[0] = 0 /\ \A n \in 1..N : g[n] = step[n][g[n - 1]]
  BY <1>5 DEF IsDefined
<1>7. \A n \in 0..N : g[n] = Body(g, n)
  <2> TAKE n \in 0..N
  <2>1. CASE n = 0
    BY <1>6, <2>1
  <2>2. CASE n # 0
    <3>1. n \in 1..N /\ n - 1 \in 0..N
      BY <1>1, <2>2
    <3>2. g[n - 1] \in Nat
      BY <1>6, <3>1
    <3> QED
      BY <1>6, <2>2, <3>1, <3>2
  <2> QED
    BY <2>1, <2>2
<1> HIDE DEF Body
<1>8. g = [n \in 0..N |-> Body(g, n)]
  BY <1>6, <1>7
<1>9. sum = [n \in 0..N |-> Body(sum, n)]
  BY <1>8
<1> HIDE DEF sum
<1>10. 0 \in 0..N /\ \A n \in 1..N : n \in 0..N /\ n # 0
  BY <1>1
<1>11. sum[0] = 0 /\ \A n \in 1..N : sum[n] = Next1(sum[n - 1], n)
  BY <1>9, <1>10 DEF Body
<1> DEFINE P == {n \in 0..N : sum[n] \in Nat}
<1>12. 0 \in P
  BY <1>10, <1>11
<1>13. ASSUME NEW n \in 1..N, n - 1 \in P PROVE n \in P
  BY <1>3, <1>10, <1>11, <1>13
<1>14. \A n \in 0..N : n \in P
  <2> HIDE DEF P
  <2> QED
    BY <1>1, <1>12, <1>13, BoundedInduction
<1>15. sum \in [0..N -> Nat]
  BY <1>9, <1>14
<1>16. Sums(sum, N, lines)
  BY <1>2, <1>11, <1>15 DEF Sums, Next1
<1> QED
  BY <1>16 DEF N

LEMMA SizeOf ==
  /\ Size(<<>>) = 0
  /\ \A lines \in Seq(Nat) : Size(lines) \in Nat
  /\ \A lines \in Seq(Nat), x \in Nat : Size(Append(lines, x)) = Size(lines) + x
<1>1. Size(<<>>) = 0
  <2>1. \E h : Sums(h, Len(<<>>), <<>>)
    <3>1. <<>> \in Seq(Nat)
      OBVIOUS
    <3> QED
      BY <3>1, SizeUnfolds
  <2> QED
    BY <2>1 DEF Sums
<1>2. ASSUME NEW lines \in Seq(Nat) PROVE Size(lines) \in Nat
  <2>1. PICK h : Sums(h, Len(lines), lines)
    BY SizeUnfolds
  <2>2. Len(lines) \in 0..Len(lines)
    OBVIOUS
  <2> QED
    BY <2>1, <2>2 DEF Sums
<1>3. ASSUME NEW lines \in Seq(Nat), NEW x \in Nat
      PROVE  Size(Append(lines, x)) = Size(lines) + x
  <2> DEFINE N == Len(lines)
             longer == Append(lines, x)
  <2>1. /\ N \in Nat /\ longer \in Seq(Nat) /\ Len(longer) = N + 1 /\ longer[N + 1] = x
        /\ \A n \in 1..N : longer[n] = lines[n] /\ lines[n] \in Nat
    OBVIOUS
  <2> HIDE DEF longer
  <2>2. PICK h : Sums(h, N, lines)
    BY SizeUnfolds
  <2>3. PICK g : Sums(g, N + 1, longer)
    BY <2>1, SizeUnfolds
  <2> HIDE DEF N
  <2>4. /\ h \in [0..N -> Nat] /\ h[0] = 0 /\ Size(lines) = h[N]
        /\ \A n \in 1..N : h[n] = h[n - 1] + lines[n]
    BY <2>2 DEF Sums
  <2>5. /\ g[0] = 0 /\ Size(longer) = g[N + 1]
        /\ \A n \in 1..(N + 1) : g[n] = g[n - 1] + longer[n]
    BY <2>3 DEF Sums
  <2> DEFINE P == {n \in 0..N : g[n] = h[n]}
  <2>6. 0 \in P
    BY <2>1, <2>4, <2>5
  <2>7. ASSUME NEW n \in 1..N, n - 1 \in P PROVE n \in P
    <3>1. n \in 1..(N + 1) /\ n \in 0..N /\ longer[n] = lines[n]
      BY <2>1
    <3>2. g[n] = g[n - 1] + longer[n] /\ h[n] = h[n - 1] + lines[n]
      BY <2>4, <2>5, <3>1
    <3> QED
      BY <2>7, <3>1, <3>2
  <2>8. \A n \in 0..N : n \in P
    <3> HIDE DEF P
    <3> QED
      BY <2>1, <2>6, <2>7, BoundedInduction
  <2>9. g[N] = h[N] /\ N + 1 \in 1..(N + 1) /\ (N + 1) - 1 = N
    BY <2>1, <2>8
  <2>10. g[N + 1] = g[N] + longer[N + 1]
    BY <2>5, <2>9
  <2> QED
    BY <2>1, <2>4, <2>5, <2>9, <2>10 DEF longer
<1> QED
  BY <1>1, <1>2, <1>3

(* More lines are not shorter. *)
LEMMA LinesAdd ==
  ASSUME NEW lines \in Seq(Nat), NEW n \in 1..Len(lines)
  PROVE  /\ SubSeq(lines, 1, n) \in Seq(Nat) /\ SubSeq(lines, 1, n - 1) \in Seq(Nat)
         /\ Size(SubSeq(lines, 1, n)) = Size(SubSeq(lines, 1, n - 1)) + lines[n]
<1>1. n - 1 \in 0..Len(lines) /\ lines[n] \in Nat
  OBVIOUS
<1>2. SubSeq(lines, 1, n) \in Seq(Nat) /\ SubSeq(lines, 1, n - 1) \in Seq(Nat)
  BY <1>1
<1>3. SubSeq(lines, 1, n) = Append(SubSeq(lines, 1, n - 1), lines[n])
  BY <1>1
<1> QED
  BY <1>1, <1>2, <1>3, SizeOf

-----------------------------------------------------------------------------
(* The budget                                                              *)

(* A set of numbers that has with each number the one before it. *)
LEMMA FirstNumbers ==
  ASSUME NEW L \in Nat, NEW W, W \subseteq 1..L, \A n \in W \ {1} : n - 1 \in W
  PROVE  Cardinality(W) \in Nat /\ W = 1..Cardinality(W)
<1>1. ASSUME NEW k \in Nat, W = 1..k PROVE Cardinality(W) \in Nat /\ W = 1..Cardinality(W)
  BY <1>1, FS_Interval
<1>2. CASE W = 1..L
  BY <1>1, <1>2
<1>3. CASE W # 1..L
  <2> DEFINE T == {n \in 1..L : n \notin W}
  <2>0. \E n \in 1..L : n \notin W
    <3> DEFINE all == 1..L
    <3>1. W \subseteq all /\ W # all
      BY <1>3
    <3> HIDE DEF all
    <3>2. \E n \in all : n \notin W
      BY <3>1
    <3> QED
      BY <3>2 DEF all
  <2>1. T \subseteq Nat /\ T # {}
    BY <2>0
  <2> HIDE DEF T
  <2>2. PICK m \in T : \A n \in T : m <= n
    BY <2>1, LeastNumber
  <2> USE DEF T
  <2>3. m \in 1..L /\ m \notin W /\ \A n \in 1..(m - 1) : n \in W
    BY <2>2
  <2> DEFINE P == {n \in 0..L : n >= m => n \notin W}
  <2>4. 0 \in P
    BY <2>3
  <2>5. ASSUME NEW n \in 1..L, n - 1 \in P PROVE n \in P
    BY <2>3, <2>5
  <2>6. \A n \in 0..L : n \in P
    <3> HIDE DEF P
    <3> QED
      BY <2>4, <2>5, BoundedInduction
  <2>7. \A n \in 0..L : n >= m => n \notin W
    BY <2>6
  <2>8. W = 1..(m - 1)
    <3>1. \A n : n \in W => n \in 1..(m - 1)
      BY <2>3, <2>7
    <3> QED
      BY <2>3, <3>1
  <2> QED
    BY <1>1, <2>3, <2>8
<1> QED
  BY <1>2, <1>3

Snippets == [path : Files, start : Nat \ {0}, end : Int, lines : Seq(Nat), seed : BOOLEAN]

InRange(s) == Len(s.lines) = Most(s.end - s.start + 1, 0)

(* What is left of a snippet: its first lines, or a part of the first. *)
FirstOf(c, s) ==
  /\ c.start = s.start
  /\ \/ \E k \in 1..Len(s.lines) : c.lines = SubSeq(s.lines, 1, k) /\ c.end = s.start + k - 1
     \/ \E part \in Nat : s.lines # <<>> /\ part < s.lines[1] /\ c.lines = <<part>>

(* It fits, and its range says what it is. *)
LEMMA ClippedFits ==
  ASSUME NEW s \in Snippets, NEW room \in Nat \ {0}, Size(s.lines) > room
  PROVE  /\ Clipped(s, room) \in Snippets
         /\ Clipped(s, room).path = s.path /\ Clipped(s, room).seed = s.seed
         /\ Size(Clipped(s, room).lines) <= room
         /\ InRange(Clipped(s, room)) /\ FirstOf(Clipped(s, room), s)
<1> DEFINE lines == s.lines
           L == Len(lines)
           W == {n \in 1..L : Size(SubSeq(lines, 1, n)) <= room}
           kept == IF W = {} THEN <<room>> ELSE SubSeq(lines, 1, Cardinality(W))
           last == Most(s.start, s.start + Len(kept) - 1)
<1>1. lines \in Seq(Nat) /\ L \in Nat /\ s.start \in Nat \ {0}
  BY DEF Snippets
<1>2. Clipped(s, room) = [s EXCEPT !.lines = kept, !.end = last]
  BY DEF Clipped
<1> HIDE DEF lines
<1>3. \A n \in W \ {1} : n - 1 \in W
  <2> SUFFICES ASSUME NEW n \in 2..L, Size(SubSeq(lines, 1, n)) <= room
               PROVE  Size(SubSeq(lines, 1, n - 1)) <= room
    BY <1>1
  <2>1. n \in 1..L /\ lines[n] \in Nat
    BY <1>1
  <2>2. /\ SubSeq(lines, 1, n - 1) \in Seq(Nat)
        /\ Size(SubSeq(lines, 1, n)) = Size(SubSeq(lines, 1, n - 1)) + lines[n]
    BY <1>1, <2>1, LinesAdd
  <2>3. Size(SubSeq(lines, 1, n - 1)) \in Nat
    BY <2>2, SizeOf
  <2> QED
    BY <2>1, <2>2, <2>3
<1>4. Cardinality(W) \in Nat /\ W = 1..Cardinality(W)
  <2>1. W \subseteq 1..L
    OBVIOUS
  <2> HIDE DEF W, L
  <2> QED
    BY <1>1, <1>3, <2>1, FirstNumbers
<1>5. kept \in Seq(Nat) /\ Len(kept) \in Nat \ {0} /\ Size(kept) <= room
  <2>1. CASE W = {}
    <3>1. kept = Append(<<>>, room) /\ kept = <<room>>
      BY <2>1
    <3>2. Size(Append(<<>>, room)) = Size(<<>>) + room
      <4>1. <<>> \in Seq(Nat) /\ room \in Nat
        OBVIOUS
      <4> QED
        BY <4>1, SizeOf
    <3> HIDE DEF W, kept
    <3>3. Size(kept) = room
      BY <3>1, <3>2, SizeOf
    <3> QED
      BY <3>1, <3>3
  <2>2. CASE W # {}
    <3>1. Cardinality(W) \in W
      BY <1>4, <2>2
    <3>2. kept = SubSeq(lines, 1, Cardinality(W)) /\ Cardinality(W) \in 1..L /\ Size(kept) <= room
      BY <2>2, <3>1
    <3> HIDE DEF W, kept
    <3> QED
      BY <1>1, <3>2
  <2> QED
    BY <2>1, <2>2
<1>8. \/ \E k \in 1..L : kept = SubSeq(lines, 1, k) /\ Len(kept) = k
      \/ \E part \in Nat : lines # <<>> /\ part < lines[1] /\ kept = <<part>>
  <2>1. CASE W = {}
    <3>1. lines # <<>>
      <4>1. Size(<<>>) = 0
        BY SizeOf
      <4> QED
        BY <4>1 DEF lines
    <3>2. L >= 1 /\ lines[1] \in Nat
      BY <1>1, <3>1
    <3>3. 1 \in 1..L /\ 1 \notin W
      BY <1>1, <2>1, <3>2
    <3>4. Size(SubSeq(lines, 1, 1)) > room
      <4>1. ~(Size(SubSeq(lines, 1, 1)) <= room)
        BY <3>3
      <4>2. SubSeq(lines, 1, 1) \in Seq(Nat)
        BY <1>1, <3>2
      <4>3. Size(SubSeq(lines, 1, 1)) \in Nat
        BY <4>2, SizeOf
      <4> QED
        BY <4>1, <4>3
    <3>5. Size(SubSeq(lines, 1, 1)) = lines[1]
      <4>1. Size(SubSeq(lines, 1, 1)) = Size(SubSeq(lines, 1, 0)) + lines[1]
        BY <1>1, <3>2, LinesAdd
      <4>2. SubSeq(lines, 1, 0) = <<>>
        BY <1>1
      <4>3. Size(SubSeq(lines, 1, 0)) = 0
        BY <4>2, SizeOf
      <4> QED
        BY <3>2, <4>1, <4>3
    <3>6. room \in Nat /\ room < lines[1] /\ kept = <<room>>
      BY <2>1, <3>2, <3>4, <3>5
    <3> HIDE DEF W, kept
    <3> QED
      BY <3>1, <3>6
  <2>2. CASE W # {}
    <3>1. Cardinality(W) \in W
      BY <1>4, <2>2
    <3>2. kept = SubSeq(lines, 1, Cardinality(W)) /\ Cardinality(W) \in 1..L
      BY <2>2, <3>1
    <3> HIDE DEF W, kept
    <3>3. Len(kept) = Cardinality(W)
      BY <1>1, <3>2
    <3> QED
      BY <3>2, <3>3
  <2> QED
    BY <2>1, <2>2
<1> HIDE DEF kept
<1>6. last \in Int /\ last - s.start + 1 = Len(kept) /\ last = s.start + Len(kept) - 1
  BY <1>1, <1>5 DEF Most
<1> HIDE DEF last
<1>7. /\ Clipped(s, room).lines = kept /\ Clipped(s, room).end = last
      /\ Clipped(s, room).start = s.start
      /\ Clipped(s, room).path = s.path /\ Clipped(s, room).seed = s.seed
      /\ Clipped(s, room) \in Snippets
  BY <1>2, <1>5, <1>6 DEF Snippets
<1>9. FirstOf(Clipped(s, room), s)
  <2> DEFINE c == Clipped(s, room)
             length == Len(kept)
  <2> SUFFICES FirstOf(c, s)
    OBVIOUS
  <2>1. c.start = s.start /\ c.lines = kept /\ c.end = last
    BY <1>7
  <2>2. length \in Nat /\ last = s.start + length - 1
    BY <1>5, <1>6
  <2> HIDE DEF c, length
  <2>3. CASE \E k \in 1..L : kept = SubSeq(lines, 1, k) /\ Len(kept) = k
    <3>1. PICK k \in 1..L : kept = SubSeq(lines, 1, k) /\ Len(kept) = k
      BY <2>3
    <3>2. c.end = s.start + k - 1
      BY <2>1, <2>2, <3>1 DEF length
    <3>3. k \in 1..Len(s.lines) /\ c.lines = SubSeq(s.lines, 1, k)
      BY <2>1, <3>1 DEF lines
    <3> QED
      BY <2>1, <3>2, <3>3 DEF FirstOf
  <2>4. CASE \E part \in Nat : lines # <<>> /\ part < lines[1] /\ kept = <<part>>
    <3>1. PICK part \in Nat : s.lines # <<>> /\ part < s.lines[1] /\ c.lines = <<part>>
      BY <2>1, <2>4 DEF lines
    <3> QED
      BY <2>1, <3>1 DEF FirstOf
  <2> QED
    BY <1>8, <2>3, <2>4
<1> QED
  BY <1>5, <1>6, <1>7, <1>9 DEF InRange, Most

Sizes(list) == [n \in DOMAIN list |-> Size(list[n].lines)]

LEMMA SizesOf ==
  ASSUME NEW list \in Seq(Snippets)
  PROVE  /\ Sizes(list) \in Seq(Nat) /\ Size(Sizes(list)) \in Nat
         /\ \A s \in Snippets : Size(Sizes(Append(list, s))) = Size(Sizes(list)) + Size(s.lines)
<1> DEFINE N == Len(list)
<1>1. N \in Nat /\ DOMAIN list = 1..N /\ \A n \in 1..N : list[n] \in Snippets
  OBVIOUS
<1>2. \A s \in Snippets : Size(s.lines) \in Nat
  BY SizeOf DEF Snippets
<1>3. Sizes(list) \in Seq(Nat) /\ Len(Sizes(list)) = N
  <2>1. Sizes(list) \in [1..N -> Nat]
    BY <1>1, <1>2 DEF Sizes
  <2> HIDE DEF N
  <2> QED
    BY <1>1, <2>1, SequenceOf
<1>4. ASSUME NEW s \in Snippets
      PROVE  Size(Sizes(Append(list, s))) = Size(Sizes(list)) + Size(s.lines)
  <2> DEFINE longer == Append(list, s)
             size == Size(s.lines)
  <2>1. /\ DOMAIN longer = 1..(N + 1) /\ longer[N + 1] = s
        /\ \A n \in 1..N : longer[n] = list[n]
    OBVIOUS
  <2> HIDE DEF longer, N
  <2>2. /\ DOMAIN Sizes(longer) = 1..(N + 1) /\ Sizes(longer)[N + 1] = Size(s.lines)
        /\ \A n \in 1..N : Sizes(longer)[n] = Sizes(list)[n]
    BY <1>1, <2>1 DEF Sizes
  <2>3. size \in Nat
    BY <1>2
  <2>4. /\ Append(Sizes(list), size) \in Seq(Nat) /\ Len(Append(Sizes(list), size)) = N + 1
        /\ Append(Sizes(list), size)[N + 1] = size
        /\ \A n \in 1..N : Append(Sizes(list), size)[n] = Sizes(list)[n]
    <3> HIDE DEF size
    <3> QED
      BY <1>3, <2>3, AppendProperties
  <2>5. Sizes(longer) \in Seq(Nat) /\ Len(Sizes(longer)) = N + 1
    <3>1. \A n \in 1..(N + 1) : n = N + 1 \/ n \in 1..N
      BY <1>1
    <3>2. \A n \in 1..(N + 1) : Sizes(longer)[n] \in Nat
      <4>1. \A n \in 1..N : Sizes(list)[n] \in Nat
        BY <1>3
      <4> QED
        BY <2>2, <2>3, <3>1, <4>1
    <3>3. Sizes(longer) \in [1..(N + 1) -> Nat]
      BY <2>2, <3>2 DEF Sizes
    <3> QED
      BY <1>1, <3>3, SequenceOf
  <2>6. Sizes(longer) = Append(Sizes(list), size)
    <3>1. \A n \in 1..(N + 1) : Sizes(longer)[n] = Append(Sizes(list), size)[n]
      <4>1. \A n \in 1..(N + 1) : n = N + 1 \/ n \in 1..N
        BY <1>1
      <4> QED
        BY <2>2, <2>4, <4>1
    <3> QED
      BY <2>4, <2>5, <3>1, SeqEqual
  <2> HIDE DEF size
  <2>7. Size(Append(Sizes(list), size)) = Size(Sizes(list)) + size
    BY <1>3, <2>3, SizeOf
  <2> QED
    BY <2>6, <2>7 DEF longer, size
<1> QED
  BY <1>3, <1>4, SizeOf

Budgets == [fitted : Seq(Snippets), room : Nat, cut : BOOLEAN]

(* One snippet of _fit_budget(). *)
FitNext(done, s) ==
  IF done.cut THEN done
  ELSE IF done.room = 0 THEN [done EXCEPT !.cut = TRUE]
  ELSE IF Size(s.lines) <= done.room
  THEN [done EXCEPT !.fitted = Append(@, s), !.room = @ - Size(s.lines)]
  ELSE [fitted |-> Append(done.fitted, Clipped(s, done.room)),
        room |-> done.room - Size(Clipped(s, done.room).lines), cut |-> TRUE]

Nothing == [fitted |-> <<>>, room |-> MaxChars, cut |-> FALSE]

(* What it adds: nothing, the snippet, or what is left of it. *)
Left(c, s) ==
  c \in Snippets /\ c.path = s.path /\ c.seed = s.seed /\ InRange(c) /\ FirstOf(c, s)

Adds(done, s, c, cut) ==
  /\ FitNext(done, s).fitted = Append(done.fitted, c)
  /\ FitNext(done, s).room = done.room - Size(c.lines)
  /\ FitNext(done, s).cut = cut

LEMMA FitNextAdds ==
  ASSUME NEW done \in Budgets, NEW s \in Snippets
  PROVE  /\ FitNext(done, s) \in Budgets
         /\ \/ /\ FitNext(done, s).cut
               /\ FitNext(done, s).fitted = done.fitted /\ FitNext(done, s).room = done.room
            \/ ~done.cut /\ Adds(done, s, s, FALSE)
            \/ \E c \in Snippets : ~done.cut /\ Left(c, s) /\ Adds(done, s, c, TRUE)
<1>1. /\ done.fitted \in Seq(Snippets) /\ done.room \in Nat /\ done.cut \in BOOLEAN
      /\ Size(s.lines) \in Nat
  BY SizeOf DEF Budgets, Snippets
<1>2. CASE done.cut
  BY <1>2 DEF FitNext
<1>3. CASE ~done.cut /\ done.room = 0
  BY <1>1, <1>3 DEF FitNext, Budgets
<1>4. CASE ~done.cut /\ done.room # 0 /\ Size(s.lines) <= done.room
  <2> DEFINE fits == Append(done.fitted, s)
             room == done.room - Size(s.lines)
  <2>1. fits \in Seq(Snippets) /\ room \in Nat
    BY <1>1, <1>4
  <2>2. FitNext(done, s) = [done EXCEPT !.fitted = fits, !.room = room]
    BY <1>4 DEF FitNext
  <2> HIDE DEF fits, room
  <2>3. /\ FitNext(done, s).fitted = fits /\ FitNext(done, s).room = room
        /\ FitNext(done, s).cut = done.cut /\ FitNext(done, s) \in Budgets
    BY <2>1, <2>2 DEF Budgets
  <2>4. Adds(done, s, s, FALSE)
    BY <1>1, <1>4, <2>3 DEF Adds, fits, room
  <2> QED
    BY <1>4, <2>3, <2>4
<1>5. CASE ~done.cut /\ done.room # 0 /\ ~(Size(s.lines) <= done.room)
  <2> DEFINE c == Clipped(s, done.room)
             fits == Append(done.fitted, c)
             room == done.room - Size(c.lines)
  <2>1. done.room \in Nat \ {0} /\ Size(s.lines) > done.room
    BY <1>1, <1>5
  <2>2. c \in Snippets /\ c.path = s.path /\ c.seed = s.seed /\ Size(c.lines) <= done.room
        /\ InRange(c) /\ FirstOf(c, s)
    BY <2>1, ClippedFits
  <2>3. FitNext(done, s) = [fitted |-> fits, room |-> room, cut |-> TRUE]
    BY <1>5 DEF FitNext
  <2> HIDE DEF c
  <2>4. Size(c.lines) \in Nat
    BY <2>2, SizeOf DEF Snippets
  <2>5. fits \in Seq(Snippets) /\ room \in Nat
    BY <1>1, <2>2, <2>4
  <2> HIDE DEF fits, room
  <2>6. /\ FitNext(done, s).fitted = fits /\ FitNext(done, s).room = room
        /\ FitNext(done, s).cut = TRUE /\ FitNext(done, s) \in Budgets
    BY <2>3, <2>5 DEF Budgets
  <2>7. Left(c, s) /\ Adds(done, s, c, TRUE)
    BY <2>2, <2>6 DEF Left, Adds, fits, room
  <2> QED
    BY <1>5, <2>2, <2>6, <2>7
<1> QED
  BY <1>2, <1>3, <1>4, <1>5

(* The budget after each of the N snippets. *)
Fills(h, N, all) ==
  /\ h \in [0..N -> Budgets]
  /\ h[0] = Nothing
  /\ \A n \in 1..N : h[n] = FitNext(h[n - 1], all[n])
  /\ Fit(all) = h[N]

LEMMA FitUnfolds ==
  ASSUME NEW all \in Seq(Snippets)
  PROVE  \E h : Fills(h, Len(all), all)
<1> DEFINE N == Len(all)
           Body(h, n) == IF n = 0 THEN Nothing ELSE FitNext(h[n - 1], all[n])
           step == [n \in 1..N |-> [s \in Budgets |-> FitNext(s, all[n])]]
           after == CHOOSE h : h = [n \in 0..N |-> Body(h, n)]
<1>1. N \in Nat /\ \A n \in 1..N : all[n] \in Snippets
  OBVIOUS
<1>2. Fit(all) = after[N]
  BY DEF Fit, FitNext, Nothing
<1>3. \A n \in 1..N : \A s \in Budgets : FitNext(s, all[n]) \in Budgets
  BY <1>1, FitNextAdds
<1> HIDE DEF N
<1>4. Nothing \in Budgets /\ step \in Steps(N, Budgets)
  <2>1. Nothing \in Budgets
    BY ContextAssumption DEF Nothing, Budgets
  <2> QED
    BY <1>3, <2>1 DEF Steps
<1>5. IsDefined(N, Budgets, Nothing, step)
  <2> HIDE DEF step
  <2> QED
    BY <1>1, <1>4, RecursiveFunction
<1>6. PICK g \in [0..N -> Budgets] : g[0] = Nothing /\ \A n \in 1..N : g[n] = step[n][g[n - 1]]
  BY <1>5 DEF IsDefined
<1>7. \A n \in 0..N : g[n] = Body(g, n)
  <2> TAKE n \in 0..N
  <2>1. CASE n = 0
    BY <1>6, <2>1
  <2>2. CASE n # 0
    <3>1. n \in 1..N /\ n - 1 \in 0..N
      BY <1>1, <2>2
    <3>2. g[n - 1] \in Budgets
      BY <1>6, <3>1
    <3> QED
      BY <1>6, <2>2, <3>1, <3>2
  <2> QED
    BY <2>1, <2>2
<1> HIDE DEF Body
<1>8. g = [n \in 0..N |-> Body(g, n)]
  BY <1>6, <1>7
<1>9. after = [n \in 0..N |-> Body(after, n)]
  BY <1>8
<1> HIDE DEF after
<1>10. 0 \in 0..N /\ \A n \in 1..N : n \in 0..N /\ n # 0
  BY <1>1
<1>11. after[0] = Nothing /\ \A n \in 1..N : after[n] = FitNext(after[n - 1], all[n])
  BY <1>9, <1>10 DEF Body
<1> DEFINE P == {n \in 0..N : after[n] \in Budgets}
<1>12. 0 \in P
  BY <1>4, <1>10, <1>11
<1>13. ASSUME NEW n \in 1..N, n - 1 \in P PROVE n \in P
  BY <1>3, <1>10, <1>11, <1>13
<1>14. \A n \in 0..N : n \in P
  <2> HIDE DEF P
  <2> QED
    BY <1>1, <1>12, <1>13, BoundedInduction
<1>15. after \in [0..N -> Budgets]
  BY <1>9, <1>14
<1>16. Fills(after, N, all)
  BY <1>2, <1>11, <1>15 DEF Fills
<1> QED
  BY <1>16 DEF N

(* What fits is the first snippets, the last of them perhaps clipped; if   *)
(* nothing was cut, it is all of them.                                     *)
IsOrLeft(c, s, cut) == c = s \/ (cut /\ Left(c, s))

Fitted(done, n, all) ==
  /\ Size(Sizes(done.fitted)) + done.room = MaxChars
  /\ Len(done.fitted) <= n /\ (~done.cut => Len(done.fitted) = n)
  /\ \A m \in 1..Len(done.fitted) :
       IsOrLeft(done.fitted[m], all[m], done.cut /\ m = Len(done.fitted))

LEMMA FitFits ==
  ASSUME NEW all \in Seq(Snippets)
  PROVE  Fit(all) \in Budgets /\ Fitted(Fit(all), Len(all), all)
<1> DEFINE N == Len(all)
<1>1. N \in Nat /\ \A n \in 1..N : all[n] \in Snippets
  OBVIOUS
<1>2. PICK h : Fills(h, N, all)
  BY FitUnfolds
<1> HIDE DEF N
<1>3. /\ h \in [0..N -> Budgets] /\ h[0] = Nothing /\ Fit(all) = h[N]
      /\ \A n \in 1..N : h[n] = FitNext(h[n - 1], all[n])
  BY <1>2 DEF Fills
<1> DEFINE P == {n \in 0..N : Fitted(h[n], n, all)}
<1>4. 0 \in P
  <2>1. Sizes(<<>>) = <<>>
    BY DEF Sizes
  <2>2. Size(Sizes(<<>>)) = 0
    BY <2>1, SizeOf
  <2>3. Fitted(Nothing, 0, all)
    BY <2>2, ContextAssumption DEF Nothing, Fitted
  <2> QED
    BY <1>1, <1>3, <2>3
<1>5. ASSUME NEW n \in 1..N, n - 1 \in P PROVE n \in P
  <2> DEFINE done == h[n - 1]
             s == all[n]
  <2>1. n \in 0..N /\ n - 1 \in 0..N /\ s \in Snippets
    BY <1>1
  <2>2. done \in Budgets /\ Fitted(done, n - 1, all)
    BY <1>3, <1>5, <2>1
  <2>3. h[n] = FitNext(done, s)
    BY <1>3
  <2> HIDE DEF done, s
  <2>4. done.fitted \in Seq(Snippets) /\ done.room \in Nat /\ Len(done.fitted) \in Nat
    BY <2>2 DEF Budgets
  <2>5. ASSUME FitNext(done, s).cut, FitNext(done, s).fitted = done.fitted,
               FitNext(done, s).room = done.room
        PROVE  Fitted(FitNext(done, s), n, all)
    BY <1>1, <2>2, <2>4, <2>5 DEF Fitted, IsOrLeft
  <2>6. ASSUME NEW c \in Snippets, NEW cut, ~done.cut, IsOrLeft(c, s, cut), Adds(done, s, c, cut)
        PROVE  Fitted(FitNext(done, s), n, all)
    <3> DEFINE next == FitNext(done, s)
               k == Len(done.fitted)
    <3>1. k = n - 1 /\ \A m \in 1..k : done.fitted[m] = all[m]
      BY <2>2, <2>6 DEF Fitted, IsOrLeft
    <3>2. next.fitted = Append(done.fitted, c) /\ next.room = done.room - Size(c.lines) /\ next.cut = cut
      BY <2>6 DEF Adds
    <3> HIDE DEF next
    <3>3. /\ Len(next.fitted) = k + 1 /\ next.fitted[k + 1] = c
          /\ \A m \in 1..k : next.fitted[m] = done.fitted[m]
      BY <2>4, <3>2, AppendProperties
    <3> HIDE DEF k
    <3>4. Size(Sizes(next.fitted)) = Size(Sizes(done.fitted)) + Size(c.lines)
      BY <2>4, <3>2, SizesOf
    <3>5. /\ Size(c.lines) \in Nat /\ Size(Sizes(done.fitted)) \in Nat
          /\ Size(Sizes(done.fitted)) + done.room = MaxChars
      BY <2>2, <2>4, SizeOf, SizesOf DEF Fitted, Snippets
    <3>6. Size(Sizes(next.fitted)) + next.room = MaxChars
      BY <2>4, <3>2, <3>4, <3>5, ContextAssumption
    <3>7. Len(next.fitted) = n /\ next.fitted[n] = c /\ \A m \in 1..(n - 1) : next.fitted[m] = all[m]
      BY <1>1, <3>1, <3>3
    <3>8. ASSUME NEW m \in 1..Len(next.fitted)
          PROVE  IsOrLeft(next.fitted[m], all[m], next.cut /\ m = Len(next.fitted))
      <4>1. m \in 1..(n - 1) \/ m = n
        BY <1>1, <3>7
      <4>2. CASE m \in 1..(n - 1)
        BY <3>7, <4>2 DEF IsOrLeft
      <4>3. CASE m = n
        BY <2>6, <3>2, <3>7, <4>3 DEF IsOrLeft, s
      <4> QED
        BY <4>1, <4>2, <4>3
    <3>9. Fitted(next, n, all)
      BY <1>1, <3>6, <3>7, <3>8 DEF Fitted
    <3> QED
      BY <3>9 DEF next
  <2>7. Fitted(FitNext(done, s), n, all)
    <3>1. CASE FitNext(done, s).cut /\ FitNext(done, s).fitted = done.fitted /\ FitNext(done, s).room = done.room
      BY <2>5, <3>1
    <3>2. CASE ~done.cut /\ Adds(done, s, s, FALSE)
      BY <2>1, <2>6, <3>2 DEF IsOrLeft
    <3>3. CASE \E c \in Snippets : ~done.cut /\ Left(c, s) /\ Adds(done, s, c, TRUE)
      BY <2>6, <3>3 DEF IsOrLeft
    <3> QED
      BY <2>1, <2>2, <3>1, <3>2, <3>3, FitNextAdds
  <2> QED
    BY <2>1, <2>3, <2>7
<1>6. \A n \in 0..N : n \in P
  <2> HIDE DEF P
  <2> QED
    BY <1>1, <1>4, <1>5, BoundedInduction
<1>7. N \in 0..N
  BY <1>1
<1> QED
  BY <1>3, <1>6, <1>7 DEF N

-----------------------------------------------------------------------------
(* What a snippet shows                                                    *)

Shows(s) ==
  /\ s \in Snippets /\ Lines(s.path) \in Seq(Nat)
  /\ s.lines = Excerpt(s.path, s.start, s.end)
  /\ Lines(s.path) # <<>> => InRange(s)

LEMMA FileLines ==
  ASSUME workspace \in Workspaces, NEW f \in Files, Readable(f)
  PROVE  Lines(f) \in Seq(Nat) /\ workspace[f].symbols \subseteq Nat \X Nat
BY ContextAssumption DEF Readable, Opens, Lines

LEMMA ExcerptOf ==
  ASSUME NEW f, Lines(f) \in Seq(Nat), NEW first \in Nat \ {0}, NEW last \in Int
  PROVE  /\ Excerpt(f, first, last) \in Seq(Nat)
         /\ last <= Len(Lines(f)) => Len(Excerpt(f, first, last)) = Most(last - first + 1, 0)
<1> DEFINE all == Lines(f)
           to == Least(last, Len(all))
<1>1. all \in Seq(Nat) /\ Len(all) \in Nat
  OBVIOUS
<1>2. Excerpt(f, first, last) = SubSeq(all, first, to)
  BY DEF Excerpt
<1> HIDE DEF all
<1>3. to \in Int /\ to <= Len(all) /\ (last <= Len(all) => to = last)
  BY <1>1 DEF Least
<1> HIDE DEF to
<1>4. CASE first <= to
  <2>1. SubSeq(all, first, to) \in Seq(Nat) /\ Len(SubSeq(all, first, to)) = to - first + 1
    BY <1>1, <1>3, <1>4, SubSeqProperties
  <2> QED
    BY <1>2, <1>3, <1>4, <2>1 DEF Most, all
<1>5. CASE ~(first <= to)
  <2>1. SubSeq(all, first, to) \in Seq(Nat) /\ Len(SubSeq(all, first, to)) = 0
    BY <1>1, <1>3, <1>5, SubSeqProperties
  <2> QED
    BY <1>2, <1>3, <1>5, <2>1 DEF Most, all
<1> QED
  BY <1>4, <1>5

LEMMA SnippetShows ==
  ASSUME NEW f \in Files, Lines(f) \in Seq(Nat), NEW first \in Nat \ {0}, NEW last \in Int,
         Lines(f) # <<>> => last <= Len(Lines(f)), NEW seed \in BOOLEAN
  PROVE  /\ Shows(Snippet(f, first, last, seed))
         /\ Snippet(f, first, last, seed).path = f /\ Snippet(f, first, last, seed).seed = seed
<1> DEFINE s == Snippet(f, first, last, seed)
           lines == Excerpt(f, first, last)
<1>1. lines \in Seq(Nat) /\ (Lines(f) # <<>> => Len(lines) = Most(last - first + 1, 0))
  BY ExcerptOf
<1>2. s = [path |-> f, start |-> first, end |-> last, lines |-> lines, seed |-> seed]
  BY DEF Snippet
<1> HIDE DEF s, lines
<1>3. /\ s.path = f /\ s.start = first /\ s.end = last /\ s.lines = lines /\ s.seed = seed
      /\ s \in Snippets
  BY <1>1, <1>2 DEF Snippets
<1> QED
  BY <1>1, <1>3 DEF Shows, InRange, s, lines

(* What is left of it shows what it names, or a part of a line.            *)
ShowsPart(c) ==
  \/ c.lines = Excerpt(c.path, c.start, c.end)
  \/ Len(c.lines) = 1 /\ c.lines[1] < Lines(c.path)[c.start]

LEMMA PartOfPart ==
  ASSUME NEW all \in Seq(Nat), NEW first \in Nat \ {0}, NEW to \in Int, to <= Len(all),
         NEW old, old = SubSeq(all, first, to), NEW k \in 1..Len(old)
  PROVE  /\ first + k - 1 \in Nat /\ first + k - 1 <= Len(all)
         /\ SubSeq(old, 1, k) = SubSeq(all, first, first + k - 1)
         /\ old[1] = all[first]
<1>1. Len(all) \in Nat
  OBVIOUS
<1>2. /\ old \in Seq(Nat) /\ Len(old) = IF first <= to THEN to - first + 1 ELSE 0
      /\ \A i \in 1..Len(old) : old[i] = all[first + i - 1]
  BY <1>1
<1>3. k \in Nat \ {0} /\ k <= Len(old) /\ Len(old) = to - first + 1 /\ first + k - 1 \in Nat
  BY <1>2
<1>4. first + k - 1 <= Len(all) /\ old[1] = all[first]
  BY <1>1, <1>2, <1>3
<1> DEFINE x == SubSeq(old, 1, k)
           y == SubSeq(all, first, first + k - 1)
<1>5. x \in Seq(Nat) /\ Len(x) = k /\ \A i \in 1..k : x[i] = old[i]
  BY <1>2, <1>3
<1>6. y \in Seq(Nat) /\ Len(y) = k /\ \A i \in 1..k : y[i] = all[first + i - 1]
  BY <1>1, <1>3, <1>4
<1> HIDE DEF x, y
<1>7. \A i \in 1..k : i \in 1..Len(old)
  BY <1>2, <1>3
<1>8. \A i \in 1..k : x[i] = y[i]
  BY <1>2, <1>5, <1>6, <1>7
<1>9. x = y
  BY <1>3, <1>5, <1>6, <1>8
<1> QED
  BY <1>3, <1>4, <1>9 DEF x, y

LEMMA FirstShows ==
  ASSUME NEW s, Shows(s), NEW c, c.path = s.path, FirstOf(c, s)
  PROVE  ShowsPart(c)
<1> DEFINE all == Lines(s.path)
           first == s.start
           to == Least(s.end, Len(all))
           old == s.lines
<1>1. s \in Snippets /\ all \in Seq(Nat) /\ old = SubSeq(all, first, to)
  BY DEF Shows, Excerpt
<1>2. first \in Nat \ {0} /\ s.end \in Int /\ old \in Seq(Nat)
  BY <1>1 DEF Snippets
<1>3. to \in Int /\ to <= Len(all)
  BY <1>1, <1>2 DEF Least
<1>4. /\ c.start = first
      /\ \/ \E k \in 1..Len(old) : c.lines = SubSeq(old, 1, k) /\ c.end = first + k - 1
         \/ \E part \in Nat : old # <<>> /\ part < old[1] /\ c.lines = <<part>>
  BY DEF FirstOf
<1>5. Excerpt(c.path, c.start, c.end) = SubSeq(all, c.start, Least(c.end, Len(all)))
  BY DEF Excerpt
<1>6. Lines(c.path) = all
  OBVIOUS
<1> HIDE DEF all, first, to, old
<1>7. CASE \E k \in 1..Len(old) : c.lines = SubSeq(old, 1, k) /\ c.end = first + k - 1
  <2>1. PICK k \in 1..Len(old) : c.lines = SubSeq(old, 1, k) /\ c.end = first + k - 1
    BY <1>7
  <2>2. /\ first + k - 1 \in Nat /\ first + k - 1 <= Len(all)
        /\ SubSeq(old, 1, k) = SubSeq(all, first, first + k - 1)
    BY <1>1, <1>2, <1>3, PartOfPart
  <2>3. Least(c.end, Len(all)) = c.end
    BY <1>1, <2>1, <2>2 DEF Least
  <2> QED
    BY <1>4, <1>5, <2>1, <2>2, <2>3 DEF ShowsPart
<1>8. CASE \E part \in Nat : old # <<>> /\ part < old[1] /\ c.lines = <<part>>
  <2>1. PICK part \in Nat : old # <<>> /\ part < old[1] /\ c.lines = <<part>>
    BY <1>8
  <2>2. 1 \in 1..Len(old)
    BY <1>2, <2>1
  <2>3. old[1] = all[first]
    BY <1>1, <1>2, <1>3, <2>2, PartOfPart
  <2>4. Len(c.lines) = 1 /\ c.lines[1] = part
    BY <2>1
  <2> QED
    BY <1>4, <1>6, <2>1, <2>3, <2>4 DEF ShowsPart
<1> QED
  BY <1>4, <1>7, <1>8

LEMMA HasGreatest ==
  ASSUME NEW T, T \subseteq Nat, T # {}, NEW b \in Nat, \A n \in T : n <= b
  PROVE  \E n \in T : \A m \in T : m <= n
<1> DEFINE U == {k \in Nat : \A m \in T : m <= k}
<1>1. U \subseteq Nat /\ U # {}
  OBVIOUS
<1> HIDE DEF U
<1>2. PICK k \in U : \A n \in U : k <= n
  BY <1>1, LeastNumber
<1>3. k \in Nat /\ \A m \in T : m <= k
  BY <1>2 DEF U
<1>4. k \in T
  <2> SUFFICES ASSUME k \notin T PROVE FALSE
    OBVIOUS
  <2>1. \A m \in T : m \in Nat /\ m <= k /\ m # k
    BY <1>3
  <2>2. k # 0
    <3>1. PICK m \in T : TRUE
      OBVIOUS
    <3>2. m \in Nat /\ m <= k /\ m # k
      BY <2>1, <3>1
    <3> QED
      BY <1>3, <3>2
  <2>3. k - 1 \in U
    BY <1>3, <2>1, <2>2 DEF U
  <2> QED
    BY <1>2, <1>3, <2>3
<1> QED
  BY <1>3, <1>4

(* The lines of the traceback in a file have a first and a last one. *)
LEMMA FrameLinesOf ==
  ASSUME evidence \in Evidence, NEW f, FrameLines(f) # {}
  PROVE  Min(FrameLines(f)) \in Nat /\ Max(FrameLines(f)) \in Nat
<1> DEFINE frames == evidence.frames
           Frame == [path : Files, line : Nat]
           N == Len(frames)
           T == FrameLines(f)
<1>1. frames \in Seq(Frame)
  BY ContextAssumption
<1>2. N \in Nat /\ DOMAIN frames = 1..N /\ \A n \in 1..N : frames[n].line \in Nat
  <2>1. \A frame \in Frame : frame.line \in Nat
    OBVIOUS
  <2> HIDE DEF frames, Frame
  <2> QED
    BY <1>1, <2>1
<1>3. T = {frames[n].line : n \in {n \in DOMAIN frames : frames[n].path = f}}
  BY DEF FrameLines
<1> HIDE DEF frames, N
<1> DEFINE P == {n \in 0..N : \E b \in Nat : \A i \in 1..n : frames[i].line <= b}
<1>4. 0 \in P
  BY <1>2
<1>5. ASSUME NEW n \in 1..N, n - 1 \in P PROVE n \in P
  <2>1. PICK b \in Nat : \A i \in 1..(n - 1) : frames[i].line <= b
    BY <1>5
  <2> DEFINE c == Most(b, frames[n].line)
  <2>2. c \in Nat /\ c >= b /\ c >= frames[n].line
    BY <1>2 DEF Most
  <2> HIDE DEF c
  <2>3. \A i \in 1..n : frames[i].line <= c
    <3> TAKE i \in 1..n
    <3>1. frames[i].line \in Nat /\ (i = n \/ i \in 1..(n - 1))
      BY <1>2
    <3> QED
      BY <2>1, <2>2, <3>1
  <2> QED
    BY <1>2, <2>2, <2>3
<1>6. \A n \in 0..N : n \in P
  <2> HIDE DEF P
  <2> QED
    BY <1>2, <1>4, <1>5, BoundedInduction
<1>7. PICK b \in Nat : \A i \in 1..N : frames[i].line <= b
  BY <1>2, <1>6
<1>8. T \subseteq Nat /\ \A n \in T : n <= b
  BY <1>2, <1>3, <1>7
<1>9. T # {}
  OBVIOUS
<1> HIDE DEF T
<1>10. \E n \in T : \A m \in T : n <= m
  BY <1>8, <1>9, LeastNumber
<1>11. \E n \in T : \A m \in T : m <= n
  BY <1>8, <1>9, HasGreatest
<1>12. Min(T) \in T
  BY <1>8, <1>10 DEF Min
<1>13. Max(T) \in T
  <2>1. \E n \in T : \A m \in T : n >= m
    BY <1>8, <1>11
  <2> QED
    BY <2>1 DEF Max
<1> QED
  BY <1>8, <1>12, <1>13 DEF T

LEMMA WindowShows ==
  ASSUME workspace \in Workspaces, NEW f \in Files, Readable(f), NEW lines, NEW margin \in Nat,
         lines # {} => Min(lines) \in Nat /\ Max(lines) \in Nat
  PROVE  /\ Shows(Window(f, lines, margin))
         /\ Window(f, lines, margin).path = f /\ Window(f, lines, margin).seed
<1>1. Lines(f) \in Seq(Nat) /\ Len(Lines(f)) \in Nat
  BY FileLines
<1> DEFINE window == Window(f, lines, margin)
<1>a. ASSUME NEW first \in Nat \ {0}, NEW last \in Int,
             Lines(f) # <<>> => last <= Len(Lines(f)), window = Snippet(f, first, last, TRUE)
      PROVE  Shows(window) /\ window.path = f /\ window.seed
  <2>1. TRUE \in BOOLEAN
    OBVIOUS
  <2>2. /\ Shows(Snippet(f, first, last, TRUE))
        /\ Snippet(f, first, last, TRUE).path = f /\ Snippet(f, first, last, TRUE).seed = TRUE
    BY <1>1, <1>a, <2>1, SnippetShows, Zenon
  <2> HIDE DEF window
  <2> QED
    BY <1>a, <2>2
<1>2. CASE Lines(f) = <<>>
  <2>1. window = Snippet(f, 1, 1, TRUE)
    BY <1>2 DEF Window
  <2> HIDE DEF window
  <2>2. 1 \in Nat \ {0} /\ 1 \in Int
    OBVIOUS
  <2> QED
    BY <1>a, <1>2, <2>1, <2>2 DEF window
<1>3. CASE Lines(f) # <<>> /\ lines = {}
  <2>1. window = Snippet(f, 1, Len(Lines(f)), TRUE)
    BY <1>3 DEF Window
  <2> HIDE DEF window
  <2>2. 1 \in Nat \ {0} /\ Len(Lines(f)) \in Int /\ Len(Lines(f)) <= Len(Lines(f))
    BY <1>1
  <2> QED
    BY <1>a, <2>1, <2>2 DEF window
<1>4. CASE Lines(f) # <<>> /\ lines # {}
  <2> DEFINE first == Most(1, Min(lines) - margin)
             last == Least(Len(Lines(f)), Max(lines) + margin)
  <2>1. first \in Nat \ {0} /\ last \in Int /\ last <= Len(Lines(f))
    BY <1>1, <1>4 DEF Most, Least
  <2>2. Window(f, lines, margin) = Snippet(f, first, last, TRUE)
    BY <1>4 DEF Window
  <2> HIDE DEF first, last
  <2> QED
    BY <1>a, <2>1, <2>2
<1> QED
  BY <1>2, <1>3, <1>4

(* Snippets that show what they name, of different files.                  *)
AreShown(list, seed) ==
  /\ list \in Seq(Snippets)
  /\ \A n \in DOMAIN list : Shows(list[n]) /\ list[n].seed = seed
  /\ \A m, n \in DOMAIN list : list[m].path = list[n].path => m = n

StandsFor(list, files, seed) ==
  /\ DOMAIN list = DOMAIN files /\ list = [n \in DOMAIN list |-> list[n]]
  /\ \A n \in DOMAIN files : Shows(list[n]) /\ list[n].path = files[n] /\ list[n].seed = seed

LEMMA ShownOf ==
  ASSUME NEW files \in Seq(Files), OnlyOnce(files), NEW list, NEW seed, StandsFor(list, files, seed)
  PROVE  AreShown(list, seed)
<1>1. Len(files) \in Nat /\ DOMAIN files = 1..Len(files)
  OBVIOUS
<1>2. \A n \in DOMAIN files : list[n] \in Snippets
  BY DEF StandsFor, Shows
<1>3. list \in [1..Len(files) -> Snippets]
  BY <1>1, <1>2 DEF StandsFor
<1>4. list \in Seq(Snippets)
  BY <1>1, <1>3, SequenceOf
<1> QED
  BY <1>4 DEF StandsFor, AreShown, OnlyOnce

LEMMA SeedsAreShown ==
  ASSUME workspace \in Workspaces, evidence \in Evidence, SelectSeeds
  PROVE  AreShown(seeds', TRUE)
<1>0. LineWindow * Widened \in Nat
  BY ContextAssumption DEF Widened
<1>1. CASE NeedsAll
  <2> DEFINE readable == {f \in Files : Readable(f)}
             list == Listed(readable)
  <2>1. list \in Seq(Files) /\ OnlyOnce(list) /\ \A n \in DOMAIN list : Readable(list[n])
    <3>1. readable \subseteq Files
      OBVIOUS
    <3>2. \A f \in readable : Readable(f)
      OBVIOUS
    <3> HIDE DEF readable
    <3>3. list \in Seq(readable) /\ OnlyOnce(list)
      BY <3>1, ListedFiles
    <3> HIDE DEF list
    <3> QED
      BY <3>1, <3>2, <3>3
  <2>2. seeds' = [n \in DOMAIN list |-> Window(list[n], {}, 0)]
    BY <1>1 DEF SelectSeeds, WholeFiles
  <2> HIDE DEF list
  <2>3. ASSUME NEW n \in DOMAIN list
        PROVE  /\ Shows(Window(list[n], {}, 0))
               /\ Window(list[n], {}, 0).path = list[n] /\ Window(list[n], {}, 0).seed = TRUE
    <3>1. list[n] \in Files /\ Readable(list[n]) /\ 0 \in Nat
      BY <2>1
    <3>2. /\ Shows(Window(list[n], {}, 0))
          /\ Window(list[n], {}, 0).path = list[n] /\ Window(list[n], {}, 0).seed
      BY <3>1, WindowShows, Zenon
    <3> QED
      BY <3>2 DEF Shows, Snippets
  <2>4. StandsFor(seeds', list, TRUE)
    BY <2>2, <2>3 DEF StandsFor
  <2> QED
    BY <2>1, <2>4, ShownOf
<1>2. CASE ~NeedsAll
  <2> DEFINE list == SeedFiles
             shown(f) == Window(f, FrameLines(f), LineWindow * Widened)
  <2>1. list \in Seq(Files) /\ OnlyOnce(list) /\ \A n \in DOMAIN list : Readable(list[n])
    BY <1>2, SeedFilesAreFiles, SeedFilesAreReadable
  <2>2. seeds' = [n \in DOMAIN list |-> shown(list[n])]
    BY <1>2 DEF SelectSeeds
  <2>3. ASSUME NEW f \in Files, Readable(f)
        PROVE  Shows(shown(f)) /\ shown(f).path = f /\ shown(f).seed = TRUE
    <3> DEFINE lines == FrameLines(f)
               margin == LineWindow * Widened
    <3>1. lines # {} => Min(lines) \in Nat /\ Max(lines) \in Nat
      BY FrameLinesOf
    <3> HIDE DEF lines
    <3>2. margin \in Nat
      BY <1>0
    <3> HIDE DEF margin
    <3>3. /\ Shows(Window(f, lines, margin))
          /\ Window(f, lines, margin).path = f /\ Window(f, lines, margin).seed
      BY <2>3, <3>1, <3>2, WindowShows, Zenon
    <3>4. Window(f, lines, margin).seed = TRUE
      BY <3>3 DEF Shows, Snippets
    <3> QED
      BY <3>3, <3>4 DEF lines, margin
  <2> HIDE DEF list, shown
  <2>4. \A n \in DOMAIN list : list[n] \in Files /\ Readable(list[n])
    BY <2>1
  <2>5. StandsFor(seeds', list, TRUE)
    BY <2>2, <2>3, <2>4 DEF StandsFor
  <2> QED
    BY <2>1, <2>5, ShownOf
<1> QED
  BY <1>1, <1>2

-----------------------------------------------------------------------------
(* The related files                                                       *)

LEMMA FilesAreFinite == IsFiniteSet(Files)
<1>1. Len(Order) \in Nat /\ DOMAIN Order = 1..Len(Order) /\ Files = {Order[n] : n \in DOMAIN Order}
  BY ContextAssumption DEF Files, ToSet
<1>2. Order \in Bijection(1..Len(Order), Files)
  <2>1. Order \in [1..Len(Order) -> Files]
    BY <1>1, ContextAssumption
  <2>2. IsInjective(Order)
    BY ContextAssumption DEF IsInjective
  <2>3. \A f \in Files : \E n \in 1..Len(Order) : Order[n] = f
    BY <1>1
  <2> QED
    BY <2>1, <2>2, <2>3 DEF Bijection, Injection, Surjection
<1>3. IsFiniteSet(1..Len(Order))
  BY <1>1, FS_Interval
<1> QED
  BY <1>2, <1>3, FS_Bijection DEF ExistsBijection

LEMMA BeforeIsTotal ==
  /\ \A f, g \in Files : f # g => IsBefore(f, g) \/ IsBefore(g, f)
  /\ \A f, g : ~(IsBefore(f, g) /\ IsBefore(g, f)) /\ ~IsBefore(f, f)
  /\ \A f, g, h : IsBefore(f, g) /\ IsBefore(g, h) => IsBefore(f, h)
<1>1. Len(Order) \in Nat /\ DOMAIN Order = 1..Len(Order) /\ Files = {Order[n] : n \in DOMAIN Order}
  BY ContextAssumption DEF Files, ToSet
<1>2. \A m, n \in DOMAIN Order : Order[m] = Order[n] => m = n
  BY ContextAssumption
<1>3. \A f, g \in Files : f # g => IsBefore(f, g) \/ IsBefore(g, f)
  <2> TAKE f, g \in Files
  <2>1. PICK m \in DOMAIN Order : Order[m] = f
    BY <1>1
  <2>2. PICK n \in DOMAIN Order : Order[n] = g
    BY <1>1
  <2>3. f # g => m < n \/ n < m
    BY <1>1, <2>1, <2>2
  <2> QED
    BY <2>1, <2>2, <2>3 DEF IsBefore
<1>4. \A f, g : ~(IsBefore(f, g) /\ IsBefore(g, f)) /\ ~IsBefore(f, f)
  BY <1>1, <1>2 DEF IsBefore
<1>5. \A f, g, h : IsBefore(f, g) /\ IsBefore(g, h) => IsBefore(f, h)
  BY <1>1, <1>2 DEF IsBefore
<1> QED
  BY <1>3, <1>4, <1>5

(* What the walk leaves to choose from. *)
LEMMA UsefulFiles ==
  ASSUME HaveSeeds, Walked, pc = "rank"
  PROVE  /\ Useful \subseteq Files \ SeedPaths /\ IsFiniteSet(Useful)
         /\ \A f \in Useful : Readable(f) /\ Lines(f) # <<>> /\ candidates[f].score \in Int
<1>1. DOMAIN candidates \subseteq Files /\ \A f \in DOMAIN candidates : candidates[f] \in Records
  BY DEF Walked, DepthsAreKnown, CandidatesAreRecorded
<1>2. Useful \subseteq DOMAIN candidates
  BY DEF Useful
<1>3. Useful \in SUBSET Files
  BY <1>1, <1>2
<1>4. IsFiniteSet(Useful)
  BY <1>3, FilesAreFinite, FS_Subset
<1> QED
  BY <1>1, <1>2, <1>3, <1>4 DEF Useful, Records

LEMMA PrecedesIsTotal ==
  ASSUME NEW S, S \subseteq Files, \A f \in S : candidates[f].score \in Int
  PROVE  /\ \A f, g \in S : f # g => Precedes(f, g) \/ Precedes(g, f)
         /\ \A f, g \in S : ~(Precedes(f, g) /\ Precedes(g, f)) /\ ~Precedes(f, f)
         /\ \A f, g, h \in S : Precedes(f, g) /\ Precedes(g, h) => Precedes(f, h)
<1>1. ASSUME NEW f \in S, NEW g \in S, f # g PROVE Precedes(f, g) \/ Precedes(g, f)
  <2>1. IsBefore(f, g) \/ IsBefore(g, f)
    BY <1>1, BeforeIsTotal
  <2> QED
    BY <2>1 DEF Precedes
<1>2. ASSUME NEW f \in S, NEW g \in S PROVE ~(Precedes(f, g) /\ Precedes(g, f)) /\ ~Precedes(f, f)
  <2>1. ~(IsBefore(f, g) /\ IsBefore(g, f)) /\ ~IsBefore(f, f)
    BY BeforeIsTotal
  <2>2. candidates[f].score \in Int /\ candidates[g].score \in Int
    OBVIOUS
  <2> QED
    BY <2>1, <2>2 DEF Precedes
<1>3. ASSUME NEW f \in S, NEW g \in S, NEW h \in S, Precedes(f, g), Precedes(g, h)
      PROVE  Precedes(f, h)
  <2>1. IsBefore(f, g) /\ IsBefore(g, h) => IsBefore(f, h)
    BY BeforeIsTotal
  <2>2. candidates[f].score \in Int /\ candidates[g].score \in Int /\ candidates[h].score \in Int
    OBVIOUS
  <2> QED
    BY <1>3, <2>1, <2>2 DEF Precedes
<1> QED
  BY <1>1, <1>2, <1>3

(* Every place is taken, by one file. *)
LEMMA PlacesAreTaken ==
  ASSUME Useful \subseteq Files, IsFiniteSet(Useful),
         \A f \in Useful : candidates[f].score \in Int
  PROVE  /\ Cardinality(Useful) \in Nat
         /\ \A n \in 1..Cardinality(Useful) : \E f \in Useful : Place(f) = n
<1> DEFINE N == Cardinality(Useful)
           S == Useful
           ahead(f) == {g \in S : Precedes(g, f)}
           place == [f \in S |-> Place(f)]
<1>1. /\ \A f, g \in S : f # g => Precedes(f, g) \/ Precedes(g, f)
      /\ \A f, g \in S : ~(Precedes(f, g) /\ Precedes(g, f)) /\ ~Precedes(f, f)
      /\ \A f, g, h \in S : Precedes(f, g) /\ Precedes(g, h) => Precedes(f, h)
  BY PrecedesIsTotal
<1>2. N \in Nat /\ IsFiniteSet(S)
  BY FS_CardinalityType
<1>3. \A f \in S : Place(f) = Cardinality(ahead(f)) + 1
  BY DEF Place
<1>a. \A f \in S : ahead(f) \subseteq S /\ \A g \in S : g \in ahead(f) <=> Precedes(g, f)
  OBVIOUS
<1>b. N = Cardinality(S)
  OBVIOUS
<1> HIDE DEF S, ahead, N
<1>4. \A f \in S : IsFiniteSet(ahead(f)) /\ Cardinality(ahead(f)) \in Nat
  BY <1>2, <1>a, FS_Subset, FS_CardinalityType
<1>5. ASSUME NEW f \in S PROVE Place(f) \in 1..N
  <2>1. ahead(f) \in SUBSET (S \ {f})
    BY <1>1, <1>a
  <2>2. IsFiniteSet(S \ {f}) /\ Cardinality(S \ {f}) = N - 1
    BY <1>2, <1>b, FS_RemoveElement
  <2>3. Cardinality(ahead(f)) <= N - 1
    BY <2>1, <2>2, FS_Subset
  <2> QED
    BY <1>2, <1>3, <1>4, <2>3
<1>6. ASSUME NEW f \in S, NEW g \in S, Precedes(f, g) PROVE Place(f) < Place(g)
  <2>1. ahead(f) \cup {f} \in SUBSET ahead(g) /\ f \notin ahead(f)
    BY <1>1, <1>6, <1>a
  <2>2. Cardinality(ahead(f) \cup {f}) = Cardinality(ahead(f)) + 1
    BY <1>4, <2>1, FS_AddElement
  <2>3. Cardinality(ahead(f) \cup {f}) <= Cardinality(ahead(g))
    BY <1>4, <2>1, FS_Subset
  <2> QED
    BY <1>3, <1>4, <2>2, <2>3
<1>7. place \in Injection(S, 1..N)
  <2>1. place \in [S -> 1..N]
    BY <1>5
  <2>2. ASSUME NEW f \in S, NEW g \in S, Place(f) = Place(g) PROVE f = g
    <3>1. Place(f) \in Int /\ Place(g) \in Int
      BY <1>2, <1>5
    <3> QED
      BY <1>1, <1>6, <2>2, <3>1
  <2>3. IsInjective(place)
    BY <2>2 DEF IsInjective
  <2> QED
    BY <2>1, <2>3 DEF Injection
<1>8. IsFiniteSet(1..N) /\ Cardinality(1..N) = N
  BY <1>2, FS_Interval
<1>9. place \in Surjection(S, 1..N)
  <2> HIDE DEF place
  <2> QED
    BY <1>7, <1>8, <1>b, FS_Injection
<1>10. \A n \in 1..N : \E f \in S : Place(f) = n
  BY <1>9 DEF Surjection
<1> QED
  BY <1>2, <1>10 DEF N, S

LEMMA RelatedFiles ==
  ASSUME HaveSeeds, Walked, pc = "rank"
  PROVE  /\ Related \in Seq(Files) /\ OnlyOnce(Related)
         /\ \A n \in DOMAIN Related : /\ Related[n] \in Files \ SeedPaths
                                      /\ Readable(Related[n]) /\ Lines(Related[n]) # <<>>
<1> DEFINE N == Cardinality(Useful)
           most == Least(N, MaxRelated)
<1>1. /\ Useful \subseteq Files \ SeedPaths /\ IsFiniteSet(Useful)
      /\ \A f \in Useful : Readable(f) /\ Lines(f) # <<>> /\ candidates[f].score \in Int
  BY UsefulFiles
<1>2. N \in Nat /\ \A n \in 1..N : \E f \in Useful : Place(f) = n
  BY <1>1, PlacesAreTaken
<1>3. most \in 0..N
  BY <1>2, ContextAssumption DEF Least
<1>4. Related = [n \in 1..most |-> CHOOSE f \in Useful : Place(f) = n]
  BY DEF Related
<1> HIDE DEF most, N
<1>5. \A n \in 1..most : n \in 1..N
  BY <1>2, <1>3
<1>6. /\ DOMAIN Related = 1..most
      /\ \A n \in 1..most : Related[n] \in Useful /\ Place(Related[n]) = n
  BY <1>2, <1>4, <1>5
<1>7. Related \in Seq(Files)
  <2>1. Related \in [1..most -> Files]
    BY <1>1, <1>4, <1>6
  <2>2. most \in Nat
    BY <1>2, <1>3
  <2> QED
    BY <2>1, <2>2, SequenceOf
<1>8. OnlyOnce(Related)
  BY <1>6 DEF OnlyOnce
<1> QED
  BY <1>1, <1>6, <1>7, <1>8

LEMMA RelatedShows ==
  ASSUME workspace \in Workspaces, NEW f \in Files, Readable(f), Lines(f) # <<>>,
         NEW symbol, symbol \in workspace[f].symbols \cup {<<>>}
  PROVE  /\ Shows(RelatedSnippet(f, symbol))
         /\ RelatedSnippet(f, symbol).path = f /\ RelatedSnippet(f, symbol).seed = FALSE
<1>0. FALSE \in BOOLEAN
  OBVIOUS
<1>1. /\ Lines(f) \in Seq(Nat) /\ Len(Lines(f)) \in Nat
      /\ workspace[f].symbols \subseteq Nat \X Nat
  BY FileLines
<1> DEFINE snippet == RelatedSnippet(f, symbol)
<1>2. ASSUME NEW first \in Nat \ {0}, NEW last \in Int, last <= Len(Lines(f)),
             snippet = Snippet(f, first, last, FALSE)
      PROVE  Shows(snippet) /\ snippet.path = f /\ snippet.seed = FALSE
  <2>1. /\ Shows(Snippet(f, first, last, FALSE))
        /\ Snippet(f, first, last, FALSE).path = f /\ Snippet(f, first, last, FALSE).seed = FALSE
    BY <1>0, <1>1, <1>2, SnippetShows, Zenon
  <2> HIDE DEF snippet
  <2> QED
    BY <1>2, <2>1
<1>3. CASE symbol = <<>>
  <2> DEFINE last == Least(Len(Lines(f)), MaxSnippet)
  <2>1. last \in Int /\ last <= Len(Lines(f)) /\ 1 \in Nat \ {0}
    BY <1>1, ContextAssumption DEF Least
  <2>2. RelatedSnippet(f, symbol) = Snippet(f, 1, last, FALSE)
    BY <1>3 DEF RelatedSnippet
  <2> HIDE DEF last
  <2> QED
    BY <1>2, <2>1, <2>2
<1>4. CASE symbol # <<>>
  <2> DEFINE first == Most(1, symbol[1] - 2)
             last == Least(Len(Lines(f)), symbol[2] + 2)
  <2>1. symbol \in Nat \X Nat
    BY <1>1, <1>4
  <2>2. symbol[1] \in Nat /\ symbol[2] \in Nat
    BY <2>1
  <2>3. first \in Nat \ {0} /\ last \in Int /\ last <= Len(Lines(f))
    BY <1>1, <2>2 DEF Least, Most
  <2>4. RelatedSnippet(f, symbol) = Snippet(f, first, last, FALSE)
    BY <1>4 DEF RelatedSnippet
  <2> HIDE DEF first, last
  <2> QED
    BY <1>2, <2>3, <2>4
<1> QED
  BY <1>3, <1>4

-----------------------------------------------------------------------------
(* The context                                                             *)

(* ContextIsFaithful of explicit values, to carry it over a step. *)
Faithful(w, first, more, fit, cut) ==
  LET paths == [n \in DOMAIN fit |-> fit[n].path]
  IN  /\ Size([n \in DOMAIN fit |-> Size(fit[n].lines)]) <= MaxChars
      /\ IsInjective(paths)
      /\ \A n \in DOMAIN fit :
           /\ w[paths[n]].lines # <<>> =>
                Len(fit[n].lines) = Most(fit[n].end - fit[n].start + 1, 0)
           /\ ~fit[n].seed => \A m \in DOMAIN first : m < n /\ fit[m] = first[m]
           /\ \/ fit[n].lines = SubSeq(w[paths[n]].lines, fit[n].start,
                                         Least(fit[n].end, Len(w[paths[n]].lines)))
              \/ /\ n = Len(fit) /\ cut
                 /\ Len(fit[n].lines) = 1 /\ fit[n].lines[1] < w[paths[n]].lines[fit[n].start]
      /\ ~cut => Len(fit) = Len(first) + more

LEMMA FaithfulIs ==
  ContextIsFaithful <=> (pc = "context" => Faithful(workspace, seeds, Len(Related), fitted, truncated))
BY Zenon DEF ContextIsFaithful, Faithful, Lines, Excerpt

RelatedAmong(c, useful) ==
  [n \in 1..Least(Cardinality(useful), MaxRelated) |->
    CHOOSE f \in useful :
      Cardinality({g \in useful : \/ c[g].score > c[f].score
                                  \/ c[g].score = c[f].score /\ IsBefore(g, f)}) + 1 = n]

LEMMA RelatedIsAmong == Related = RelatedAmong(candidates, Useful)
BY Zenon DEF Related, RelatedAmong, Place, Precedes

LEMMA RelatedIsThatOf ==
  ASSUME UNCHANGED <<workspace, candidates, seeds>>
  PROVE  Related' = Related
<1>1. Useful' = Useful
  BY DEF Useful, SeedPaths, Readable, Opens, Lines
<1>2. Related = RelatedAmong(candidates, Useful)
  BY RelatedIsAmong
<1>3. (Related = RelatedAmong(candidates, Useful))'
  BY RelatedIsAmong, PTL
<1> QED
  BY <1>1, <1>2, <1>3

LEMMA FitIsFaithful ==
  ASSUME AreShown(seeds, TRUE), NEW related, AreShown(related, FALSE),
         \A n \in DOMAIN related : related[n].path \notin SeedPaths,
         NEW done, done = Fit(seeds \o related)
  PROVE  Faithful(workspace, seeds, Len(related), done.fitted, done.cut)
<1> DEFINE S == Len(seeds)
           R == Len(related)
           all == seeds \o related
           fit == done.fitted
           K == Len(fit)
<1>1. /\ seeds \in Seq(Snippets) /\ related \in Seq(Snippets) /\ all \in Seq(Snippets)
      /\ S \in Nat /\ R \in Nat /\ Len(all) = S + R /\ DOMAIN seeds = 1..S /\ DOMAIN related = 1..R
      /\ \A n \in 1..S : all[n] = seeds[n]
      /\ \A n \in 1..(S + R) : n \in 1..S \/ (n - S \in 1..R /\ all[n] = related[n - S])
  <2>1. seeds \in Seq(Snippets) /\ related \in Seq(Snippets)
    BY DEF AreShown
  <2> HIDE DEF Snippets
  <2> QED
    BY <2>1
<1>2. \A n \in 1..(S + R) : Shows(all[n]) /\ (n <= S <=> all[n].seed = TRUE) /\ (n > S <=> all[n].seed = FALSE)
  BY <1>1 DEF AreShown
<1>3. ASSUME NEW m \in 1..(S + R), NEW n \in 1..(S + R), all[m].path = all[n].path
      PROVE  m = n
  <2>1. \A i \in 1..S, j \in 1..R : seeds[i].path # related[j].path
    BY <1>1 DEF SeedPaths
  <2>2. CASE m \in 1..S /\ n \in 1..S
    BY <1>1, <1>3, <2>2 DEF AreShown
  <2>3. CASE m \in 1..S /\ n \notin 1..S
    BY <1>1, <1>3, <2>1, <2>3
  <2>4. CASE m \notin 1..S /\ n \in 1..S
    BY <1>1, <1>3, <2>1, <2>4
  <2>5. CASE m \notin 1..S /\ n \notin 1..S
    <3>1. related[m - S].path = related[n - S].path /\ m - S \in DOMAIN related /\ n - S \in DOMAIN related
      BY <1>1, <1>3, <2>5
    <3>2. m - S = n - S
      BY <3>1 DEF AreShown
    <3> QED
      BY <1>1, <3>2
  <2> QED
    BY <2>2, <2>3, <2>4, <2>5
<1> HIDE DEF all
<1>4. done \in Budgets /\ Fitted(done, S + R, all)
  BY <1>1, FitFits DEF all
<1>5. fit \in Seq(Snippets) /\ K \in Nat /\ DOMAIN fit = 1..K /\ done.room \in Nat /\ done.cut \in BOOLEAN
  <2>1. fit \in Seq(Snippets) /\ done.room \in Nat /\ done.cut \in BOOLEAN
    BY <1>4 DEF Budgets
  <2> HIDE DEF fit
  <2> QED
    BY <2>1
<1>6. /\ Size(Sizes(fit)) + done.room = MaxChars
      /\ K <= S + R /\ (~done.cut => K = S + R)
      /\ \A m \in 1..K : IsOrLeft(fit[m], all[m], done.cut /\ m = K)
  BY <1>4 DEF Fitted
<1>7. Size([n \in DOMAIN fit |-> Size(fit[n].lines)]) <= MaxChars
  <2>1. Size(Sizes(fit)) \in Nat
    BY <1>5, SizesOf
  <2>2. Size(Sizes(fit)) <= MaxChars
    BY <1>5, <1>6, <2>1, ContextAssumption
  <2> QED
    BY <2>2 DEF Sizes
<1> HIDE DEF fit, K, S, R
<1>8. ASSUME NEW m \in 1..K
      PROVE  /\ fit[m].path = all[m].path /\ fit[m].seed = all[m].seed
             /\ Lines(fit[m].path) # <<>> => InRange(fit[m])
             /\ m < K \/ ~done.cut => fit[m] = all[m]
             /\ ShowsPart(fit[m])
             /\ ~(m = K /\ done.cut) => fit[m].lines = Excerpt(fit[m].path, fit[m].start, fit[m].end)
  <2>1. m \in 1..(S + R) /\ m \in Nat
    BY <1>1, <1>5, <1>6
  <2>2. Shows(all[m]) /\ IsOrLeft(fit[m], all[m], done.cut /\ m = K)
    BY <1>2, <1>6, <2>1
  <2>3. m < K \/ ~done.cut => ~(done.cut /\ m = K)
    BY <1>5
  <2>4. ShowsPart(fit[m])
    <3>1. CASE fit[m] = all[m]
      BY <2>2, <3>1 DEF Shows, ShowsPart
    <3>2. CASE Left(fit[m], all[m])
      BY <2>2, <3>2, FirstShows DEF Left
    <3> QED
      BY <2>2, <3>1, <3>2 DEF IsOrLeft
  <2> QED
    BY <2>2, <2>3, <2>4 DEF IsOrLeft, Left, Shows
<1> DEFINE paths == [n \in DOMAIN fit |-> fit[n].path]
<1>9. DOMAIN paths = 1..K /\ \A n \in 1..K : paths[n] = fit[n].path
  BY <1>5
<1> HIDE DEF paths
<1>10. IsInjective(paths)
  <2>1. \A n \in 1..K : n \in 1..(S + R)
    BY <1>1, <1>5, <1>6
  <2> QED
    BY <1>3, <1>8, <1>9, <2>1 DEF IsInjective
<1>11. ASSUME NEW n \in 1..K
       PROVE  /\ workspace[paths[n]].lines # <<>> =>
                   Len(fit[n].lines) = Most(fit[n].end - fit[n].start + 1, 0)
              /\ ~fit[n].seed => \A m \in DOMAIN seeds : m < n /\ fit[m] = seeds[m]
              /\ \/ fit[n].lines = SubSeq(workspace[paths[n]].lines, fit[n].start,
                                            Least(fit[n].end, Len(workspace[paths[n]].lines)))
                 \/ /\ n = K /\ done.cut /\ Len(fit[n].lines) = 1
                    /\ fit[n].lines[1] < workspace[paths[n]].lines[fit[n].start]
  <2>1. workspace[paths[n]].lines # <<>> =>
          Len(fit[n].lines) = Most(fit[n].end - fit[n].start + 1, 0)
    BY <1>8, <1>9 DEF Lines, InRange
  <2>2. ASSUME ~fit[n].seed, NEW m \in DOMAIN seeds PROVE m < n /\ fit[m] = seeds[m]
    <3>1. n \in 1..(S + R) /\ n <= K
      BY <1>1, <1>5, <1>6
    <3>2. ~(n <= S)
      <4>1. all[n].seed # TRUE
        BY <1>8, <2>2
      <4> QED
        BY <1>2, <3>1, <4>1
    <3>3. m \in 1..S
      BY <1>1
    <3>4. m < n /\ m \in 1..K /\ m < K
      BY <1>1, <1>5, <3>1, <3>2, <3>3
    <3> QED
      BY <1>1, <1>8, <3>3, <3>4
  <2>3. \/ fit[n].lines = SubSeq(workspace[paths[n]].lines, fit[n].start,
                                   Least(fit[n].end, Len(workspace[paths[n]].lines)))
        \/ /\ n = K /\ done.cut /\ Len(fit[n].lines) = 1
           /\ fit[n].lines[1] < workspace[paths[n]].lines[fit[n].start]
    BY <1>8, <1>9 DEF ShowsPart, Excerpt, Lines
  <2> QED
    BY <2>1, <2>2, <2>3
<1> USE DEF fit, K
<1>12. ~done.cut => Len(fit) = Len(seeds) + Len(related)
  BY <1>6 DEF S, R
<1> QED
  BY <1>5, <1>7, <1>10, <1>11, <1>12 DEF Faithful, paths

LEMMA ExpandIsFaithful ==
  ASSUME workspace \in Workspaces, HaveSeeds, Walked, AreShown(seeds, TRUE), Expand
  PROVE  Faithful(workspace, seeds, Len(Related), fitted', truncated')
<1>1. pc = "rank"
  BY DEF Expand
<1>2. /\ Related \in Seq(Files) /\ OnlyOnce(Related)
      /\ \A n \in DOMAIN Related : /\ Related[n] \in Files \ SeedPaths
                                   /\ Readable(Related[n]) /\ Lines(Related[n]) # <<>>
  BY <1>1, RelatedFiles
<1>3. PICK symbol :
        /\ \A f \in ToSet(Related) : symbol[f] \in workspace[f].symbols \cup {<<>>}
        /\ fitted' = Fit(seeds \o [n \in DOMAIN Related |->
                                     RelatedSnippet(Related[n], symbol[Related[n]])]).fitted
        /\ truncated' = Fit(seeds \o [n \in DOMAIN Related |->
                                        RelatedSnippet(Related[n], symbol[Related[n]])]).cut
  BY DEF Expand
<1> DEFINE list == Related
           related == [n \in DOMAIN list |-> RelatedSnippet(list[n], symbol[list[n]])]
<1>4. ASSUME NEW n \in DOMAIN list
      PROVE  /\ Shows(RelatedSnippet(list[n], symbol[list[n]]))
             /\ RelatedSnippet(list[n], symbol[list[n]]).path = list[n]
             /\ RelatedSnippet(list[n], symbol[list[n]]).seed = FALSE
  <2> DEFINE f == list[n]
             s == symbol[f]
  <2>1. f \in ToSet(Related)
    BY DEF ToSet
  <2>2. f \in Files /\ Readable(f) /\ Lines(f) # <<>> /\ s \in workspace[f].symbols \cup {<<>>}
    BY <1>2, <1>3, <2>1
  <2> HIDE DEF f, s
  <2>3. /\ Shows(RelatedSnippet(f, s))
        /\ RelatedSnippet(f, s).path = f /\ RelatedSnippet(f, s).seed = FALSE
    BY <2>2, RelatedShows, Zenon
  <2> QED
    BY <2>3 DEF f, s
<1> HIDE DEF list
<1>5. StandsFor(related, list, FALSE)
  BY <1>4 DEF StandsFor
<1>6. AreShown(related, FALSE)
  BY <1>2, <1>5, ShownOf DEF list
<1>7. \A n \in DOMAIN related : related[n].path \notin SeedPaths
  BY <1>2, <1>4 DEF list
<1> DEFINE done == Fit(seeds \o related)
<1>8. fitted' = done.fitted /\ truncated' = done.cut
  BY <1>3 DEF list
<1>9. Len(related) = Len(Related)
  <2>1. Len(list) \in Nat /\ DOMAIN list = 1..Len(list)
    BY <1>2 DEF list
  <2>2. DOMAIN related = 1..Len(list) /\ related \in Seq(Snippets)
    BY <1>6, <2>1 DEF AreShown
  <2> HIDE DEF related
  <2>3. Len(related) = Len(list)
    BY <2>1, <2>2
  <2> QED
    BY <2>3 DEF list
<1> HIDE DEF related
<1>10. Faithful(workspace, seeds, Len(related), done.fitted, done.cut)
  <2> HIDE DEF done
  <2>1. done = Fit(seeds \o related)
    BY DEF done
  <2> QED
    BY <1>6, <1>7, <2>1, FitIsFaithful
<1> QED
  BY <1>8, <1>9, <1>10

(* The seeds of a request show what they name, and so does its context. *)
ContextInv ==
  /\ pc \in {"index", "rank"} => AreShown(seeds, TRUE)
  /\ ContextIsFaithful

LEMMA ShownStay ==
  ASSUME NEW seed, AreShown(seeds', seed), UNCHANGED workspace
  PROVE  AreShown(seeds, seed)'
BY DEF AreShown, Shows, Lines, Excerpt

LEMMA FaithfulStays ==
  ASSUME pc' = "context" => Faithful(workspace', seeds', Len(Related'), fitted', truncated')
  PROVE  ContextIsFaithful'
<1>1. (ContextIsFaithful <=> (pc = "context" => Faithful(workspace, seeds, Len(Related), fitted, truncated)))'
  BY FaithfulIs, PTL
<1> QED
  BY <1>1

LEMMA InitContext == Init => ContextInv
BY DEF Init, ContextInv, ContextIsFaithful

LEMMA NextContext ==
  ASSUME workspace \in Workspaces, WalkInv, ContextInv, [Next]_vars
  PROVE  ContextInv'
<1>1. CASE SelectSeeds
  <2>1. AreShown(seeds', TRUE) /\ UNCHANGED workspace /\ pc' = "index"
    BY <1>1, SeedsAreShown DEF SelectSeeds, WalkInv, HaveSeeds
  <2>2. AreShown(seeds, TRUE)'
    BY <2>1, ShownStay
  <2>3. ContextIsFaithful'
    BY <2>1 DEF ContextIsFaithful
  <2> QED
    BY <2>2, <2>3 DEF ContextInv
<1>2. CASE FindIndex \/ BuildIndex \/ Visit
  <2>1. /\ pc \in {"index", "rank"} /\ pc' = "rank" /\ UNCHANGED <<workspace, seeds>>
    BY <1>2 DEF FindIndex, BuildIndex, Walk, Visit
  <2>2. AreShown(seeds, TRUE)'
    BY <2>1, ShownStay DEF ContextInv
  <2>3. ContextIsFaithful'
    BY <2>1 DEF ContextIsFaithful
  <2> QED
    BY <2>2, <2>3 DEF ContextInv
<1>3. CASE Expand
  <2>1. pc = "rank" /\ pc' = "context" /\ UNCHANGED <<workspace, candidates, seeds>>
    BY <1>3 DEF Expand
  <2>2. Faithful(workspace, seeds, Len(Related), fitted', truncated')
    BY <1>3, <2>1, ExpandIsFaithful DEF ContextInv, WalkInv
  <2>3. ContextIsFaithful'
    BY <2>1, <2>2, RelatedIsThatOf, FaithfulStays
  <2> QED
    BY <2>1, <2>3 DEF ContextInv
<1>4. CASE SelectionFails \/ LoadRaises \/ SaveFails \/ EditAndAsk
  BY <1>4 DEF SelectionFails, LoadRaises, SaveFails, EditAndAsk, ContextInv, ContextIsFaithful
<1>5. CASE UNCHANGED <<pc, workspace, requestVars>>
  <2>1. UNCHANGED <<pc, workspace, seeds, candidates, fitted, truncated>>
    BY <1>5 DEF requestVars
  <2>2. pc \in {"index", "rank"} => AreShown(seeds, TRUE)'
    BY <2>1, ShownStay DEF ContextInv
  <2>3. ContextIsFaithful'
    BY <2>1, RelatedIsThatOf, FaithfulIs, FaithfulStays DEF ContextInv
  <2> QED
    BY <2>1, <2>2, <2>3 DEF ContextInv
<1> QED
  BY <1>1, <1>2, <1>3, <1>4, <1>5 DEF Next, vars, Damage

-----------------------------------------------------------------------------
(* Theorems                                                                *)

(* RepositoryIndexService.get() and RepositoryIndexStore.load(): whatever  *)
(* was edited, remembered, restarted or damaged before, the index of a     *)
(* request is the one that build() makes of the present sources, without   *)
(* its edges if a cache file has lost them.                                *)
THEOREM IndexIsThatOfTheSources == Spec => []IndexIsCurrent
<1>1. IInv => IndexIsCurrent
  BY DEF IInv
<1> QED
  BY <1>1, Invariance, PTL

(* RepositoryContextRetriever._rank_neighbors(): for every import graph,   *)
(* every list of seeds and every depth, the walk records exactly the files *)
(* within that many imports of a seed, each as the best (score, distance   *)
(* and reason) that any path of that length makes of it.                   *)
THEOREM NeighboursAreExact == Spec => []CandidatesAreNeighbours
<1>1. WalkInv => CandidatesAreNeighbours
  BY WalkedIsExact DEF WalkInv
<1> QED
  BY <1>1, WalkInvariance, PTL

(* expand() and _fit_budget(): for every budget, every bound on related    *)
(* files and every workspace, the prompt keeps within the budget, gives    *)
(* the seeds precedence, repeats no file, and every snippet shows the      *)
(* lines of the present file that its range names.                         *)
THEOREM ContextsAreFaithful == Spec => []ContextIsFaithful
<1>1. IInv => workspace \in Workspaces
  BY DEF IInv, CachesAreGenuine
<1>2. workspace \in Workspaces /\ WalkInv /\ ContextInv /\ [Next]_vars => ContextInv'
  BY NextContext
<1>3. ContextInv => ContextIsFaithful
  BY DEF ContextInv
<1> QED
  BY <1>1, <1>2, <1>3, InitContext, Invariance, WalkInvariance, PTL DEF Spec
=============================================================================
