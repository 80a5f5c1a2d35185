------------------------- MODULE PatchApprovalProofs -------------------------
(***************************************************************************)
(* Theorems about EditBackends and PatchApproval for all proposals, files  *)
(* and limits: what an edit may change, what the engine is told about it,  *)
(* and that the checkout gets the patch that was approved.                 *)
(***************************************************************************)
EXTENDS PatchApproval, TLAPS, BoundedRecursion, FiniteSetTheorems, SequenceTheorems

-----------------------------------------------------------------------------
(* Sequences and paths                                                     *)

LEMMA SequenceHas ==
  ASSUME NEW s, IsSequence(s)
  PROVE  Len(s) \in Nat /\ DOMAIN s = 1..Len(s)
BY DEF IsSequence

LEMMA SequenceOf ==
  ASSUME NEW T, NEW s \in Seq(T)
  PROVE  IsSequence(s)
<1> DEFINE E == {s[i] : i \in DOMAIN s}
<1>1. Len(s) \in Nat /\ DOMAIN s = 1..Len(s) /\ s = [i \in 1..Len(s) |-> s[i]]
  OBVIOUS
<1>2. s \in [1..Len(s) -> E]
  BY <1>1
<1> HIDE DEF E
<1>3. s \in Seq(E)
  BY <1>1, <1>2, SeqDef
<1> QED
  BY <1>3 DEF IsSequence, E

LEMMA FewerAllowed ==
  ASSUME NEW A, NEW B, PathsAllowed(A), B \subseteq A
  PROVE  PathsAllowed(B)
<1>1. A \subseteq Path /\ IsFiniteSet(Path)
  BY PolicyAssumption DEF PathsAllowed, Allowed
<1>2. IsFiniteSet(A)
  BY <1>1, FS_Subset
<1>3. IsFiniteSet(B) /\ Cardinality(B) <= Cardinality(A)
  BY <1>2, FS_Subset
<1>4. Cardinality(A) \in Nat /\ Cardinality(B) \in Nat
  BY <1>2, <1>3, FS_CardinalityType
<1> QED
  BY <1>3, <1>4, PolicyAssumption DEF PathsAllowed

-----------------------------------------------------------------------------
(* git apply changes the files that the patch names.                       *)

(* One block, after those before it. *)
AppliedTo(files, patch, done, n) ==
  LET block == patch.blocks[n]
  IN  IF done.ok /\ done.files[block.path] = block.from
      THEN [files |-> [done.files EXCEPT ![block.path] = block.to], ok |-> TRUE]
      ELSE [files |-> files, ok |-> FALSE]

LEMMA GitApplyUnfolds ==
  ASSUME NEW files, files = [f \in Path |-> files[f]],
         NEW patch, IsSequence(patch.blocks)
  PROVE  \E after : /\ after[0] = [files |-> files, ok |-> ~patch.cut]
                    /\ \A n \in 1..Len(patch.blocks) :
                         after[n] = AppliedTo(files, patch, after[n - 1], n)
                    /\ GitApply(files, patch) = after[Len(patch.blocks)]
<1> DEFINE blocks == patch.blocks
           N == Len(blocks)
           V == {files[f] : f \in Path} \cup {blocks[n].to : n \in DOMAIN blocks}
           F == [Path -> V]
           S == [files : F, ok : BOOLEAN]
           base == [files |-> files, ok |-> ~patch.cut]
           Next1(done, n) == AppliedTo(files, patch, done, n)
           Body(h, n) == IF n = 0 THEN base ELSE Next1(h[n - 1], n)
           step == [n \in 1..N |-> [s \in S |-> Next1(s, n)]]
           after == CHOOSE h : h = [n \in 0..N |-> Body(h, n)]
<1>1. N \in Nat /\ DOMAIN blocks = 1..N
  BY SequenceHas
<1>2. GitApply(files, patch) = after[N]
  BY DEF GitApply, AppliedTo
<1>3. files \in F /\ base \in S
  OBVIOUS
<1>4. \A n \in 1..N : blocks[n].to \in V
  BY <1>1
<1> HIDE DEF N, base
<1>5. \A n \in 1..N : \A s \in S : Next1(s, n) \in S
  <2> TAKE n \in 1..N
  <2> TAKE s \in S
  <2>1. s.files \in F /\ blocks[n].to \in V
    BY <1>4
  <2> HIDE DEF V
  <2>2. [s.files EXCEPT ![blocks[n].path] = blocks[n].to] \in F
    BY <2>1
  <2> HIDE DEF F
  <2> QED
    BY <1>3, <2>2 DEF AppliedTo
<1> HIDE DEF Next1, S, blocks
<1>6. step \in Steps(N, S)
  BY <1>5 DEF Steps
<1>7. IsDefined(N, S, base, step)
  <2> HIDE DEF step
  <2> QED
    BY <1>1, <1>3, <1>6, RecursiveFunction
<1>8. PICK g \in [0..N -> S] : g[0] = base /\ \A n \in 1..N : g[n] = step[n][g[n - 1]]
  BY <1>7 DEF IsDefined
<1>9. \A n \in 0..N : g[n] = Body(g, n)
  <2> TAKE n \in 0..N
  <2>1. CASE n = 0
    BY <1>8, <2>1
  <2>2. CASE n # 0
    <3>1. n \in 1..N /\ n - 1 \in 0..N
      BY <1>1, <2>2
    <3>2. g[n - 1] \in S
      BY <1>8, <3>1
    <3> QED
      BY <1>8, <2>2, <3>1, <3>2
  <2> QED
    BY <2>1, <2>2
<1> HIDE DEF Body
<1>10. g = [n \in 0..N |-> Body(g, n)]
  BY <1>8, <1>9
<1>11. after = [n \in 0..N |-> Body(after, n)]
  BY <1>10
<1> HIDE DEF after
<1>12. 0 \in 0..N /\ \A n \in 1..N : n \in 0..N /\ n # 0
  BY <1>1
<1>13. after[0] = base /\ \A n \in 1..N : after[n] = Next1(after[n - 1], n)
  BY <1>11, <1>12 DEF Body
<1> QED
  BY <1>2, <1>13 DEF Next1, N, base, blocks

LEMMA GitApplyTouches ==
  ASSUME NEW files, files = [f \in Path |-> files[f]],
         NEW patch, IsSequence(patch.blocks)
  PROVE  LET applied == GitApply(files, patch).files
         IN  /\ applied = [f \in Path |-> applied[f]]
             /\ \A f \in Path : (\A n \in DOMAIN patch.blocks : patch.blocks[n].path # f) =>
                  applied[f] = files[f]
<1> DEFINE blocks == patch.blocks
           N == Len(blocks)
           V == {files[f] : f \in Path} \cup {blocks[n].to : n \in DOMAIN blocks}
           F == [Path -> V]
<1>1. N \in Nat /\ DOMAIN blocks = 1..N
  BY SequenceHas
<1>2. PICK after : /\ after[0] = [files |-> files, ok |-> ~patch.cut]
                   /\ \A n \in 1..N : after[n] = AppliedTo(files, patch, after[n - 1], n)
                   /\ GitApply(files, patch) = after[N]
  BY GitApplyUnfolds
<1>3. files \in F
  OBVIOUS
<1>4. \A n \in 1..N : blocks[n].to \in V
  BY <1>1
<1> HIDE DEF N, blocks
<1> DEFINE Kept(done) == /\ done.files \in F
                         /\ \A f \in Path : (\A n \in 1..N : blocks[n].path # f) =>
                              done.files[f] = files[f]
           P == {n \in 0..N : Kept(after[n])}
<1>5. 0 \in P
  BY <1>1, <1>2, <1>3
<1>6. ASSUME NEW n \in 1..N, n - 1 \in P PROVE n \in P
  <2>1. n \in 0..N
    BY <1>1
  <2>2. after[n] = AppliedTo(files, patch, after[n - 1], n)
    BY <1>2, Zenon
  <2>3. Kept(after[n - 1])
    BY <1>6
  <2>4. CASE after[n] = [files |-> files, ok |-> FALSE]
    BY <1>3, <2>1, <2>4
  <2>5. CASE after[n] = [files |-> [after[n - 1].files EXCEPT ![blocks[n].path] = blocks[n].to], ok |-> TRUE]
    <3> DEFINE before == after[n - 1].files
    <3>1. before \in F /\ blocks[n].to \in V
      BY <1>4, <2>3
    <3>2. after[n].files = [before EXCEPT ![blocks[n].path] = blocks[n].to]
      BY <2>5
    <3>3. after[n].files \in F
      <4> HIDE DEF V, before
      <4> QED
        BY <3>1, <3>2
    <3>4. \A f \in Path : (\A m \in 1..N : blocks[m].path # f) => after[n].files[f] = files[f]
      <4> TAKE f \in Path
      <4> HAVE \A m \in 1..N : blocks[m].path # f
      <4>1. after[n].files[f] = before[f]
        <5> HIDE DEF before
        <5> QED
          BY <3>1, <3>2
      <4> QED
        BY <2>3, <4>1
    <3> QED
      BY <2>1, <3>3, <3>4
  <2> QED
    BY <2>2, <2>4, <2>5 DEF AppliedTo, blocks
<1>7. N \in 0..N /\ \A n \in 0..N : n \in P
  <2> HIDE DEF P
  <2> QED
    BY <1>1, <1>5, <1>6, BoundedInduction
<1>8. Kept(after[N])
  BY <1>7
<1> QED
  BY <1>1, <1>2, <1>8 DEF blocks

-----------------------------------------------------------------------------
(* Cleaning a patch twice is cleaning it once.                             *)

Settled(block) == Normalized(LinesOf(block)) = <<block>>
Aligned(block) == block.kind = "change" => block.header = block.path

LEMMA ReadTwice ==
  ASSUME NEW text
  PROVE  Read(Read(text)) = Read(text)
<1>1. DOMAIN Read(text) = DOMAIN text /\ \A i \in DOMAIN text : Read(text)[i] # "crlf"
  BY DEF Read
<1>2. Read(Read(text)) = [i \in DOMAIN text |-> Read(text)[i]]
  BY <1>1 DEF Read
<1>3. Read(text) = [i \in DOMAIN text |-> Read(text)[i]]
  BY DEF Read
<1> QED
  BY <1>2, <1>3

LEMMA ChangeSettles ==
  ASSUME NEW path, NEW from, NEW to, NEW lines, from = Read(from), to = Read(to)
  PROVE  LET change == FileChange(path, path, from, to, lines)
         IN  Settled(change) /\ Aligned(change)
<1> DEFINE change == FileChange(path, path, from, to, lines)
<1>1. /\ change.kind = "change" /\ change.header = path /\ change.path = path
      /\ change.from = from /\ change.to = to /\ change.lines = lines
  BY DEF FileChange
<1>2. LinesOf(change) = FileChange(path, path, Read(from), Read(to), lines)
  BY <1>1 DEF LinesOf
<1>3. LinesOf(change) = change
  BY <1>2
<1>4. Normalized(change) = <<change>>
  BY <1>1 DEF Normalized
<1> QED
  BY <1>1, <1>3, <1>4 DEF Settled, Aligned

LEMMA OthersSettle ==
  ASSUME NEW block, block.kind # "change"
  PROVE  Settled(block) /\ Aligned(block) /\ Normalized(LinesOf(block)) = <<block>>
BY DEF Settled, Aligned, LinesOf, Normalized

(* The parts of a cleaned block are one or two, and settled. *)
AreSettled(parts) ==
  /\ parts \in Seq({parts[k] : k \in DOMAIN parts})
  /\ \A k \in DOMAIN parts : Settled(parts[k]) /\ Aligned(parts[k])

LEMMA OneOrTwoSettled ==
  ASSUME NEW a, NEW b, Settled(a), Aligned(a), Settled(b), Aligned(b)
  PROVE  AreSettled(<<a>>) /\ AreSettled(<<a, b>>)
<1>1. AreSettled(<<a>>)
  <2>1. {<<a>>[k] : k \in DOMAIN <<a>>} = {a}
    OBVIOUS
  <2> QED
    BY <2>1 DEF AreSettled
<1>2. AreSettled(<<a, b>>)
  <2>1. {<<a, b>>[k] : k \in DOMAIN <<a, b>>} = {a, b}
    OBVIOUS
  <2> QED
    BY <2>1 DEF AreSettled
<1> QED
  BY <1>1, <1>2

LEMMA PartsSettle ==
  ASSUME NEW block
  PROVE  AreSettled(Normalized(LinesOf(block)))
<1> DEFINE parts == Normalized(LinesOf(block))
           from == Read(block.from)
           to == Read(block.to)
           lines == block.lines
<1>1. CASE block.kind # "change"
  <2>1. parts = <<block>> /\ Settled(block) /\ Aligned(block)
    BY <1>1, OthersSettle
  <2> HIDE DEF parts
  <2>2. AreSettled(parts)
    BY <2>1, OneOrTwoSettled
  <2> QED
    BY <2>2 DEF parts
<1>2. CASE block.kind = "change"
  <2> DEFINE read == FileChange(block.header, block.path, from, to, lines)
             bare == [header |-> block.header, path |-> NoPath, kind |-> "bare",
                      from |-> from, to |-> to, lines |-> 0]
             change == FileChange(block.path, block.path, from, to, lines)
  <2>1. LinesOf(block) = read
    BY <1>2 DEF LinesOf
  <2>2. from = Read(from) /\ to = Read(to)
    BY ReadTwice
  <2> HIDE DEF from, to, lines
  <2>3. Settled(change) /\ Aligned(change)
    BY <2>2, ChangeSettles
  <2>4. Settled(bare) /\ Aligned(bare)
    <3>1. bare.kind # "change"
      OBVIOUS
    <3> HIDE DEF bare
    <3> QED
      BY <3>1, OthersSettle
  <2>5. Normalized(read) = IF block.header = block.path THEN <<read>>
                           ELSE IF block.header = NoPath THEN <<change>> ELSE <<bare, change>>
    BY DEF Normalized, FileChange
  <2>6. block.header = block.path => read = change
    OBVIOUS
  <2> HIDE DEF read, bare, change
  <2>7. parts = <<change>> \/ parts = <<bare, change>>
    BY <2>1, <2>5, <2>6
  <2> HIDE DEF parts
  <2>8. AreSettled(parts)
    BY <2>3, <2>4, <2>7, OneOrTwoSettled
  <2> QED
    BY <2>8 DEF parts
<1> QED
  BY <1>1, <1>2

Parts(patch, n) == Normalized(LinesOf(patch.blocks[n]))
AllParts(patch) ==
  UNION {{Parts(patch, n)[k] : k \in DOMAIN Parts(patch, n)} : n \in DOMAIN patch.blocks}

LEMMA PartsAreSettled ==
  ASSUME NEW patch
  PROVE  /\ \A n \in DOMAIN patch.blocks : Parts(patch, n) \in Seq(AllParts(patch))
         /\ \A block \in AllParts(patch) : Settled(block) /\ Aligned(block)
<1>1. \A n : AreSettled(Parts(patch, n))
  BY PartsSettle DEF Parts
<1> DEFINE E(n) == {Parts(patch, n)[k] : k \in DOMAIN Parts(patch, n)}
<1>2. \A n : Parts(patch, n) \in Seq(E(n))
  BY <1>1 DEF AreSettled
<1>3. \A n \in DOMAIN patch.blocks : E(n) \subseteq AllParts(patch)
  BY DEF AllParts
<1>4. ASSUME NEW n \in DOMAIN patch.blocks PROVE Parts(patch, n) \in Seq(AllParts(patch))
  <2> HIDE DEF E
  <2> QED
    BY <1>2, <1>3, SeqMonotonic
<1>5. \A block \in AllParts(patch) : Settled(block) /\ Aligned(block)
  BY <1>1 DEF AllParts, AreSettled
<1> QED
  BY <1>4, <1>5

LEMMA CleanUnfolds ==
  ASSUME NEW patch, IsSequence(patch.blocks)
  PROVE  \E h \in [0..Len(patch.blocks) -> Seq(AllParts(patch))] :
           /\ h[0] = <<>>
           /\ \A n \in 1..Len(patch.blocks) : h[n] = h[n - 1] \o Parts(patch, n)
           /\ Clean(patch) = [blocks |-> h[Len(patch.blocks)], blank |-> FALSE,
                              cut |-> patch.cut \/ patch.blank]
<1> DEFINE N == Len(patch.blocks)
           T == AllParts(patch)
           S == Seq(T)
           Body(h, n) == IF n = 0 THEN <<>> ELSE h[n - 1] \o Parts(patch, n)
           step == [n \in 1..N |-> [s \in S |-> s \o Parts(patch, n)]]
           cleaned == CHOOSE h : h = [n \in 0..N |-> Body(h, n)]
<1>1. N \in Nat /\ DOMAIN patch.blocks = 1..N
  BY SequenceHas
<1>2. \A n \in 1..N : Parts(patch, n) \in S
  BY <1>1, PartsAreSettled
<1>3. Clean(patch) = [blocks |-> cleaned[N], blank |-> FALSE, cut |-> patch.cut \/ patch.blank]
  BY DEF Clean, Parts
<1> HIDE DEF N, T
<1>4. <<>> \in S /\ step \in Steps(N, S)
  BY <1>2 DEF Steps
<1>5. IsDefined(N, S, <<>>, step)
  <2> HIDE DEF S, step
  <2> QED
    BY <1>1, <1>4, RecursiveFunction
<1>6. PICK g \in [0..N -> S] : g[0] = <<>> /\ \A n \in 1..N : g[n] = step[n][g[n - 1]]
  BY <1>5 DEF IsDefined
<1>7. \A n \in 0..N : g[n] = Body(g, n)
  <2> TAKE n \in 0..N
  <2>1. CASE n = 0
    BY <1>6, <2>1
  <2>2. CASE n # 0
    <3>1. n \in 1..N /\ n - 1 \in 0..N
      BY <1>1, <2>2
    <3>2. g[n - 1] \in S
      BY <1>6, <3>1
    <3> QED
      BY <1>6, <2>2, <3>1, <3>2
  <2> QED
    BY <2>1, <2>2
<1> HIDE DEF Body
<1>8. g = [n \in 0..N |-> Body(g, n)]
  BY <1>6, <1>7
<1>9. cleaned = [n \in 0..N |-> Body(cleaned, n)]
  BY <1>8
<1> HIDE DEF cleaned
<1>10. cleaned[0] = <<>>
  BY <1>1, <1>9 DEF Body
<1>11. \A n \in 1..N : n \in 0..N /\ n # 0
  BY <1>1
<1>12. \A n \in 1..N : cleaned[n] = cleaned[n - 1] \o Parts(patch, n)
  BY <1>9, <1>11 DEF Body
<1> DEFINE P == {n \in 0..N : cleaned[n] \in S}
<1>13. 0 \in P
  BY <1>1, <1>10
<1>14. ASSUME NEW n \in 1..N, n - 1 \in P PROVE n \in P
  <2>1. cleaned[n - 1] \in Seq(T) /\ Parts(patch, n) \in Seq(T)
    BY <1>2, <1>14
  <2>2. cleaned[n - 1] \o Parts(patch, n) \in Seq(T)
    BY <2>1
  <2> QED
    BY <1>11, <1>12, <2>2
<1>15. \A n \in 0..N : n \in P
  <2> HIDE DEF P
  <2> QED
    BY <1>1, <1>13, <1>14, BoundedInduction
<1>16. cleaned \in [0..N -> S]
  BY <1>9, <1>15
<1> HIDE DEF S
<1>17. \E h \in [0..N -> S] :
         /\ h[0] = <<>>
         /\ \A n \in 1..N : h[n] = h[n - 1] \o Parts(patch, n)
         /\ Clean(patch) = [blocks |-> h[N], blank |-> FALSE, cut |-> patch.cut \/ patch.blank]
  BY <1>3, <1>10, <1>12, <1>16, Zenon
<1> QED
  BY <1>17 DEF N, S, T

LEMMA CleanSettles ==
  ASSUME NEW patch, IsSequence(patch.blocks)
  PROVE  /\ IsSequence(Clean(patch).blocks)
         /\ \A n \in DOMAIN Clean(patch).blocks :
              Settled(Clean(patch).blocks[n]) /\ Aligned(Clean(patch).blocks[n])
<1> DEFINE N == Len(patch.blocks)
           T == AllParts(patch)
<1>1. PICK h \in [0..N -> Seq(T)] :
        Clean(patch) = [blocks |-> h[N], blank |-> FALSE, cut |-> patch.cut \/ patch.blank]
  BY CleanUnfolds
<1>2. Clean(patch).blocks = h[N] /\ N \in 0..N
  BY <1>1, SequenceHas
<1>3. Clean(patch).blocks \in Seq(T)
  BY <1>1, <1>2
<1>4. \A block \in T : Settled(block) /\ Aligned(block)
  BY PartsAreSettled
<1> HIDE DEF T
<1> QED
  BY <1>3, <1>4, SequenceOf

LEMMA CleanAgain ==
  ASSUME NEW patch, IsSequence(patch.blocks), \A n \in DOMAIN patch.blocks : Settled(patch.blocks[n])
  PROVE  Clean(patch) = [blocks |-> patch.blocks, blank |-> FALSE, cut |-> patch.cut \/ patch.blank]
<1> DEFINE N == Len(patch.blocks)
           T == AllParts(patch)
           blocks == patch.blocks
<1>1. PICK h \in [0..N -> Seq(T)] :
        /\ h[0] = <<>>
        /\ \A n \in 1..N : h[n] = h[n - 1] \o Parts(patch, n)
        /\ Clean(patch) = [blocks |-> h[N], blank |-> FALSE, cut |-> patch.cut \/ patch.blank]
  BY CleanUnfolds
<1>2. N \in Nat /\ DOMAIN blocks = 1..N
  BY SequenceHas
<1>3. \A n \in 1..N : Parts(patch, n) = <<blocks[n]>>
  BY <1>2 DEF Parts, Settled
<1>4. \A n \in 0..N : h[n] \in Seq(T)
  BY <1>1
<1> HIDE DEF N, T, blocks
<1> DEFINE P == {n \in 0..N : Len(h[n]) = n /\ \A k \in 1..n : h[n][k] = blocks[k]}
<1>5. 0 \in P
  BY <1>1, <1>2
<1>6. ASSUME NEW n \in 1..N, n - 1 \in P PROVE n \in P
  <2>1. /\ h[n - 1] \in Seq(T) /\ Len(h[n - 1]) = n - 1
        /\ \A k \in 1..(n - 1) : h[n - 1][k] = blocks[k]
    BY <1>2, <1>4, <1>6
  <2>2. n \in 0..N /\ h[n] = h[n - 1] \o <<blocks[n]>>
    <3>1. n \in 0..N
      BY <1>2
    <3>2. h[n] = h[n - 1] \o Parts(patch, n)
      BY <1>1, Zenon
    <3> QED
      BY <1>3, <3>1, <3>2
  <2> DEFINE s == h[n - 1]
             t == <<blocks[n]>>
             U == T \cup {blocks[n]}
  <2>3. s \in Seq(U) /\ t \in Seq(U) /\ Len(t) = 1 /\ t[1] = blocks[n]
    BY <2>1
  <2>4. h[n] = s \o t
    BY <2>2
  <2> HIDE DEF s, t, U
  <2>5. /\ Len(s \o t) = Len(s) + Len(t)
        /\ \A k \in 1..(Len(s) + Len(t)) : (s \o t)[k] = IF k <= Len(s) THEN s[k] ELSE t[k - Len(s)]
    BY <2>3, ConcatProperties
  <2>6. Len(s) = n - 1 /\ \A k \in 1..(n - 1) : s[k] = blocks[k]
    BY <2>1 DEF s
  <2>7. Len(h[n]) = n
    BY <1>2, <2>3, <2>4, <2>5, <2>6
  <2>8. ASSUME NEW k \in 1..n PROVE h[n][k] = blocks[k]
    <3>1. CASE k = n
      <4>1. ~(k <= Len(s)) /\ k - Len(s) = 1 /\ k \in 1..(Len(s) + Len(t))
        BY <1>2, <2>3, <2>6, <3>1
      <4> QED
        BY <2>3, <2>4, <2>5, <3>1, <4>1
    <3>2. CASE k # n
      <4>1. k \in 1..(n - 1) /\ k <= Len(s) /\ k \in 1..(Len(s) + Len(t))
        BY <1>2, <2>3, <2>6, <3>2
      <4> QED
        BY <2>4, <2>5, <2>6, <4>1
    <3> QED
      BY <3>1, <3>2
  <2> QED
    BY <2>2, <2>7, <2>8
<1>7. \A n \in 0..N : n \in P
  <2> HIDE DEF P
  <2> QED
    BY <1>2, <1>5, <1>6, BoundedInduction
<1>8. h[N] \in Seq(T) /\ Len(h[N]) = N /\ \A k \in 1..N : h[N][k] = blocks[k]
  BY <1>2, <1>4, <1>7
<1>9. blocks \in Seq({blocks[k] : k \in DOMAIN blocks})
  BY DEF blocks, IsSequence
<1>10. h[N] = blocks
  <2>1. h[N] = [k \in 1..N |-> blocks[k]]
    BY <1>8
  <2>2. blocks = [k \in 1..N |-> blocks[k]]
    BY <1>2, <1>9
  <2> QED
    BY <2>1, <2>2
<1> QED
  BY <1>1, <1>10 DEF blocks

LEMMA CleanTwice ==
  ASSUME NEW patch, IsSequence(patch.blocks)
  PROVE  Clean(Clean(patch)) = Clean(patch)
<1> DEFINE once == Clean(patch)
           cut == patch.cut \/ patch.blank
<1>1. once = [blocks |-> once.blocks, blank |-> FALSE, cut |-> cut]
  BY CleanUnfolds
<1>2. IsSequence(once.blocks) /\ \A n \in DOMAIN once.blocks : Settled(once.blocks[n])
  BY CleanSettles
<1> HIDE DEF once, cut
<1>3. Clean(once) = [blocks |-> once.blocks, blank |-> FALSE, cut |-> once.cut \/ once.blank]
  BY <1>2, CleanAgain
<1>4. once.cut = cut /\ once.blank = FALSE
  BY <1>1
<1>5. (once.cut \/ once.blank) = cut
  BY <1>4 DEF cut
<1>6. Clean(once) = once
  BY <1>1, <1>3, <1>5
<1> QED
  BY <1>6 DEF once

-----------------------------------------------------------------------------
(* What an accepted patch changes.                                         *)

Files(files) == files = [f \in Path |-> files[f]]
Changes(files, from) == {f \in Path : files[f] # from[f]}

(* A git apply that is killed changes files of its patch only. *)
LEMMA KilledChanges ==
  ASSUME NEW files, NEW patch, NEW left \in ApplyKilled(files, patch)
  PROVE  /\ Files(left)
         /\ \A f \in Path : left[f] # files[f] => f \in PatchPaths(patch)
         /\ \A f \in Path : left[f] \in {files[f], GitApply(files, patch).files[f], Unreadable}
<1> DEFINE target == GitApply(files, patch).files
<1>1. PICK written \in SUBSET PatchPaths(patch), removed \in SUBSET PatchPaths(patch) :
        left = [f \in Path |-> IF f \in written THEN target[f]
                               ELSE IF f \in removed THEN Unreadable ELSE files[f]]
  <2>1. ApplyKilled(files, patch) =
          {[f \in Path |-> IF f \in written THEN target[f]
                           ELSE IF f \in removed THEN Unreadable ELSE files[f]] :
             written \in SUBSET PatchPaths(patch), removed \in SUBSET PatchPaths(patch)}
    BY DEF ApplyKilled
  <2> HIDE DEF target
  <2> QED
    BY <2>1
<1> HIDE DEF target
<1>2. \A f \in Path : /\ left[f] # files[f] => f \in PatchPaths(patch)
                      /\ left[f] \in {files[f], target[f], Unreadable}
  BY <1>1
<1> QED
  BY <1>1, <1>2 DEF Files, target

LEMMA AcceptedChanges ==
  ASSUME NEW files, Files(files), NEW patch, IsSequence(patch.blocks), Accepted(files, patch)
  PROVE  /\ PathsAllowed(PatchPaths(Clean(patch)))
         /\ Files(GitApply(files, Clean(patch)).files)
         /\ Changes(GitApply(files, Clean(patch)).files, files) \subseteq PatchPaths(Clean(patch))
<1> DEFINE cleaned == Clean(patch)
<1>1. ValidFormat(cleaned) /\ PathsAllowed(PatchPaths(cleaned))
  BY DEF Accepted, ValidPolicy
<1>2. IsSequence(cleaned.blocks) /\ \A n \in DOMAIN cleaned.blocks : Aligned(cleaned.blocks[n])
  BY CleanSettles
<1> HIDE DEF cleaned
<1>3. \A n \in DOMAIN cleaned.blocks : cleaned.blocks[n].path \in PatchPaths(cleaned)
  <2> TAKE n \in DOMAIN cleaned.blocks
  <2>1. cleaned.blocks[n].kind = "change" /\ cleaned.blocks[n].header \in Safe
    BY <1>1 DEF ValidFormat
  <2>2. cleaned.blocks[n].header = cleaned.blocks[n].path
    BY <1>2, <2>1 DEF Aligned
  <2>3. cleaned.blocks[n].header # NoPath
    BY <2>1, PolicyAssumption, PatchAssumption
  <2> QED
    BY <2>2, <2>3 DEF PatchPaths
<1>4. DOMAIN files = Path /\ files = [f \in Path |-> files[f]]
  BY DEF Files
<1>5. LET applied == GitApply(files, cleaned).files
      IN  /\ Files(applied)
          /\ \A f \in Path : (\A n \in DOMAIN cleaned.blocks : cleaned.blocks[n].path # f) =>
               applied[f] = files[f]
  BY <1>2, <1>4, GitApplyTouches DEF Files
<1>6. Changes(GitApply(files, cleaned).files, files) \subseteq PatchPaths(cleaned)
  BY <1>3, <1>5 DEF Changes
<1> QED
  BY <1>1, <1>5, <1>6 DEF cleaned

LEMMA NothingIsAllowed == PathsAllowed({})
<1>1. Cardinality({}) = 0
  BY FS_EmptySet
<1> QED
  BY <1>1, PolicyAssumption DEF PathsAllowed

-----------------------------------------------------------------------------
(* The edit of the worktree                                                *)

(* The files changed that were there before: the tests only add others.    *)
Rewritten(files) == {f \in Changes(files, Base) : Base[f] # Unreadable}

(* While files are written or the diff is taken, only allowed files differ *)
(* from the base, those still to be written among them; a result is there  *)
(* from the end of the edit on.                                            *)
BackendInv ==
  /\ proposal \in Proposals
  /\ Files(tree)
  /\ pc = "apply" => tree = Base /\ result = NoResult
  /\ pc = "write" => /\ result = NoResult /\ proposal.mode = "replacement"
                     /\ unwritten \subseteq EditPaths(proposal.edits)
                     /\ PathsAllowed(EditPaths(proposal.edits))
                     /\ Changes(tree, Base) \subseteq EditPaths(proposal.edits)
  /\ pc = "diff" => result = NoResult /\ PathsAllowed(Changes(tree, Base))
  /\ pc = "refused" => PathsAllowed(Changes(tree, Base))
  /\ pc \in {"edited", "exported"} => /\ result # NoResult /\ result.touched
                                      /\ PathsAllowed(Rewritten(tree))
  /\ pc = "exported" => Diff(Base, tree).blocks # <<>>
  /\ ResultsMatchEngine

LEMMA ProposalHas ==
  ASSUME proposal \in Proposals
  PROVE  /\ proposal.mode \in {"patch", "replacement"}
         /\ proposal.mode = "patch" => IsSequence(proposal.patch.blocks)
BY BackendAssumption DEF Proposals

(* The engine knows every result an edit ends with. *)
LEMMA FinishedResult ==
  ASSUME NEW stage, NEW lost \in BOOLEAN, proposal.mode \in {"patch", "replacement"},
         Finish(stage, lost),
         stage \in {"parse", "check", "apply", "diff", "ok"},
         lost => proposal.mode = "replacement" /\ stage = "apply",
         stage = "parse" => proposal.mode = "replacement",
         stage = "check" => proposal.mode = "patch"
  PROVE  /\ result' # NoResult /\ result' \in Engine!ApplyResult
         /\ result'.touched <=> stage \in {"diff", "ok"}
         /\ result'.stage = stage /\ result'.lost = lost
         /\ pc' = IF stage = "ok" THEN "edited" ELSE "refused"
<1> DEFINE touched == stage \in {"diff", "ok"}
           r == [mode |-> proposal.mode, stage |-> stage, lost |-> lost, touched |-> touched]
<1>1. result' = r /\ pc' = IF stage = "ok" THEN "edited" ELSE "refused"
  BY DEF Finish
<1>2. touched \in BOOLEAN /\ (touched <=> stage \in {"diff", "ok"})
  OBVIOUS
<1> HIDE DEF touched
<1>3. r \in [mode : Engine!Modes, stage : {"parse", "check", "apply", "diff", "ok"},
             lost : BOOLEAN, touched : BOOLEAN]
  BY <1>2 DEF Engine!Modes
<1>4. r.mode = proposal.mode /\ r.stage = stage /\ r.lost = lost /\ r.touched = touched
  OBVIOUS
<1>5. r # NoResult
  <2>1. NoResult.mode = "none"
    BY DEF NoResult
  <2> QED
    BY <1>4, <2>1
<1> HIDE DEF r
<1>6. r \in Engine!ApplyResult
  BY <1>2, <1>3, <1>4 DEF Engine!ApplyResult
<1> QED
  BY <1>1, <1>2, <1>4, <1>5, <1>6

LEMMA BackendInvHolds ==
  ASSUME Init
  PROVE  BackendInv
BY BackendAssumption DEF Init, BackendInit, BackendInv, Files, ResultsMatchEngine

LEMMA BackendInvStep ==
  ASSUME BackendInv, BackendNext
  PROVE  BackendInv'
<1> USE DEF BackendInv
<1>1. proposal' = proposal
  BY DEF BackendNext, ParseFails, PlanFails, PlanEdits, WriteFile, WriteFails, Written,
         CheckFails, ApplyPatch, ApplyExpires, DiffTaken, DiffFails
<1>2. /\ proposal.mode \in {"patch", "replacement"}
      /\ proposal.mode = "patch" => IsSequence(proposal.patch.blocks)
  BY ProposalHas
<1>3. Changes(Base, Base) = {} /\ PathsAllowed({})
  BY NothingIsAllowed DEF Changes
<1>4. ASSUME pc = "apply", tree' = tree, NEW stage, NEW lost \in BOOLEAN, Finish(stage, lost),
             stage \in {"parse", "check", "apply"},
             lost => proposal.mode = "replacement" /\ stage = "apply",
             stage = "parse" => proposal.mode = "replacement",
             stage = "check" => proposal.mode = "patch"
      PROVE  BackendInv'
  <2>1. /\ result' # NoResult /\ result' \in Engine!ApplyResult /\ ~result'.touched
        /\ pc' = "refused"
    BY <1>2, <1>4, FinishedResult
  <2>2. tree' = Base
    BY <1>4
  <2>3. ResultsMatchEngine'
    BY <2>1, <2>2 DEF ResultsMatchEngine
  <2> QED
    BY <1>1, <1>3, <1>4, <2>1, <2>2, <2>3
<1>5. CASE ParseFails
  BY <1>4, <1>5 DEF ParseFails
<1>6. CASE PlanFails
  <2>1. (Planned(tree, proposal.edits).error = "lost") \in BOOLEAN
    OBVIOUS
  <2> QED
    BY <1>4, <1>6, <2>1 DEF PlanFails, Parses
<1>7. CASE PlanEdits
  <2>1. PathsAllowed(EditPaths(proposal.edits))
    BY <1>7 DEF PlanEdits, Planned
  <2>2. /\ pc = "apply" /\ proposal.mode = "replacement" /\ pc' = "write"
        /\ tree' = tree /\ result' = result /\ unwritten' = EditPaths(proposal.edits)
    BY <1>7 DEF PlanEdits, Parses
  <2>3. tree' = Base /\ Changes(tree', Base) = {}
    BY <1>3, <2>2
  <2> QED
    BY <1>1, <2>1, <2>2, <2>3 DEF ResultsMatchEngine
<1>8. ASSUME NEW f \in unwritten, pc = "write", tree' = [tree EXCEPT ![f] = planned[f]]
      PROVE  Files(tree') /\ Changes(tree', Base) \subseteq EditPaths(proposal.edits)
  <2>1. \A g \in Path : g # f => tree'[g] = tree[g]
    BY <1>8 DEF Files
  <2>2. Changes(tree', Base) \subseteq Changes(tree, Base) \cup {f}
    BY <2>1 DEF Changes
  <2>3. Files(tree')
    BY <1>8 DEF Files
  <2> QED
    BY <1>8, <2>2, <2>3
<1>9. CASE WriteFile
  <2>1. PICK f \in unwritten : /\ tree' = [tree EXCEPT ![f] = planned[f]]
                               /\ unwritten' = unwritten \ {f}
    BY <1>9 DEF WriteFile
  <2>2. Files(tree') /\ Changes(tree', Base) \subseteq EditPaths(proposal.edits)
    BY <1>8, <1>9, <2>1 DEF WriteFile
  <2> QED
    BY <1>1, <1>9, <2>1, <2>2 DEF WriteFile, ResultsMatchEngine
<1>10. CASE WriteFails
  <2>1. pc = "write" /\ Finish("apply", FALSE)
    BY <1>10 DEF WriteFails
  <2>2. /\ result' # NoResult /\ result' \in Engine!ApplyResult
        /\ result'.stage = "apply" /\ ~result'.lost /\ pc' = "refused"
    BY <1>2, <2>1, FinishedResult
  <2>3. PICK f \in unwritten : tree' \in {tree, [tree EXCEPT ![f] = planned[f]]}
    BY <1>10 DEF WriteFails
  <2>4. Files(tree') /\ Changes(tree', Base) \subseteq EditPaths(proposal.edits)
    BY <1>8, <2>1, <2>3
  <2>5. PathsAllowed(Changes(tree', Base))
    BY <2>1, <2>4, FewerAllowed
  <2> QED
    BY <1>1, <2>2, <2>4, <2>5 DEF ResultsMatchEngine
<1>11. CASE Written
  <2>1. PathsAllowed(Changes(tree, Base))
    BY <1>11, FewerAllowed DEF Written
  <2> QED
    BY <1>1, <1>11, <2>1 DEF Written, ResultsMatchEngine
<1>12. CASE CheckFails
  BY <1>4, <1>12 DEF CheckFails
<1>13. ASSUME pc = "apply", proposal.mode = "patch", Accepted(tree, Clean(proposal.patch))
       PROVE  LET patch == Clean(Clean(proposal.patch))
                  applied == GitApply(tree, patch).files
              IN  /\ PathsAllowed(PatchPaths(patch)) /\ Files(applied)
                  /\ Changes(applied, Base) \subseteq PatchPaths(patch)
  <2>1. IsSequence(Clean(proposal.patch).blocks)
    BY <1>2, <1>13, CleanSettles
  <2> QED
    BY <1>13, <2>1, AcceptedChanges
<1>14. CASE ApplyPatch
  <2>1. /\ pc = "apply" /\ result = NoResult /\ pc' = "diff" /\ result' = result
        /\ tree' = GitApply(tree, Clean(Clean(proposal.patch))).files
    BY <1>14 DEF ApplyPatch
  <2>2. Files(tree') /\ PathsAllowed(Changes(tree', Base))
    BY <1>13, <1>14, <2>1, FewerAllowed DEF ApplyPatch
  <2> QED
    BY <1>1, <2>1, <2>2 DEF ResultsMatchEngine
<1>15. CASE ApplyExpires
  <2> DEFINE patch == Clean(Clean(proposal.patch))
             applied == GitApply(tree, patch).files
  <2>1. pc = "apply" /\ proposal.mode = "patch" /\ Finish("apply", FALSE)
    BY <1>15 DEF ApplyExpires
  <2>2. /\ result' # NoResult /\ result' \in Engine!ApplyResult
        /\ result'.stage = "apply" /\ ~result'.lost /\ pc' = "refused"
    BY <1>2, <2>1, FinishedResult
  <2>3. tree' \in ApplyKilled(tree, patch)
    BY <1>15 DEF ApplyExpires
  <2>4. PathsAllowed(PatchPaths(patch)) /\ Changes(applied, Base) \subseteq PatchPaths(patch)
    BY <1>13, <1>15 DEF ApplyExpires
  <2>5. tree = Base
    BY <2>1
  <2> HIDE DEF patch, applied
  <2>6. Changes(tree', Base) \subseteq PatchPaths(patch) /\ Files(tree')
    BY <2>3, <2>5, KilledChanges DEF Changes
  <2>7. PathsAllowed(Changes(tree', Base))
    BY <2>4, <2>6, FewerAllowed
  <2> QED
    BY <1>1, <2>2, <2>6, <2>7 DEF ResultsMatchEngine
<1>16. CASE DiffTaken
  <2>1. pc = "diff" /\ tree' = tree /\ Finish("ok", FALSE)
    BY <1>16 DEF DiffTaken
  <2>2. /\ result' # NoResult /\ result' \in Engine!ApplyResult
        /\ result'.touched /\ pc' = "edited"
    BY <1>2, <2>1, FinishedResult
  <2>3. Rewritten(tree) \subseteq Changes(tree, Base)
    BY DEF Rewritten
  <2>4. PathsAllowed(Rewritten(tree'))
    BY <2>1, <2>3, FewerAllowed
  <2> QED
    BY <1>1, <2>1, <2>2, <2>4 DEF ResultsMatchEngine
<1>17. CASE DiffFails
  <2>1. pc = "diff" /\ tree' = tree /\ Finish("diff", FALSE)
    BY <1>17 DEF DiffFails
  <2>2. /\ result' # NoResult /\ result' \in Engine!ApplyResult
        /\ result'.touched /\ pc' = "refused"
    BY <1>2, <2>1, FinishedResult
  <2> QED
    BY <1>1, <2>1, <2>2 DEF ResultsMatchEngine
<1> QED
  BY <1>5, <1>6, <1>7, <1>9, <1>10, <1>11, <1>12, <1>14, <1>15, <1>16, <1>17 DEF BackendNext

LEMMA BackendInvAlways ==
  ASSUME BackendInv, [Next]_vars
  PROVE  BackendInv'
<1>1. CASE Edit
  BY <1>1, BackendInvStep DEF Edit
<1>2. CASE TestsWrite
  <2>1. /\ pc = "edited" /\ pc' = pc /\ proposal' = proposal /\ result' = result /\ Files(tree')
    BY <1>2 DEF TestsWrite, BackendInv, Files
  <2>2. PICK f \in Path : Base[f] = Unreadable /\ tree' = [tree EXCEPT ![f] = << >>]
    BY <1>2 DEF TestsWrite
  <2>3. \A g \in Path : g # f => tree'[g] = tree[g]
    BY <2>2 DEF BackendInv, Files
  <2>4. Rewritten(tree') = Rewritten(tree)
    BY <2>2, <2>3 DEF Rewritten, Changes
  <2>5. PathsAllowed(Rewritten(tree'))
    BY <2>1, <2>4 DEF BackendInv
  <2> QED
    BY <2>1, <2>5 DEF BackendInv, ResultsMatchEngine
<1>3. CASE Export
  BY <1>3 DEF Export, BackendInv, ResultsMatchEngine
<1>4. ASSUME UNCHANGED backendVars PROVE BackendInv'
  BY <1>4 DEF backendVars, BackendInv, ResultsMatchEngine
<1>5. CASE EditCheckout \/ CommitCheckout \/ ReplacePatch
  BY <1>4, <1>5 DEF EditCheckout, CommitCheckout, ReplacePatch
<1>6. CASE Command
  BY <1>4, <1>6 DEF Command, StartCommand, InspectWorkspace, InspectPatch, CompareDigest,
                    InspectAgain, ApplyApproved, ApplyApprovedExpires
<1>7. CASE UNCHANGED vars
  BY <1>4, <1>7 DEF vars
<1> QED
  BY <1>1, <1>2, <1>3, <1>5, <1>6, <1>7 DEF Next

THEOREM BackendInvAlwaysHolds == Spec => []BackendInv
BY BackendInvHolds, BackendInvAlways, PTL DEF Spec

(* What the engine is told about an edit is right: see ResultsMatchEngine. *)
THEOREM EngineIsToldTheTruth == Spec => []ResultsMatchEngine
<1>1. BackendInv => ResultsMatchEngine
  BY DEF BackendInv
<1> QED
  BY <1>1, BackendInvAlwaysHolds, PTL

(* Allowed files only, max_files of them at most, are changed by an edit,  *)
(* wherever it stops: see OnlyAllowedEdited.                               *)
THEOREM EditsStayAllowed == Spec => []OnlyAllowedEdited
<1>1. BackendInv => OnlyAllowedEdited
  <2> HAVE BackendInv
  <2>1. CASE pc = "apply"
    BY <2>1, NothingIsAllowed DEF BackendInv, OnlyAllowedEdited
  <2>2. CASE pc = "write"
    BY <2>2, FewerAllowed DEF BackendInv, OnlyAllowedEdited, Changes
  <2> QED
    BY <2>1, <2>2 DEF BackendInv, OnlyAllowedEdited, Changes
<1> QED
  BY <1>1, BackendInvAlwaysHolds, PTL

-----------------------------------------------------------------------------
(* The command that applies the patch                                      *)

Differs(from, to, n) == from[Order[n]] # to[Order[n]]
BlockOf(from, to, n) == Block(Order[n], from[Order[n]], to[Order[n]])

LEMMA DiffUnfolds ==
  ASSUME NEW from, NEW to
  PROVE  /\ IsSequence(Diff(from, to).blocks)
         /\ \E h : /\ h[0] = <<>>
                   /\ \A n \in 1..Len(Order) :
                        h[n] = IF Differs(from, to, n) THEN Append(h[n - 1], BlockOf(from, to, n))
                               ELSE h[n - 1]
                   /\ Diff(from, to).blocks = h[Len(Order)]
<1> DEFINE N == Len(Order)
           T == {BlockOf(from, to, n) : n \in 1..N}
           S == Seq(T)
           Next1(s, n) == IF Differs(from, to, n) THEN Append(s, BlockOf(from, to, n)) ELSE s
           Body(h, n) == IF n = 0 THEN <<>> ELSE Next1(h[n - 1], n)
           step == [n \in 1..N |-> [s \in S |-> Next1(s, n)]]
           changed == CHOOSE h : h = [n \in 0..N |-> Body(h, n)]
<1>1. N \in Nat
  BY PatchAssumption
<1>2. Diff(from, to).blocks = changed[N]
  BY DEF Diff, Differs, BlockOf
<1>3. \A n \in 1..N : \A s \in S : Next1(s, n) \in S
  <2> TAKE n \in 1..N
  <2> TAKE s \in S
  <2> DEFINE block == BlockOf(from, to, n)
  <2>1. block \in T
    OBVIOUS
  <2>2. Next1(s, n) \in {s, Append(s, block)}
    OBVIOUS
  <2> HIDE DEF Next1, T, block
  <2> QED
    BY <2>1, <2>2
<1> HIDE DEF N, T, Next1
<1>4. <<>> \in S /\ step \in Steps(N, S)
  BY <1>3 DEF Steps
<1>5. IsDefined(N, S, <<>>, step)
  <2> HIDE DEF S, step
  <2> QED
    BY <1>1, <1>4, RecursiveFunction
<1>6. PICK g \in [0..N -> S] : g[0] = <<>> /\ \A n \in 1..N : g[n] = step[n][g[n - 1]]
  BY <1>5 DEF IsDefined
<1>7. \A n \in 0..N : g[n] = Body(g, n)
  <2> TAKE n \in 0..N
  <2>1. CASE n = 0
    BY <1>6, <2>1
  <2>2. CASE n # 0
    <3>1. n \in 1..N /\ n - 1 \in 0..N
      BY <1>1, <2>2
    <3>2. g[n - 1] \in S
      BY <1>6, <3>1
    <3> HIDE DEF S
    <3> QED
      BY <1>6, <2>2, <3>1, <3>2
  <2> QED
    BY <2>1, <2>2
<1> HIDE DEF Body
<1>8. g = [n \in 0..N |-> Body(g, n)]
  BY <1>6, <1>7
<1>9. changed = [n \in 0..N |-> Body(changed, n)]
  BY <1>8
<1> HIDE DEF changed
<1> DEFINE P == {n \in 0..N : changed[n] \in S}
<1>10. 0 \in P
  BY <1>1, <1>4, <1>9 DEF Body
<1>11. ASSUME NEW n \in 1..N, n - 1 \in P PROVE n \in P
  <2>1. n \in 0..N /\ n # 0
    BY <1>1
  <2>2. changed[n] = Next1(changed[n - 1], n)
    BY <1>9, <2>1 DEF Body
  <2>3. changed[n] \in S
    <3> HIDE DEF S
    <3> QED
      BY <1>3, <1>11, <2>2
  <2> QED
    BY <2>1, <2>3
<1>12. \A n \in 0..N : n \in P
  <2> HIDE DEF P
  <2> QED
    BY <1>1, <1>10, <1>11, BoundedInduction
<1>13. changed[N] \in Seq(T)
  BY <1>1, <1>12
<1>14. changed[0] = <<>> /\ \A n \in 1..N : changed[n] = Next1(changed[n - 1], n)
  <2>1. 0 \in 0..N /\ \A n \in 1..N : n \in 0..N /\ n # 0
    BY <1>1
  <2> QED
    BY <1>9, <2>1 DEF Body
<1>15. IsSequence(Diff(from, to).blocks)
  BY <1>2, <1>13, SequenceOf
<1> QED
  BY <1>2, <1>14, <1>15 DEF Next1, N

(* A command asked with a digest was asked with one that was shown; from   *)
(* the comparison on, the patch in hand is cleaned and has that digest.    *)
GateInv ==
  /\ Files(checkout) /\ Files(commit)
  /\ IsSequence(exported.blocks)
  /\ asked # NoDigest => \E s \in shown : s.digest = asked
  /\ gate \in {"digest", "again", "apply"} =>
       asked # NoDigest /\ IsSequence(approval.blocks) /\ Clean(approval) = approval
  /\ gate \in {"again", "apply"} => asked = approval

LEMMA GateInvHolds ==
  ASSUME Init
  PROVE  GateInv
<1>1. IsSequence(NoPatchText.blocks)
  BY DEF NoPatchText, IsSequence
<1> QED
  BY <1>1, BackendAssumption DEF Init, GateInv, Files

LEMMA GateInvStep ==
  ASSUME GateInv, [Next]_vars
  PROVE  GateInv'
<1> USE DEF GateInv
<1>1. ASSUME UNCHANGED gateVars PROVE GateInv'
  BY <1>1 DEF gateVars
<1>2. CASE Edit \/ TestsWrite \/ UNCHANGED vars
  BY <1>1, <1>2 DEF Edit, TestsWrite, vars
<1>3. CASE Export
  <2>1. IsSequence(exported'.blocks)
    BY <1>3, DiffUnfolds DEF Export
  <2> QED
    BY <1>3, <2>1 DEF Export
<1>4. CASE EditCheckout
  BY <1>4 DEF EditCheckout, Files
<1>5. CASE CommitCheckout
  BY <1>5 DEF CommitCheckout
<1>6. CASE ReplacePatch
  <2>1. IsSequence(exported'.blocks)
    BY <1>6, BackendAssumption DEF ReplacePatch
  <2> QED
    BY <1>6, <2>1 DEF ReplacePatch
<1>7. CASE StartCommand
  <2>1. asked' # NoDigest => \E s \in shown : s.digest = asked'
    BY <1>7 DEF StartCommand
  <2> QED
    BY <1>7, <2>1 DEF StartCommand
<1>8. CASE InspectWorkspace
  BY <1>8 DEF InspectWorkspace, Inspect, Ends
<1>9. CASE InspectPatch
  <2>1. IsSequence(Clean(exported).blocks) /\ Clean(Clean(exported)) = Clean(exported)
    BY CleanSettles, CleanTwice
  <2>2. CASE /\ approval' = Clean(exported)
             /\ shown' = shown \cup {[digest |-> Clean(exported), commit |-> commit]}
             /\ IF asked = NoDigest THEN Ends(2) ELSE gate' = "digest" /\ exit' = exit
    <3>1. /\ approval' = Clean(exported) /\ gate' \in {"idle", "digest"} /\ asked' = asked
          /\ gate' = "digest" => asked # NoDigest
          /\ shown \subseteq shown'
      BY <1>9, <2>2 DEF InspectPatch, Ends
    <3>2. checkout' = checkout /\ commit' = commit /\ exported' = exported
      BY <1>9 DEF InspectPatch
    <3> HIDE DEF GateInv
    <3>3. asked' # NoDigest => \E s \in shown' : s.digest = asked'
      BY <3>1 DEF GateInv
    <3> QED
      BY <2>1, <3>1, <3>2, <3>3 DEF GateInv
  <2>3. CASE Ends(1) /\ UNCHANGED <<approval, shown>>
    BY <1>9, <2>3 DEF InspectPatch, Ends
  <2> QED
    BY <1>9, <2>2, <2>3 DEF InspectPatch
<1>10. CASE CompareDigest
  BY <1>10 DEF CompareDigest, Ends
<1>11. CASE InspectAgain
  BY <1>11 DEF InspectAgain, Inspect, Ends
<1>12. CASE ApplyApproved
  <2>1. Files(checkout')
    BY <1>12, AcceptedChanges DEF ApplyApproved
  <2> QED
    BY <1>12, <2>1 DEF ApplyApproved, Ends
<1>13. CASE ApplyApprovedExpires
  <2>1. Files(checkout')
    BY <1>13, KilledChanges DEF ApplyApprovedExpires
  <2> QED
    BY <1>13, <2>1 DEF ApplyApprovedExpires, Ends
<1> QED
  BY <1>2, <1>3, <1>4, <1>5, <1>6, <1>7, <1>8, <1>9, <1>10, <1>11, <1>12, <1>13 DEF Next, Command

THEOREM GateInvAlwaysHolds == Spec => []GateInv
BY GateInvHolds, GateInvStep, PTL DEF Spec

(* What a command writes to the checkout is the patch that was asked for   *)
(* by its digest and shown before, on allowed files only, wholly or, when  *)
(* git was killed, in part and with an error: see AppliedIsApproved.       *)
THEOREM ApprovedPatchIsApplied == Spec => AppliedIsApproved
<1> DEFINE target == GitApply(checkout, asked).files
           Whole == /\ \E s \in shown : s.digest = asked
                    /\ exit' = 0 => checkout' = target
                    /\ \A f \in Path : checkout'[f] \in {checkout[f], target[f], Unreadable}
                    /\ PathsAllowed({f \in Path : checkout'[f] # checkout[f]})
           Step == Command /\ (checkout' # checkout
                                  \/ (gate # "idle" /\ gate' = "idle" /\ exit' = 0)) => Whole
<1>1. ASSUME GateInv, [Next]_vars PROVE [Step]_vars
  <2> SUFFICES ASSUME Command,
                      checkout' # checkout \/ (gate # "idle" /\ gate' = "idle" /\ exit' = 0)
               PROVE  Whole
    OBVIOUS
  <2>1. ApplyApproved \/ ApplyApprovedExpires
    BY DEF Command, StartCommand, InspectWorkspace, InspectPatch, CompareDigest, InspectAgain,
           Inspect, Ends
  <2>2. gate = "apply" /\ Accepted(checkout, approval)
    BY <2>1 DEF ApplyApproved, ApplyApprovedExpires, Ends
  <2>3. /\ Files(checkout) /\ IsSequence(approval.blocks) /\ Clean(approval) = approval
        /\ asked = approval /\ \E s \in shown : s.digest = asked
    BY <1>1, <2>2 DEF GateInv
  <2>4. /\ PathsAllowed(PatchPaths(asked))
        /\ Files(target) /\ Changes(target, checkout) \subseteq PatchPaths(asked)
    BY <2>2, <2>3, AcceptedChanges
  <2> HIDE DEF target
  <2>5. CASE checkout' = target /\ exit' = 0
    <3>1. {f \in Path : checkout'[f] # checkout[f]} \subseteq PatchPaths(asked)
      BY <2>4, <2>5 DEF Changes
    <3> QED
      BY <2>3, <2>4, <2>5, <3>1, FewerAllowed
  <2>6. CASE checkout' \in ApplyKilled(checkout, asked) /\ exit' = 1
    <3>1. {f \in Path : checkout'[f] # checkout[f]} \subseteq PatchPaths(asked)
      BY <2>6, KilledChanges
    <3>2. \A f \in Path : checkout'[f] \in {checkout[f], target[f], Unreadable}
      BY <2>6, KilledChanges DEF target
    <3>3. PathsAllowed({f \in Path : checkout'[f] # checkout[f]})
      BY <2>4, <3>1, FewerAllowed
    <3> QED
      BY <2>3, <2>6, <3>2, <3>3
  <2>7. (checkout' = target /\ exit' = 0)
          \/ (checkout' \in ApplyKilled(checkout, asked) /\ exit' = 1)
    BY <2>1, <2>2, <2>3 DEF ApplyApproved, ApplyApprovedExpires, Ends, target
  <2> QED
    BY <2>5, <2>6, <2>7
<1> QED
  BY <1>1, GateInvAlwaysHolds, PTL DEF Spec, AppliedIsApproved

-----------------------------------------------------------------------------
(* Where a replacement applies                                             *)

(* The places of a text whose ends do not repeat are apart. *)
LEMMA PlacesAreApart ==
  ASSUME NEW text, NEW old, IsSequence(old), NoOverlap(old),
         NEW i \in Nat, NEW j \in Nat, i < j, OccursAt(text, old, i), OccursAt(text, old, j)
  PROVE  i + Len(old) <= j
<1> DEFINE L == Len(old)
           d == j - i
           E == {old[k] : k \in DOMAIN old}
<1>1. L \in Nat /\ old \in Seq(E)
  BY SequenceHas DEF IsSequence
<1> SUFFICES ASSUME j < i + L PROVE FALSE
  BY <1>1
<1>2. d \in 1..(L - 1) /\ L - d \in 1..(L - 1) /\ L - (L - d) + 1 = d + 1 /\ L - d \in Nat
  BY <1>1
<1>3. \A k \in 1..L : text[i + k - 1] = old[k] /\ text[j + k - 1] = old[k]
  BY DEF OccursAt
<1>4. ASSUME NEW k \in 1..(L - d) PROVE old[k] = old[k + d]
  <2>1. k \in 1..L /\ k + d \in 1..L /\ j + k - 1 = i + (k + d) - 1
    BY <1>1, <1>2
  <2> QED
    BY <1>3, <2>1
<1> HIDE DEF d
<1>5. SubSeq(old, 1, L - d) = [k \in 1..(L - d) |-> old[k]]
  BY <1>1, <1>2
<1>6. SubSeq(old, d + 1, L) = [k \in 1..(L - d) |-> old[k + d]]
  BY <1>1, <1>2
<1>7. SubSeq(old, 1, L - d) = SubSeq(old, d + 1, L)
  BY <1>4, <1>5, <1>6
<1> QED
  BY <1>2, <1>7 DEF NoOverlap

Occurrences(text, old) == {i \in 1..Len(text) : OccursAt(text, old, i)}

(* The search from the left misses none of them. *)
LEMMA SearchIsComplete ==
  ASSUME NEW text, IsSequence(text), NEW old, IsSequence(old), old # <<>>, NoOverlap(old)
  PROVE  FindOccurrences(text, old) = Occurrences(text, old)
<1> DEFINE T == Len(text)
           L == Len(old)
           N == T + L + 1
           Occ == Occurrences(text, old)
           Body(h, i) == IF i > T THEN {}
                         ELSE IF OccursAt(text, old, i) THEN {i} \cup h[i + L]
                         ELSE h[i + 1]
           from == CHOOSE h : h = [i \in 1..N |-> Body(h, i)]
           g == [i \in 1..N |-> {j \in Occ : i <= j}]
<1>1. FindOccurrences(text, old) = from[1]
  BY DEF FindOccurrences
<1>2. T \in Nat /\ L \in Nat /\ L # 0
  <2>1. T \in Nat /\ L \in Nat
    BY SequenceHas
  <2>2. L # 0
    BY DEF IsSequence
  <2> QED
    BY <2>1, <2>2
<1>3. \A i, j \in Occ : i < j => i + L <= j
  BY PlacesAreApart DEF Occurrences
<1>4. Occ \subseteq 1..T /\ \A i \in 1..T : i \in Occ <=> OccursAt(text, old, i)
  BY DEF Occurrences
<1> HIDE DEF T, L, Occ
<1>5. ASSUME NEW i \in 1..N PROVE g[i] = Body(g, i)
  <2>1. CASE i > T
    <3>1. i \in Nat
      BY <1>2
    <3>2. \A j \in Occ : ~(i <= j)
      <4> TAKE j \in Occ
      <4>1. j \in 1..T
        BY <1>4
      <4> QED
        BY <1>2, <2>1, <3>1, <4>1
    <3>3. g[i] = {}
      BY <3>2
    <3> QED
      BY <2>1, <3>3
  <2>2. CASE i <= T /\ OccursAt(text, old, i)
    <3>1. i \in 1..T /\ i \in Occ /\ i + L \in 1..N
      BY <1>2, <1>4, <2>2
    <3>2. g[i + L] = {j \in Occ : i + L <= j}
      BY <3>1
    <3>3. \A j \in Occ : i <= j <=> j = i \/ i + L <= j
      <4> TAKE j \in Occ
      <4>1. j \in Nat /\ i \in Nat
        BY <1>2, <1>4
      <4>2. i < j => i + L <= j
        BY <1>3, <3>1
      <4> QED
        BY <1>2, <4>1, <4>2
    <3>4. {j \in Occ : i <= j} = {i} \cup {j \in Occ : i + L <= j}
      BY <3>1, <3>3
    <3> QED
      BY <1>2, <2>2, <3>1, <3>2, <3>4
  <2>3. CASE i <= T /\ ~OccursAt(text, old, i)
    <3>1. i \in 1..T /\ i \notin Occ /\ i + 1 \in 1..N
      BY <1>2, <1>4, <2>3
    <3>2. g[i + 1] = {j \in Occ : i + 1 <= j}
      BY <3>1
    <3>3. \A j \in Occ : i <= j <=> i + 1 <= j
      <4> TAKE j \in Occ
      <4>1. j \in Nat /\ i \in Nat /\ j # i
        BY <1>2, <1>4, <3>1
      <4> QED
        BY <4>1
    <3>4. {j \in Occ : i <= j} = {j \in Occ : i + 1 <= j}
      BY <3>3
    <3> QED
      BY <1>2, <2>3, <3>1, <3>2, <3>4
  <2>4. i \in Nat
    BY <1>2
  <2>5. i > T \/ i <= T
    BY <1>2, <2>4
  <2> HIDE DEF g, Body, N
  <2> QED
    BY <2>1, <2>2, <2>3, <2>5
<1>6. from = [i \in 1..N |-> Body(from, i)]
  <2> HIDE DEF Body
  <2>1. g = [i \in 1..N |-> Body(g, i)]
    BY <1>5
  <2> HIDE DEF g
  <2> QED
    BY <2>1
<1> HIDE DEF from
<1> DEFINE P == {n \in 0..N : \A i \in 1..N : N - n < i => from[i] = g[i]}
<1>7. 0 \in P
  BY <1>2
<1>8. ASSUME NEW n \in 1..N, n - 1 \in P PROVE n \in P
  <2> DEFINE i == N - n + 1
  <2>1. n \in 0..N /\ i \in 1..N /\ N \in Nat
    BY <1>2
  <2>2. \A k \in 1..N : i < k => from[k] = g[k]
    BY <1>8, <2>1
  <2>3. from[i] = Body(from, i) /\ g[i] = Body(g, i)
    BY <1>5, <1>6, <2>1
  <2>4. i <= T => /\ i + L \in 1..N /\ i < i + L
                  /\ i + 1 \in 1..N /\ i < i + 1
    BY <1>2, <2>1
  <2> HIDE DEF g, i, N
  <2>5. i <= T => from[i + L] = g[i + L] /\ from[i + 1] = g[i + 1]
    BY <2>2, <2>4
  <2>6. Body(from, i) = Body(g, i)
    <3>1. i <= T \/ i > T
      BY <1>2, <2>1
    <3> QED
      BY <2>5, <3>1
  <2>7. \A k \in 1..N : N - n < k => k = i \/ i < k
    BY <2>1 DEF i
  <2> QED
    BY <2>1, <2>2, <2>3, <2>6, <2>7
<1>9. \A n \in 0..N : n \in P
  <2>1. N \in Nat
    BY <1>2
  <2> HIDE DEF P, N
  <2> QED
    BY <1>7, <1>8, <2>1, BoundedInduction
<1>10. 1 \in 1..N /\ N \in 0..N /\ N - N < 1
  BY <1>2
<1> HIDE DEF N
<1>11. from[1] = g[1]
  <2> HIDE DEF g
  <2>1. N \in P
    BY <1>9, <1>10
  <2> QED
    BY <1>10, <2>1
<1>12. \A j \in Occ : 1 <= j
  BY <1>2, <1>4
<1>13. g[1] = Occ
  BY <1>10, <1>12
<1> QED
  BY <1>1, <1>11, <1>13 DEF Occ

LEMMA OneOrMore ==
  ASSUME NEW S, IsFiniteSet(S)
  PROVE  /\ Cardinality(S) \in Nat
         /\ Cardinality(S) <= 1 <=> \A a, b \in S : a = b
         /\ Cardinality(S) = 1 <=> \E a \in S : S = {a}
<1>1. Cardinality(S) \in Nat
  BY FS_CardinalityType
<1>2. Cardinality(S) = 0 <=> S = {}
  BY FS_EmptySet
<1>3. Cardinality(S) = 1 <=> \E a : S = {a}
  BY FS_Singleton
<1>4. Cardinality(S) = 1 <=> \E a \in S : S = {a}
  BY <1>3
<1>5. Cardinality(S) <= 1 <=> Cardinality(S) = 0 \/ Cardinality(S) = 1
  BY <1>1
<1>6. S = {} \/ (\E a : S = {a}) <=> \A a, b \in S : a = b
  <2>1. ASSUME \A a, b \in S : a = b, S # {} PROVE \E a : S = {a}
    <3>1. PICK a \in S : TRUE
      BY <2>1
    <3>2. S = {a}
      BY <2>1
    <3> QED
      BY <3>2
  <2> QED
    BY <2>1
<1> QED
  BY <1>1, <1>2, <1>3, <1>4, <1>5, <1>6

LEMMA DistanceIsNatural ==
  ASSUME NEW text, NEW i \in Nat, NEW line \in Nat
  PROVE  Distance(LineOf(text, i), line) \in Nat
<1> DEFINE Before == {k \in 1..(i - 1) : text[k] = "lf"}
<1>1. IsFiniteSet(1..(i - 1))
  BY FS_Interval
<1>2. IsFiniteSet(Before)
  BY <1>1, FS_Subset
<1>3. Cardinality(Before) \in Nat
  BY <1>2, FS_CardinalityType
<1>4. LineOf(text, i) \in Nat
  BY <1>3 DEF LineOf
<1> QED
  BY <1>4 DEF Distance

LEMMA PlaceIsExactAlways ==
  ASSUME NEW text, IsSequence(text), NEW e, IsSequence(e.old), WellFormedEdit(e)
  PROVE  PlaceIsExact(text, e)
<1> SUFFICES ASSUME NoOverlap(e.old), NEW i \in 1..Len(text)
             PROVE  i \in Places(text, e) <=>
                      /\ OccursAt(text, e.old, i)
                      /\ \A j \in 1..Len(text) \ {i} : OccursAt(text, e.old, j) =>
                           e.line # 0 /\ Distance(LineOf(text, i), e.line) < Distance(LineOf(text, j), e.line)
  BY DEF PlaceIsExact
<1> DEFINE matches == Occurrences(text, e.old)
           D(j) == Distance(LineOf(text, j), e.line)
           nearest == Nearest(text, matches, e.line)
<1>1. FindOccurrences(text, e.old) = matches
  BY SearchIsComplete DEF WellFormedEdit
<1>2. Places(text, e) = IF Cardinality(matches) <= 1 THEN matches
                        ELSE IF e.line = 0 THEN {}
                        ELSE IF Cardinality(nearest) = 1 THEN nearest ELSE {}
  BY <1>1 DEF Places
<1>3. Len(text) \in Nat
  BY SequenceHas
<1>4. \A j \in 1..Len(text) : D(j) \in Nat
  BY <1>3, DistanceIsNatural DEF WellFormedEdit
<1>5. matches \subseteq 1..Len(text) /\ \A j \in 1..Len(text) : j \in matches <=> OccursAt(text, e.old, j)
  BY DEF Occurrences
<1>6. nearest = {j \in matches : \A k \in matches : D(j) <= D(k)}
  BY DEF Nearest
<1> HIDE DEF matches, D, nearest
<1>7. IsFiniteSet(matches) /\ IsFiniteSet(nearest)
  <2>1. IsFiniteSet(1..Len(text))
    BY <1>3, FS_Interval
  <2>2. IsFiniteSet(matches)
    BY <1>5, <2>1, FS_Subset
  <2> QED
    BY <1>6, <2>2, FS_Subset
<1> DEFINE Chosen == i \in matches /\ \A j \in matches : j # i => e.line # 0 /\ D(i) < D(j)
<1>8. i \in Places(text, e) <=> Chosen
  <2>1. CASE Cardinality(matches) <= 1
    <3>1. \A j, k \in matches : j = k
      BY <1>7, <2>1, OneOrMore
    <3> QED
      BY <1>2, <2>1, <3>1
  <2>2. CASE ~(Cardinality(matches) <= 1) /\ e.line = 0
    <3>1. PICK j, k \in matches : j # k
      BY <1>7, <2>2, OneOrMore
    <3>2. ~Chosen
      BY <2>2, <3>1
    <3> QED
      BY <1>2, <2>2, <3>2
  <2>3. CASE ~(Cardinality(matches) <= 1) /\ e.line # 0
    <3>1. ASSUME Chosen PROVE nearest = {i}
      <4>1. \A j \in matches : D(i) <= D(j) /\ (j # i => ~(D(j) <= D(i)))
        BY <1>4, <1>5, <3>1
      <4> QED
        BY <1>6, <3>1, <4>1
    <3>2. ASSUME NEW a \in nearest, nearest = {a}, i \in nearest PROVE Chosen
      <4>1. i \in matches /\ \A j \in matches : D(i) <= D(j)
        BY <1>6, <3>2
      <4>2. ASSUME NEW j \in matches, j # i, ~(D(i) < D(j)) PROVE FALSE
        <5>1. \A k \in matches : D(j) <= D(k)
          BY <1>4, <1>5, <4>1, <4>2
        <5>2. j \in nearest
          BY <1>6, <5>1
        <5> QED
          BY <3>2, <4>2, <5>2
      <4> QED
        BY <2>3, <4>1, <4>2
    <3>3. Cardinality(nearest) = 1 <=> \E a \in nearest : nearest = {a}
      BY <1>7, OneOrMore
    <3>4. i \in Places(text, e) <=> Cardinality(nearest) = 1 /\ i \in nearest
      BY <1>2, <2>3
    <3> HIDE DEF Chosen
    <3>5. Chosen => i \in Places(text, e)
      BY <3>1, <3>3, <3>4
    <3>6. i \in Places(text, e) => Chosen
      BY <3>2, <3>3, <3>4
    <3> QED
      BY <3>5, <3>6
  <2> QED
    BY <2>1, <2>2, <2>3
<1> QED
  BY <1>5, <1>8 DEF D

(* Where a replacement applies is exact for every text: see PlacesAreExact. *)
THEOREM PlacesAreExactAlways == Spec => []PlacesAreExact
<1>1. BackendInv => PlacesAreExact
  <2> SUFFICES ASSUME BackendInv, NEW text \in Texts, NEW n \in DOMAIN proposal.edits,
                      WellFormedEdit(proposal.edits[n])
               PROVE  PlaceIsExact(text, proposal.edits[n])
    BY DEF PlacesAreExact
  <2>1. proposal.edits \in EditLists \/ proposal.edits = <<>>
    BY DEF BackendInv, Proposals
  <2>2. IsSequence(proposal.edits[n].old)
    BY <2>1, BackendAssumption
  <2>3. IsSequence(text)
    BY BackendAssumption
  <2> QED
    BY <2>2, <2>3, PlaceIsExactAlways
<1> QED
  BY <1>1, BackendInvAlwaysHolds, PTL

-----------------------------------------------------------------------------
(* A diff, applied to the files it was taken from, gives those it was      *)
(* taken to.                                                               *)

(* The blocks are those of the first n files that differ, each once.       *)
Lists(blocks, from, to, n) ==
  /\ IsSequence(blocks)
  /\ \A k \in DOMAIN blocks : \E m \in 1..n : Differs(from, to, m) /\ blocks[k] = BlockOf(from, to, m)
  /\ \A m \in 1..n : Differs(from, to, m) => \E k \in DOMAIN blocks : blocks[k] = BlockOf(from, to, m)
  /\ \A j, k \in DOMAIN blocks : blocks[j].path = blocks[k].path => j = k

LEMMA BlockHas ==
  ASSUME NEW path, NEW from, NEW to
  PROVE  /\ Block(path, from, to).path = path /\ Block(path, from, to).header = path
         /\ Block(path, from, to).from = from /\ Block(path, from, to).to = to
         /\ Block(path, from, to).kind = "change" => from # Unreadable /\ to # Unreadable
<1> DEFINE lines == IF from = Unreadable \/ Read(from) = from THEN 2 ELSE LineCount(from) + LineCount(to)
           kind == IF from = Unreadable \/ to = Unreadable THEN "create" ELSE "change"
<1>1. Block(path, from, to) = [header |-> path, path |-> path, kind |-> kind,
                               from |-> from, to |-> to, lines |-> lines]
  BY DEF Block
<1>2. kind = "change" => from # Unreadable /\ to # Unreadable
  OBVIOUS
<1> HIDE DEF lines, kind
<1> QED
  BY <1>1, <1>2

LEMMA AppendHas ==
  ASSUME NEW s, IsSequence(s), NEW x
  PROVE  /\ IsSequence(Append(s, x))
         /\ Len(Append(s, x)) = Len(s) + 1 /\ Append(s, x)[Len(s) + 1] = x
         /\ \A k \in 1..Len(s) : Append(s, x)[k] = s[k]
<1> DEFINE T == {s[i] : i \in DOMAIN s} \cup {x}
<1>1. s \in Seq(T)
  <2> DEFINE E == {s[i] : i \in DOMAIN s}
  <2>1. s \in Seq(E) /\ E \subseteq T
    BY DEF IsSequence
  <2> HIDE DEF E, T
  <2> QED
    BY <2>1, SeqMonotonic
<1>2. x \in T
  OBVIOUS
<1> HIDE DEF T
<1>3. Append(s, x) \in Seq(T)
  BY <1>1, <1>2
<1>4. IsSequence(Append(s, x))
  BY <1>3, SequenceOf
<1> QED
  BY <1>1, <1>2, <1>4, AppendProperties

LEMMA ListsNext ==
  ASSUME NEW from, NEW to, NEW n \in 1..Len(Order), NEW s, Lists(s, from, to, n - 1)
  PROVE  Lists(IF Differs(from, to, n) THEN Append(s, BlockOf(from, to, n)) ELSE s, from, to, n)
<1>1. Len(Order) \in Nat /\ DOMAIN Order = 1..Len(Order)
  BY PatchAssumption
<1>2. n - 1 \in Nat /\ \A m \in 1..n : m \in 1..(n - 1) \/ m = n
  BY <1>1
<1>3. \A m \in 1..(n - 1) : m \in 1..n /\ m \in DOMAIN Order /\ m # n
  BY <1>1
<1>4. n \in 1..n /\ n \in DOMAIN Order
  BY <1>1
<1>5. \A m \in 1..(n - 1) : BlockOf(from, to, m).path # BlockOf(from, to, n).path
  BY <1>3, <1>4, PatchAssumption, BlockHas DEF BlockOf
<1>6. Len(s) \in Nat /\ DOMAIN s = 1..Len(s) /\ IsSequence(s)
  BY SequenceHas DEF Lists
<1>7. CASE ~Differs(from, to, n)
  BY <1>2, <1>3, <1>7 DEF Lists
<1>8. CASE Differs(from, to, n)
  <2> DEFINE x == BlockOf(from, to, n)
             t == Append(s, x)
             L == Len(s)
  <2>1. /\ IsSequence(t) /\ Len(t) = L + 1 /\ t[L + 1] = x
        /\ \A k \in 1..L : t[k] = s[k]
    BY <1>6, AppendHas
  <2>2. DOMAIN t = 1..(L + 1)
    BY <2>1, SequenceHas
  <2>3. \A k \in 1..(L + 1) : k \in 1..L \/ k = L + 1
    BY <1>6
  <2>4. L + 1 \in 1..(L + 1) /\ \A k \in 1..L : k \in 1..(L + 1)
    BY <1>6
  <2> HIDE DEF t, L
  <2>5. \A k \in 1..L : \E m \in 1..(n - 1) : Differs(from, to, m) /\ s[k] = BlockOf(from, to, m)
    BY <1>6 DEF Lists, L
  <2> DEFINE Is(b, m) == Differs(from, to, m) /\ b = BlockOf(from, to, m)
  <2>6. \A k \in DOMAIN t : \E m \in 1..n : Is(t[k], m)
    <3> TAKE k \in DOMAIN t
    <3>1. CASE k = L + 1
      BY <1>4, <1>8, <2>1, <3>1
    <3>2. CASE k \in 1..L
      <4>1. PICK m \in 1..(n - 1) : Is(s[k], m)
        BY <2>5, <3>2
      <4> QED
        BY <1>3, <2>1, <3>2, <4>1
    <3> QED
      BY <2>2, <2>3, <3>1, <3>2
  <2>7. \A m \in 1..n : Differs(from, to, m) => \E k \in DOMAIN t : t[k] = BlockOf(from, to, m)
    <3> TAKE m \in 1..n
    <3> HAVE Differs(from, to, m)
    <3>1. CASE m = n
      BY <2>1, <2>2, <2>4, <3>1
    <3>2. CASE m \in 1..(n - 1)
      <4>1. PICK k \in 1..L : s[k] = BlockOf(from, to, m)
        BY <1>6, <3>2 DEF Lists, L
      <4> QED
        BY <2>1, <2>2, <2>4, <4>1
    <3> QED
      BY <1>2, <3>1, <3>2
  <2>8. \A k \in 1..L : t[k].path # x.path
    BY <1>5, <2>1, <2>5
  <2>9. \A j, k \in 1..L : t[j].path = t[k].path => j = k
    BY <1>6, <2>1 DEF Lists, L
  <2>10. \A j, k \in DOMAIN t : t[j].path = t[k].path => j = k
    <3> TAKE j, k \in DOMAIN t
    <3>1. (j \in 1..L \/ j = L + 1) /\ (k \in 1..L \/ k = L + 1)
      BY <2>2, <2>3
    <3> HIDE DEF x
    <3> QED
      BY <2>1, <2>8, <2>9, <3>1
  <2>11. Lists(t, from, to, n)
    BY <2>1, <2>6, <2>7, <2>10 DEF Lists
  <2> QED
    BY <1>8, <2>11 DEF t
<1> QED
  BY <1>7, <1>8

LEMMA DiffLists ==
  ASSUME NEW from, NEW to
  PROVE  Lists(Diff(from, to).blocks, from, to, Len(Order))
<1> DEFINE N == Len(Order)
<1>1. N \in Nat
  BY PatchAssumption
<1>2. PICK h : /\ h[0] = <<>>
               /\ \A n \in 1..N : h[n] = IF Differs(from, to, n)
                                         THEN Append(h[n - 1], BlockOf(from, to, n)) ELSE h[n - 1]
               /\ Diff(from, to).blocks = h[N]
  BY DiffUnfolds
<1> HIDE DEF N
<1> DEFINE P == {n \in 0..N : Lists(h[n], from, to, n)}
<1>3. 0 \in P
  <2>1. IsSequence(<<>>) /\ DOMAIN <<>> = {}
    BY DEF IsSequence
  <2>2. Lists(<<>>, from, to, 0)
    BY <2>1 DEF Lists
  <2> QED
    BY <1>1, <1>2, <2>2
<1>4. ASSUME NEW n \in 1..N, n - 1 \in P PROVE n \in P
  <2>1. n \in 0..N /\ Lists(h[n - 1], from, to, n - 1)
    BY <1>1, <1>4
  <2>2. h[n] = IF Differs(from, to, n) THEN Append(h[n - 1], BlockOf(from, to, n)) ELSE h[n - 1]
    BY <1>2, Zenon
  <2>3. Lists(h[n], from, to, n)
    BY <2>1, <2>2, ListsNext DEF N
  <2> QED
    BY <2>1, <2>3
<1>5. \A n \in 0..N : n \in P
  <2> HIDE DEF P
  <2> QED
    BY <1>1, <1>3, <1>4, BoundedInduction
<1>6. N \in 0..N
  BY <1>1
<1>7. Lists(h[N], from, to, N)
  BY <1>5, <1>6
<1> QED
  BY <1>2, <1>7 DEF N

LEMMA DiffRecreates ==
  ASSUME NEW from, Files(from), NEW to, Files(to)
  PROVE  GitApply(from, Diff(from, to)) = [files |-> to, ok |-> TRUE]
<1> DEFINE patch == Diff(from, to)
           blocks == patch.blocks
           N == Len(blocks)
           M == Len(Order)
           Partly(n) == [f \in Path |-> IF \E k \in 1..n : blocks[k].path = f THEN to[f] ELSE from[f]]
<1>1. /\ IsSequence(blocks)
      /\ \A k \in DOMAIN blocks : \E m \in 1..M : Differs(from, to, m) /\ blocks[k] = BlockOf(from, to, m)
      /\ \A m \in 1..M : Differs(from, to, m) => \E k \in DOMAIN blocks : blocks[k] = BlockOf(from, to, m)
      /\ \A j, k \in DOMAIN blocks : blocks[j].path = blocks[k].path => j = k
  BY DiffLists DEF Lists
<1>2. N \in Nat /\ DOMAIN blocks = 1..N
  BY <1>1, SequenceHas
<1>3. ~patch.cut
  BY DEF Diff
<1>4. PICK after : /\ after[0] = [files |-> from, ok |-> ~patch.cut]
                   /\ \A n \in 1..N : after[n] = AppliedTo(from, patch, after[n - 1], n)
                   /\ GitApply(from, patch) = after[N]
  BY <1>1, GitApplyUnfolds DEF Files
<1>5. \A m \in 1..M : Order[m] \in Path
  BY PatchAssumption
<1>6. \A k \in 1..N : /\ blocks[k].path \in Path
                      /\ blocks[k].from = from[blocks[k].path] /\ blocks[k].to = to[blocks[k].path]
  BY <1>1, <1>2, <1>5, BlockHas DEF BlockOf
<1> HIDE DEF patch, N, M
<1> DEFINE P == {n \in 0..N : after[n] = [files |-> Partly(n), ok |-> TRUE]}
<1>7. 0 \in P
  <2>1. Partly(0) = from
    BY DEF Files
  <2>2. after[0] = [files |-> from, ok |-> TRUE]
    BY <1>3, <1>4
  <2> HIDE DEF Partly
  <2>3. after[0] = [files |-> Partly(0), ok |-> TRUE]
    BY <2>1, <2>2
  <2>4. 0 \in 0..N
    BY <1>2
  <2> QED
    BY <2>3, <2>4
<1>8. ASSUME NEW n \in 1..N, n - 1 \in P PROVE n \in P
  <2> DEFINE f == blocks[n].path
  <2>1. n \in 0..N /\ n \in Nat
    BY <1>2
  <2>2. after[n] = AppliedTo(from, patch, after[n - 1], n)
    BY <1>4, Zenon
  <2>3. after[n - 1] = [files |-> Partly(n - 1), ok |-> TRUE]
    BY <1>8
  <2>4. f \in Path /\ blocks[n].from = from[f] /\ blocks[n].to = to[f]
    BY <1>6
  <2>5. \A k \in 1..(n - 1) : k \in 1..N /\ k # n
    BY <1>2
  <2>6. \A k \in 1..(n - 1) : blocks[k].path # f
    BY <1>1, <1>2, <2>5
  <2> HIDE DEF f
  <2>7. Partly(n - 1)[f] = from[f]
    BY <2>4, <2>6
  <2>8. \A k : k \in 1..n <=> k \in 1..(n - 1) \/ k = n
    BY <2>1
  <2>9. [Partly(n - 1) EXCEPT ![f] = to[f]] = Partly(n)
    <3>1. \A g \in Path : (\E k \in 1..n : blocks[k].path = g)
                            <=> g = f \/ \E k \in 1..(n - 1) : blocks[k].path = g
      BY <2>8 DEF f
    <3> QED
      BY <2>4, <3>1
  <2> HIDE DEF Partly
  <2>10. after[n] = [files |-> [Partly(n - 1) EXCEPT ![f] = to[f]], ok |-> TRUE]
    BY <2>2, <2>3, <2>4, <2>7 DEF AppliedTo, f
  <2> QED
    BY <2>1, <2>9, <2>10
<1>9. \A n \in 0..N : n \in P
  <2> HIDE DEF P
  <2> QED
    BY <1>2, <1>7, <1>8, BoundedInduction
<1>10. N \in 0..N
  BY <1>2
<1>11. GitApply(from, patch) = [files |-> Partly(N), ok |-> TRUE]
  BY <1>4, <1>9, <1>10
<1>12. ASSUME NEW f \in Path PROVE Partly(N)[f] = to[f]
  <2>1. PICK m \in 1..M : Order[m] = f
    BY PatchAssumption DEF M
  <2>2. CASE from[f] = to[f]
    BY <2>2
  <2>3. CASE from[f] # to[f]
    <3>1. PICK k \in 1..N : blocks[k] = BlockOf(from, to, m)
      BY <1>1, <1>2, <2>1, <2>3 DEF Differs
    <3>2. blocks[k].path = f
      BY <2>1, <3>1, BlockHas DEF BlockOf
    <3> QED
      BY <3>2
  <2> QED
    BY <2>2, <2>3
<1>13. Partly(N) = to
  BY <1>12 DEF Files
<1> QED
  BY <1>11, <1>13 DEF patch

LEMMA CarriedIsClean ==
  ASSUME NEW from, NEW to, Carried(Diff(from, to))
  PROVE  Clean(Diff(from, to)) = Diff(from, to)
<1> DEFINE patch == Diff(from, to)
           M == Len(Order)
<1>1. /\ IsSequence(patch.blocks)
      /\ \A k \in DOMAIN patch.blocks : \E m \in 1..M : patch.blocks[k] = BlockOf(from, to, m)
  BY DiffLists DEF Lists
<1>2. patch = [blocks |-> patch.blocks, cut |-> FALSE, blank |-> patch.blank]
  <2> DEFINE blocks == (CHOOSE h : h = [n \in 0..M |-> IF n = 0 THEN <<>>
                          ELSE LET f == Order[n]
                               IN  IF from[f] # to[f] THEN Append(h[n - 1], Block(f, from[f], to[f]))
                                   ELSE h[n - 1]])[M]
             last == blocks[Len(blocks)]
             blank == blocks # <<>> /\ last.kind = "change" /\ EndsBlank(last.from) /\ EndsBlank(last.to)
  <2>1. patch = [blocks |-> blocks, cut |-> FALSE, blank |-> blank]
    BY DEF Diff
  <2> HIDE DEF patch, blocks, blank
  <2> QED
    BY <2>1
<1>3. ~patch.blank /\ \A k \in DOMAIN patch.blocks :
        /\ patch.blocks[k].kind = "change"
        /\ Read(patch.blocks[k].from) = patch.blocks[k].from
        /\ Read(patch.blocks[k].to) = patch.blocks[k].to
  BY DEF Carried
<1>4. patch.blank = FALSE
  <2>1. patch.blank \in BOOLEAN
    BY DEF Diff
  <2> QED
    BY <1>3, <2>1
<1> HIDE DEF patch, M
<1>5. \A k \in DOMAIN patch.blocks : Settled(patch.blocks[k])
  <2> TAKE k \in DOMAIN patch.blocks
  <2> DEFINE block == patch.blocks[k]
  <2>1. PICK m \in 1..M : block = BlockOf(from, to, m)
    BY <1>1
  <2>2. block.header = block.path
    BY <2>1, BlockHas DEF BlockOf
  <2>3. block = FileChange(block.path, block.path, block.from, block.to, block.lines)
    <3>1. block.kind = "change"
      BY <1>3
    <3> QED
      BY <2>1, <3>1 DEF BlockOf, Block, FileChange
  <2>4. block.from = Read(block.from) /\ block.to = Read(block.to)
    BY <1>3
  <2> HIDE DEF block
  <2>5. Settled(block)
    BY <2>3, <2>4, ChangeSettles
  <2> QED
    BY <2>5 DEF block
<1>6. Clean(patch) = [blocks |-> patch.blocks, blank |-> FALSE, cut |-> patch.cut \/ patch.blank]
  BY <1>1, <1>5, CleanAgain
<1>7. (patch.cut \/ patch.blank) = FALSE
  BY <1>2, <1>4
<1> QED
  BY <1>2, <1>4, <1>6, <1>7 DEF patch

(* The gate takes what an edit within the limits exports, and it gives     *)
(* back the candidate: see ExportIsAccepted.                               *)
THEOREM ExportIsAcceptedAlways == Spec => []ExportIsAccepted
<1>1. BackendInv => ExportIsAccepted
  <2> SUFFICES ASSUME BackendInv, pc = "exported", exported = Diff(Base, tree),
                      Carried(exported), LinesAllowed(PatchLines(exported))
               PROVE  /\ Accepted(Base, exported)
                      /\ GitApply(Base, Clean(exported)).files = tree
    BY DEF ExportIsAccepted
  <2> DEFINE blocks == exported.blocks
             M == Len(Order)
  <2>1. Clean(exported) = exported
    BY CarriedIsClean
  <2>2. Files(Base) /\ Files(tree) /\ blocks # <<>> /\ PathsAllowed(Rewritten(tree))
    BY BackendAssumption DEF BackendInv, Files
  <2>3. GitApply(Base, exported) = [files |-> tree, ok |-> TRUE]
    BY <2>2, DiffRecreates
  <2>4. ASSUME NEW k \in DOMAIN blocks
        PROVE  /\ blocks[k].kind = "change"
               /\ blocks[k].header = blocks[k].path /\ blocks[k].path \in Rewritten(tree)
    <3>1. PICK m \in 1..M : Differs(Base, tree, m) /\ blocks[k] = BlockOf(Base, tree, m)
      BY DiffLists DEF Lists
    <3>2. blocks[k].kind = "change"
      BY DEF Carried
    <3>3. Base[Order[m]] # Unreadable /\ blocks[k].path = Order[m] /\ blocks[k].header = Order[m]
      BY <3>1, <3>2, BlockHas DEF BlockOf
    <3>4. Order[m] \in Path
      BY PatchAssumption
    <3> QED
      BY <3>1, <3>2, <3>3, <3>4 DEF Rewritten, Changes, Differs
  <2>5. Rewritten(tree) \subseteq Safe
    BY <2>2 DEF PathsAllowed, Allowed
  <2>6. ValidFormat(exported)
    BY <2>2, <2>4, <2>5 DEF ValidFormat
  <2>7. PatchPaths(exported) \subseteq Rewritten(tree)
    BY <2>4 DEF PatchPaths
  <2>8. ValidPolicy(exported)
    BY <2>2, <2>7, FewerAllowed DEF ValidPolicy
  <2> QED
    BY <2>1, <2>3, <2>6, <2>8 DEF Accepted
<1> QED
  BY <1>1, BackendInvAlwaysHolds, PTL
=============================================================================
