------------------------- MODULE TrustedRootProofs -------------------------
(***************************************************************************)
(* Proofs for TrustedRoot.                                                 *)
(*                                                                         *)
(* The trusted root describes the directory because four things cancel     *)
(* out: SplitCertChain numbers the files, sorting by name puts numbers of  *)
(* one digit back in their order, one certificate per file makes joining   *)
(* the files the same as listing the certificates, and the line end before *)
(* the root keeps its block from running into the one before.              *)
(*                                                                         *)
(* Joining is a loop, so the part about it is an induction on the number   *)
(* of files (ConcatenatedSingles).  It is done with a set of numbers,      *)
(* which has no least number outside it, and by showing that the recursive *)
(* function of the loop is the one that lists the first certificates.      *)
(***************************************************************************)
EXTENDS TrustedRoot, FiniteSetTheorems, SequenceTheorems, WellFoundedInduction, FunctionTheorems, TLAPS

USE ZenonT(20)

\* Induction on a set of numbers: the least number outside it has a predecessor
\* within.
LEMMA SetInduction ==
    ASSUME NEW T, 0 \in T, \A n \in Nat : n \in T => n + 1 \in T
    PROVE  Nat \subseteq T
<1> DEFINE R == OpToRel(<, Nat)
           rest == Nat \ T
<1>1. R = {ss \in Nat \X Nat : ss[1] < ss[2]}
  BY DEF OpToRel
<1>2. IsWellFoundedOn(R, Nat)
  BY NatLessThanWellFounded
<1> HIDE DEF R
<1>3. \A x, y \in Nat : x < y => <<x, y>> \in R
  BY SMT, <1>1
<1>4. ASSUME rest # {} PROVE FALSE
  <2>1. PICK x \in rest : \A y \in rest : ~ (<<y, x>> \in R)
    BY <1>2, <1>4, WFMin
  <2>2. x \in Nat /\ x # 0 /\ x \notin T
    BY <2>1
  <2>3. x - 1 \in Nat /\ x - 1 < x /\ (x - 1) + 1 = x
    BY SMT, <2>2
  <2>4. x - 1 \in T
    BY <1>3, <2>1, <2>2, <2>3
  <2> QED
    BY <2>2, <2>3, <2>4
<1> QED
  BY <1>4

\* Concatenating sequences of one element each.
LEMMA ConcatenatedSingles ==
    ASSUME NEW n \in Nat, NEW T, NEW s \in [1..n -> T]
    PROVE  Concatenated([i \in 1..n |-> <<s[i]>>]) = s
<1> DEFINE q == [i \in 1..n |-> <<s[i]>>]
           Eq(f) == f = [i \in 0..Len(q) |-> IF i = 0 THEN <<>> ELSE f[i - 1] \o q[i]]
           first(i) == [j \in 1..i |-> s[j]]
           g == [i \in 0..n |-> first(i)]
           f == CHOOSE f : Eq(f)
           good == {i \in Nat : i <= n => f[i] = first(i)}
<1>1. Len(q) = n
  BY SMT
<1>2. Concatenated(q) = f[n]
  BY <1>1 DEF Concatenated
<1>3. first(0) = <<>>
  BY SMT
<1>4. ASSUME NEW i \in 1..n PROVE first(i) = first(i - 1) \o q[i]
  BY SMT
<1>5. Eq(g)
  <2>1. ASSUME NEW i \in 1..n PROVE i - 1 \in 0..n /\ g[i - 1] = first(i - 1)
    BY SMT
  <2>2. ASSUME NEW i \in 0..n PROVE i = 0 \/ i \in 1..n
    BY SMT
  <2> HIDE DEF q, first
  <2>3. ASSUME NEW i \in 0..n PROVE first(i) = IF i = 0 THEN <<>> ELSE g[i - 1] \o q[i]
    BY <1>3, <1>4, <2>1, <2>2
  <2> QED
    BY <1>1, <2>3
<1>6. Eq(f)
  BY <1>5
<1> HIDE DEF q, first, f, g
<1>7. Nat \subseteq good
  <2>1. 0 \in good
    BY SMT, <1>1, <1>3, <1>6
  <2>2. ASSUME NEW i \in Nat, i \in good PROVE i + 1 \in good
    <3>1. CASE i + 1 <= n
      <4>1. i + 1 \in 1..n /\ i + 1 \in 0..n /\ (i + 1) - 1 = i /\ i <= n /\ i + 1 # 0
        BY SMT, <3>1
      <4>2. f[i + 1] = f[i] \o q[i + 1]
        BY <1>1, <1>6, <4>1
      <4>3. first(i + 1) = first(i) \o q[i + 1]
        BY <1>4, <4>1
      <4>4. f[i] = first(i)
        BY <2>2, <4>1
      <4>5. i + 1 \in Nat
        BY SMT
      <4> QED
        BY <4>2, <4>3, <4>4, <4>5
    <3> QED
      BY SMT, <3>1
  <2> QED
    BY <2>1, <2>2, SetInduction
<1>8. f[n] = first(n)
  BY SMT, <1>7
<1> QED
  BY <1>2, <1>8 DEF first, q

----------------------------------------------------------------------------
\* Names with one digit.

Intermediates == {"fulcio_intermediate", "tsa_intermediate"}

\* The names number 0 to k - 1.
NumberedNames(stem, k) == {Numbered(stem, i) : i \in 0..(k - 1)}

\* Names with one digit are ordered as their numbers are.
LEMMA OrderOfNumbers ==
    ASSUME NEW stem \in Intermediates, NEW i \in 0..9, NEW j \in 0..9
    PROVE  /\ NameLess(Numbered(stem, i), Numbered(stem, j)) <=> i < j
           /\ Numbered(stem, i) = Numbered(stem, j) => i = j
<1> DEFINE place == CHOOSE k \in DOMAIN Stems : Stems[k] = stem
<1>1. \A n \in {i, j} : Numbered(stem, n).stem = stem /\ Numbered(stem, n).digits = <<n>>
  BY SMT DEF Numbered
<1>2. place \in Nat
  <2>1. DOMAIN Stems \subseteq Nat /\ \E k \in DOMAIN Stems : Stems[k] = stem
    BY SMT DEF Stems, Intermediates
  <2> QED
    BY <2>1
<1>3. ~ (place < place)
  <2> HIDE DEF place
  <2> QED
    BY SMT, <1>2
<1>4. DigitsLess(<<i>>, <<j>>) <=> i < j
  BY SMT DEF DigitsLess
<1>5. NameLess(Numbered(stem, i), Numbered(stem, j)) <=> i < j
  BY <1>1, <1>3, <1>4 DEF NameLess
<1>6. <<i>> = <<j>> => i = j
  BY SMT
<1> QED
  BY <1>1, <1>5, <1>6

\* There are k of them.
LEMMA HowMany ==
    ASSUME NEW stem \in Intermediates, NEW k \in 0..10
    PROVE  Cardinality(NumberedNames(stem, k)) = k
<1> DEFINE b == [i \in 1..k |-> Numbered(stem, i - 1)]
<1>0. k \in Nat
  BY SMT
<1>1. ASSUME NEW i \in 1..k PROVE i - 1 \in 0..(k - 1) /\ i - 1 \in 0..9
  BY SMT
<1>2. ASSUME NEW i \in 0..(k - 1) PROVE i + 1 \in 1..k /\ (i + 1) - 1 = i
  BY SMT
<1>3. b \in [1..k -> NumberedNames(stem, k)]
  BY <1>1 DEF NumberedNames
<1>4. ASSUME NEW i \in 1..k, NEW j \in 1..k, b[i] = b[j] PROVE i = j
  <2>1. i - 1 = j - 1
    BY <1>1, <1>4, OrderOfNumbers
  <2> QED
    BY SMT, <2>1
<1>5. ASSUME NEW n \in NumberedNames(stem, k) PROVE \E i \in 1..k : b[i] = n
  BY <1>2 DEF NumberedNames
<1>6. b \in Bijection(1..k, NumberedNames(stem, k))
  BY <1>3, <1>4, <1>5, Fun_IsBij
<1>7. ExistsBijection(1..k, NumberedNames(stem, k))
  BY <1>6 DEF ExistsBijection
<1> QED
  BY <1>0, <1>7, FS_CountingElements

\* Sorting puts them in the order of their numbers.
LEMMA SortedNumbers ==
    ASSUME NEW stem \in Intermediates, NEW k \in 0..10
    PROVE  Sorted(NumberedNames(stem, k)) = [i \in 1..k |-> Numbered(stem, i - 1)]
<1> DEFINE names == NumberedNames(stem, k)
           less(n) == {m \in names : NameLess(m, n)}
<1>1. ASSUME NEW j \in 0..(k - 1) PROVE Cardinality(less(Numbered(stem, j))) = j
  <2>1. j \in 0..9 /\ j \in 0..10
    BY SMT
  <2>2. ASSUME NEW l PROVE l \in 0..(j - 1) <=> l \in 0..(k - 1) /\ l \in 0..9 /\ l < j
    BY SMT
  <2>3. \A l \in 0..(k - 1) : l \in 0..9
    BY SMT
  <2>4. \A l \in 0..(k - 1) : NameLess(Numbered(stem, l), Numbered(stem, j)) <=> l < j
    BY <2>1, <2>3, OrderOfNumbers
  <2>5. less(Numbered(stem, j)) = NumberedNames(stem, j)
    <3>1. ASSUME NEW n \in less(Numbered(stem, j)) PROVE n \in NumberedNames(stem, j)
      BY <2>2, <2>3, <2>4 DEF NumberedNames
    <3>2. ASSUME NEW n \in NumberedNames(stem, j) PROVE n \in less(Numbered(stem, j))
      BY <2>2, <2>4 DEF NumberedNames
    <3> QED
      BY <3>1, <3>2
  <2> QED
    BY <2>1, <2>5, HowMany
<1>2. ASSUME NEW i \in 1..k
      PROVE  (CHOOSE n \in names : Cardinality(less(n)) = i - 1) = Numbered(stem, i - 1)
  <2>1. i - 1 \in 0..(k - 1)
    BY SMT
  <2> DEFINE Is(n) == n \in names /\ Cardinality(less(n)) = i - 1
  <2>2. Is(Numbered(stem, i - 1))
    BY <1>1, <2>1 DEF NumberedNames
  <2>3. ASSUME NEW n, Is(n) PROVE n = Numbered(stem, i - 1)
    BY <1>1, <2>3 DEF NumberedNames
  <2> QED
    BY <2>2, <2>3
<1> QED
  BY <1>2, HowMany DEF Sorted

----------------------------------------------------------------------------
\* Chains of certificates.

\* n files with one block each.
Singles(parts, s, n) ==
    /\ parts = [i \in 1..n |-> parts[i]]
    /\ \A i \in 1..n : parts[i].blocks = <<s[i]>> /\ parts[i].glued = "no"

\* Bytes with the given blocks, each of which starts a line.
IsJoined(c, blocks) ==
    /\ c.blocks = blocks
    /\ c.glued = "no"
    /\ c = NoBytes <=> blocks = <<>>

\* Files with one block each, joined with line ends between them and before the
\* last file, have the blocks of all of them, and every block starts a line.
LEMMA JoinedChain ==
    ASSUME NEW T, NEW n \in Nat, NEW s \in [1..n -> T], NEW parts, Singles(parts, s, n),
           NEW b \in Seq(T), NEW e, Pem(b, e) = NoBytes \/ b # <<>>
    PROVE  IsJoined(Join(Lines(parts), Pem(b, e)), s \o b)
<1> USE DEF Singles
<1> DEFINE l == Lines(parts)
           root == Pem(b, e)
           c == Join(l, root)
<1>1. l.blocks = s
  <2>1. [i \in DOMAIN parts |-> parts[i].blocks] = [i \in 1..n |-> <<s[i]>>]
    OBVIOUS
  <2> QED
    BY <2>1, ConcatenatedSingles DEF Lines
<1>2. l.glued = "no"
  BY DEF Lines
<1>3. n = 0 => l.ended = "no" /\ s = <<>>
  BY SMT DEF Lines
<1>4. n # 0 => l.ended = "yes"
  <2>1. n # 0 => parts # <<>>
    BY SMT
  <2> QED
    BY <2>1 DEF Lines
<1>5. root.blocks = b /\ root.ended = e /\ root.glued = "no"
  BY DEF Pem
<1> HIDE DEF l, root
<1>6. /\ c.blocks = s \o b
      /\ c.ended = IF root = NoBytes THEN l.ended ELSE e
      /\ c.glued = "no"
      /\ c = [blocks |-> c.blocks, ended |-> c.ended, glued |-> c.glued]
  <2>1. ~ (l.blocks # <<>> /\ l.ended = "no")
    BY <1>1, <1>3, <1>4
  <2> QED
    BY <1>1, <1>2, <1>5, <2>1 DEF Join
<1> HIDE DEF c
<1>7. NoBytes = [blocks |-> <<>>, ended |-> "no", glued |-> "no"]
  BY DEF NoBytes, Pem
<1>8. NoBytes.blocks = <<>>
  BY <1>7
<1>9. ASSUME n = 0 PROVE c = NoBytes <=> s \o b = <<>>
  <2>1. s \o b = b
    BY SMT, <1>3, <1>9
  <2>2. b = <<>> => c.ended = "no"
    BY <1>3, <1>6, <1>9 DEF root
  <2>3. b = <<>> => c = NoBytes
    BY SMT, <1>6, <1>7, <2>1, <2>2
  <2> QED
    BY <1>6, <1>8, <2>1, <2>3
<1>10. ASSUME n # 0 PROVE c = NoBytes <=> s \o b = <<>>
  <2>1. s \o b # <<>>
    BY SMT, <1>10
  <2> QED
    BY <1>6, <1>8, <2>1
<1> QED
  BY <1>6, <1>9, <1>10 DEF IsJoined, c, l, root

----------------------------------------------------------------------------
\* What the names of files say.

FulcioStems == {"fulcio_intermediate", "fulcio_v1"}
TSAStems == {"tsa.certchain", "tsa_intermediate", "tsa_leaf", "tsa_root"}

\* Each known word and the stems with it.
LEMMA WordsOfStems ==
    /\ StemsWith["fulcio"] = FulcioStems
    /\ StemsWith["rekor"] = {"rekor", "rekor_2022"}
    /\ StemsWith["ctfe"] = {"ctfe", "ctfe_2022"}
    /\ StemsWith["tsa"] = TSAStems
    /\ StemsWith["intermediate"] = Intermediates
    /\ StemsWith["leaf"] = {"tsa_leaf"}
BY SMT DEF StemsWith, FulcioStems, TSAStems, Intermediates

\* The usage of a file is decided by its stem.
LEMMA UsageOfStem ==
    ASSUME NEW n
    PROVE  /\ getTargetUsage(n) = "Fulcio" <=> n.stem \in FulcioStems
           /\ getTargetUsage(n) = "Rekor" <=> n.stem \in {"rekor", "rekor_2022"}
           /\ getTargetUsage(n) = "CTFE" <=> n.stem \in {"ctfe", "ctfe_2022"}
           /\ getTargetUsage(n) = "TSA" <=> n.stem \in TSAStems
<1>1. /\ Contains(n, "fulcio") <=> n.stem \in FulcioStems
      /\ Contains(n, "rekor") <=> n.stem \in {"rekor", "rekor_2022"}
      /\ Contains(n, "ctfe") <=> n.stem \in {"ctfe", "ctfe_2022"}
      /\ Contains(n, "tsa") <=> n.stem \in TSAStems
  BY WordsOfStems DEF Contains
<1>2. /\ FulcioStems \cap TSAStems = {}
      /\ \A s \in FulcioStems \cup TSAStems : s \notin {"rekor", "rekor_2022", "ctfe", "ctfe_2022"}
  BY DEF FulcioStems, TSAStems
<1> QED
  BY <1>1, <1>2 DEF getTargetUsage

\* The three ways a name is made.
LEMMA StemOfName ==
    ASSUME NEW stem, NEW i
    PROVE  Name(stem).stem = stem /\ Numbered(stem, i).stem = stem
BY DEF Name, Numbered

----------------------------------------------------------------------------
\* The loop over the directory.

Plain(n) == ~ Skipped(n) /\ n.stem \notin TSAStems

TSAName == Name("tsa.certchain")

\* What has been put into f once the names in r are read: the files with these
\* names, and of the TSA's chain its certificates, one by one.
Collected(r, f) ==
    LET plain == {n \in r : Plain(n)}
        split == SplitCertChain(GivenTSA)
    IN  /\ DOMAIN f = plain \cup (IF TSAName \in r THEN DOMAIN split ELSE {})
        /\ \A n \in plain : f[n] = dir[n]
        /\ TSAName \in r => Len(GivenTSA) >= 2 /\ \A n \in DOMAIN split : f[n] = split[n]

\* The names and contents that SplitCertChain makes of a chain.
LEMMA SplitIs ==
    ASSUME NEW T, NEW certs \in Seq(T), Len(certs) \in 2..12
    PROVE  LET split == SplitCertChain(certs)
               m == Len(certs) - 2
           IN  /\ DOMAIN split = {Name("tsa_leaf"), Name("tsa_root")}
                                    \cup NumberedNames("tsa_intermediate", m)
               /\ split[Name("tsa_leaf")] = Trimmed(certs[1])
               /\ split[Name("tsa_root")] = Trimmed(certs[Len(certs)])
               /\ \A i \in 1..m : split[Numbered("tsa_intermediate", i - 1)] = Trimmed(certs[i + 1])
<1> DEFINE split == SplitCertChain(certs)
           m == Len(certs) - 2
           names == NumberedNames("tsa_intermediate", m)
           leaf == Name("tsa_leaf")
           root == Name("tsa_root")
<1>1. m \in 0..10
  BY SMT
<1>2. {intermediateName(i) : i \in 1..m} = names
  <2>1. \A i \in 1..m : i - 1 \in 0..(m - 1)
    BY SMT, <1>1
  <2>2. \A i \in 0..(m - 1) : i + 1 \in 1..m /\ (i + 1) - 1 = i
    BY SMT, <1>1
  <2> QED
    BY <2>1, <2>2 DEF intermediateName, NumberedNames
<1>3. leaf # root /\ leaf \notin names /\ root \notin names
  <2>1. leaf.stem = "tsa_leaf" /\ root.stem = "tsa_root"
    BY StemOfName
  <2>2. \A n \in names : n.stem = "tsa_intermediate"
    BY StemOfName DEF NumberedNames
  <2> QED
    BY <2>1, <2>2
<1>4. DOMAIN split = {leaf, root} \cup names
  BY <1>2 DEF SplitCertChain
<1>5. split[leaf] = Trimmed(certs[1]) /\ split[root] = Trimmed(certs[Len(certs)])
  BY <1>3 DEF SplitCertChain
<1>6. ASSUME NEW i \in 1..m
      PROVE  split[Numbered("tsa_intermediate", i - 1)] = Trimmed(certs[i + 1])
  <2> DEFINE n == intermediateName(i)
  <2>1. n = Numbered("tsa_intermediate", i - 1) /\ n \in names
    BY <1>2 DEF intermediateName
  <2>2. \A j \in 1..m : intermediateName(j) = n => j = i
    <3> HIDE DEF m
    <3>1. \A j \in 1..m : j - 1 \in 0..9
      BY SMT, <1>1
    <3>2. ASSUME NEW j \in 1..m, j - 1 = i - 1 PROVE j = i
      BY SMT, <1>1, <3>2
    <3> QED
      BY <3>1, <3>2, OrderOfNumbers DEF intermediateName, Intermediates
  <2>3. (CHOOSE j \in 1..m : intermediateName(j) = n) = i
    BY <2>2
  <2>4. split[n] = Trimmed(certs[1 + i])
    BY <1>3, <1>4, <2>1, <2>3 DEF SplitCertChain
  <2>5. 1 + i = i + 1
    BY SMT, <1>1
  <2> QED
    BY <2>1, <2>4, <2>5
<1> QED
  BY <1>4, <1>5, <1>6

\* The contents of numbered files, in order.
LEMMA BytesOfNumbered ==
    ASSUME NEW stem \in Intermediates, NEW k \in 0..10, NEW f
    PROVE  BytesOfAll(f, NumberedNames(stem, k)) = [i \in 1..k |-> f[Numbered(stem, i - 1)]]
BY SortedNumbers, HowMany DEF BytesOfAll

\* The last of no names, and of one.
LEMMA LastOfFew ==
    ASSUME NEW f, NEW n
    PROVE  LastOf(f, {}) = NoBytes /\ LastOf(f, {n}) = f[n]
BY DEF LastOf

\* Without a TSA there is no chain.
LEMMA NoTSAChain ==
    ASSUME NEW f, NamesOf(f, "TSA") = {}
    PROVE  TSAChain(f) = NoBytes
<1> DEFINE parts == BeforeRoot(NoBytes, BytesOfAll(f, {}))
<1>1. TSAChain(f) = Join(Lines(parts), NoBytes)
  BY LastOfFew DEF TSAChain, concatCertChain
<1>2. BytesOfAll(f, {}) = <<>>
  <2>1. Cardinality({}) = 0
    BY FS_EmptySet
  <2>2. \A g : [i \in 1..0 |-> g[i]] = <<>>
    BY SMT
  <2> QED
    BY SMT, <2>1 DEF BytesOfAll
<1>3. parts = <<>>
  BY SMT, <1>2 DEF BeforeRoot
<1>4. <<>> \in [1..0 -> {}] /\ <<>> \in Seq({}) /\ <<>> \o <<>> = <<>> /\ 0 \in Nat
  BY SMT
<1>5. Singles(<<>>, <<>>, 0)
  BY SMT DEF Singles
<1>6. Pem(<<>>, "no") = NoBytes
  BY DEF NoBytes
<1>7. IsJoined(Join(Lines(<<>>), Pem(<<>>, "no")), <<>> \o <<>>)
  BY <1>4, <1>5, <1>6, JoinedChain
<1> QED
  BY <1>1, <1>3, <1>4, <1>6, <1>7 DEF IsJoined

\* A small number is a number.
LEMMA SmallIsNat ==
    ASSUME NEW k \in 0..10
    PROVE  k \in Nat
BY SMT

\* Numbers from one on, counted from zero.
LEMMA NumbersFromZero ==
    ASSUME NEW k \in 0..10, NEW i \in 1..k
    PROVE  i - 1 \in 0..(k - 1)
BY SMT

\* A sequence over a set is one over every larger set.
LEMMA SeqOfMore ==
    ASSUME NEW S, NEW T, S \subseteq T, NEW s \in Seq(S)
    PROVE  s \in Seq(T)
BY SMT

\* Concatenating keeps the type.
LEMMA ConcatenatedFits ==
    ASSUME NEW T, NEW n \in Nat, NEW s \in [1..n -> T], NEW b \in Seq(T)
    PROVE  s \o b \in Seq(T)
BY SMT

\* The number of intermediates in a chain of k certificates.
LEMMA InnerLength ==
    ASSUME NEW k \in 2..12
    PROVE  /\ k - 2 \in 0..10
           /\ (k - 2) + 1 \in Nat
           /\ (k - 2) + 1 = k - 1
           /\ (k - 2) + 1 \in 1..k
           /\ 2 <= k
           /\ k \in 1..k
BY SMT

\* A chain is what comes before its last certificate, and that one.
LEMMA ButLast ==
    ASSUME NEW T, NEW certs \in Seq(T), Len(certs) \in 2..12
    PROVE  LET m == Len(certs) - 2
               last == certs[Len(certs)]
               s == [i \in 1..(m + 1) |-> certs[i]]
           IN  /\ m \in 0..10
               /\ m + 1 \in Nat
               /\ m + 1 \in 1..Len(certs)
               /\ s \in [1..(m + 1) -> T]
               /\ <<last>> \in Seq(T)
               /\ <<last>> # <<>>
               /\ s \o <<last>> = certs
<1> DEFINE m == Len(certs) - 2
           last == certs[Len(certs)]
           s == [i \in 1..(m + 1) |-> certs[i]]
<1>1. m \in 0..10 /\ m + 1 \in Nat /\ m + 1 = Len(certs) - 1 /\ m + 1 \in 1..Len(certs)
  BY InnerLength
<1>2. last \in T /\ \A i \in 1..Len(certs) : certs[i] \in T
  <2>1. certs \in [1..Len(certs) -> T]
    BY LenProperties
  <2>2. Len(certs) \in 1..Len(certs)
    BY InnerLength
  <2> QED
    BY <2>1, <2>2
<1>3. \A i \in 1..(m + 1) : i \in 1..Len(certs)
  BY SMT
<1> HIDE DEF m
<1>4. s \in [1..(m + 1) -> T]
  BY <1>2, <1>3
<1> HIDE DEF last
<1>5. <<last>> \in Seq(T) /\ <<last>> # <<>>
  BY SMT, <1>2
<1>6. s \o <<last>> = certs
  <2> DEFINE c == s \o <<last>>
  <2>1. s \in Seq(T) /\ Len(s) = m + 1
    BY SMT, <1>1, <1>4
  <2>2. \A i \in 1..(m + 1) : s[i] = certs[i]
    OBVIOUS
  <2> HIDE DEF s
  <2>3. c \in Seq(T) /\ Len(c) = Len(certs)
    BY SMT, <1>1, <1>5, <2>1
  <2>4. ASSUME NEW i \in 1..Len(certs) PROVE c[i] = certs[i]
    BY SMT, <1>1, <1>5, <2>1, <2>2 DEF last
  <2> HIDE DEF c
  <2>5. c = certs
    BY <2>3, <2>4, SeqEqual
  <2> QED
    BY <2>5 DEF c
<1> QED
  BY <1>1, <1>4, <1>5, <1>6 DEF m, last

\* A chain that SplitCertChain has taken apart is put together again.
THEOREM SplitChainIsRejoined ==
    ASSUME NEW T, NEW certs \in Seq(T), Len(certs) \in 2..12, NEW f,
           NamesOf(f, "TSA") = DOMAIN SplitCertChain(certs),
           \A n \in DOMAIN SplitCertChain(certs) : f[n] = SplitCertChain(certs)[n]
    PROVE  IsJoined(TSAChain(f), certs)
<1> DEFINE m == Len(certs) - 2
           inner == NumberedNames("tsa_intermediate", m)
           leaf == Name("tsa_leaf")
           root == Name("tsa_root")
           last == certs[Len(certs)]
           s == [i \in 1..(m + 1) |-> certs[i]]
           parts == [i \in 1..(m + 1) |-> Trimmed(s[i])]
<1>1. /\ m \in 0..10
      /\ m + 1 \in Nat
      /\ m + 1 \in 1..Len(certs)
      /\ s \in [1..(m + 1) -> T]
      /\ <<last>> \in Seq(T)
      /\ <<last>> # <<>>
      /\ s \o <<last>> = certs
  BY ButLast
<1>2. /\ NamesOf(f, "TSA") = {leaf, root} \cup inner
      /\ f[leaf] = Trimmed(certs[1])
      /\ f[root] = Trimmed(last)
      /\ \A i \in 1..m : f[Numbered("tsa_intermediate", i - 1)] = Trimmed(certs[i + 1])
  <2>1. /\ DOMAIN SplitCertChain(certs) = {leaf, root} \cup inner
        /\ SplitCertChain(certs)[leaf] = Trimmed(certs[1])
        /\ SplitCertChain(certs)[root] = Trimmed(last)
        /\ \A i \in 1..m : SplitCertChain(certs)[Numbered("tsa_intermediate", i - 1)] = Trimmed(certs[i + 1])
    BY SplitIs
  <2> HIDE DEF m
  <2>2. \A i \in 1..m : i - 1 \in 0..(m - 1)
    BY SMT, <1>1
  <2>3. \A i \in 1..m : Numbered("tsa_intermediate", i - 1) \in inner
    BY <2>2 DEF NumberedNames
  <2> QED
    BY <2>1, <2>3
<1> HIDE DEF m, last, s
<1>3. \A n \in inner : n.stem = "tsa_intermediate"
  BY StemOfName DEF NumberedNames
<1>4. leaf.stem = "tsa_leaf" /\ root.stem = "tsa_root"
  BY StemOfName
<1>5. \A n : /\ Contains(n, "leaf") <=> n.stem = "tsa_leaf"
             /\ Contains(n, "intermediate") <=> n.stem \in Intermediates
  BY WordsOfStems DEF Contains
<1>6. "tsa_leaf" \notin Intermediates /\ "tsa_root" \notin Intermediates /\ "tsa_intermediate" \in Intermediates
  BY DEF Intermediates
<1> HIDE DEF inner, leaf, root
<1>7. {n \in NamesOf(f, "TSA") : Contains(n, "leaf")} = {leaf}
  BY <1>2, <1>3, <1>4, <1>5
<1>8. {n \in NamesOf(f, "TSA") \ {leaf} : Contains(n, "intermediate")} = inner
  BY <1>2, <1>3, <1>4, <1>5, <1>6
<1>9. NamesOf(f, "TSA") \ ({leaf} \cup inner) = {root}
  BY <1>2, <1>3, <1>4
<1>10. TSAChain(f) = Join(Lines(BeforeRoot(Trimmed(certs[1]), BytesOfAll(f, inner))), Trimmed(last))
  <2>1. LastOf(f, {leaf}) = Trimmed(certs[1]) /\ LastOf(f, {root}) = Trimmed(last)
    BY <1>2, LastOfFew
  <2> QED
    BY <1>7, <1>8, <1>9, <2>1 DEF TSAChain, concatCertChain
<1>11. BytesOfAll(f, inner) = [i \in 1..m |-> Trimmed(certs[i + 1])]
  <2>1. BytesOfAll(f, inner) = [i \in 1..m |-> f[Numbered("tsa_intermediate", i - 1)]]
    BY <1>1, <1>6, BytesOfNumbered DEF inner
  <2> QED
    BY <1>2, <2>1
<1>12. \A x : Trimmed(x).blocks = <<x>> /\ Trimmed(x).glued = "no" /\ Trimmed(x) # NoBytes
  <2>1. \A x : Trimmed(x).blocks = <<x>> /\ Trimmed(x).glued = "no"
    BY DEF Trimmed, Pem
  <2>2. NoBytes.blocks = <<>>
    BY DEF NoBytes, Pem
  <2>3. \A x : <<x>> # <<>>
    BY SMT
  <2> QED
    BY <2>1, <2>2, <2>3
<1>13. BeforeRoot(Trimmed(certs[1]), BytesOfAll(f, inner)) = parts
  <2>1. BeforeRoot(Trimmed(certs[1]), BytesOfAll(f, inner))
           = <<Trimmed(certs[1])>> \o [i \in 1..m |-> Trimmed(certs[i + 1])]
    BY <1>11, <1>12 DEF BeforeRoot
  <2>2. parts = [i \in 1..(m + 1) |-> Trimmed(certs[i])]
    BY DEF s
  <2> QED
    BY SMT, <1>1, <2>1, <2>2
<1>14. Singles(parts, s, m + 1)
  BY <1>12 DEF Singles
<1>15. IsJoined(Join(Lines(parts), Pem(<<last>>, "no")), s \o <<last>>)
  BY <1>1, <1>14, JoinedChain
<1> QED
  BY <1>1, <1>10, <1>13, <1>15 DEF Trimmed

\* Intermediates of Fulcio in files of their own come before what the other
\* file holds.
LEMMA FulcioJoined ==
    ASSUME NEW f, NEW k \in 0..10, NEW T, NEW s \in [1..k -> T], NEW b \in Seq(T), NEW e,
           {n \in NamesOf(f, "Fulcio") : Contains(n, "intermediate")}
               = NumberedNames("fulcio_intermediate", k),
           \A i \in 1..k : /\ f[Numbered("fulcio_intermediate", i - 1)].blocks = <<s[i]>>
                           /\ f[Numbered("fulcio_intermediate", i - 1)].glued = "no",
           LastOf(f, NamesOf(f, "Fulcio") \ NumberedNames("fulcio_intermediate", k)) = Pem(b, e),
           Pem(b, e) = NoBytes \/ b # <<>>
    PROVE  IsJoined(FulcioChain(f), s \o b)
<1> DEFINE names == NumberedNames("fulcio_intermediate", k)
           parts == BytesOfAll(f, names)
<1>1. k \in Nat
  BY SmallIsNat
<1>2. parts = [i \in 1..k |-> f[Numbered("fulcio_intermediate", i - 1)]]
  BY BytesOfNumbered DEF Intermediates
<1>3. <<>> \o parts = parts
  <2>1. \A g : <<>> \o [i \in 1..k |-> g[i]] = [i \in 1..k |-> g[i]]
    BY SMT, <1>1
  <2>2. parts = [i \in 1..k |-> parts[i]]
    BY <1>2
  <2> QED
    BY <2>1, <2>2
<1>4. Singles(parts, s, k)
  BY <1>2 DEF Singles
<1>5. FulcioChain(f) = Join(Lines(parts), Pem(b, e))
  BY <1>3 DEF FulcioChain, concatCertChain, BeforeRoot
<1> QED
  BY <1>1, <1>4, <1>5, JoinedChain

----------------------------------------------------------------------------
\* What a well-formed directory holds.

IsSeq(s) == s \in Seq({s[i] : i \in DOMAIN s})

Certificates(s) == \E T : s \in Seq(T) /\ \A cert \in T : cert.block = "certificate"

\* The parts of a file.
LEMMA PemParts ==
    ASSUME NEW bytes, IsPem(bytes)
    PROVE  /\ IsSeq(bytes.blocks)
           /\ bytes.glued = "no"
           /\ \E b, e : bytes = Pem(b, e) /\ b = bytes.blocks
<1>1. \A b, e : Pem(b, e).glued = "no"
  BY DEF Pem
<1> QED
  BY <1>1 DEF IsPem, IsSeq

\* The length of a sequence that is not empty.
LEMMA LengthOfSome ==
    ASSUME NEW T, NEW s \in Seq(T), s # <<>>, Len(s) <= 12
    PROVE  Len(s) \in 1..12
<1>1. Len(s) \in Nat /\ Len(s) # 0
  BY EmptySeq, LenProperties
<1>2. \A n \in Nat : n # 0 /\ n <= 12 => n \in 1..12
  BY SMT
<1> QED
  BY <1>1, <1>2

\* A sequence of at most one element.
LEMMA OneOrNone ==
    ASSUME NEW T, NEW s \in Seq(T), Len(s) <= 1
    PROVE  (s # <<>> <=> Len(s) = 1) /\ (Len(s) = 1 => 1 \in DOMAIN s)
<1>1. /\ Len(s) \in Nat
      /\ DOMAIN s = 1..Len(s)
      /\ s # <<>> => Len(s) # 0
      /\ s = <<>> => Len(s) = 0
  BY EmptySeq, LenProperties
<1>2. \A n \in Nat : n <= 1 => n = 0 \/ n = 1
  BY SMT
<1>3. 1 \in 1..1 /\ 0 # 1
  BY SMT
<1> QED
  BY <1>1, <1>2, <1>3

\* The TSA's chain.
LEMMA GivenTSAIs ==
    ASSUME IsDirectory(dir)
    PROVE  /\ TSAName \notin DOMAIN dir => GivenTSA = <<>>
           /\ TSAName \in DOMAIN dir =>
                 /\ GivenTSA = dir[TSAName].blocks
                 /\ GivenTSA # <<>>
                 /\ Certificates(GivenTSA)
                 /\ Len(GivenTSA) \in 1..12
                 /\ GivenTSA[1].kind = "leaf"
                 /\ ChainIsFine(dir[TSAName])
<1>1. ASSUME TSAName \notin DOMAIN dir PROVE GivenTSA = <<>>
  <2>1. NoBytes.blocks = <<>>
    BY DEF NoBytes, Pem
  <2> QED
    BY <1>1, <2>1 DEF GivenTSA, BytesOf, TSAName
<1>2. ASSUME TSAName \in DOMAIN dir
      PROVE  /\ GivenTSA = dir[TSAName].blocks
             /\ IsPem(dir[TSAName])
             /\ GivenTSA # <<>>
             /\ ChainIsFine(dir[TSAName])
             /\ GivenTSA[1].kind = "leaf"
             /\ Len(GivenTSA) <= 12
  <2>1. TSAName.stem = "tsa.certchain"
    BY StemOfName DEF TSAName
  <2>2. GivenTSA = dir[TSAName].blocks
    BY <1>2 DEF GivenTSA, BytesOf, TSAName
  <2> QED
    BY <1>2, <2>1, <2>2 DEF IsDirectory, IsChain
<1>3. ASSUME TSAName \in DOMAIN dir PROVE Certificates(GivenTSA)
  <2> DEFINE T == {GivenTSA[i] : i \in DOMAIN GivenTSA}
  <2>1. IsSeq(GivenTSA)
    BY <1>2, <1>3, PemParts
  <2>2. GivenTSA \in Seq(T)
    BY <2>1 DEF IsSeq
  <2>3. \A cert \in T : cert.block = "certificate"
    BY <1>2, <1>3 DEF ChainIsFine
  <2> HIDE DEF T
  <2> QED
    BY <2>2, <2>3 DEF Certificates
<1>4. ASSUME TSAName \in DOMAIN dir PROVE Len(GivenTSA) \in 1..12
  BY <1>2, <1>3, <1>4, LengthOfSome DEF Certificates
<1> QED
  BY <1>1, <1>2, <1>3, <1>4

\* A sequence of one element.
LEMMA OneElement ==
    ASSUME NEW T, NEW s \in Seq(T), Len(s) = 1
    PROVE  s = <<s[1]>>
BY SMT

\* The names of Fulcio's intermediates.
InnerFulcio == {n \in DOMAIN dir : n.stem = "fulcio_intermediate"}

\* Fulcio's chain: the certificates s of k numbered files, one of each, and
\* those in the other file, b.
FulcioParts(k, s, b, e) ==
    /\ InnerFulcio = NumberedNames("fulcio_intermediate", k)
    /\ IsSeq(b)
    /\ BytesOf("fulcio_v1") = Pem(b, e)
    /\ Pem(b, e) = NoBytes \/ b # <<>>
    /\ \A i \in DOMAIN b : b[i].block = "certificate"
    /\ s = [i \in 1..k |-> s[i]]
    /\ \A i \in 1..k : /\ dir[Numbered("fulcio_intermediate", i - 1)].blocks = <<s[i]>>
                       /\ dir[Numbered("fulcio_intermediate", i - 1)].glued = "no"
                       /\ s[i].block = "certificate"
    /\ GivenFulcio = s \o b

\* Every well-formed directory has such a chain.
LEMMA GivenFulcioIs ==
    ASSUME IsDirectory(dir)
    PROVE  \E k \in 0..10 : \E s, b, e : FulcioParts(k, s, b, e)
<1>1. PICK k \in 0..10 : InnerFulcio = NumberedNames("fulcio_intermediate", k)
  BY DEF IsDirectory, InnerFulcio, NumberedNames
<1> DEFINE name(i) == Numbered("fulcio_intermediate", i - 1)
           s == [i \in 1..k |-> dir[name(i)].blocks[1]]
           v1 == Name("fulcio_v1")
<1>2. PICK b, e : /\ IsSeq(b)
                  /\ BytesOf("fulcio_v1") = Pem(b, e)
                  /\ Pem(b, e) = NoBytes \/ b # <<>>
                  /\ \A i \in DOMAIN b : b[i].block = "certificate"
  <2>1. CASE v1 \in DOMAIN dir
    <3>1. v1.stem = "fulcio_v1"
      BY StemOfName
    <3>2. IsPem(dir[v1]) /\ dir[v1].blocks # <<>> /\ ChainIsFine(dir[v1])
      BY <2>1, <3>1 DEF IsDirectory, IsChain
    <3>3. BytesOf("fulcio_v1") = dir[v1]
      BY <2>1 DEF BytesOf
    <3>4. PICK b, e : dir[v1] = Pem(b, e) /\ b = dir[v1].blocks
      BY <3>2, PemParts
    <3>5. IsSeq(b)
      BY <3>2, <3>4, PemParts
    <3>6. \A i \in DOMAIN b : b[i].block = "certificate"
      BY <3>2, <3>4 DEF ChainIsFine
    <3> QED
      BY <3>2, <3>3, <3>4, <3>5, <3>6
  <2>2. CASE v1 \notin DOMAIN dir
    <3>1. BytesOf("fulcio_v1") = Pem(<<>>, "no") /\ Pem(<<>>, "no") = NoBytes
      BY <2>2 DEF BytesOf, NoBytes
    <3>2. IsSeq(<<>>) /\ DOMAIN <<>> = {}
      BY SMT DEF IsSeq
    <3>3. \A i \in DOMAIN <<>> : <<>>[i].block = "certificate"
      BY <3>2
    <3> QED
      BY <3>1, <3>2, <3>3
  <2> QED
    BY <2>1, <2>2
<1>3. ASSUME NEW i \in 1..k
      PROVE  /\ dir[name(i)].blocks = <<s[i]>>
             /\ dir[name(i)].glued = "no"
             /\ s[i].block = "certificate"
  <2>1. i - 1 \in 0..(k - 1)
    BY SMT
  <2>2. name(i) \in DOMAIN dir /\ name(i).stem = "fulcio_intermediate"
    BY <1>1, <2>1 DEF InnerFulcio, NumberedNames
  <2>3. IsPem(dir[name(i)]) /\ Len(dir[name(i)].blocks) = 1 /\ ChainIsFine(dir[name(i)])
    BY <2>2 DEF IsDirectory, IsChain
  <2>4. s[i] = dir[name(i)].blocks[1]
    OBVIOUS
  <2> HIDE DEF s, name
  <2>5. dir[name(i)].blocks = <<s[i]>> /\ dir[name(i)].glued = "no"
    BY <2>3, <2>4, PemParts, OneElement DEF IsSeq
  <2>6. 1 \in DOMAIN dir[name(i)].blocks
    BY SMT, <2>5
  <2> QED
    BY <2>3, <2>4, <2>5, <2>6 DEF ChainIsFine
<1>4. GivenFulcio = s \o b
  <2>1. Cardinality(InnerFulcio) = k
    BY <1>1, HowMany DEF Intermediates
  <2>2. Pem(b, e).blocks = b
    BY DEF Pem
  <2>3. GivenFulcio = [i \in 1..Cardinality(InnerFulcio) |-> dir[name(i)].blocks[1]]
                         \o BytesOf("fulcio_v1").blocks
    BY DEF GivenFulcio, InnerFulcio
  <2> QED
    BY <1>2, <2>1, <2>2, <2>3
<1>5. s = [i \in 1..k |-> s[i]]
  OBVIOUS
<1> HIDE DEF s
<1>6. FulcioParts(k, s, b, e)
  BY <1>1, <1>2, <1>3, <1>4, <1>5 DEF FulcioParts
<1> QED
  BY <1>6

----------------------------------------------------------------------------
\* What has been collected once every file is read.

\* The files of a chain that was split are recognised as the TSA's.
LEMMA SplitStems ==
    ASSUME NEW certs, NEW n \in DOMAIN SplitCertChain(certs)
    PROVE  n.stem \in TSAStems
<1>1. n \in {Name("tsa_leaf"), Name("tsa_root")}
         \/ \E i \in 1..(Len(certs) - 2) : n = intermediateName(i)
  BY DEF SplitCertChain
<1> QED
  BY <1>1, StemOfName DEF intermediateName, TSAStems

\* No other file of the directory is.
LEMMA OnlyOneTSAFile ==
    ASSUME IsDirectory(dir), NEW n \in DOMAIN dir, n.stem \in TSAStems
    PROVE  n = TSAName
BY DEF IsDirectory, TSAStems, TSAName

\* The files of each service.
LEMMA FilesOfServices ==
    ASSUME IsDirectory(dir), Collected(DOMAIN dir, files)
    PROVE  /\ NamesOf(files, "Fulcio") = {n \in DOMAIN dir : n.stem \in FulcioStems}
           /\ NamesOf(files, "Rekor") = {n \in DOMAIN dir : n.stem \in {"rekor", "rekor_2022"}}
           /\ NamesOf(files, "CTFE") = {n \in DOMAIN dir : n.stem \in {"ctfe", "ctfe_2022"}}
           /\ NamesOf(files, "TSA") = IF TSAName \in DOMAIN dir THEN DOMAIN SplitCertChain(GivenTSA) ELSE {}
           /\ \A n \in DOMAIN dir :
                 n.stem \in FulcioStems \cup {"rekor", "rekor_2022", "ctfe", "ctfe_2022"} => files[n] = dir[n]
<1> DEFINE split == SplitCertChain(GivenTSA)
           stems == FulcioStems \cup {"rekor", "rekor_2022", "ctfe", "ctfe_2022"}
<1>1. \A n : n \in DOMAIN files <=> \/ n \in DOMAIN dir /\ Plain(n)
                                    \/ TSAName \in DOMAIN dir /\ n \in DOMAIN split
  BY DEF Collected
<1>2. \A n \in DOMAIN split : n.stem \in TSAStems
  BY SplitStems
<1>3. \A s \in stems : s \notin TSAStems /\ s # "..data"
  BY DEF FulcioStems, TSAStems
<1>4. \A n : n.stem \in stems => Plain(n)
  BY <1>3 DEF Plain, Skipped
<1>5. \A n : Plain(n) => n.stem \notin TSAStems
  BY DEF Plain
<1> HIDE DEF split
<1>6. \A n : n.stem \in stems => (n \in DOMAIN files <=> n \in DOMAIN dir)
  BY <1>1, <1>2, <1>3, <1>4
<1>7. \A n : n.stem \in TSAStems => (n \in DOMAIN files <=> TSAName \in DOMAIN dir /\ n \in DOMAIN split)
  BY <1>1, <1>5
<1>8. \A n \in DOMAIN dir : n.stem \in stems => files[n] = dir[n]
  BY <1>4 DEF Collected
<1>9. NamesOf(files, "Fulcio") = {n \in DOMAIN dir : n.stem \in FulcioStems}
  BY <1>6, UsageOfStem DEF NamesOf
<1>10. NamesOf(files, "Rekor") = {n \in DOMAIN dir : n.stem \in {"rekor", "rekor_2022"}}
  BY <1>6, UsageOfStem DEF NamesOf
<1>11. NamesOf(files, "CTFE") = {n \in DOMAIN dir : n.stem \in {"ctfe", "ctfe_2022"}}
  BY <1>6, UsageOfStem DEF NamesOf
<1>12. NamesOf(files, "TSA") = IF TSAName \in DOMAIN dir THEN DOMAIN split ELSE {}
  BY <1>2, <1>7, UsageOfStem DEF NamesOf
<1> QED
  BY <1>8, <1>9, <1>10, <1>11, <1>12 DEF split

\* The chain of the TSA is the one in the directory.
LEMMA TSAChainIs ==
    ASSUME IsDirectory(dir), Collected(DOMAIN dir, files)
    PROVE  IsJoined(TSAChain(files), GivenTSA)
<1>1. CASE TSAName \notin DOMAIN dir
  <2>1. TSAChain(files) = NoBytes
    BY <1>1, FilesOfServices, NoTSAChain
  <2>2. GivenTSA = <<>>
    BY <1>1, GivenTSAIs
  <2>3. NoBytes.blocks = <<>> /\ NoBytes.glued = "no"
    BY DEF NoBytes, Pem
  <2> QED
    BY <2>1, <2>2, <2>3 DEF IsJoined
<1>2. CASE TSAName \in DOMAIN dir
  <2>1. Len(GivenTSA) \in 1..12 /\ \E T : GivenTSA \in Seq(T)
    BY <1>2, GivenTSAIs DEF Certificates
  <2>2. /\ Len(GivenTSA) >= 2
        /\ \A n \in DOMAIN SplitCertChain(GivenTSA) : files[n] = SplitCertChain(GivenTSA)[n]
    BY <1>2 DEF Collected
  <2>3. \A n \in 1..12 : n >= 2 => n \in 2..12
    BY SMT
  <2>4. NamesOf(files, "TSA") = DOMAIN SplitCertChain(GivenTSA)
    BY <1>2, FilesOfServices
  <2>5. Len(GivenTSA) \in 2..12
    BY <2>1, <2>2, <2>3
  <2> QED
    BY <2>1, <2>2, <2>4, <2>5, SplitChainIsRejoined
<1> QED
  BY <1>1, <1>2

\* So is Fulcio's.
LEMMA FulcioChainIs ==
    ASSUME IsDirectory(dir), Collected(DOMAIN dir, files)
    PROVE  IsJoined(FulcioChain(files), GivenFulcio) /\ Certificates(GivenFulcio)
<1>0. PICK k \in 0..10 : \E s, b, e : FulcioParts(k, s, b, e)
  BY GivenFulcioIs
<1>1. PICK s, b, e : FulcioParts(k, s, b, e)
  BY <1>0
<1> USE DEF FulcioParts
<1> DEFINE inner == NumberedNames("fulcio_intermediate", k)
           names == NamesOf(files, "Fulcio")
           v1 == Name("fulcio_v1")
           T == {s[i] : i \in 1..k} \cup {b[i] : i \in DOMAIN b}
<1>2. s \in [1..k -> T]
  BY <1>1
<1>3. b \in Seq(T)
  <2>1. {b[i] : i \in DOMAIN b} \subseteq T
    OBVIOUS
  <2> HIDE DEF T
  <2> QED
    BY <1>1, <2>1, SeqOfMore DEF IsSeq
<1>4. \A cert \in T : cert.block = "certificate"
  BY <1>1
<1> HIDE DEF T
<1>5. names = {n \in DOMAIN dir : n.stem \in FulcioStems} /\ \A n \in names : files[n] = dir[n]
  BY FilesOfServices
<1>6. {n \in names : Contains(n, "intermediate")} = inner
  <2>1. \A n : Contains(n, "intermediate") <=> n.stem \in Intermediates
    BY WordsOfStems DEF Contains
  <2>2. \A x : x \in FulcioStems /\ x \in Intermediates <=> x = "fulcio_intermediate"
    BY DEF FulcioStems, Intermediates
  <2> QED
    BY <1>1, <1>5, <2>1, <2>2 DEF InnerFulcio
<1>7. ASSUME NEW i \in 1..k
      PROVE  /\ files[Numbered("fulcio_intermediate", i - 1)].blocks = <<s[i]>>
             /\ files[Numbered("fulcio_intermediate", i - 1)].glued = "no"
  <2>1. i - 1 \in 0..(k - 1)
    BY NumbersFromZero
  <2>2. Numbered("fulcio_intermediate", i - 1) \in names
    BY <1>6, <2>1 DEF NumberedNames
  <2> QED
    BY <1>1, <1>5, <2>2
<1>8. LastOf(files, names \ inner) = Pem(b, e)
  <2>1. ASSUME NEW n \in names \ inner PROVE n = v1
    <3>1. n \in DOMAIN dir /\ n.stem \in FulcioStems /\ n.stem # "fulcio_intermediate"
      BY <1>1, <1>5 DEF InnerFulcio
    <3>2. n.stem = "fulcio_v1"
      BY <3>1 DEF FulcioStems
    <3> QED
      BY <3>1, <3>2 DEF IsDirectory
  <2>2. CASE v1 \in DOMAIN dir
    <3>1. v1.stem = "fulcio_v1" /\ "fulcio_v1" \in FulcioStems
      BY StemOfName DEF FulcioStems
    <3>2. v1 \in names /\ v1 \notin inner
      BY <1>1, <1>5, <2>2, <3>1 DEF InnerFulcio
    <3>3. names \ inner = {v1}
      BY <2>1, <3>2
    <3>4. files[v1] = Pem(b, e)
      BY <1>1, <1>5, <2>2, <3>2 DEF BytesOf
    <3> QED
      BY <3>3, <3>4, LastOfFew
  <2>3. CASE v1 \notin DOMAIN dir
    <3>1. names \ inner = {}
      BY <1>5, <2>1, <2>3
    <3>2. Pem(b, e) = NoBytes
      BY <1>1, <2>3 DEF BytesOf
    <3> QED
      BY <3>1, <3>2, LastOfFew
  <2> QED
    BY <2>2, <2>3
<1>9. IsJoined(FulcioChain(files), s \o b)
  BY <1>1, <1>2, <1>3, <1>6, <1>7, <1>8, FulcioJoined
<1>10. s \o b \in Seq(T)
  BY <1>2, <1>3, ConcatenatedFits, SmallIsNat
<1> QED
  BY <1>1, <1>4, <1>9, <1>10 DEF Certificates

----------------------------------------------------------------------------
\* Keys.

RekorStems == {"rekor", "rekor_2022"}
CTFEStems == {"ctfe", "ctfe_2022"}

\* A file for a key is fine if it holds one, of a supported kind.
LEMMA FineKeyFile ==
    ASSUME NEW bytes, IsKeyFile(bytes)
    PROVE  KeyIsFine(bytes) <=> Len(bytes.blocks) = 1 /\ bytes.blocks[1].alg # "P224"
<1> DEFINE b == bytes.blocks
<1>1. IsSeq(b) /\ Len(b) <= 1
  BY PemParts DEF IsKeyFile
<1>2. \A i \in DOMAIN b : b[i].block = "key" /\ b[i].alg \in DOMAIN HashFunc \cup {"P224"}
  BY DEF IsKeyFile
<1>3. "P224" \notin DOMAIN HashFunc
  BY DEF HashFunc
<1>4. b # <<>> <=> Len(b) = 1
  BY <1>1, OneOrNone DEF IsSeq
<1>5. Len(b) = 1 => 1 \in DOMAIN b
  BY <1>1, OneOrNone DEF IsSeq
<1> QED
  BY <1>2, <1>3, <1>4, <1>5 DEF KeyIsFine

\* The names of the keys in a directory.
LEMMA NamesOfKeys ==
    ASSUME IsDirectory(dir), NEW stems, stems \subseteq RekorStems \cup CTFEStems
    PROVE  /\ {n \in DOMAIN dir : n.stem \in stems} = {Name(s) : s \in stems} \cap DOMAIN dir
           /\ \A n \in DOMAIN dir : n.stem \in stems => IsKeyFile(dir[n])
<1>1. KeyStems = RekorStems \cup CTFEStems
  BY SMT DEF KeyStems, StemsWith, RekorStems, CTFEStems
<1>2. \A n \in DOMAIN dir : n.stem \in stems => n = Name(n.stem) /\ IsKeyFile(dir[n])
  BY <1>1 DEF IsDirectory
<1>3. \A s \in stems : Name(s).stem = s
  BY StemOfName
<1>4. {n \in DOMAIN dir : n.stem \in stems} \subseteq {Name(s) : s \in stems} \cap DOMAIN dir
  BY <1>2
<1>5. {Name(s) : s \in stems} \cap DOMAIN dir \subseteq {n \in DOMAIN dir : n.stem \in stems}
  BY <1>3
<1> QED
  BY <1>2, <1>4, <1>5

\* Every key in the directory is there and of a supported kind.
KeysAreValid ==
    \A s \in {"rekor", "rekor_2022", "ctfe", "ctfe_2022"} :
        Name(s) \in DOMAIN dir => Len(BytesOf(s).blocks) = 1 /\ BytesOf(s).blocks[1].alg # "P224"

\* That is what constructTrustedRoot asks of the files it takes for keys.
LEMMA FineKeys ==
    ASSUME IsDirectory(dir), Collected(DOMAIN dir, files)
    PROVE  (\A n \in NamesOf(files, "Rekor") \cup NamesOf(files, "CTFE") : KeyIsFine(files[n]))
               <=> KeysAreValid
<1> DEFINE stems == {"rekor", "rekor_2022", "ctfe", "ctfe_2022"}
           names == NamesOf(files, "Rekor") \cup NamesOf(files, "CTFE")
<1>1. stems = RekorStems \cup CTFEStems
  BY DEF RekorStems, CTFEStems
<1>2. names = {n \in DOMAIN dir : n.stem \in stems} /\ \A n \in names : files[n] = dir[n]
  BY FilesOfServices
<1>3. names = {Name(s) : s \in stems} \cap DOMAIN dir /\ \A n \in names : IsKeyFile(dir[n])
  BY <1>1, <1>2, NamesOfKeys
<1> HIDE DEF names
<1>4. ASSUME NEW s \in stems, Name(s) \in DOMAIN dir
      PROVE  KeyIsFine(files[Name(s)]) <=> Len(BytesOf(s).blocks) = 1 /\ BytesOf(s).blocks[1].alg # "P224"
  <2>1. Name(s) \in names /\ BytesOf(s) = files[Name(s)] /\ IsKeyFile(BytesOf(s))
    BY <1>2, <1>3, <1>4 DEF BytesOf
  <2> QED
    BY <2>1, FineKeyFile
<1> HIDE DEF stems
<1>5. (\A n \in names : KeyIsFine(files[n]))
         <=> \A s \in stems : Name(s) \in DOMAIN dir => KeyIsFine(files[Name(s)])
  BY <1>3
<1> QED
  BY <1>4, <1>5 DEF KeysAreValid, names, stems

KeyNames(stems) == {n \in DOMAIN dir : n.stem \in stems}

Logs(names, url) == {pubkeyToTransparencyLogInstance(files[n], url) : n \in names}

LogsAre(logs, stems, url) ==
    /\ {l.id : l \in logs} = GivenKeys(stems)
    /\ \A l \in logs : l.url = url

\* The identities of the logs are those of the keys in the directory.
LEMMA LogsOfKeys ==
    ASSUME IsDirectory(dir), NEW stems, stems \subseteq RekorStems \cup CTFEStems, NEW url,
           \A n \in KeyNames(stems) : files[n] = dir[n]
    PROVE  LogsAre(Logs(KeyNames(stems), url), stems, url)
<1> DEFINE Log(n) == pubkeyToTransparencyLogInstance(files[n], url)
           names == KeyNames(stems)
           logs == {Log(n) : n \in names}
<1>1. \A n \in names : Log(n).id = dir[n].blocks[1].id /\ Log(n).url = url
  BY DEF pubkeyToTransparencyLogInstance
<1> HIDE DEF Log
<1>2. GivenKeys(stems) = {dir[n].blocks[1].id : n \in names}
  BY NamesOfKeys DEF GivenKeys, KeyNames
<1>3. {l.id : l \in logs} = {Log(n).id : n \in names}
  OBVIOUS
<1>4. {Log(n).id : n \in names} = {dir[n].blocks[1].id : n \in names}
  <2>1. ASSUME NEW n \in names PROVE Log(n).id \in {dir[m].blocks[1].id : m \in names}
    BY <1>1
  <2>2. ASSUME NEW n \in names PROVE dir[n].blocks[1].id \in {Log(m).id : m \in names}
    BY <1>1
  <2> QED
    BY <2>1, <2>2
<1> QED
  BY <1>1, <1>2, <1>3, <1>4 DEF Log, Logs, LogsAre

----------------------------------------------------------------------------
\* The trusted root.

\* What a repository can be made of.
Valid ==
    /\ metadataTargets \/ trustedRoot
    /\ TSAName \in DOMAIN dir => Len(GivenTSA) >= 2
    /\ trustedRoot => KeysAreValid

\* The inductive invariant: until the program fails, files holds what has been
\* read; it fails only on what is not valid; and the targets are made of all
\* that has been read.
RootInv ==
    /\ dir \in Directories
    /\ unread \subseteq DOMAIN dir
    /\ state \in {"read", "failed", "made"}
    /\ state = "read" => Collected(DOMAIN dir \ unread, files) /\ targets = NoTargets
    /\ state = "failed" => ~ Valid /\ targets = NoTargets
    /\ state = "made" =>
          /\ Valid
          /\ Collected(DOMAIN dir, files)
          /\ \A tr \in targets.trustedRoot : tr = constructTrustedRoot(files)
          /\ targets.signingConfig \subseteq {constructSigningConfig}

\* Nothing has been read at first.
LEMMA NothingCollected ==
    Collected({}, NoFiles)
BY DEF Collected, NoFiles

\* A file of the volume adds nothing.
LEMMA CollectSkipped ==
    ASSUME NEW r, NEW f, Collected(r, f), NEW name, Skipped(name)
    PROVE  Collected(r \cup {name}, f)
<1>1. ~ Plain(name)
  BY DEF Plain
<1>2. name # TSAName
  <2>1. TSAName.stem = "tsa.certchain"
    BY StemOfName DEF TSAName
  <2> QED
    BY <2>1 DEF Skipped
<1>3. {n \in r \cup {name} : Plain(n)} = {n \in r : Plain(n)}
  BY <1>1
<1>4. TSAName \in r \cup {name} <=> TSAName \in r
  BY <1>2
<1> QED
  BY <1>3, <1>4 DEF Collected

\* A plain file is added as it is.
LEMMA CollectPlain ==
    ASSUME NEW r, NEW f, Collected(r, f), NEW name, Plain(name)
    PROVE  Collected(r \cup {name}, Insert(f, [n \in {name} |-> dir[name]]))
<1> DEFINE g == Insert(f, [n \in {name} |-> dir[name]])
           split == SplitCertChain(GivenTSA)
<1>1. name # TSAName /\ name \notin DOMAIN split
  <2>1. TSAName.stem \in TSAStems
    BY StemOfName DEF TSAName, TSAStems
  <2>2. \A n \in DOMAIN split : n.stem \in TSAStems
    BY SplitStems
  <2> QED
    BY <2>1, <2>2 DEF Plain
<1>2. /\ DOMAIN g = DOMAIN f \cup {name}
      /\ g[name] = dir[name]
      /\ \A n \in DOMAIN f : n # name => g[n] = f[n]
  BY DEF Insert
<1> HIDE DEF g, split
<1>3. {n \in r \cup {name} : Plain(n)} = {n \in r : Plain(n)} \cup {name}
  OBVIOUS
<1>4. TSAName \in r \cup {name} <=> TSAName \in r
  BY <1>1
<1>5. DOMAIN f = {n \in r : Plain(n)} \cup (IF TSAName \in r THEN DOMAIN split ELSE {})
  BY DEF Collected, split
<1>6. DOMAIN g = {n \in r \cup {name} : Plain(n)} \cup (IF TSAName \in r \cup {name} THEN DOMAIN split ELSE {})
  BY <1>2, <1>3, <1>4, <1>5
<1>7. \A n \in {n \in r : Plain(n)} \cup {name} : g[n] = dir[n]
  BY <1>2, <1>5 DEF Collected
<1>8. TSAName \in r => Len(GivenTSA) >= 2 /\ \A n \in DOMAIN split : g[n] = split[n]
  BY <1>1, <1>2, <1>5 DEF Collected, split
<1> QED
  BY <1>3, <1>4, <1>6, <1>7, <1>8 DEF Collected, g, split

\* Of the TSA's chain the certificates are added.
LEMMA CollectTSA ==
    ASSUME NEW r, NEW f, Collected(r, f), TSAName \notin r, Len(GivenTSA) >= 2
    PROVE  Collected(r \cup {TSAName}, Insert(f, SplitCertChain(GivenTSA)))
<1> DEFINE split == SplitCertChain(GivenTSA)
           g == Insert(f, split)
<1>1. ~ Plain(TSAName) /\ \A n \in DOMAIN split : ~ Plain(n)
  <2>1. TSAName.stem \in TSAStems
    BY StemOfName DEF TSAName, TSAStems
  <2>2. \A n \in DOMAIN split : n.stem \in TSAStems
    BY SplitStems
  <2> QED
    BY <2>1, <2>2 DEF Plain
<1>2. /\ DOMAIN g = DOMAIN f \cup DOMAIN split
      /\ \A n \in DOMAIN split : g[n] = split[n]
      /\ \A n \in DOMAIN f : n \notin DOMAIN split => g[n] = f[n]
  BY DEF Insert
<1>3. {n \in r \cup {TSAName} : Plain(n)} = {n \in r : Plain(n)}
  BY <1>1
<1>4. DOMAIN f = {n \in r : Plain(n)} /\ \A n \in DOMAIN f : f[n] = dir[n]
  BY DEF Collected
<1> HIDE DEF g, split
<1>5. \A n \in {n \in r : Plain(n)} : g[n] = dir[n]
  BY <1>1, <1>2, <1>4
<1> QED
  BY <1>2, <1>3, <1>4, <1>5 DEF Collected, g, split

\* Both chains can be parsed.
LEMMA FineChain ==
    ASSUME NEW c, NEW given, IsJoined(c, given), c # NoBytes, Certificates(given)
    PROVE  ChainIsFine(c) /\ c.blocks # <<>>
<1>1. c.blocks = given /\ c.glued = "no" /\ given # <<>>
  BY DEF IsJoined
<1>2. PICK T : given \in Seq(T) /\ \A cert \in T : cert.block = "certificate"
  BY DEF Certificates
<1>3. \A i \in DOMAIN given : given[i] \in T
  BY <1>2, LenProperties
<1> QED
  BY <1>1, <1>2, <1>3 DEF ChainIsFine

\* The trusted root can be made of the files of a directory if its keys are
\* supported.
LEMMA FineRoot ==
    ASSUME IsDirectory(dir), Collected(DOMAIN dir, files)
    PROVE  TrustedRootIsFine(files) <=> KeysAreValid
<1>1. ASSUME FulcioChain(files) # NoBytes
      PROVE  ChainIsFine(FulcioChain(files)) /\ FulcioChain(files).blocks # <<>>
  BY <1>1, FulcioChainIs, FineChain
<1>2. ASSUME TSAChain(files) # NoBytes
      PROVE  ChainIsFine(TSAChain(files)) /\ TSAChain(files).blocks # <<>>
  <2>1. IsJoined(TSAChain(files), GivenTSA)
    BY TSAChainIs
  <2>2. Certificates(GivenTSA)
    BY <1>2, <2>1, GivenTSAIs DEF IsJoined
  <2> QED
    BY <1>2, <2>1, <2>2, FineChain
<1> QED
  BY <1>1, <1>2, FineKeys DEF TrustedRootIsFine

\* The only authority of a chain that starts with its leaf.
LEMMA AuthorityOfTSA ==
    ASSUME NEW T, NEW chain \in Seq(T), Len(chain) \in 2..12, chain[1].kind = "leaf"
    PROVE  certChainToTimestampingAuthority(chain)
              = [leaf |-> chain[1], intermediates |-> SubSeq(chain, 2, Len(chain) - 1), root |-> chain[Len(chain)]]
<1>1. 2 <= Len(chain)
  BY InnerLength
<1>2. 2 # 1
  BY SMT
<1> QED
  BY <1>1, <1>2 DEF certChainToTimestampingAuthority

\* A trusted root with the chains and keys of the directory.
Describes(tr) ==
    /\ LET n == Len(GivenTSA)
       IN  tr.tsa = IF n = 0 THEN {} ELSE
             {[leaf |-> GivenTSA[1], intermediates |-> SubSeq(GivenTSA, 2, n - 1), root |-> GivenTSA[n]]}
    /\ LET n == Len(GivenFulcio)
       IN  tr.fulcio = IF n = 0 THEN {} ELSE
             {[intermediates |-> SubSeq(GivenFulcio, 1, n - 1), root |-> GivenFulcio[n]]}
    /\ {l.id : l \in tr.rekor} = GivenKeys({"rekor", "rekor_2022"})
    /\ {l.id : l \in tr.ctlog} = GivenKeys({"ctfe", "ctfe_2022"})
    /\ \A l \in tr.rekor : l.url = rekorURL

\* That is what constructTrustedRoot makes of its files.
LEMMA RootMatches ==
    ASSUME IsDirectory(dir), Collected(DOMAIN dir, files)
    PROVE  Describes(constructTrustedRoot(files))
<1> DEFINE tr == constructTrustedRoot(files)
           fulcio == FulcioChain(files)
           tsa == TSAChain(files)
<1>1. /\ tr.fulcio = IF fulcio = NoBytes THEN {} ELSE {certChainToCertificateAuthority(fulcio.blocks)}
      /\ tr.tsa = IF tsa = NoBytes THEN {} ELSE {certChainToTimestampingAuthority(tsa.blocks)}
      /\ tr.rekor = Logs(NamesOf(files, "Rekor"), rekorURL)
      /\ tr.ctlog = Logs(NamesOf(files, "CTFE"), "")
  BY DEF constructTrustedRoot, Logs
<1> HIDE DEF tr
<1>2. tr.tsa = IF Len(GivenTSA) = 0 THEN {} ELSE
         {[leaf |-> GivenTSA[1], intermediates |-> SubSeq(GivenTSA, 2, Len(GivenTSA) - 1),
           root |-> GivenTSA[Len(GivenTSA)]]}
  <2>1. tsa.blocks = GivenTSA /\ (tsa = NoBytes <=> GivenTSA = <<>>)
    BY TSAChainIs DEF IsJoined
  <2>2. CASE TSAName \notin DOMAIN dir
    <3>1. GivenTSA = <<>> /\ Len(<<>>) = 0
      BY <2>2, GivenTSAIs, EmptySeq
    <3> QED
      BY <1>1, <2>1, <3>1
  <2>3. CASE TSAName \in DOMAIN dir
    <3>1. /\ GivenTSA # <<>>
          /\ GivenTSA[1].kind = "leaf"
          /\ Len(GivenTSA) \in 1..12
          /\ \E T : GivenTSA \in Seq(T)
      BY <2>3, GivenTSAIs DEF Certificates
    <3>2. Len(GivenTSA) >= 2
      BY <2>3 DEF Collected
    <3>3. \A n \in 1..12 : n >= 2 => n \in 2..12 /\ n # 0
      BY SMT
    <3>4. Len(GivenTSA) \in 2..12 /\ Len(GivenTSA) # 0
      BY <3>1, <3>2, <3>3
    <3>5. certChainToTimestampingAuthority(GivenTSA)
             = [leaf |-> GivenTSA[1], intermediates |-> SubSeq(GivenTSA, 2, Len(GivenTSA) - 1),
                root |-> GivenTSA[Len(GivenTSA)]]
      BY <3>1, <3>4, AuthorityOfTSA
    <3> QED
      BY <1>1, <2>1, <3>1, <3>4, <3>5
  <2> QED
    BY <2>2, <2>3
<1>3. tr.fulcio = IF Len(GivenFulcio) = 0 THEN {} ELSE
         {[intermediates |-> SubSeq(GivenFulcio, 1, Len(GivenFulcio) - 1),
           root |-> GivenFulcio[Len(GivenFulcio)]]}
  <2>1. fulcio.blocks = GivenFulcio /\ (fulcio = NoBytes <=> GivenFulcio = <<>>)
    BY FulcioChainIs DEF IsJoined
  <2>2. GivenFulcio = <<>> <=> Len(GivenFulcio) = 0
    <3>1. PICK T : GivenFulcio \in Seq(T)
      BY FulcioChainIs DEF Certificates
    <3> QED
      BY <3>1, EmptySeq
  <2> QED
    BY <1>1, <2>1, <2>2 DEF certChainToCertificateAuthority
<1>4. /\ {l.id : l \in tr.rekor} = GivenKeys({"rekor", "rekor_2022"})
      /\ \A l \in tr.rekor : l.url = rekorURL
  <2>1. NamesOf(files, "Rekor") = KeyNames(RekorStems) /\ \A n \in KeyNames(RekorStems) : files[n] = dir[n]
    BY FilesOfServices DEF RekorStems, KeyNames
  <2>2. LogsAre(Logs(KeyNames(RekorStems), rekorURL), RekorStems, rekorURL)
    BY <2>1, LogsOfKeys
  <2>3. LogsAre(tr.rekor, RekorStems, rekorURL)
    BY <1>1, <2>1, <2>2
  <2> QED
    BY <2>3 DEF LogsAre, RekorStems
<1>5. {l.id : l \in tr.ctlog} = GivenKeys({"ctfe", "ctfe_2022"})
  <2>1. NamesOf(files, "CTFE") = KeyNames(CTFEStems) /\ \A n \in KeyNames(CTFEStems) : files[n] = dir[n]
    BY FilesOfServices DEF CTFEStems, KeyNames
  <2>2. LogsAre(Logs(KeyNames(CTFEStems), ""), CTFEStems, "")
    BY <2>1, LogsOfKeys
  <2>3. LogsAre(tr.ctlog, CTFEStems, "")
    BY <1>1, <2>1, <2>2
  <2> QED
    BY <2>3 DEF LogsAre, CTFEStems
<1> QED
  BY <1>2, <1>3, <1>4, <1>5 DEF Describes, tr

----------------------------------------------------------------------------
\* The invariant.

\* The invariant holds before anything is read.
LEMMA RootInitInv ==
    RootInit => RootInv
<1> SUFFICES ASSUME RootInit PROVE RootInv
  OBVIOUS
<1>1. DOMAIN dir \ unread = {}
  BY DEF RootInit
<1> QED
  BY <1>1, NothingCollected DEF RootInit, RootInv

\* The directory stays, and with it what it holds.
LEMMA SameDirectory ==
    ASSUME dir' = dir
    PROVE  /\ GivenTSA' = GivenTSA
           /\ KeysAreValid' <=> KeysAreValid
           /\ Collected(DOMAIN dir \ unread, files)' <=> Collected(DOMAIN dir \ unread', files')
           /\ Collected(DOMAIN dir, files)' <=> Collected(DOMAIN dir, files')
<1>1. GivenTSA' = GivenTSA
  BY DEF GivenTSA, BytesOf
<1>2. KeysAreValid' <=> KeysAreValid
  BY DEF KeysAreValid, BytesOf
<1>3. Collected(DOMAIN dir \ unread, files)' <=> Collected(DOMAIN dir \ unread', files')
  BY <1>1 DEF Collected
<1>4. Collected(DOMAIN dir, files)' <=> Collected(DOMAIN dir, files')
  BY <1>1 DEF Collected
<1> QED
  BY <1>1, <1>2, <1>3, <1>4

\* A step that keeps the directory and the flags keeps what is valid.
LEMMA SameValid ==
    ASSUME dir' = dir, UNCHANGED opts
    PROVE  Valid' <=> Valid
<1>1. metadataTargets' = metadataTargets /\ trustedRoot' = trustedRoot
  BY DEF opts
<1> QED
  BY <1>1, SameDirectory DEF Valid

\* A file is read: if it is the TSA's chain and too short the program ends.
LEMMA RootReadFile ==
    ASSUME RootInv, ReadFile
    PROVE  RootInv'
<1>1. IsDirectory(dir) /\ Collected(DOMAIN dir \ unread, files) /\ targets = NoTargets
  BY DirectoriesAssumption DEF RootInv, ReadFile
<1>2. PICK name \in unread :
         /\ unread' = unread \ {name}
         /\ \/ Skipped(name) /\ UNCHANGED <<files, state>>
            \/ /\ ~ Skipped(name) /\ Contains(name, "tsa")
               /\ ~ ChainIsFine(dir[name]) \/ TooShort(dir[name].blocks)
               /\ state' = "failed"
               /\ UNCHANGED files
            \/ /\ ~ Skipped(name) /\ Contains(name, "tsa")
               /\ ChainIsFine(dir[name]) /\ ~ TooShort(dir[name].blocks)
               /\ files' = Insert(files, SplitCertChain(dir[name].blocks))
               /\ UNCHANGED state
            \/ /\ ~ Skipped(name) /\ ~ Contains(name, "tsa")
               /\ files' = Insert(files, [n \in {name} |-> dir[name]])
               /\ UNCHANGED state
  BY DEF ReadFile
<1> DEFINE r == DOMAIN dir \ unread
<1>3. name \in DOMAIN dir /\ name \notin r /\ DOMAIN dir \ unread' = r \cup {name}
  BY <1>2 DEF RootInv
<1>4. dir' = dir /\ targets' = targets /\ UNCHANGED opts
  BY DEF ReadFile
<1>5. state = "read" /\ dir' \in Directories /\ unread' \subseteq DOMAIN dir'
  BY <1>2, <1>4 DEF RootInv, ReadFile
<1>6. Contains(name, "tsa") <=> name.stem \in TSAStems
  BY WordsOfStems DEF Contains
<1>7. ASSUME Contains(name, "tsa")
      PROVE  /\ name = TSAName
             /\ dir[name].blocks = GivenTSA
             /\ ChainIsFine(dir[name])
             /\ ~ TooShort(GivenTSA) <=> Len(GivenTSA) >= 2
  <2>1. name = TSAName
    BY <1>1, <1>3, <1>6, <1>7, OnlyOneTSAFile
  <2>2. /\ dir[name].blocks = GivenTSA
        /\ ChainIsFine(dir[name])
        /\ Len(GivenTSA) \in 1..12
    BY <1>1, <1>3, <2>1, GivenTSAIs
  <2>3. \A n \in 1..12 : ~ (n < 2) <=> n >= 2
    BY SMT
  <2> QED
    BY <2>1, <2>2, <2>3 DEF TooShort
<1> HIDE DEF r
<1>8. ASSUME state' = state, Collected(r \cup {name}, files') PROVE RootInv'
  BY <1>1, <1>3, <1>4, <1>5, <1>8, SameDirectory DEF RootInv
<1>9. CASE Skipped(name) /\ UNCHANGED <<files, state>>
  BY <1>1, <1>8, <1>9, CollectSkipped DEF r
<1>10. CASE /\ Contains(name, "tsa")
            /\ ~ ChainIsFine(dir[name]) \/ TooShort(dir[name].blocks)
            /\ state' = "failed"
  <2>1. ~ Valid
    BY <1>3, <1>7, <1>10 DEF Valid
  <2>2. ~ Valid'
    BY <1>4, <2>1, SameValid
  <2> QED
    BY <1>1, <1>4, <1>5, <1>10, <2>2 DEF RootInv
<1>11. CASE /\ Contains(name, "tsa")
            /\ ~ TooShort(dir[name].blocks)
            /\ files' = Insert(files, SplitCertChain(dir[name].blocks))
            /\ UNCHANGED state
  BY <1>1, <1>3, <1>7, <1>8, <1>11, CollectTSA DEF r
<1>12. CASE /\ ~ Skipped(name) /\ ~ Contains(name, "tsa")
            /\ files' = Insert(files, [n \in {name} |-> dir[name]])
            /\ UNCHANGED state
  <2>1. Plain(name)
    BY <1>6, <1>12 DEF Plain
  <2> QED
    BY <1>1, <1>8, <1>12, <2>1, CollectPlain DEF r
<1> QED
  BY <1>2, <1>9, <1>10, <1>11, <1>12

\* The repository is made if, and only if, what was read is valid.
LEMMA RootCreateRepo ==
    ASSUME RootInv, CreateRepoWithOptions
    PROVE  RootInv'
<1> DEFINE fine == (metadataTargets \/ trustedRoot) /\ (trustedRoot => TrustedRootIsFine(files))
<1>1. state = "read" /\ unread = {} /\ dir' = dir /\ files' = files /\ unread' = unread /\ UNCHANGED opts
  BY DEF CreateRepoWithOptions
<1>2. IsDirectory(dir) /\ Collected(DOMAIN dir, files) /\ targets = NoTargets
  <2>1. DOMAIN dir \ {} = DOMAIN dir
    OBVIOUS
  <2> QED
    BY <1>1, <2>1, DirectoriesAssumption DEF RootInv
<1>3. dir' \in Directories /\ unread' \subseteq DOMAIN dir'
  BY <1>1 DEF RootInv
<1>4. fine <=> Valid
  <2>1. TrustedRootIsFine(files) <=> KeysAreValid
    BY <1>2, FineRoot
  <2>2. TSAName \in DOMAIN dir => Len(GivenTSA) >= 2
    BY <1>2 DEF Collected
  <2> QED
    BY <2>1, <2>2 DEF Valid
<1>5. CASE fine
  <2>1. /\ state' = "made"
        /\ \A tr \in targets'.trustedRoot : tr = constructTrustedRoot(files)
        /\ targets'.signingConfig \subseteq {constructSigningConfig}
    <3> DEFINE F == IF metadataTargets
                    THEN {[name |-> n, usage |-> getTargetUsage(n)] : n \in DOMAIN files}
                    ELSE {}
               R == IF trustedRoot THEN {constructTrustedRoot(files)} ELSE {}
               C == IF signingConfig THEN {constructSigningConfig} ELSE {}
    <3>1. state' = "made" /\ targets' = [files |-> F, trustedRoot |-> R, signingConfig |-> C]
      BY <1>5 DEF CreateRepoWithOptions
    <3>2. (\A tr \in R : tr = constructTrustedRoot(files)) /\ C \subseteq {constructSigningConfig}
      OBVIOUS
    <3> HIDE DEF F, R, C
    <3> QED
      BY <3>1, <3>2
  <2>2. Valid' /\ Collected(DOMAIN dir, files)'
    BY <1>1, <1>2, <1>4, <1>5, SameValid, SameDirectory
  <2>3. \A tr \in targets'.trustedRoot : tr = constructTrustedRoot(files')
    BY <1>1, <2>1
  <2> QED
    BY <1>3, <2>1, <2>2, <2>3 DEF RootInv
<1>6. CASE ~ fine
  <2>1. state' = "failed" /\ targets' = targets
    BY <1>6 DEF CreateRepoWithOptions
  <2>2. ~ Valid'
    BY <1>1, <1>4, <1>6, SameValid
  <2> QED
    BY <1>2, <1>3, <2>1, <2>2 DEF RootInv
<1> QED
  BY <1>5, <1>6

\* The invariant holds of every directory that is well formed.
THEOREM RootInvariant ==
    RootSpec => []RootInv
<1>1. RootInv /\ [RootNext]_rootVars => RootInv'
  <2> SUFFICES ASSUME RootInv, [RootNext]_rootVars PROVE RootInv'
    OBVIOUS
  <2>1. CASE ReadFile
    BY <2>1, RootReadFile
  <2>2. CASE CreateRepoWithOptions
    BY <2>2, RootCreateRepo
  <2>3. CASE UNCHANGED rootVars
    <3>1. /\ dir' = dir /\ unread' = unread /\ files' = files /\ state' = state /\ targets' = targets
          /\ UNCHANGED opts
      BY <2>3 DEF rootVars
    <3> QED
      BY <3>1, SameDirectory, SameValid DEF RootInv
  <2> QED
    BY <2>1, <2>2, <2>3 DEF RootNext
<1> QED
  BY RootInitInv, <1>1, PTL DEF RootSpec

\* trusted_root.json describes the chains and keys of the directory, in their
\* order, whatever directory the server is given: no certificate is lost,
\* repeated or put in another role when chains are split into files, read in
\* the order of their names and joined again.
THEOREM TrustedRootDescribesFiles ==
    RootSpec => []TrustedRootMatches
<1>1. RootInv => TrustedRootMatches
  <2> SUFFICES ASSUME RootInv PROVE TrustedRootMatches
    OBVIOUS
  <2>1. CASE targets = NoTargets
    <3>1. targets.trustedRoot = {}
      BY <2>1 DEF NoTargets
    <3> QED
      BY <3>1 DEF TrustedRootMatches
  <2>2. CASE state = "made"
    <3>1. /\ IsDirectory(dir)
          /\ Collected(DOMAIN dir, files)
          /\ \A tr \in targets.trustedRoot : tr = constructTrustedRoot(files)
          /\ targets.signingConfig \subseteq {constructSigningConfig}
      BY <2>2, DirectoriesAssumption DEF RootInv
    <3>2. constructSigningConfig.rekor = rekorURL
      BY DEF constructSigningConfig, rekorURL
    <3>3. \A c \in targets.signingConfig : c.rekor = rekorURL
      BY <3>1, <3>2
    <3>4. \A tr \in targets.trustedRoot : Describes(tr)
      BY <3>1, RootMatches
    <3> QED
      BY <3>3, <3>4 DEF TrustedRootMatches, Describes
  <2> QED
    BY <2>1, <2>2 DEF RootInv
<1> QED
  BY <1>1, RootInvariant, PTL

\* A repository is made of every valid directory and of no other: reading,
\* splitting and sorting never make a good chain or key unusable, and a chain
\* that is too short or a key nobody supports never gets into a repository.
THEOREM OnlyValidFilesAreUsed ==
    RootSpec => []MadeOfValidFiles
<1>1. RootInv => MadeOfValidFiles
  <2> SUFFICES ASSUME RootInv, state # "read" PROVE state = "made" <=> Valid
    BY DEF MadeOfValidFiles, Valid, KeysAreValid, TSAName
  <2> QED
    BY DEF RootInv
<1> QED
  BY <1>1, RootInvariant, PTL
============================================================================
