-------------------------- MODULE CodeSearchProofs --------------------------
(***************************************************************************)
(* What holds of the way from a repository to an answer for every          *)
(* repository, name and limit.                                             *)
(*                                                                         *)
(*   1. Recursion over a sequence, and finite images.                      *)
(*   2. The graph of a finite repository is finite.                        *)
(*   3. A page of a query that does not say it is cut is the whole answer. *)
(*   4. An answer is one of those the service may give on the graph that   *)
(*      is stored, and that graph is empty or the repository's.            *)
(*   5. Neighbours, names and patterns: what is not marked as truncated    *)
(*      lacks nothing; and the callers it shows are those whose calls the  *)
(*      indexer resolved to the name.                                      *)
(***************************************************************************)
EXTENDS CodeSearch, FiniteSetTheorems, WellFoundedInduction, TLAPS

-----------------------------------------------------------------------------
(* 1. Recursion over a sequence, and finite images.                         *)

LEMMA Ascend ==
  ASSUME NEW n \in Nat, NEW A, 0 \in A, \A i \in 1 .. n : i - 1 \in A => i \in A
  PROVE  \A i \in 0 .. n : i \in A
<1> DEFINE T == {i \in 0 .. n : i \notin A}
<1> SUFFICES ASSUME T # {} PROVE FALSE
  OBVIOUS
<1>1. T \subseteq Nat
  OBVIOUS
<1>2. PICK i \in T : \A j \in T : ~ (<<j, i>> \in OpToRel(<, Nat))
  <2> HIDE DEF T
  <2>1. QED
    BY <1>1, NatLessThanWellFounded, WFMin
<1>3. \A j \in T : ~ (j < i)
  <2> HIDE DEF T
  <2>1. QED
    BY <1>1, <1>2 DEF OpToRel
<1>4. i \in 0 .. n /\ i \notin A
  OBVIOUS
<1>5. i \in 1 .. n
  BY <1>4
<1>6. i - 1 \notin A
  BY <1>4, <1>5
<1>7. i - 1 \in T
  BY <1>5, <1>6
<1>8. QED
  BY <1>3, <1>5, <1>7

Iterates(f, n, T, base, step) ==
    /\ f \in [0 .. n -> T]
    /\ f[0] = base
    /\ \A i \in 1 .. n : f[i] = step[i][f[i - 1]]

\* A step can be iterated as often as one likes.
LEMMA Iteration ==
  ASSUME NEW n \in Nat, NEW T, NEW base \in T, NEW step \in [1 .. n -> [T -> T]]
  PROVE  \E f : Iterates(f, n, T, base, step)
<1> DEFINE A == {k \in 0 .. n : \E f : Iterates(f, k, T, base, step)}
<1>1. 0 \in A
  <2>1. Iterates([i \in 0 .. 0 |-> base], 0, T, base, step)
    BY DEF Iterates
  <2>2. QED
    BY <2>1
<1>2. ASSUME NEW k \in 1 .. n, k - 1 \in A PROVE k \in A
  <2>1. PICK f : Iterates(f, k - 1, T, base, step)
    BY <1>2
  <2>2. /\ k - 1 \in 0 .. k - 1 /\ k \in 0 .. k /\ 0 \in 0 .. k - 1 /\ 0 \in 0 .. k /\ k # 0
        /\ \A i \in 1 .. k : i \in 0 .. k /\ i - 1 \in 0 .. k - 1 /\ i - 1 # k
                             /\ i - 1 \in 0 .. k /\ (i # k => i \in 0 .. k - 1 /\ i \in 1 .. k - 1)
        /\ \A i \in 0 .. k : i # k => i \in 0 .. k - 1
    OBVIOUS
  <2> DEFINE last == step[k][f[k - 1]]
             g == [i \in 0 .. k |-> IF i = k THEN last ELSE f[i]]
  <2>3. /\ f \in [0 .. k - 1 -> T] /\ f[0] = base
        /\ \A i \in 1 .. k - 1 : f[i] = step[i][f[i - 1]]
    BY <2>1 DEF Iterates
  <2>4. last \in T
    BY <2>2, <2>3
  <2> HIDE DEF last
  <2>5. g \in [0 .. k -> T]
    BY <2>2, <2>3, <2>4
  <2>6. g[0] = base
    BY <2>2, <2>3
  <2>7. \A i \in 1 .. k : g[i - 1] = f[i - 1] /\ g[i] = IF i = k THEN last ELSE f[i]
    BY <2>2
  <2>8. \A i \in 1 .. k : g[i] = step[i][g[i - 1]]
    BY <2>2, <2>3, <2>7 DEF last
  <2> HIDE DEF g
  <2>9. k \in 0 .. n /\ Iterates(g, k, T, base, step)
    BY <2>5, <2>6, <2>8 DEF Iterates
  <2>10. QED
    BY <2>9
<1>3. n \in A
  <2> HIDE DEF A
  <2>1. n \in 0 .. n
    OBVIOUS
  <2>2. QED
    BY <1>1, <1>2, <2>1, Ascend
<1>4. QED
  BY <1>3

-----------------------------------------------------------------------------
(* Names.                                                                   *)

\* What one more item and what a second sequence adds.

LEMMA SeqOfItsOwn ==
  ASSUME NEW S, NEW s \in Seq(S)
  PROVE  IsSeq(s)
<1>1. Len(s) \in Nat /\ s \in [1 .. Len(s) -> S] /\ DOMAIN s = 1 .. Len(s)
  OBVIOUS
<1>2. s \in [1 .. Len(s) -> ToSet(s)]
  BY <1>1 DEF ToSet
<1> DEFINE T == ToSet(s)
<1> HIDE DEF T
<1>3. \A n \in Nat : \A q \in [1 .. n -> T] : q \in Seq(T)
  OBVIOUS
<1>4. QED
  BY <1>1, <1>2, <1>3 DEF IsSeq, T

LEMMA SeqEmpty == IsSeq(<<>>)
<1>1. <<>> \in Seq({})
  OBVIOUS
<1>2. QED
  BY <1>1, SeqOfItsOwn

LEMMA FiniteImage ==
  ASSUME NEW S, IsFiniteSet(S), NEW f, NEW image, \A y \in image : \E x \in S : y = f[x]
  PROVE  IsFiniteSet(image)
<1> DEFINE g == [x \in S |-> f[x]]
           all == {f[x] : x \in S}
<1>1. g \in Surjection(S, all)
  BY DEF Surjection
<1>2. IsFiniteSet(all)
  <2> HIDE DEF g, all
  <2>1. QED
    BY <1>1, FS_Surjection
<1>3. image \subseteq all
  OBVIOUS
<1> HIDE DEF all
<1>4. QED
  BY <1>2, <1>3, FS_Subset

\* The union over a finite set of finite sets.
LEMMA FiniteUnion ==
  ASSUME NEW S, IsFiniteSet(S), NEW f, \A x \in S : IsFiniteSet(f[x]),
         NEW union, \A y \in union : \E x \in S : y \in f[x]
  PROVE  IsFiniteSet(union)
<1> DEFINE parts == {f[x] : x \in S}
<1>1. \A part \in parts : \E x \in S : part = f[x]
  OBVIOUS
<1>2. \A part \in parts : IsFiniteSet(part)
  OBVIOUS
<1>3. \A y \in union : y \in UNION parts
  OBVIOUS
<1> HIDE DEF parts
<1>4. IsFiniteSet(UNION parts)
  BY <1>1, <1>2, FiniteImage, FS_UNION
<1>5. QED
  BY <1>3, <1>4, FS_Subset

\* What a sequence is, and what two make.
LEMMA SeqIs ==
  ASSUME NEW s, IsSeq(s)
  PROVE  Len(s) \in Nat /\ DOMAIN s = 1 .. Len(s) /\ IsFiniteSet(DOMAIN s)
<1>1. s \in Seq(ToSet(s))
  BY DEF IsSeq
<1> DEFINE S == ToSet(s)
<1> HIDE DEF S
<1>2. s \in Seq(S)
  BY <1>1 DEF S
<1>3. Len(s) \in Nat /\ DOMAIN s = 1 .. Len(s)
  BY <1>2
<1>4. IsFiniteSet(1 .. Len(s))
  BY <1>3, FS_Interval
<1>5. QED
  BY <1>3, <1>4

LEMMA SeqJoin ==
  ASSUME NEW s, NEW t, IsSeq(s), IsSeq(t)
  PROVE  IsSeq(s \o t)
<1> DEFINE S == ToSet(s) \cup ToSet(t)
<1>1. s \in Seq(S) /\ t \in Seq(S)
  <2>1. s \in Seq(ToSet(s)) /\ t \in Seq(ToSet(t))
    BY DEF IsSeq
  <2>2. \A A, B : A \subseteq B => Seq(A) \subseteq Seq(B)
    OBVIOUS
  <2>3. QED
    BY <2>1, <2>2
<1> HIDE DEF S
<1>2. s \o t \in Seq(S)
  BY <1>1
<1>3. QED
  BY <1>2, SeqOfItsOwn

LEMMA FlattenTyped ==
  ASSUME NEW S, NEW seqs \in Seq(Seq(S))
  PROVE  FlattenSeq(seqs) \in Seq(S)
<1> DEFINE n == Len(seqs)
           flatten[i \in 1 .. Len(seqs)] == IF i = 1 THEN seqs[i] ELSE flatten[i - 1] \o seqs[i]
<1>1. n \in Nat /\ <<>> \in Seq(S) /\ \A i \in 1 .. n : seqs[i] \in Seq(S)
  OBVIOUS
<1>2. CASE n = 0
  <2>1. FlattenSeq(seqs) = seqs /\ seqs = <<>>
    BY <1>2 DEF FlattenSeq
  <2>2. QED
    BY <1>1, <2>1
<1>3. CASE n # 0
  <2>1. FlattenSeq(seqs) = flatten[n]
    BY <1>3 DEF FlattenSeq
  <2>2. flatten = [i \in 1 .. Len(seqs) |-> IF i = 1 THEN seqs[i] ELSE flatten[i - 1] \o seqs[i]]
    <3> DEFINE with(i, s) == IF i = 1 THEN seqs[i] ELSE s \o seqs[i]
               step == [i \in 1 .. n |-> [s \in Seq(S) |-> with(i, s)]]
    <3>1. \A i \in 1 .. n : \A s \in Seq(S) : with(i, s) \in Seq(S)
      BY <1>1
    <3> HIDE DEF with
    <3>2. step \in [1 .. n -> [Seq(S) -> Seq(S)]]
      BY <3>1
    <3>3. PICK f : Iterates(f, n, Seq(S), <<>>, step)
      <4> HIDE DEF step
      <4>1. QED
        BY <1>1, <3>2, Iteration
    <3>4. f \in [0 .. n -> Seq(S)]
      BY <3>3 DEF Iterates
    <3> DEFINE g == [i \in 1 .. Len(seqs) |-> f[i]]
    <3>5. ASSUME NEW i \in 1 .. Len(seqs)
          PROVE  g[i] = IF i = 1 THEN seqs[i] ELSE g[i - 1] \o seqs[i]
      <4>1. i - 1 \in 0 .. n /\ (i # 1 => i - 1 \in 1 .. Len(seqs))
        OBVIOUS
      <4>2. f[i] = step[i][f[i - 1]] /\ f[i - 1] \in Seq(S)
        BY <3>3, <3>4, <4>1 DEF Iterates
      <4>3. g[i] = with(i, f[i - 1])
        BY <4>2
      <4>4. i # 1 => g[i - 1] = f[i - 1]
        BY <4>1
      <4> HIDE DEF g
      <4>5. QED
        BY <4>3, <4>4 DEF with
    <3>6. g = [i \in 1 .. Len(seqs) |-> IF i = 1 THEN seqs[i] ELSE g[i - 1] \o seqs[i]]
      BY <3>5
    <3> HIDE DEF g
    <3>7. QED
      BY <3>6
  <2> HIDE DEF flatten
  <2> DEFINE A == {i \in 0 .. n : i # 0 => flatten[i] \in Seq(S)}
  <2>3. 0 \in A
    BY <1>1
  <2>4. ASSUME NEW i \in 1 .. n, i - 1 \in A PROVE i \in A
    <3>1. flatten[i] = IF i = 1 THEN seqs[i] ELSE flatten[i - 1] \o seqs[i]
      BY <2>2
    <3>2. i # 1 => i - 1 # 0
      OBVIOUS
    <3>3. i # 1 => flatten[i - 1] \in Seq(S)
      BY <2>4, <3>2
    <3>4. flatten[i] \in Seq(S)
      BY <1>1, <3>1, <3>3
    <3>5. QED
      BY <3>4
  <2>5. n \in A
    <3> HIDE DEF A
    <3>1. n \in 0 .. n
      BY <1>1
    <3>2. QED
      BY <1>1, <2>3, <2>4, <3>1, Ascend
  <2>6. QED
    BY <1>3, <2>1, <2>5
<1>4. QED
  BY <1>2, <1>3

-----------------------------------------------------------------------------
(* 2. The graph of a finite repository is finite.                           *)

\* What the parser makes of a file is finite, as its statements are.
FiniteFile(file) ==
    /\ IsFiniteSet(file.defined) /\ IsFiniteSet(DOMAIN file.imports)
    /\ \A d \in file.defined : IsFiniteSet(DOMAIN d.parameters) /\ IsFiniteSet(DOMAIN d.decorators)

LEMMA FlattenFinite ==
  ASSUME NEW seqs, IsSeq(seqs), \A i \in DOMAIN seqs : IsSeq(seqs[i])
  PROVE  IsSeq(FlattenSeq(seqs))
<1> DEFINE S == UNION {ToSet(seqs[i]) : i \in DOMAIN seqs}
<1>1. ASSUME NEW i \in DOMAIN seqs PROVE seqs[i] \in Seq(S)
  <2>1. seqs[i] \in Seq(ToSet(seqs[i])) /\ ToSet(seqs[i]) \subseteq S
    BY DEF IsSeq
  <2>2. \A A, B : A \subseteq B => Seq(A) \subseteq Seq(B)
    OBVIOUS
  <2> HIDE DEF S
  <2>3. QED
    BY <2>1, <2>2
<1> HIDE DEF S
<1>2. seqs \in Seq(Seq(S))
  <2> DEFINE T == ToSet(seqs)
  <2>1. T \subseteq Seq(S)
    BY <1>1 DEF ToSet
  <2>2. seqs \in Seq(T)
    BY DEF IsSeq
  <2> HIDE DEF T
  <2>3. QED
    BY <2>1, <2>2
<1>3. QED
  BY <1>2, FlattenTyped, SeqOfItsOwn

LEMMA ImportsFinite ==
  ASSUME NEW body, IsSource(body)
  PROVE  IsFiniteSet(DOMAIN CollectImports(body))
<1> DEFINE part(i) == IF body[i].kind \in {"import", "from"} /\ IsRead(body, i) THEN ImportsOf(body[i]) ELSE <<>>
<1>1. Len(body) \in Nat /\ DOMAIN body = 1 .. Len(body)
  BY SeqIs DEF IsSource
<1>2. ASSUME NEW i \in 1 .. Len(body) PROVE IsSeq(part(i))
  <2>1. CASE body[i].kind = "import"
    <3> DEFINE names == body[i].names
               import(k) == [level |-> 0, module |-> names[k].name, names |-> <<names[k].name>>,
                             alias |-> names[k].as]
               each == [k \in DOMAIN names |-> import(k)]
    <3>1. Len(names) \in Nat /\ DOMAIN names = 1 .. Len(names)
      BY <1>1, <2>1, SeqIs DEF IsSource
    <3>2. IsSeq(each)
      <4> HIDE DEF import
      <4>1. each \in [1 .. Len(names) -> {import(k) : k \in DOMAIN names}]
        BY <3>1
      <4> DEFINE S == {import(k) : k \in DOMAIN names}
      <4> HIDE DEF each, S
      <4>2. each \in Seq(S)
        BY <3>1, <4>1 DEF S
      <4>3. QED
        BY <4>2, SeqOfItsOwn
    <3>3. ImportsOf(body[i]) = each
      BY <2>1 DEF ImportsOf
    <3>4. part(i) = each \/ part(i) = <<>>
      BY <3>3
    <3>5. QED
      BY <3>2, <3>4, SeqEmpty
  <2>2. CASE body[i].kind # "import"
    <3>1. ASSUME NEW x PROVE IsSeq(<<x>>)
      <4>1. <<x>> \in Seq({x})
        OBVIOUS
      <4>2. QED
        BY <4>1, SeqOfItsOwn
    <3>2. \E x : ImportsOf(body[i]) = <<x>>
      BY <2>2 DEF ImportsOf
    <3>3. IsSeq(ImportsOf(body[i]))
      BY <3>1, <3>2
    <3>4. part(i) = ImportsOf(body[i]) \/ part(i) = <<>>
      OBVIOUS
    <3>5. QED
      BY <3>3, <3>4, SeqEmpty
  <2>3. QED
    BY <2>1, <2>2
<1> DEFINE parts == [i \in 1 .. Len(body) |-> part(i)]
<1>3. CollectImports(body) = FlattenSeq(parts)
  BY <1>1 DEF CollectImports
<1>4. IsSeq(CollectImports(body))
  <2> DEFINE S == {part(i) : i \in 1 .. Len(body)}
  <2> HIDE DEF part
  <2>1. parts \in [1 .. Len(body) -> S] /\ DOMAIN parts = 1 .. Len(body)
        /\ \A i \in 1 .. Len(body) : IsSeq(parts[i])
    BY <1>2
  <2> HIDE DEF parts, S
  <2>2. parts \in Seq(S)
    BY <1>1, <2>1
  <2>3. QED
    BY <1>3, <2>1, <2>2, SeqOfItsOwn, FlattenFinite
<1>5. QED
  BY <1>4, SeqIs

LEMMA DefinedFinite ==
  ASSUME NEW body, IsSource(body), NEW module
  PROVE  LET defined == CollectDefinitions(body, module)
         IN  /\ IsFiniteSet(defined)
             /\ \A d \in defined : IsFiniteSet(DOMAIN d.parameters) /\ IsFiniteSet(DOMAIN d.decorators)
<1> DEFINE places == {j \in DOMAIN body : body[j].kind \in {"def", "class"}}
           definition == [i \in places |-> Definition(body, i, module)]
           defined == CollectDefinitions(body, module)
<1>1. IsFiniteSet(places)
  <2>1. IsFiniteSet(DOMAIN body)
    BY SeqIs DEF IsSource
  <2>2. QED
    BY <2>1, FS_Subset
<1>2. defined = {definition[i] : i \in places}
  BY DEF CollectDefinitions
<1>3. IsFiniteSet(defined)
  <2>1. \A d \in defined : \E i \in places : d = definition[i]
    BY <1>2
  <2> HIDE DEF places, definition, defined
  <2>2. QED
    BY <1>1, <2>1, FiniteImage
<1>4. ASSUME NEW d \in defined
      PROVE  IsFiniteSet(DOMAIN d.parameters) /\ IsFiniteSet(DOMAIN d.decorators)
  <2>1. PICK i \in places : d = Definition(body, i, module)
    BY DEF CollectDefinitions
  <2>2. IsSeq(body[i].decorators)
    BY <2>1 DEF IsSource
  <2>3. d.decorators = body[i].decorators
    BY <2>1 DEF Definition
  <2>4. CASE body[i].kind = "class"
    <3>1. d.parameters = <<>>
      BY <2>1, <2>4 DEF Definition
    <3>2. QED
      BY <2>2, <2>3, <3>1, SeqIs, SeqEmpty
  <2>5. CASE body[i].kind = "def"
    <3>1. d.parameters = ParseParameters(body[i].args)
      BY <2>1, <2>5 DEF Definition
    <3>2. /\ IsSeq(body[i].args.positional) /\ IsSeq(body[i].args.vararg)
          /\ IsSeq(body[i].args.keyword) /\ IsSeq(body[i].args.kwarg)
      BY <2>5 DEF IsSource
    <3>3. IsSeq(ParseParameters(body[i].args))
      BY <3>2, SeqJoin DEF ParseParameters
    <3>4. QED
      BY <2>2, <2>3, <3>1, <3>3, SeqIs
  <2>6. QED
    BY <2>1, <2>4, <2>5
<1>5. QED
  BY <1>3, <1>4

LEMMA ParsedFinite ==
  ASSUME NEW files \in Repositories
  PROVE  IsFiniteSet(Parsed(files)) /\ \A f \in Parsed(files) : FiniteFile(f)
<1>1. IsFiniteSet(files) /\ \A f \in files : IsSource(f.body)
  BY RepositoriesAssumption
<1>2. IsFiniteSet(Parsed(files))
  <2> DEFINE parsed == [f \in files |-> ParseFile(f.path, f.body, f.parses)]
  <2>1. \A p \in Parsed(files) : \E f \in files : p = parsed[f]
    BY DEF Parsed
  <2> HIDE DEF parsed
  <2>2. QED
    BY <1>1, <2>1, FiniteImage
<1>3. ASSUME NEW f \in Parsed(files) PROVE FiniteFile(f)
  <2>1. PICK s \in files : f = ParseFile(s.path, s.body, s.parses)
    BY DEF Parsed
  <2>2. /\ f.defined = CollectDefinitions(s.body, ModuleName(s.path)) \/ f.defined = {}
        /\ f.imports = CollectImports(s.body) \/ f.imports = <<>>
    BY <2>1 DEF ParseFile
  <2>3. IsFiniteSet(DOMAIN f.imports)
    BY <1>1, <2>2, ImportsFinite, SeqEmpty, SeqIs
  <2>4. CASE f.defined = {}
    BY <2>3, <2>4, FS_EmptySet DEF FiniteFile
  <2>5. CASE f.defined = CollectDefinitions(s.body, ModuleName(s.path))
    <3>1. IsSource(s.body)
      BY <1>1
    <3>2. /\ IsFiniteSet(f.defined)
          /\ \A d \in f.defined : IsFiniteSet(DOMAIN d.parameters) /\ IsFiniteSet(DOMAIN d.decorators)
      BY <2>5, <3>1, DefinedFinite
    <3>3. QED
      BY <2>3, <3>2 DEF FiniteFile
  <2>6. QED
    BY <2>2, <2>4, <2>5
<1>4. QED
  BY <1>2, <1>3

LEMMA ParameterNodesFinite ==
  ASSUME NEW file, FiniteFile(file)
  PROVE  IsFiniteSet(ParameterNodes(file))
<1> DEFINE node(d, p) ==
             [label |-> "Parameter", qn |-> <<>>, file |-> file.path, at |-> p,
              of |-> [owner |-> d.qn, name |-> <<d.parameters[p].name>>, injects |-> d.parameters[p].injects]]
           each(d) == [p \in DOMAIN d.parameters |-> node(d, p)]
           those(d) == {node(d, p) : p \in DOMAIN d.parameters}
           all == [d \in file.defined |-> those(d)]
<1>1. ASSUME NEW d \in file.defined PROVE IsFiniteSet(those(d))
  <2>1. IsFiniteSet(DOMAIN d.parameters)
    BY DEF FiniteFile
  <2>2. \A y \in those(d) : \E p \in DOMAIN d.parameters : y = each(d)[p]
    <3> HIDE DEF node
    <3>1. QED
      OBVIOUS
  <2> HIDE DEF those, each
  <2>3. QED
    BY <2>1, <2>2, FiniteImage
<1>2. \A y \in ParameterNodes(file) : \E d \in file.defined : y \in those(d)
  BY DEF ParameterNodes
<1> HIDE DEF those
<1>3. \A d \in file.defined : IsFiniteSet(all[d]) /\ all[d] = those(d)
  BY <1>1
<1> HIDE DEF all
<1>4. IsFiniteSet(file.defined)
  BY DEF FiniteFile
<1>5. \A y \in ParameterNodes(file) : \E d \in file.defined : y \in all[d]
  BY <1>2, <1>3
<1>6. QED
  BY <1>3, <1>4, <1>5, FiniteUnion

LEMMA DocstringNodesFinite ==
  ASSUME NEW file, FiniteFile(file)
  PROVE  IsFiniteSet(DocstringNodes(file))
<1> DEFINE node(owner, text) == [label |-> "Docstring", qn |-> <<>>, file |-> file.path, at |-> 0,
                                 of |-> [owner |-> owner, text |-> text]]
           each == [d \in file.defined |-> node(d.qn, d.doc)]
           those == {node(d.qn, d.doc) : d \in file.defined}
<1>1. IsFiniteSet(those)
  <2>1. \A y \in those : \E d \in file.defined : y = each[d]
    <3> HIDE DEF node
    <3>1. QED
      OBVIOUS
  <2>2. IsFiniteSet(file.defined)
    BY DEF FiniteFile
  <2> HIDE DEF those, each
  <2>3. QED
    BY <2>1, <2>2, FiniteImage
<1>2. DocstringNodes(file) \subseteq those \cup {node(file.module, file.doc)}
  BY DEF DocstringNodes
<1> HIDE DEF those, node
<1>3. IsFiniteSet(those \cup {node(file.module, file.doc)})
  BY <1>1, FS_AddElement
<1>4. QED
  BY <1>2, <1>3, FS_Subset

LEMMA DecoratorNodesFinite ==
  ASSUME NEW file, FiniteFile(file)
  PROVE  IsFiniteSet({DecoratorNode(d[2]) : d \in DecoratorsOf(file)})
<1> DEFINE those(d) == {DecoratorNode(d.decorators[i]) : i \in DOMAIN d.decorators}
           each(d) == [i \in DOMAIN d.decorators |-> DecoratorNode(d.decorators[i])]
           all == [d \in file.defined |-> those(d)]
           carried == {DecoratorNode(d[2]) : d \in DecoratorsOf(file)}
<1>1. ASSUME NEW d \in file.defined PROVE IsFiniteSet(those(d))
  <2>1. IsFiniteSet(DOMAIN d.decorators)
    BY DEF FiniteFile
  <2>2. \A y \in those(d) : \E i \in DOMAIN d.decorators : y = each(d)[i]
    OBVIOUS
  <2> HIDE DEF those, each
  <2>3. QED
    BY <2>1, <2>2, FiniteImage
<1>2. \A y \in carried : \E d \in file.defined : y \in those(d)
  <2> SUFFICES ASSUME NEW y \in carried PROVE \E d \in file.defined : y \in those(d)
    OBVIOUS
  <2>1. PICK p \in DecoratorsOf(file) : y = DecoratorNode(p[2])
    OBVIOUS
  <2>2. PICK d \in file.defined : \E name \in ToSet(d.decorators) : p = <<d.qn, name>>
    BY <2>1 DEF DecoratorsOf
  <2>3. PICK i \in DOMAIN d.decorators : p = <<d.qn, d.decorators[i]>>
    BY <2>2 DEF ToSet
  <2>4. y = DecoratorNode(d.decorators[i])
    BY <2>1, <2>3
  <2>5. QED
    BY <2>4
<1> HIDE DEF those
<1>3. \A d \in file.defined : IsFiniteSet(all[d]) /\ all[d] = those(d)
  BY <1>1
<1> HIDE DEF all, carried
<1>4. IsFiniteSet(file.defined)
  BY DEF FiniteFile
<1>5. \A y \in carried : \E d \in file.defined : y \in all[d]
  BY <1>2, <1>3
<1>6. IsFiniteSet(carried)
  BY <1>3, <1>4, <1>5, FiniteUnion
<1>7. QED
  BY <1>6 DEF carried

LEMMA NodesFinite ==
  ASSUME NEW files, IsFiniteSet(files), \A f \in files : FiniteFile(f)
  PROVE  IsFiniteSet(Nodes(files))
<1> DEFINE modules == {Node("Module", f.module, f) : f \in files}
           paths == {FileNode(f) : f \in files}
           details == UNION {ParameterNodes(f) \cup DocstringNodes(f) : f \in files}
           decorators == UNION {{DecoratorNode(d[2]) : d \in DecoratorsOf(f)} : f \in files}
           definitions == UNION {{Node(d.label, d.qn, f) : d \in f.defined} : f \in files}
           imports == UNION {{ImportNode(f, p) : p \in DOMAIN f.imports} : f \in files}
<1>1. IsFiniteSet(modules)
  <2> DEFINE each == [f \in files |-> Node("Module", f.module, f)]
  <2>1. \A y \in modules : \E f \in files : y = each[f]
    OBVIOUS
  <2> HIDE DEF modules, each
  <2>2. QED
    BY <2>1, FiniteImage
<1>2. IsFiniteSet(paths)
  <2> DEFINE each == [f \in files |-> FileNode(f)]
  <2>1. \A y \in paths : \E f \in files : y = each[f]
    OBVIOUS
  <2> HIDE DEF paths, each
  <2>2. QED
    BY <2>1, FiniteImage
<1>3. IsFiniteSet(details)
  <2> DEFINE each == [f \in files |-> ParameterNodes(f) \cup DocstringNodes(f)]
  <2>1. \A y \in details : \E f \in files : y \in each[f]
    OBVIOUS
  <2>2. ASSUME NEW f \in files PROVE IsFiniteSet(each[f])
    <3>1. each[f] = ParameterNodes(f) \cup DocstringNodes(f)
      OBVIOUS
    <3> HIDE DEF each
    <3>2. IsFiniteSet(ParameterNodes(f)) /\ IsFiniteSet(DocstringNodes(f))
      BY ParameterNodesFinite, DocstringNodesFinite
    <3>3. QED
      BY <3>1, <3>2, FS_Union
  <2> HIDE DEF details, each
  <2>3. QED
    BY <2>1, <2>2, FiniteUnion
<1>4. IsFiniteSet(decorators)
  <2> DEFINE of(f) == {DecoratorNode(d[2]) : d \in DecoratorsOf(f)}
             each == [f \in files |-> of(f)]
  <2>1. \A f \in files : IsFiniteSet(of(f))
    BY DecoratorNodesFinite
  <2>2. \A y \in decorators : \E f \in files : y \in of(f)
    OBVIOUS
  <2> HIDE DEF decorators, of
  <2>3. \A f \in files : each[f] = of(f)
    OBVIOUS
  <2> HIDE DEF each
  <2>4. QED
    BY <2>1, <2>2, <2>3, FiniteUnion
<1>5. IsFiniteSet(definitions)
  <2> DEFINE of(f) == {Node(d.label, d.qn, f) : d \in f.defined}
             each == [f \in files |-> of(f)]
  <2>1. ASSUME NEW f \in files PROVE IsFiniteSet(of(f))
    <3> DEFINE one == [d \in f.defined |-> Node(d.label, d.qn, f)]
    <3>1. \A y \in of(f) : \E d \in f.defined : y = one[d]
      OBVIOUS
    <3>2. IsFiniteSet(f.defined)
      BY DEF FiniteFile
    <3> HIDE DEF of, one
    <3>3. QED
      BY <3>1, <3>2, FiniteImage
  <2>2. \A y \in definitions : \E f \in files : y \in of(f)
    OBVIOUS
  <2> HIDE DEF definitions, of
  <2>3. \A f \in files : each[f] = of(f)
    OBVIOUS
  <2> HIDE DEF each
  <2>4. QED
    BY <2>1, <2>2, <2>3, FiniteUnion
<1>6. IsFiniteSet(imports)
  <2> DEFINE of(f) == {ImportNode(f, p) : p \in DOMAIN f.imports}
             each == [f \in files |-> of(f)]
  <2>1. ASSUME NEW f \in files PROVE IsFiniteSet(of(f))
    <3> DEFINE one == [p \in DOMAIN f.imports |-> ImportNode(f, p)]
    <3>1. \A y \in of(f) : \E p \in DOMAIN f.imports : y = one[p]
      OBVIOUS
    <3>2. IsFiniteSet(DOMAIN f.imports)
      BY DEF FiniteFile
    <3> HIDE DEF of, one
    <3>3. QED
      BY <3>1, <3>2, FiniteImage
  <2>2. \A y \in imports : \E f \in files : y \in of(f)
    OBVIOUS
  <2> HIDE DEF imports, of
  <2>3. \A f \in files : each[f] = of(f)
    OBVIOUS
  <2> HIDE DEF each
  <2>4. QED
    BY <2>1, <2>2, <2>3, FiniteUnion
<1>7. Nodes(files) = modules \cup paths \cup details \cup decorators \cup definitions \cup imports
  BY Zenon DEF Nodes
<1> HIDE DEF modules, paths, details, decorators, definitions, imports
<1>8. IsFiniteSet(modules \cup paths)
  BY <1>1, <1>2, FS_Union
<1>9. IsFiniteSet(modules \cup paths \cup details)
  BY <1>3, <1>8, FS_Union
<1>10. IsFiniteSet(modules \cup paths \cup details \cup decorators)
  BY <1>4, <1>9, FS_Union
<1>11. IsFiniteSet(modules \cup paths \cup details \cup decorators \cup definitions)
  BY <1>5, <1>10, FS_Union
<1>12. QED
  BY <1>6, <1>7, <1>11, FS_Union

\* The relationships that may be between some nodes.
Links(nodes) == [type : RelationshipTypes, from : nodes, to : nodes]

LEMMA BetweenLinks ==
  ASSUME NEW nodes, NEW type \in RelationshipTypes, NEW A, NEW B, A \subseteq nodes, B \subseteq nodes
  PROVE  Between(type, A, B) \subseteq Links(nodes)
BY DEF Between, Rel, Links

\* A relationship links two nodes of the graph: what is resolved to no node
\* has none.
LEMMA EdgesLink ==
  ASSUME NEW files
  PROVE  GraphOf(files).edges \subseteq Links(Nodes(files))
<1> DEFINE N == Nodes(files)
           known(type, e) == \E A, B : A \subseteq N /\ B \subseteq N /\ e \in Between(type, A, B)
<1>1. ASSUME NEW type \in RelationshipTypes, NEW e, known(type, e) PROVE e \in Links(N)
  <2> HIDE DEF N
  <2>1. QED
    BY <1>1, BetweenLinks
<1>2. \A qn, labels : Named(qn, labels, files) \subseteq N
  BY DEF Named
<1>3. \A label, parent : Parents(label, parent, N) \subseteq N
  BY DEF Parents
<1>4. ASSUME NEW f \in files
      PROVE  /\ Node("Module", f.module, f) \in N /\ FileNode(f) \in N
             /\ ParameterNodes(f) \subseteq N /\ DocstringNodes(f) \subseteq N
             /\ \A d \in DecoratorsOf(f) : DecoratorNode(d[2]) \in N
             /\ \A d \in f.defined : Node(d.label, d.qn, f) \in N
             /\ \A p \in DOMAIN f.imports : ImportNode(f, p) \in N
  <2>1. Node("Module", f.module, f) \in N /\ FileNode(f) \in N
    BY DEF Nodes
  <2>2. ParameterNodes(f) \cup DocstringNodes(f) \subseteq N
    BY DEF Nodes
  <2>3. \A d \in DecoratorsOf(f) : DecoratorNode(d[2]) \in N
    BY DEF Nodes
  <2>4. \A d \in f.defined : Node(d.label, d.qn, f) \in N
    BY DEF Nodes
  <2>5. \A p \in DOMAIN f.imports : ImportNode(f, p) \in N
    BY DEF Nodes
  <2> HIDE DEF N
  <2>6. QED
    BY <2>1, <2>2, <2>3, <2>4, <2>5
<1> HIDE DEF N
<1>5. ASSUME NEW e \in Containment(files) PROVE e \in Links(N)
  <2>1. CASE \E f \in files : e = Rel("CONTAINS", FileNode(f), Node("Module", f.module, f))
    BY <1>4, <2>1 DEF Rel, Links, RelationshipTypes
  <2>2. CASE \E f \in files : \E d \in f.defined :
               e \in Between("CONTAINS", Parents(d.label, d.parent, N) \ {Node(d.label, d.qn, f)}, {Node(d.label, d.qn, f)})
    <3>1. PICK f \in files : \E d \in f.defined :
               e \in Between("CONTAINS", Parents(d.label, d.parent, N) \ {Node(d.label, d.qn, f)}, {Node(d.label, d.qn, f)})
      BY <2>2
    <3>2. \A d \in f.defined : /\ Parents(d.label, d.parent, N) \ {Node(d.label, d.qn, f)} \subseteq N
                               /\ {Node(d.label, d.qn, f)} \subseteq N
      BY <1>3, <1>4
    <3>3. QED
      BY <1>1, <3>1, <3>2 DEF RelationshipTypes
  <2>3. QED
    BY <2>1, <2>2 DEF Containment, N
<1>6. ASSUME NEW e \in Imports(files) PROVE e \in Links(N)
  BY <1>4 DEF Imports, Rel, Links, RelationshipTypes, NeighborTypes
<1>7. ASSUME NEW e \in DependsOn(files) PROVE e \in Links(N)
  <2> DEFINE target(f, p) == {Target(f.imports[p], f)} \cap (ImportedModules(f, files) \ {f.module})
             link(f, p) == Between("DEPENDS_ON", {ImportNode(f, p), Node("Module", f.module, f)},
                                   {n \in N : n.label = "Module" /\ n.qn \in target(f, p)})
  <2>1. DependsOn(files) = UNION {UNION {link(f, p) : p \in DOMAIN f.imports} : f \in files}
    BY DEF DependsOn, N
  <2> HIDE DEF link
  <2>2. PICK f \in files : \E p \in DOMAIN f.imports : e \in link(f, p)
    BY <2>1
  <2>3. \A p \in DOMAIN f.imports : {ImportNode(f, p), Node("Module", f.module, f)} \subseteq N
    BY <1>4
  <2>4. \A p : {n \in N : n.label = "Module" /\ n.qn \in target(f, p)} \subseteq N
    OBVIOUS
  <2> HIDE DEF target
  <2>5. QED
    BY <1>1, <2>2, <2>3, <2>4 DEF link, RelationshipTypes, NeighborTypes
<1>8. ASSUME NEW e \in Inherits(files) PROVE e \in Links(N)
  <2>1. PICK f \in files : \E d \in f.defined : \E parent :
          e \in Between("INHERITS_FROM", Named(d.qn, {"Class"}, files), Named(parent, {"Class"}, files))
    BY DEF Inherits
  <2>2. QED
    BY <1>1, <1>2, <2>1 DEF RelationshipTypes
<1>9. ASSUME NEW e \in Calls(files) PROVE e \in Links(N)
  <2>1. PICK f \in files : \E d \in f.defined : \E callee :
          e \in Between("CALLS", Named(d.qn, {"Function", "Method"}, files), Named(callee, {"Function", "Method"}, files))
    BY DEF Calls
  <2>2. QED
    BY <1>1, <1>2, <2>1 DEF RelationshipTypes, NeighborTypes
<1>10. ASSUME NEW e \in HasParameter(files) PROVE e \in Links(N)
  <2> DEFINE link(p) == Between("HAS_PARAMETER", Named(p.of.owner, {"Function", "Method"}, files), {p})
  <2>1. HasParameter(files) = UNION {UNION {link(p) : p \in ParameterNodes(f)} : f \in files}
    BY DEF HasParameter
  <2> HIDE DEF link
  <2>2. PICK f \in files : \E p \in ParameterNodes(f) : e \in link(p)
    BY <2>1
  <2>3. \A p \in ParameterNodes(f) : {p} \subseteq N
    BY <1>4
  <2>4. QED
    BY <1>1, <1>2, <2>2, <2>3 DEF link, RelationshipTypes
<1>11. ASSUME NEW e \in DecoratedBy(files) PROVE e \in Links(N)
  <2> DEFINE link(d) == Between("DECORATED_BY", Named(d[1], Entities \ {"Module"}, files), {DecoratorNode(d[2])})
  <2>1. DecoratedBy(files) = UNION {UNION {link(d) : d \in DecoratorsOf(f)} : f \in files}
    BY DEF DecoratedBy
  <2> HIDE DEF link
  <2>2. PICK f \in files : \E d \in DecoratorsOf(f) : e \in link(d)
    BY <2>1
  <2>3. \A d \in DecoratorsOf(f) : {DecoratorNode(d[2])} \subseteq N
    BY <1>4
  <2>4. QED
    BY <1>1, <1>2, <2>2, <2>3 DEF link, RelationshipTypes
<1>12. ASSUME NEW e \in DocumentedBy(files) PROVE e \in Links(N)
  <2> DEFINE link(d) == Between("DOCUMENTED_BY", Named(d.of.owner, Entities, files), {d})
  <2>1. DocumentedBy(files) = UNION {UNION {link(d) : d \in DocstringNodes(f)} : f \in files}
    BY DEF DocumentedBy
  <2> HIDE DEF link
  <2>2. PICK f \in files : \E d \in DocstringNodes(f) : e \in link(d)
    BY <2>1
  <2>3. \A d \in DocstringNodes(f) : {d} \subseteq N
    BY <1>4
  <2>4. QED
    BY <1>1, <1>2, <2>2, <2>3 DEF link, RelationshipTypes
<1>13. QED
  BY <1>5, <1>6, <1>7, <1>8, <1>9, <1>10, <1>11, <1>12 DEF GraphOf, N

LEMMA LinksFinite ==
  ASSUME NEW nodes, IsFiniteSet(nodes)
  PROVE  IsFiniteSet(Links(nodes))
<1> DEFINE triples == RelationshipTypes \X (nodes \X nodes)
           rel == [t \in triples |-> Rel(t[1], t[2][1], t[2][2])]
<1>1. IsFiniteSet(RelationshipTypes)
  <2>1. RelationshipTypes = {"IMPORTS", "DEPENDS_ON", "CALLS", "CONTAINS", "INHERITS_FROM", "DECORATED_BY",
                             "HAS_PARAMETER", "DOCUMENTED_BY"}
    BY DEF RelationshipTypes, NeighborTypes
  <2> DEFINE name == [i \in 1 .. 8 |->
                 IF i = 1 THEN "IMPORTS" ELSE IF i = 2 THEN "DEPENDS_ON" ELSE IF i = 3 THEN "CALLS"
                 ELSE IF i = 4 THEN "CONTAINS" ELSE IF i = 5 THEN "INHERITS_FROM"
                 ELSE IF i = 6 THEN "DECORATED_BY" ELSE IF i = 7 THEN "HAS_PARAMETER" ELSE "DOCUMENTED_BY"]
  <2>2. /\ "IMPORTS" = name[1] /\ "DEPENDS_ON" = name[2] /\ "CALLS" = name[3] /\ "CONTAINS" = name[4]
        /\ "INHERITS_FROM" = name[5] /\ "DECORATED_BY" = name[6] /\ "HAS_PARAMETER" = name[7]
        /\ "DOCUMENTED_BY" = name[8]
    OBVIOUS
  <2> HIDE DEF name
  <2>3. \A type \in RelationshipTypes : \E i \in 1 .. 8 : type = name[i]
    BY <2>1, <2>2
  <2>4. IsFiniteSet(1 .. 8)
    <3>1. 1 \in Int /\ 8 \in Int
      OBVIOUS
    <3>2. QED
      BY <3>1, FS_Interval
  <2>5. QED
    BY <2>3, <2>4, FiniteImage
<1>2. IsFiniteSet(triples)
  BY <1>1, FS_Product
<1>3. \A e \in Links(nodes) : \E t \in triples : e = rel[t]
  <2> SUFFICES ASSUME NEW e \in Links(nodes) PROVE \E t \in triples : e = rel[t]
    OBVIOUS
  <2>1. /\ e = Rel(e.type, e.from, e.to) /\ e.type \in RelationshipTypes /\ e.from \in nodes /\ e.to \in nodes
    BY DEF Links, Rel
  <2>2. <<e.type, <<e.from, e.to>>>> \in triples
    BY <2>1
  <2>3. e = rel[<<e.type, <<e.from, e.to>>>>]
    BY <2>1, <2>2
  <2>4. QED
    BY <2>2, <2>3
<1> HIDE DEF triples, rel
<1>4. QED
  BY <1>2, <1>3, FiniteImage

\* The graphs that the service is asked about.
Stored(g) == IsFiniteSet(g.nodes) /\ IsFiniteSet(g.edges) /\ \A r \in g.edges : r.from \in g.nodes

LEMMA GraphStored ==
  ASSUME NEW files \in Repositories
  PROVE  Stored(GraphOf(Parsed(files))) /\ Stored(EmptyGraph)
<1> DEFINE parsed == Parsed(files)
<1>1. IsFiniteSet(Nodes(parsed))
  BY ParsedFinite, NodesFinite
<1>2. IsFiniteSet(Links(Nodes(parsed)))
  BY <1>1, LinksFinite
<1>3. GraphOf(parsed).edges \subseteq Links(Nodes(parsed))
  BY EdgesLink
<1>4. IsFiniteSet(GraphOf(parsed).edges)
  BY <1>2, <1>3, FS_Subset
<1>5. GraphOf(parsed).nodes = Nodes(parsed)
  BY DEF GraphOf
<1>6. \A r \in GraphOf(parsed).edges : r.from \in Nodes(parsed)
  BY <1>3 DEF Links
<1>7. Stored(EmptyGraph)
  BY FS_EmptySet DEF Stored, EmptyGraph
<1>8. QED
  BY <1>1, <1>4, <1>5, <1>6, <1>7 DEF Stored

-----------------------------------------------------------------------------
(* 3. A page of a query.                                                    *)

LEMMA KeptRows ==
  ASSUME NEW rows, IsFiniteSet(rows), NEW n \in Nat, NEW rank, NEW kept \in FirstOf(rows, n, rank)
  PROVE  /\ kept \subseteq rows /\ IsFiniteSet(kept)
         /\ Cardinality(kept) \in Nat /\ Cardinality(rows) \in Nat
         /\ Cardinality(kept) <= Cardinality(rows)
         /\ Cardinality(kept) = Cardinality(rows) => kept = rows
         /\ Cardinality(kept) < n \/ Cardinality(rows) < n => kept = rows
<1>1. kept \subseteq rows /\ Cardinality(kept) = Lesser(n, Cardinality(rows))
  BY DEF FirstOf
<1>2. /\ IsFiniteSet(kept) /\ Cardinality(kept) <= Cardinality(rows)
      /\ Cardinality(kept) = Cardinality(rows) => kept = rows
  BY <1>1, FS_Subset
<1>3. Cardinality(kept) \in Nat /\ Cardinality(rows) \in Nat
  BY <1>2, FS_CardinalityType
<1>4. Cardinality(kept) < n \/ Cardinality(rows) < n => Cardinality(kept) = Cardinality(rows)
  BY <1>1, <1>3 DEF Lesser
<1>5. QED
  BY <1>1, <1>2, <1>3, <1>4

\* ExecuteQuery: a page is full or the whole, and a full one says it is cut.
LEMMA PageIs ==
  ASSUME NEW rows, NEW page \in ExecuteQuery(rows)
  PROVE  /\ page.rows \subseteq rows /\ page.truncated \in BOOLEAN
         /\ IsFiniteSet(rows) =>
              /\ ~page.truncated => page.rows = rows
              /\ Cardinality(rows) < ResultLimit => page.rows = rows
<1> DEFINE rank == [r \in rows |-> 0]
<1>1. PICK kept \in FirstOf(rows, ResultLimit, rank) :
             page = [rows |-> kept, truncated |-> Cardinality(kept) >= ResultLimit]
  BY DEF ExecuteQuery
<1>2. page.rows = kept /\ page.truncated = (Cardinality(kept) >= ResultLimit)
  BY <1>1, Zenon
<1>3. kept \subseteq rows /\ page.truncated \in BOOLEAN
  BY <1>2 DEF FirstOf
<1>4. ResultLimit \in Nat
  BY LimitsAssumption
<1>5. ASSUME IsFiniteSet(rows)
      PROVE  /\ ~page.truncated => page.rows = rows
             /\ Cardinality(rows) < ResultLimit => page.rows = rows
  <2> HIDE DEF rank
  <2>1. /\ Cardinality(kept) \in Nat
        /\ Cardinality(kept) < ResultLimit \/ Cardinality(rows) < ResultLimit => kept = rows
    BY <1>1, <1>4, <1>5, KeptRows
  <2>2. ~ (Cardinality(kept) >= ResultLimit) => Cardinality(kept) < ResultLimit
    BY <1>4, <2>1
  <2>3. ~page.truncated => ~ (Cardinality(kept) >= ResultLimit)
    BY <1>2, Zenon
  <2>4. QED
    BY <1>2, <2>1, <2>2, <2>3
<1>6. QED
  BY <1>2, <1>3, <1>5

-----------------------------------------------------------------------------
(* 4. Where an answer comes from.                                           *)

AnswerGiven ==
    answer # None =>
        /\ answer.kind \in {"incoming", "outgoing"} =>
               answer.result \in GetNeighbors(graph, answer.name, answer.kind)
        /\ answer.kind = "entity" =>
               /\ answer.name.concepts \in Concepts
               /\ answer.result \in Retrieve(graph, answer.name.name, answer.name.concepts, answer.name.type)
        /\ answer.kind = "patterns" =>
               answer.result \in FindPatterns(graph, answer.name[1], answer.name[2])
SearchInv ==
    /\ repository \in Repositories
    /\ graph = EmptyGraph \/ graph = GraphOf(Parsed(repository))
    /\ AnswerGiven

LEMMA SearchInvNext == SearchInv /\ [Next]_vars => SearchInv'
<1> SUFFICES ASSUME SearchInv, [Next]_vars PROVE SearchInv'
  OBVIOUS
<1> DEFINE Foreign(kind) == kind \notin {"incoming", "outgoing", "entity", "patterns"}
<1>1. CASE answer = None /\ Index
  BY <1>1 DEF SearchInv, AnswerGiven, Index
<1>2. CASE AskEntity
  <2>1. PICK name \in Names, concepts \in Concepts, type \in {None, "Function", "Parameter"} :
           Answers("entity", [name |-> name, concepts |-> concepts, type |-> type], Retrieve(graph, name, concepts, type))
    BY <1>2 DEF AskEntity
  <2>2. PICK r \in Retrieve(graph, name, concepts, type) :
           answer' = [kind |-> "entity", name |-> [name |-> name, concepts |-> concepts, type |-> type], result |-> r]
    BY <2>1 DEF Answers
  <2>3. UNCHANGED <<repository, graph>>
    BY <2>1 DEF Answers
  <2>4. AnswerGiven'
    BY <2>2, <2>3 DEF AnswerGiven
  <2>5. QED
    BY <2>3, <2>4 DEF SearchInv
<1>3. CASE AskNeighbors
  <2>1. PICK name \in Names, direction \in {"outgoing", "incoming"} :
           Answers(direction, name, GetNeighbors(graph, name, direction))
    BY <1>3 DEF AskNeighbors
  <2>2. PICK r \in GetNeighbors(graph, name, direction) :
           answer' = [kind |-> direction, name |-> name, result |-> r]
    BY <2>1 DEF Answers
  <2>3. UNCHANGED <<repository, graph>>
    BY <2>1 DEF Answers
  <2>4. AnswerGiven'
    BY <2>2, <2>3 DEF AnswerGiven
  <2>5. QED
    BY <2>3, <2>4 DEF SearchInv
<1>4. CASE AskPatterns
  <2>1. PICK pattern \in SupportedPatterns \cup {"singleton"}, prefix \in {None, <<"a">>} :
           Answers("patterns", <<pattern, prefix>>, FindPatterns(graph, pattern, prefix))
    BY <1>4 DEF AskPatterns
  <2>2. PICK r \in FindPatterns(graph, pattern, prefix) :
           answer' = [kind |-> "patterns", name |-> <<pattern, prefix>>, result |-> r]
    BY <2>1 DEF Answers
  <2>3. UNCHANGED <<repository, graph>>
    BY <2>1 DEF Answers
  <2>4. AnswerGiven'
    BY <2>2, <2>3 DEF AnswerGiven
  <2>5. QED
    BY <2>3, <2>4 DEF SearchInv
<1>5. ASSUME NEW kind, Foreign(kind), NEW name, NEW results, Answers(kind, name, results)
      PROVE  SearchInv'
  <2>1. answer'.kind = kind /\ UNCHANGED <<repository, graph>>
    BY <1>5 DEF Answers
  <2>2. AnswerGiven'
    BY <1>5, <2>1 DEF AnswerGiven
  <2>3. QED
    BY <2>1, <2>2 DEF SearchInv
<1>6. CASE AskDocstring \/ AskImports \/ AskRelated \/ AskStatistics \/ ExtractEntities
  <2>1. PICK kind \in {"docstring", "imports", "related", "statistics", "extracted"} :
           \E name, results : Answers(kind, name, results)
    BY <1>6 DEF AskDocstring, AskImports, AskRelated, AskStatistics, ExtractEntities
  <2>2. Foreign(kind)
    BY <2>1
  <2> HIDE DEF Foreign
  <2>3. QED
    BY <1>5, <2>1, <2>2
<1>7. CASE AskAnalysis \/ AskExplanation \/ AskSnippet
  <2>1. PICK kind \in {"function", "class", "explanation", "comparison", "snippet"} :
           \E name, results : Answers(kind, name, results)
    BY <1>7 DEF AskAnalysis, AskExplanation, AskSnippet
  <2>2. Foreign(kind)
    BY <2>1
  <2> HIDE DEF Foreign
  <2>3. QED
    BY <1>5, <2>1, <2>2
<1>8. CASE UNCHANGED vars
  BY <1>8 DEF SearchInv, AnswerGiven, vars
<1>9. QED
  BY <1>1, <1>2, <1>3, <1>4, <1>6, <1>7, <1>8 DEF Next

LEMMA SearchInvariant == Spec => []SearchInv
<1>1. Init => SearchInv
  BY DEF Init, SearchInv, AnswerGiven
<1>2. QED
  BY <1>1, SearchInvNext, PTL DEF Spec

LEMMA GraphIsStored == SearchInv => Stored(graph)
BY GraphStored DEF SearchInv

-----------------------------------------------------------------------------
(* 5. What is not marked as truncated lacks nothing.  First, neighbours.    *)

LEMMA MatchesFinite ==
  ASSUME NEW g, Stored(g), NEW name, NEW direction, NEW hop \in Hops
  PROVE  IsFiniteSet(Matches(g, name, direction, hop))
<1>1. IsFiniteSet(g.nodes \X g.edges)
  BY FS_Product DEF Stored
<1> DEFINE of == {n \in g.nodes : IsNamed(n, name)}
           along(types) == {r \in g.edges : r.type \in types}
<1>2. CASE hop = "direct"
  <2>1. Matches(g, name, direction, hop) =
            {m \in of \X along(NeighborTypes) : Source(m[2], direction) = m[1]}
    BY <1>2 DEF Matches
  <2>2. Matches(g, name, direction, hop) \subseteq g.nodes \X g.edges
    BY <2>1
  <2>3. QED
    BY <1>1, <2>2, FS_Subset
<1> DEFINE classes == {n \in of : n.label = "Class"}
<1>3. CASE hop = "module"
  <2>1. Matches(g, name, direction, hop) =
            {m \in classes \X along({"IMPORTS", "DEPENDS_ON"}) :
                Source(m[2], direction).label = "Module" /\ Owns(g, Source(m[2], direction), m[1])}
    BY <1>3 DEF Matches
  <2>2. Matches(g, name, direction, hop) \subseteq g.nodes \X g.edges
    BY <2>1
  <2>3. QED
    BY <1>1, <2>2, FS_Subset
<1>4. CASE hop = "method"
  <2>1. Matches(g, name, direction, hop) =
            {m \in classes \X along({"CALLS"}) :
                Source(m[2], direction).label = "Method" /\ Owns(g, m[1], Source(m[2], direction))}
    BY <1>4 DEF Matches
  <2>2. Matches(g, name, direction, hop) \subseteq g.nodes \X g.edges
    BY <2>1
  <2>3. QED
    BY <1>1, <2>2, FS_Subset
<1>5. QED
  BY <1>2, <1>3, <1>4 DEF Hops

\* All rows of a branch, and what its limit leaves of them.
RowsOfBranch(g, name, direction, hop) ==
    {Row(m, direction, hop) : m \in Matches(g, name, direction, hop)}

LEMMA BranchIs ==
  ASSUME NEW g, Stored(g), NEW name, NEW direction, NEW hop \in Hops,
         NEW part \in Branch(g, name, direction, hop)
  PROVE  LET matches == Matches(g, name, direction, hop)
         IN  /\ IsFiniteSet(part) /\ Cardinality(part) \in Nat /\ Cardinality(matches) \in Nat
             /\ Cardinality(part) <= Cardinality(matches)
             /\ Cardinality(part) = Cardinality(matches) => part = RowsOfBranch(g, name, direction, hop)
<1> DEFINE matches == Matches(g, name, direction, hop)
           rank == [m \in matches |-> -InDegree(g, Other(m[2], direction))]
           row == [m \in matches |-> Row(m, direction, hop)]
<1>1. PICK kept \in FirstOf(matches, BranchLimit, rank) : part = {Row(m, direction, hop) : m \in kept}
  BY DEF Branch
<1>2. IsFiniteSet(matches) /\ BranchLimit \in Nat
  BY MatchesFinite, LimitsAssumption
<1>3. /\ kept \subseteq matches /\ IsFiniteSet(kept)
      /\ Cardinality(kept) \in Nat /\ Cardinality(matches) \in Nat
      /\ Cardinality(kept) <= Cardinality(matches)
      /\ Cardinality(kept) = Cardinality(matches) => kept = matches
  <2> HIDE DEF matches, rank
  <2>1. QED
    BY <1>1, <1>2, KeptRows
<1>4. part = {row[m] : m \in kept}
  BY <1>1, <1>3
<1>5. IsFiniteSet(part) /\ Cardinality(part) <= Cardinality(kept)
  <2> HIDE DEF matches, row
  <2>1. [m \in kept |-> row[m]] \in Surjection(kept, part)
    BY <1>4 DEF Surjection
  <2>2. QED
    BY <1>3, <2>1, FS_Surjection
<1>6. Cardinality(part) \in Nat
  BY <1>5, FS_CardinalityType
<1>7. kept = matches => part = RowsOfBranch(g, name, direction, hop)
  BY <1>1 DEF RowsOfBranch
<1> HIDE DEF matches
<1>8. Cardinality(part) = Cardinality(matches) => Cardinality(kept) = Cardinality(matches)
  BY <1>3, <1>5, <1>6
<1>9. QED
  BY <1>3, <1>5, <1>6, <1>7, <1>8 DEF matches

LEMMA UnionOfThree ==
  ASSUME NEW A, IsFiniteSet(A), NEW B, IsFiniteSet(B), NEW C, IsFiniteSet(C)
  PROVE  /\ Cardinality(A \cup B \cup C) \in Nat
         /\ Cardinality(A \cup B \cup C) <= Cardinality(A) + Cardinality(B) + Cardinality(C)
<1>1. /\ IsFiniteSet(A \cup B)
      /\ Cardinality(A \cup B) = Cardinality(A) + Cardinality(B) - Cardinality(A \cap B)
  BY FS_Union
<1>2. IsFiniteSet((A \cup B) \cup C) /\ IsFiniteSet(A \cap B) /\ IsFiniteSet((A \cup B) \cap C)
  <2>1. A \cap B \subseteq A /\ (A \cup B) \cap C \subseteq C
    OBVIOUS
  <2>2. QED
    BY <1>1, <2>1, FS_Union, FS_Subset
<1>3. Cardinality((A \cup B) \cup C) = Cardinality(A \cup B) + Cardinality(C) - Cardinality((A \cup B) \cap C)
  BY <1>1, FS_Union
<1>4. /\ Cardinality(A) \in Nat /\ Cardinality(B) \in Nat /\ Cardinality(C) \in Nat
      /\ Cardinality(A \cap B) \in Nat /\ Cardinality((A \cup B) \cap C) \in Nat
      /\ Cardinality(A \cup B) \in Nat /\ Cardinality((A \cup B) \cup C) \in Nat
  BY <1>1, <1>2, FS_CardinalityType
<1>5. QED
  BY <1>1, <1>3, <1>4

LEMMA NeighborsAreAll ==
  ASSUME NEW g, Stored(g), NEW name, NEW direction, NEW result \in GetNeighbors(g, name, direction),
         ~result.truncated
  PROVE  result.rows = UNION {RowsOfBranch(g, name, direction, hop) : hop \in Hops}
<1> DEFINE matches(hop) == Cardinality(Matches(g, name, direction, hop))
           all(hop) == RowsOfBranch(g, name, direction, hop)
<1>1. PICK a \in Branch(g, name, direction, "direct"), b \in Branch(g, name, direction, "module"),
           c \in Branch(g, name, direction, "method") :
             result = [rows |-> a \cup b \cup c,
                       truncated |-> Count(g, name, direction) > Cardinality(a \cup b \cup c)]
  BY DEF GetNeighbors
<1>2. result.rows = a \cup b \cup c
  BY <1>1
<1>3. ~ (Count(g, name, direction) > Cardinality(a \cup b \cup c))
  <2>1. result.truncated = (Count(g, name, direction) > Cardinality(a \cup b \cup c))
    BY <1>1, Zenon
  <2>2. QED
    BY <2>1, Zenon
<1>4. Count(g, name, direction) = matches("direct") + matches("module") + matches("method")
  BY DEF Count
<1>5. "direct" \in Hops /\ "module" \in Hops /\ "method" \in Hops
  BY DEF Hops
<1>6. /\ IsFiniteSet(a) /\ Cardinality(a) \in Nat /\ matches("direct") \in Nat
      /\ Cardinality(a) <= matches("direct")
      /\ Cardinality(a) = matches("direct") => a = all("direct")
  BY <1>1, <1>5, BranchIs
<1>7. /\ IsFiniteSet(b) /\ Cardinality(b) \in Nat /\ matches("module") \in Nat
      /\ Cardinality(b) <= matches("module")
      /\ Cardinality(b) = matches("module") => b = all("module")
  BY <1>1, <1>5, BranchIs
<1>8. /\ IsFiniteSet(c) /\ Cardinality(c) \in Nat /\ matches("method") \in Nat
      /\ Cardinality(c) <= matches("method")
      /\ Cardinality(c) = matches("method") => c = all("method")
  BY <1>1, <1>5, BranchIs
<1>9. /\ Cardinality(a \cup b \cup c) \in Nat
      /\ Cardinality(a \cup b \cup c) <= Cardinality(a) + Cardinality(b) + Cardinality(c)
  BY <1>6, <1>7, <1>8, UnionOfThree
<1> HIDE DEF matches, all
<1>10. /\ Cardinality(a) = matches("direct") /\ Cardinality(b) = matches("module")
       /\ Cardinality(c) = matches("method")
  BY <1>3, <1>4, <1>6, <1>7, <1>8, <1>9
<1>11. result.rows = all("direct") \cup all("module") \cup all("method")
  BY <1>2, <1>6, <1>7, <1>8, <1>10
<1>12. UNION {all(hop) : hop \in Hops} = all("direct") \cup all("module") \cup all("method")
  BY DEF Hops
<1>13. QED
  BY <1>11, <1>12 DEF all

\* NeighborsComplete: what get_dependencies and get_dependents return without
\* saying that it is cut has every neighbour of every branch, whatever the
\* limits, the ties in the order by degree and the rows that look alike.
THEOREM SearchNeighborsComplete == Spec => []NeighborsComplete
<1>1. SearchInv => NeighborsComplete
  <2> SUFFICES ASSUME SearchInv, answer # None, answer.kind \in {"incoming", "outgoing"},
                      ~answer.result.truncated
               PROVE  answer.result.rows =
                        UNION {RowsOfBranch(graph, answer.name, answer.kind, hop) : hop \in Hops}
    BY DEF NeighborsComplete, RowsOfBranch
  <2>1. answer.result \in GetNeighbors(graph, answer.name, answer.kind)
    BY DEF SearchInv, AnswerGiven
  <2>2. QED
    BY <2>1, GraphIsStored, NeighborsAreAll
<1>2. QED
  BY <1>1, SearchInvariant, PTL

-----------------------------------------------------------------------------
(* Names and the concept they speak of.                                     *)

\* What a lookup yields: some keys of the graph, and whether it was cut.
Hits(g) == [keys : SUBSET HitKeys(g.nodes), truncated : BOOLEAN]

LEMMA ImportedNodes ==
  ASSUME NEW g, Stored(g), NEW name, NEW type
  PROVE  FindImportedName(g, name, type) \subseteq g.nodes
<1> DEFINE rels == {r \in g.edges : /\ r.type = "IMPORTS"
                                    /\ name \in ToSet(r.to.of.names) \cup {<<r.to.of.alias>>}}
<1>1. \A n \in FindImportedName(g, name, type) : n \in g.nodes \/ n \in {r.from : r \in rels}
  BY DEF FindImportedName
<1>2. {r.from : r \in rels} \subseteq g.nodes
  BY DEF Stored
<1>3. QED
  BY <1>1, <1>2

LEMMA IdentifierIs ==
  ASSUME NEW g, Stored(g), NEW name, NEW type, NEW hits \in Identifier(g, name, type)
  PROVE  /\ hits \in Hits(g)
         /\ ~hits.truncated => HitKeys(FindEntity(g, name, type)) \subseteq hits.keys
<1> DEFINE found == FindEntity(g, name, type)
           imported == FindImportedName(g, name, type)
<1>1. PICK a \in ExecuteQuery(found), b \in ExecuteQuery(imported) :
             hits = [keys |-> HitKeys(a.rows) \cup HitKeys(b.rows), truncated |-> a.truncated \/ b.truncated]
  BY DEF Identifier
<1>2. found \subseteq g.nodes /\ imported \subseteq g.nodes
  BY ImportedNodes DEF FindEntity
<1> HIDE DEF found, imported
<1>3. IsFiniteSet(found)
  BY <1>2, FS_Subset DEF Stored
<1>4. /\ a.rows \subseteq found /\ a.truncated \in BOOLEAN
      /\ ~a.truncated => a.rows = found
  BY <1>1, <1>3, PageIs
<1>5. b.rows \subseteq imported /\ b.truncated \in BOOLEAN
  BY <1>1, PageIs
<1>6. hits.keys = HitKeys(a.rows) \cup HitKeys(b.rows)
  BY <1>1
<1>7. hits.truncated = (a.truncated \/ b.truncated)
  BY <1>1, Zenon
<1>8. HitKeys(a.rows) \cup HitKeys(b.rows) \subseteq HitKeys(g.nodes)
  BY <1>2, <1>4, <1>5 DEF HitKeys
<1>9. hits \in Hits(g)
  <2>1. (a.truncated \/ b.truncated) \in BOOLEAN
    OBVIOUS
  <2>2. HitKeys(a.rows) \cup HitKeys(b.rows) \in SUBSET HitKeys(g.nodes)
    BY <1>8
  <2> DEFINE keys == HitKeys(a.rows) \cup HitKeys(b.rows)
             truncated == a.truncated \/ b.truncated
             all == SUBSET HitKeys(g.nodes)
  <2>3. hits = [keys |-> keys, truncated |-> truncated] /\ keys \in all /\ truncated \in BOOLEAN
    BY <1>1, <2>1, <2>2, Zenon
  <2>4. Hits(g) = [keys : all, truncated : BOOLEAN]
    BY DEF Hits
  <2> HIDE DEF keys, truncated, all
  <2>5. QED
    BY <2>3, <2>4
<1>10. ~hits.truncated => ~a.truncated
  BY <1>7, Zenon
<1>11. QED
  BY <1>4, <1>6, <1>9, <1>10 DEF found

\* Hits that were not cut are those of both lookups.
AddsUp(all, first, second) ==
    \A hits \in all : ~hits.truncated =>
        \E a \in first, b \in second : ~a.truncated /\ ~b.truncated /\ hits.keys = a.keys \cup b.keys

LEMMA AndThenIs ==
  ASSUME NEW g, NEW first \in SUBSET Hits(g), NEW second \in SUBSET Hits(g)
  PROVE  AndThen(first, second) \in SUBSET Hits(g) /\ AddsUp(AndThen(first, second), first, second)
<1> DEFINE after(a, b) == [keys |-> a.keys \cup b.keys, truncated |-> b.truncated]
<1>1. ASSUME NEW hits \in AndThen(first, second)
      PROVE  \E a \in first : \/ a.truncated /\ hits = a
                              \/ ~a.truncated /\ \E b \in second : hits = after(a, b)
  <2> DEFINE part(a) == IF a.truncated THEN {a} ELSE {after(a, b) : b \in second}
  <2>1. AndThen(first, second) = UNION {part(a) : a \in first}
    BY DEF AndThen
  <2>2. \A a \in first : hits \in part(a) =>
            \/ a.truncated /\ hits = a
            \/ ~a.truncated /\ \E b \in second : hits = after(a, b)
    OBVIOUS
  <2> HIDE DEF part, after
  <2>3. QED
    BY <2>1, <2>2
<1>2. \A a, b \in Hits(g) : /\ after(a, b) \in Hits(g) /\ after(a, b).keys = a.keys \cup b.keys
                            /\ after(a, b).truncated = b.truncated
  BY DEF Hits
<1> HIDE DEF after
<1>3. AndThen(first, second) \in SUBSET Hits(g)
  BY <1>1, <1>2
<1>4. AddsUp(AndThen(first, second), first, second)
  BY <1>1, <1>2 DEF AddsUp
<1>5. QED
  BY <1>3, <1>4

LEMMA TiersAdd ==
  ASSUME NEW g, NEW found, NEW hits \in Tiers(g, found), ~hits.truncated
  PROVE  ~found.truncated /\ found.keys \subseteq hits.keys
<1>1. PICK text \in UpTo(TopK, {n \in g.nodes : n.label \in Entities}),
           vectors \in UpTo(TopK, {n \in g.nodes : n.label \in Entities \ {"Module"}}) :
             hits = [keys |-> found.keys \cup HitKeys(text) \cup HitKeys(vectors),
                     truncated |-> found.truncated \/ Cardinality(text) >= TopK]
  BY DEF Tiers
<1>2. hits.keys = found.keys \cup HitKeys(text) \cup HitKeys(vectors)
  BY <1>1
<1>3. hits.truncated = (found.truncated \/ Cardinality(text) >= TopK)
  BY <1>1, Zenon
<1>4. ~found.truncated
  BY <1>3, Zenon
<1>5. QED
  BY <1>2, <1>4

\* Hits that were not cut have what every lookup before them had.
LEMMA LookupsAdd ==
  ASSUME NEW g, Stored(g), NEW name, NEW concepts \in Concepts, NEW type \in Entities \cup {"File", None},
         NEW result \in Retrieve(g, name, concepts, type), ~result.truncated,
         NEW wanted \in {name} \cup ToSet(concepts)
  PROVE  HitKeys(FindEntity(g, wanted, type)) \subseteq result.keys
<1> DEFINE n == Len(concepts)
           T == SUBSET Hits(g)
           base == Identifier(g, name, type)
           of(i) == Identifier(g, concepts[i], type)
           found[i \in 0 .. Len(concepts)] == IF i = 0 THEN base ELSE AndThen(found[i - 1], of(i))
<1>1. n \in Nat /\ DOMAIN concepts = 1 .. n
  BY ConceptsAssumption, SeqIs
<1>2. base \in T /\ \A i : of(i) \in T
  BY IdentifierIs
<1>3. PICK hits \in found[n] : result \in Tiers(g, hits)
  BY DEF Retrieve
<1>4. ~hits.truncated /\ hits.keys \subseteq result.keys
  BY <1>3, TiersAdd
<1>5. found = [i \in 0 .. Len(concepts) |-> IF i = 0 THEN base ELSE AndThen(found[i - 1], of(i))]
  <2> HIDE DEF base, of
  <2> DEFINE step == [i \in 1 .. n |-> [s \in T |-> AndThen(s, of(i))]]
  <2> HIDE DEF T
  <2>1. \A i : \A s \in T : AndThen(s, of(i)) \in T
    BY <1>2, AndThenIs DEF T
  <2>2. step \in [1 .. n -> [T -> T]]
    BY <2>1
  <2>3. PICK f : Iterates(f, n, T, base, step)
    <3> HIDE DEF step, n
    <3>1. QED
      BY <1>1, <1>2, <2>2, Iteration
  <2>4. f \in [0 .. n -> T]
    BY <2>3 DEF Iterates
  <2>5. ASSUME NEW i \in 0 .. Len(concepts)
        PROVE  f[i] = IF i = 0 THEN base ELSE AndThen(f[i - 1], of(i))
    <3>1. CASE i = 0
      BY <2>3, <3>1 DEF Iterates
    <3>2. CASE i # 0
      <4>1. i \in 1 .. n /\ i - 1 \in 0 .. n
        BY <1>1, <3>2
      <4>2. f[i] = step[i][f[i - 1]] /\ f[i - 1] \in T
        BY <2>3, <2>4, <4>1 DEF Iterates
      <4>3. f[i] = AndThen(f[i - 1], of(i))
        BY <4>1, <4>2
      <4>4. QED
        BY <3>2, <4>3
    <3>3. QED
      BY <3>1, <3>2
  <2>6. f = [i \in 0 .. Len(concepts) |-> IF i = 0 THEN base ELSE AndThen(f[i - 1], of(i))]
    <3>1. f = [i \in 0 .. n |-> f[i]]
      BY <2>4
    <3> HIDE DEF step
    <3>2. QED
      BY <2>5, <3>1
  <2>7. QED
    BY <2>6
<1> HIDE DEF found
<1> DEFINE named(i) == IF i = 0 THEN name ELSE concepts[i]
           has(s, i) == \A j \in 0 .. i : HitKeys(FindEntity(g, named(j), type)) \subseteq s.keys
           A == {i \in 0 .. n : found[i] \in T /\ \A s \in found[i] : ~s.truncated => has(s, i)}
<1>6. 0 \in A
  <2>1. found[0] = base
    BY <1>1, <1>5
  <2>2. \A s \in base : ~s.truncated => HitKeys(FindEntity(g, name, type)) \subseteq s.keys
    BY IdentifierIs
  <2>3. \A j \in 0 .. 0 : j = 0
    OBVIOUS
  <2> HIDE DEF base, T
  <2>4. QED
    BY <1>1, <1>2, <2>1, <2>2, <2>3
<1>7. ASSUME NEW i \in 1 .. n, i - 1 \in A PROVE i \in A
  <2>1. found[i] = AndThen(found[i - 1], of(i))
    BY <1>1, <1>5
  <2>2. found[i - 1] \in T /\ \A s \in found[i - 1] : ~s.truncated => has(s, i - 1)
    BY <1>7
  <2>3. found[i] \in T /\ AddsUp(found[i], found[i - 1], of(i))
    BY <1>2, <2>1, <2>2, AndThenIs
  <2>4. ASSUME NEW s \in found[i], ~s.truncated PROVE has(s, i)
    <3>1. PICK a \in found[i - 1], b \in of(i) :
             /\ ~a.truncated /\ ~b.truncated /\ s.keys = a.keys \cup b.keys
      BY <2>3, <2>4 DEF AddsUp
    <3>2. has(a, i - 1)
      BY <2>2, <3>1
    <3>3. HitKeys(FindEntity(g, concepts[i], type)) \subseteq b.keys
      BY <3>1, IdentifierIs
    <3>4. ASSUME NEW j \in 0 .. i PROVE HitKeys(FindEntity(g, named(j), type)) \subseteq s.keys
      <4>1. CASE j = i
        <5>1. named(j) = concepts[i]
          BY <4>1
        <5>2. QED
          BY <3>1, <3>3, <5>1
      <4>2. CASE j # i
        <5>1. j \in 0 .. i - 1
          BY <4>2
        <5>2. HitKeys(FindEntity(g, named(j), type)) \subseteq a.keys
          BY <3>2, <5>1
        <5>3. QED
          BY <3>1, <5>2
      <4>3. QED
        BY <4>1, <4>2
    <3>5. QED
      BY <3>4
  <2>5. i \in 0 .. n
    BY <1>1
  <2> HIDE DEF T, has
  <2>6. QED
    BY <2>3, <2>4, <2>5
<1>8. n \in A
  <2> HIDE DEF A
  <2>1. n \in 0 .. n
    BY <1>1
  <2>2. QED
    BY <1>1, <1>6, <1>7, <2>1, Ascend
<1>9. has(hits, n)
  <2>1. QED
    BY <1>3, <1>4, <1>8
<1>10. PICK j \in 0 .. n : wanted = named(j)
  <2>1. CASE wanted = name
    <3>1. 0 \in 0 .. n /\ named(0) = name
      BY <1>1
    <3>2. QED
      BY <2>1, <3>1
  <2>2. CASE wanted \in ToSet(concepts)
    <3>1. PICK i \in DOMAIN concepts : wanted = concepts[i]
      BY <2>2 DEF ToSet
    <3>2. i \in 0 .. n /\ i # 0
      BY <1>1
    <3>3. QED
      BY <3>1, <3>2
  <2>3. QED
    BY <2>1, <2>2
<1>11. HitKeys(FindEntity(g, wanted, type)) \subseteq hits.keys
  BY <1>9, <1>10
<1>12. QED
  BY <1>4, <1>11

\* FoundComplete: what find_entity returns without saying that it is cut has
\* every node of the name asked for and of each name of its concept, however
\* many lookups follow one another and whichever tier adds to them.
THEOREM SearchFoundComplete == Spec => []FoundComplete
<1>1. SearchInv => FoundComplete
  <2> SUFFICES ASSUME SearchInv, answer # None, answer.kind = "entity", ~answer.result.truncated,
                      NEW wanted \in {answer.name.name} \cup ToSet(answer.name.concepts)
               PROVE  HitKeys(FindEntity(graph, wanted, answer.name.type)) \subseteq answer.result.keys
    BY DEF FoundComplete
  <2> DEFINE type == answer.name.type
  <2>1. /\ answer.name.concepts \in Concepts
        /\ answer.result \in Retrieve(graph, answer.name.name, answer.name.concepts, type)
    BY DEF SearchInv, AnswerGiven
  <2>2. CASE type \in Entities \cup {"File", None}
    BY <2>1, <2>2, GraphIsStored, LookupsAdd
  <2>3. CASE type \notin Entities \cup {"File", None}
    <3>1. FindEntity(graph, wanted, type) = {}
      BY <2>3 DEF FindEntity, IsNamed, OfType
    <3>2. QED
      BY <3>1 DEF HitKeys
  <2>4. QED
    BY <2>2, <2>3
<1>2. QED
  BY <1>1, SearchInvariant, PTL

-----------------------------------------------------------------------------
(* Patterns: the rows of their queries are the definitions of the files.    *)

LEMMA ParsedDefinitions ==
  ASSUME NEW files \in Repositories, NEW f \in Parsed(files), NEW d \in f.defined
  PROVE  d.label \in {"Class", "Function", "Method"} /\ d.rank \in Nat
<1>1. PICK s \in files : f = ParseFile(s.path, s.body, s.parses)
  BY DEF Parsed
<1>2. f.defined = CollectDefinitions(s.body, ModuleName(s.path)) \/ f.defined = {}
  BY <1>1 DEF ParseFile
<1>3. PICK i \in DOMAIN s.body : d = Definition(s.body, i, ModuleName(s.path))
  BY <1>2 DEF CollectDefinitions
<1>4. d.label = Label(s.body, i) /\ d.rank = i
  BY <1>3 DEF Definition
<1>5. i \in Nat
  <2>1. IsSource(s.body)
    BY RepositoriesAssumption
  <2>2. Len(s.body) \in Nat /\ DOMAIN s.body = 1 .. Len(s.body)
    BY <2>1, SeqIs DEF IsSource
  <2>3. QED
    BY <2>2
<1>6. QED
  BY <1>4, <1>5 DEF Label

\* The edges of the graph by their types.
LEMMA EdgesOfType ==
  ASSUME NEW files, NEW r \in GraphOf(files).edges
  PROVE  /\ r.type = "DECORATED_BY" => r \in DecoratedBy(files)
         /\ r.type = "HAS_PARAMETER" => r \in HasParameter(files)
         /\ r.type = "CALLS" => r \in Calls(files)
<1>1. \A type, A, B : \A e \in Between(type, A, B) : e.type = type
  BY DEF Between, Rel
<1>2. \A e \in Containment(files) : e.type = "CONTAINS"
  <2> DEFINE link(f, d) == Between("CONTAINS", Parents(d.label, d.parent, Nodes(files)) \ {Node(d.label, d.qn, f)},
                                   {Node(d.label, d.qn, f)})
  <2>1. Containment(files) =
            {Rel("CONTAINS", FileNode(f), Node("Module", f.module, f)) : f \in files}
            \cup (UNION {UNION {link(f, d) : d \in f.defined} : f \in files})
    BY DEF Containment
  <2>2. \A f, d : \A e \in link(f, d) : e.type = "CONTAINS"
    BY <1>1
  <2> HIDE DEF link
  <2>3. QED
    BY <2>1, <2>2 DEF Rel
<1>3. \A e \in Imports(files) : e.type = "IMPORTS"
  BY DEF Imports, Rel
<1>4. \A e \in DependsOn(files) : e.type = "DEPENDS_ON"
  <2> DEFINE target(f, p) == {Target(f.imports[p], f)} \cap (ImportedModules(f, files) \ {f.module})
             link(f, p) == Between("DEPENDS_ON", {ImportNode(f, p), Node("Module", f.module, f)},
                                   {n \in Nodes(files) : n.label = "Module" /\ n.qn \in target(f, p)})
  <2>1. DependsOn(files) = UNION {UNION {link(f, p) : p \in DOMAIN f.imports} : f \in files}
    BY DEF DependsOn
  <2>2. \A f, p : \A e \in link(f, p) : e.type = "DEPENDS_ON"
    BY <1>1
  <2> HIDE DEF link
  <2>3. QED
    BY <2>1, <2>2
<1>5. \A e \in Inherits(files) : e.type = "INHERITS_FROM"
  <2> SUFFICES ASSUME NEW e \in Inherits(files) PROVE e.type = "INHERITS_FROM"
    OBVIOUS
  <2>1. \E A, B : e \in Between("INHERITS_FROM", A, B)
    BY DEF Inherits
  <2>2. QED
    BY <1>1, <2>1
<1>6. \A e \in Calls(files) : e.type = "CALLS"
  <2> SUFFICES ASSUME NEW e \in Calls(files) PROVE e.type = "CALLS"
    OBVIOUS
  <2>1. \E A, B : e \in Between("CALLS", A, B)
    BY DEF Calls
  <2>2. QED
    BY <1>1, <2>1
<1>7. \A e \in HasParameter(files) : e.type = "HAS_PARAMETER"
  <2> DEFINE link(p) == Between("HAS_PARAMETER", Named(p.of.owner, {"Function", "Method"}, files), {p})
  <2>1. HasParameter(files) = UNION {UNION {link(p) : p \in ParameterNodes(f)} : f \in files}
    BY DEF HasParameter
  <2>2. \A p : \A e \in link(p) : e.type = "HAS_PARAMETER"
    BY <1>1
  <2> HIDE DEF link
  <2>3. QED
    BY <2>1, <2>2
<1>8. \A e \in DecoratedBy(files) : e.type = "DECORATED_BY"
  <2> DEFINE link(d) == Between("DECORATED_BY", Named(d[1], Entities \ {"Module"}, files), {DecoratorNode(d[2])})
  <2>1. DecoratedBy(files) = UNION {UNION {link(d) : d \in DecoratorsOf(f)} : f \in files}
    BY DEF DecoratedBy
  <2>2. \A d : \A e \in link(d) : e.type = "DECORATED_BY"
    BY <1>1
  <2> HIDE DEF link
  <2>3. QED
    BY <2>1, <2>2
<1>9. \A e \in DocumentedBy(files) : e.type = "DOCUMENTED_BY"
  <2> DEFINE link(d) == Between("DOCUMENTED_BY", Named(d.of.owner, Entities, files), {d})
  <2>1. DocumentedBy(files) = UNION {UNION {link(d) : d \in DocstringNodes(f)} : f \in files}
    BY DEF DocumentedBy
  <2>2. \A d : \A e \in link(d) : e.type = "DOCUMENTED_BY"
    BY <1>1
  <2> HIDE DEF link
  <2>3. QED
    BY <2>1, <2>2
<1>10. \/ r \in Containment(files) \/ r \in Imports(files) \/ r \in DependsOn(files) \/ r \in Inherits(files)
       \/ r \in Calls(files) \/ r \in HasParameter(files) \/ r \in DecoratedBy(files) \/ r \in DocumentedBy(files)
  BY DEF GraphOf
<1>11. QED
  BY <1>2, <1>3, <1>4, <1>5, <1>6, <1>7, <1>8, <1>9, <1>10

\* The nodes of classes and functions are those of the definitions.
LEMMA DefinitionNodes ==
  ASSUME NEW files, NEW n \in Nodes(files), n.label \in {"Class", "Function", "Method"}
  PROVE  \E f \in files : \E d \in f.defined : n = Node(d.label, d.qn, f)
<1>1. \A f \in files : /\ \A p \in ParameterNodes(f) : p.label = "Parameter"
                       /\ \A d \in DocstringNodes(f) : d.label = "Docstring"
  <2> SUFFICES ASSUME NEW f \in files
               PROVE  /\ \A p \in ParameterNodes(f) : p.label = "Parameter"
                      /\ \A d \in DocstringNodes(f) : d.label = "Docstring"
    OBVIOUS
  <2>1. \A p \in ParameterNodes(f) : p.label = "Parameter"
    BY DEF ParameterNodes
  <2>2. \A d \in DocstringNodes(f) : d.label = "Docstring"
    BY DEF DocstringNodes
  <2>3. QED
    BY <2>1, <2>2
<1>2. \A f : \A p : ImportNode(f, p).label = "Import"
  BY DEF ImportNode
<1>3. \A f : FileNode(f).label = "File" /\ Node("Module", f.module, f).label = "Module"
  BY DEF FileNode, Node
<1>4. \A name : DecoratorNode(name).label = "Decorator"
  BY DEF DecoratorNode
<1>5. \/ \E f \in files : n = Node("Module", f.module, f) \/ n = FileNode(f)
      \/ \E f \in files : n \in ParameterNodes(f) \/ n \in DocstringNodes(f)
      \/ \E f \in files : \E d \in DecoratorsOf(f) : n = DecoratorNode(d[2])
      \/ \E f \in files : \E d \in f.defined : n = Node(d.label, d.qn, f)
      \/ \E f \in files : \E p \in DOMAIN f.imports : n = ImportNode(f, p)
  BY DEF Nodes
<1>6. QED
  BY <1>1, <1>2, <1>3, <1>4, <1>5

\* Where names are defined once, a name's node is that of its one definition.
LEMMA NamedIsOne ==
  ASSUME NEW files, DefinedOnce(files), NEW f \in files, NEW d \in f.defined,
         NEW labels \in SUBSET {"Class", "Function", "Method"}, NEW n \in Named(d.qn, labels, files)
  PROVE  n = Node(d.label, d.qn, f) /\ d.label \in labels
<1>1. n \in Nodes(files) /\ n.qn = d.qn /\ n.label \in labels
  BY DEF Named
<1>2. PICK g \in files : \E e \in g.defined : n = Node(e.label, e.qn, g)
  BY <1>1, DefinitionNodes
<1>3. PICK e \in g.defined : n = Node(e.label, e.qn, g)
  BY <1>2
<1>4. n.qn = e.qn /\ n.label = e.label
  BY <1>3 DEF Node
<1>5. f = g /\ d = e
  BY <1>1, <1>4 DEF DefinedOnce
<1>6. QED
  BY <1>1, <1>3, <1>4, <1>5

LEMMA DecoratorRows ==
  ASSUME NEW repo \in Repositories, DefinedOnce(Parsed(repo)), NEW prefix
  PROVE  PatternRows(GraphOf(Parsed(repo)), "decorator", prefix) = HavePattern(Parsed(repo), "decorator", prefix)
<1> DEFINE files == Parsed(repo)
           edges == GraphOf(files).edges
           labels == Entities \ {"Module"}
           rows == {<<r.from.qn, r.to.of.name>> :
                       r \in {x \in {y \in edges : y.type = "DECORATED_BY"} : InScope(x.from, prefix)}}
           have == UNION {DecoratorsOf(f) : f \in {x \in files : InScope([file |-> x.path], prefix)}}
<1>1. PatternRows(GraphOf(files), "decorator", prefix) = rows
  BY DEF PatternRows
<1>2. HavePattern(files, "decorator", prefix) = have
  BY DEF HavePattern
<1>3. labels = {"Class", "Function", "Method"}
  BY DEF Entities
<1>4. \A f \in files : \A d \in f.defined : d.label \in labels
  BY <1>3, ParsedDefinitions
<1>5. \A f : \A d : /\ Node(d.label, d.qn, f).qn = d.qn
                    /\ InScope(Node(d.label, d.qn, f), prefix) <=> InScope([file |-> f.path], prefix)
  BY DEF Node, InScope
<1>6. \A name : DecoratorNode(name).of.name = name
  BY DEF DecoratorNode
<1>7. \A f : \A row \in DecoratorsOf(f) : \E d \in f.defined : \E name \in ToSet(d.decorators) : row = <<d.qn, name>>
  <2> DEFINE carried(d) == {<<d.qn, name>> : name \in ToSet(d.decorators)}
  <2>1. \A f : DecoratorsOf(f) = UNION {carried(d) : d \in f.defined}
    BY DEF DecoratorsOf
  <2>2. \A d : \A row \in carried(d) : \E name \in ToSet(d.decorators) : row = <<d.qn, name>>
    OBVIOUS
  <2> HIDE DEF carried
  <2>3. QED
    BY <2>1, <2>2
<1> DEFINE link(d) == Between("DECORATED_BY", Named(d[1], labels, files), {DecoratorNode(d[2])})
<1>8. DecoratedBy(files) = UNION {UNION {link(d) : d \in DecoratorsOf(f)} : f \in files}
  BY DEF DecoratedBy
<1>9. \A d : \A r \in link(d) : r.from \in Named(d[1], labels, files) /\ r.to = DecoratorNode(d[2])
  BY DEF Between, Rel
<1>10. \A d : \A n \in Named(d[1], labels, files) : Rel("DECORATED_BY", n, DecoratorNode(d[2])) \in link(d)
  BY DEF Between
<1> HIDE DEF link
<1>11. ASSUME NEW r \in edges, r.type = "DECORATED_BY", InScope(r.from, prefix)
       PROVE  <<r.from.qn, r.to.of.name>> \in have
  <2>1. r \in DecoratedBy(files)
    BY <1>11, EdgesOfType
  <2>2. PICK f \in files : \E row \in DecoratorsOf(f) : r \in link(row)
    BY <1>8, <2>1
  <2>3. PICK row \in DecoratorsOf(f) : r \in link(row)
    BY <2>2
  <2>4. PICK d \in f.defined : \E name \in ToSet(d.decorators) : row = <<d.qn, name>>
    BY <1>7
  <2>5. r.from \in Named(d.qn, labels, files) /\ r.to.of.name = row[2] /\ row = <<d.qn, row[2]>>
    <3> HIDE DEF labels
    <3>1. r.from \in Named(row[1], labels, files) /\ r.to = DecoratorNode(row[2])
      BY <1>9, <2>3
    <3>2. row[1] = d.qn /\ row = <<d.qn, row[2]>>
      BY <2>4
    <3>3. QED
      BY <1>6, <3>1, <3>2
  <2>6. r.from = Node(d.label, d.qn, f)
    BY <1>3, <2>5, NamedIsOne
  <2>7. r.from.qn = d.qn /\ InScope([file |-> f.path], prefix)
    BY <1>5, <1>11, <2>6
  <2>8. row \in have
    BY <2>7
  <2>9. QED
    BY <2>5, <2>7, <2>8
<1>12. ASSUME NEW f \in files, InScope([file |-> f.path], prefix), NEW row \in DecoratorsOf(f)
       PROVE  row \in rows
  <2>1. PICK d \in f.defined : \E name \in ToSet(d.decorators) : row = <<d.qn, name>>
    BY <1>7
  <2> DEFINE n == Node(d.label, d.qn, f)
             r == Rel("DECORATED_BY", n, DecoratorNode(row[2]))
  <2>2. row[1] = d.qn /\ row = <<d.qn, row[2]>>
    BY <2>1
  <2>3. n \in Named(row[1], labels, files)
    <3>1. n \in Nodes(files)
      BY DEF Nodes
    <3>2. n.qn = d.qn /\ n.label \in labels
      BY <1>4, <1>5 DEF Node
    <3> HIDE DEF n
    <3>3. QED
      BY <2>2, <3>1, <3>2 DEF Named
  <2>4. r \in DecoratedBy(files)
    <3>1. r \in link(row)
      BY <1>10, <2>3
    <3> HIDE DEF r
    <3>2. QED
      BY <1>8, <3>1
  <2>5. r \in edges /\ r.type = "DECORATED_BY" /\ r.from = n /\ r.to.of.name = row[2]
    <3>1. r \in edges
      BY <2>4 DEF GraphOf
    <3>2. QED
      BY <1>6, <3>1 DEF Rel
  <2>6. n.qn = d.qn /\ InScope(n, prefix)
    BY <1>5, <1>12
  <2> HIDE DEF n, r
  <2>7. <<r.from.qn, r.to.of.name>> \in rows
    BY <2>5, <2>6
  <2>8. QED
    BY <2>2, <2>5, <2>6, <2>7
<1>13. rows = have
  <2>1. \A row \in rows : row \in have
    BY <1>11
  <2>2. \A row \in have : row \in rows
    BY <1>12
  <2>3. QED
    BY <2>1, <2>2
<1>14. QED
  BY <1>1, <1>2, <1>13

LEMMA InjectionRows ==
  ASSUME NEW repo \in Repositories, DefinedOnce(Parsed(repo)), NEW prefix
  PROVE  PatternRows(GraphOf(Parsed(repo)), "dependency_injection", prefix)
            = HavePattern(Parsed(repo), "dependency_injection", prefix)
<1> DEFINE files == Parsed(repo)
           edges == GraphOf(files).edges
           labels == {"Function", "Method"}
           injects(d) == \E p \in ToSet(d.parameters) : p.injects
           rows == {<<r.from.qn, None>> : r \in {x \in {y \in edges : y.type = "HAS_PARAMETER"} : x.to.of.injects}}
           of(f) == {<<d.qn, None>> : d \in {x \in {y \in f.defined : y.label # "Class"} : injects(x)}}
           have == UNION {of(f) : f \in files}
           node(f, d, q) == [label |-> "Parameter", qn |-> <<>>, file |-> f.path, at |-> q,
                             of |-> [owner |-> d.qn, name |-> <<d.parameters[q].name>>,
                                     injects |-> d.parameters[q].injects]]
           again(f, d, q) == \E e \in f.defined : e.qn = d.qn /\ e.rank > d.rank /\ q \in DOMAIN e.parameters
<1>1. PatternRows(GraphOf(files), "dependency_injection", prefix) = rows
  BY DEF PatternRows
<1>2. HavePattern(files, "dependency_injection", prefix) = have
  BY DEF HavePattern
<1>3. \A f \in files : \A d \in f.defined : d.label \in labels \cup {"Class"} /\ d.rank \in Nat
  BY ParsedDefinitions
<1>4. \A f \in files : \A d \in f.defined : \A q : ~again(f, d, q)
  BY <1>3 DEF DefinedOnce
<1>5. \A f : ParameterNodes(f) = UNION {{node(f, d, q) : q \in {k \in DOMAIN d.parameters : ~again(f, d, k)}} : d \in f.defined}
  BY DEF ParameterNodes
<1>6. \A f, d, q : /\ node(f, d, q).of.owner = d.qn
                   /\ node(f, d, q).of.injects = d.parameters[q].injects
  OBVIOUS
<1> HIDE DEF node, again
<1>7. ASSUME NEW f \in files, NEW p \in ParameterNodes(f)
      PROVE  \E d \in f.defined : \E q \in DOMAIN d.parameters : p = node(f, d, q)
  BY <1>5
<1>8. ASSUME NEW f \in files, NEW d \in f.defined, NEW q \in DOMAIN d.parameters
      PROVE  node(f, d, q) \in ParameterNodes(f)
  <2>1. node(f, d, q) \in {node(f, d, k) : k \in {l \in DOMAIN d.parameters : ~again(f, d, l)}}
    BY <1>4
  <2>2. QED
    BY <1>5, <2>1
<1> DEFINE link(p) == Between("HAS_PARAMETER", Named(p.of.owner, labels, files), {p})
<1>9. HasParameter(files) = UNION {UNION {link(p) : p \in ParameterNodes(f)} : f \in files}
  BY DEF HasParameter
<1>10. \A p : \A r \in link(p) : r.from \in Named(p.of.owner, labels, files) /\ r.to = p
  BY DEF Between, Rel
<1>11. \A p : \A n \in Named(p.of.owner, labels, files) : Rel("HAS_PARAMETER", n, p) \in link(p)
  BY DEF Between
<1> HIDE DEF link
<1>12. ASSUME NEW r \in edges, r.type = "HAS_PARAMETER", r.to.of.injects
       PROVE  <<r.from.qn, None>> \in have
  <2>1. r \in HasParameter(files)
    BY <1>12, EdgesOfType
  <2>2. PICK f \in files : \E p \in ParameterNodes(f) : r \in link(p)
    BY <1>9, <2>1
  <2>3. PICK p \in ParameterNodes(f) : r \in link(p)
    BY <2>2
  <2>4. PICK d \in f.defined : \E q \in DOMAIN d.parameters : p = node(f, d, q)
    BY <1>7
  <2>5. PICK q \in DOMAIN d.parameters : p = node(f, d, q)
    BY <2>4
  <2>6. r.to = p /\ r.from \in Named(d.qn, labels, files)
    BY <1>6, <1>10, <2>3, <2>5
  <2>7. r.from = Node(d.label, d.qn, f) /\ d.label \in labels
    BY <2>6, NamedIsOne
  <2>8. r.from.qn = d.qn /\ d.label # "Class"
    BY <2>7 DEF Node
  <2>9. d.parameters[q].injects
    <3>1. r.to.of.injects = d.parameters[q].injects
      BY <1>6, <2>5, <2>6
    <3>2. QED
      BY <1>12, <3>1, Zenon
  <2>10. injects(d)
    BY <2>5, <2>9 DEF ToSet
  <2> HIDE DEF injects
  <2>11. <<d.qn, None>> \in of(f)
    BY <2>8, <2>10
  <2>12. QED
    BY <2>8, <2>11
<1>13. ASSUME NEW f \in files, NEW d \in f.defined, d.label # "Class", injects(d)
       PROVE  <<d.qn, None>> \in rows
  <2>1. PICK q \in DOMAIN d.parameters : d.parameters[q].injects
    BY <1>13 DEF ToSet
  <2> DEFINE n == Node(d.label, d.qn, f)
             p == node(f, d, q)
             r == Rel("HAS_PARAMETER", n, p)
  <2>2. p \in ParameterNodes(f) /\ p.of.owner = d.qn /\ p.of.injects = d.parameters[q].injects
    BY <1>6, <1>8
  <2>3. n \in Named(d.qn, labels, files)
    <3>1. n \in Nodes(files)
      BY DEF Nodes
    <3>2. n.qn = d.qn /\ n.label \in labels
      BY <1>3, <1>13 DEF Node
    <3> HIDE DEF n
    <3>3. QED
      BY <3>1, <3>2 DEF Named
  <2>4. n.qn = d.qn
    BY DEF Node
  <2> HIDE DEF n, p
  <2>5. r \in HasParameter(files)
    <3>1. r \in link(p)
      BY <1>11, <2>2, <2>3
    <3> HIDE DEF r
    <3>2. QED
      BY <1>9, <2>2, <3>1
  <2>6. r \in edges /\ r.type = "HAS_PARAMETER" /\ r.from = n /\ r.to = p
    <3>1. r \in edges
      BY <2>5 DEF GraphOf
    <3>2. QED
      BY <3>1 DEF Rel
  <2>7. p.of.injects
    BY <2>1, <2>2, Zenon
  <2> HIDE DEF r
  <2>8. <<r.from.qn, None>> \in rows
    BY <2>6, <2>7
  <2>9. QED
    BY <2>4, <2>6, <2>8
<1>14. rows = have
  <2>1. \A row \in rows : row \in have
    BY <1>12
  <2>2. \A row \in have : row \in rows
    BY <1>13
  <2>3. QED
    BY <2>1, <2>2
<1>15. QED
  BY <1>1, <1>2, <1>14

LEMMA FactoryRows ==
  ASSUME NEW repo \in Repositories, NEW prefix
  PROVE  PatternRows(GraphOf(Parsed(repo)), "factory", prefix) = HavePattern(Parsed(repo), "factory", prefix)
<1> DEFINE files == Parsed(repo)
           nodes == GraphOf(files).nodes
           rows == {<<n.qn, None>> : n \in {m \in nodes : /\ m.label \in {"Function", "Method"}
                                                          /\ Last(m.qn) \in FactoryNames}}
           of(f) == {<<d.qn, None>> : d \in {x \in {y \in f.defined : y.label # "Class"} : Last(x.qn) \in FactoryNames}}
           have == UNION {of(f) : f \in files}
<1>1. PatternRows(GraphOf(files), "factory", prefix) = rows
  BY DEF PatternRows
<1>2. HavePattern(files, "factory", prefix) = have
  BY DEF HavePattern
<1>3. \A f \in files : \A d \in f.defined : d.label \in {"Class", "Function", "Method"}
  BY ParsedDefinitions
<1>4. nodes = Nodes(files)
  BY DEF GraphOf
<1>5. \A f, d : Node(d.label, d.qn, f).qn = d.qn /\ Node(d.label, d.qn, f).label = d.label
  BY DEF Node
<1>6. ASSUME NEW n \in nodes, n.label \in {"Function", "Method"}, Last(n.qn) \in FactoryNames
      PROVE  <<n.qn, None>> \in have
  <2>1. PICK f \in files : \E d \in f.defined : n = Node(d.label, d.qn, f)
    BY <1>4, <1>6, DefinitionNodes
  <2>2. PICK d \in f.defined : n = Node(d.label, d.qn, f)
    BY <2>1
  <2>3. n.qn = d.qn /\ n.label = d.label
    BY <1>5, <2>2
  <2>4. <<d.qn, None>> \in of(f)
    BY <1>6, <2>3
  <2>5. QED
    BY <2>3, <2>4
<1>7. ASSUME NEW f \in files, NEW d \in f.defined, d.label # "Class", Last(d.qn) \in FactoryNames
      PROVE  <<d.qn, None>> \in rows
  <2> DEFINE n == Node(d.label, d.qn, f)
  <2>1. n \in nodes
    BY <1>4 DEF Nodes
  <2>2. n.qn = d.qn /\ n.label \in {"Function", "Method"}
    BY <1>3, <1>5, <1>7
  <2> HIDE DEF n
  <2>3. <<n.qn, None>> \in rows
    BY <1>7, <2>1, <2>2
  <2>4. QED
    BY <2>2, <2>3
<1>8. rows = have
  <2>1. \A row \in rows : row \in have
    BY <1>6
  <2>2. \A row \in have : row \in rows
    BY <1>7
  <2>3. QED
    BY <2>1, <2>2
<1>9. QED
  BY <1>1, <1>2, <1>8

\* Finitely many rows, as the graph is finite.
LEMMA RowsFinite ==
  ASSUME NEW g, Stored(g), NEW pattern \in SupportedPatterns, NEW prefix
  PROVE  IsFiniteSet(PatternRows(g, pattern, prefix))
<1> DEFINE decorated == [r \in g.edges |-> <<r.from.qn, r.to.of.name>>]
           injected == [r \in g.edges |-> <<r.from.qn, None>>]
           made == [n \in g.nodes |-> <<n.qn, None>>]
           rows == PatternRows(g, pattern, prefix)
<1>1. \/ \A row \in rows : \E r \in g.edges : row = decorated[r]
      \/ \A row \in rows : \E r \in g.edges : row = injected[r]
      \/ \A row \in rows : \E n \in g.nodes : row = made[n]
  <2>1. CASE pattern = "decorator"
    BY <2>1 DEF PatternRows
  <2>2. CASE pattern = "dependency_injection"
    BY <2>2 DEF PatternRows
  <2>3. CASE pattern = "factory"
    BY <2>3 DEF PatternRows
  <2>4. QED
    BY <2>1, <2>2, <2>3 DEF SupportedPatterns
<1> HIDE DEF decorated, injected, made, rows
<1>2. IsFiniteSet(rows)
  BY <1>1, FiniteImage DEF Stored
<1>3. QED
  BY <1>2 DEF rows

LEMMA InstancesAreRows ==
  ASSUME NEW g, NEW pattern \in SupportedPatterns, NEW prefix, NEW result \in FindPatterns(g, pattern, prefix),
         result.error # "provider failed"
  PROVE  \E page \in ExecuteQuery(PatternRows(g, pattern, prefix)) : result.instances = page.rows
<1> DEFINE pages == {RowsOf(page) : page \in ExecuteQuery(PatternRows(g, pattern, prefix))}
           grafts(rows) == IF rows = {} \/ Cardinality(rows) > MaxListItems THEN {Graft(rows, {})}
                           ELSE {Graft(rows, names) : names \in (SUBSET {r[1] : r \in rows}) \cup {{<<"elsewhere">>}}}
                                \cup {NoPatterns("provider failed")}
<1>1. FindPatterns(g, pattern, prefix) = UNION {grafts(rows) : rows \in pages}
  BY DEF FindPatterns
<1>2. \A rows : \A names : Graft(rows, names).instances = rows
  BY DEF Graft
<1>3. NoPatterns("provider failed").error = "provider failed"
  BY DEF NoPatterns
<1>4. \A rows : \A x \in grafts(rows) : x.instances = rows \/ x.error = "provider failed"
  BY <1>2, <1>3
<1> HIDE DEF grafts
<1>5. PICK rows \in pages : result.instances = rows
  BY <1>1, <1>4
<1>6. QED
  BY <1>5 DEF RowsOf

\* PatternsComplete: find_patterns names only definitions that have the
\* pattern in the files, and all of them when they are less than a page,
\* whatever the model explains, as long as its provider does not fail.
THEOREM SearchPatternsComplete == Spec => []PatternsComplete
<1>1. SearchInv => PatternsComplete
  <2> SUFFICES ASSUME SearchInv, answer # None, answer.kind = "patterns", answer.name[1] \in SupportedPatterns,
                      answer.result.error # "provider failed",
                      graph # EmptyGraph, DefinedOnce(Parsed(repository))
               PROVE  LET rows == HavePattern(Parsed(repository), answer.name[1], answer.name[2])
                      IN  answer.result.instances \subseteq rows
                          /\ (Cardinality(rows) < ResultLimit => answer.result.instances = rows)
    BY DEF PatternsComplete
  <2> DEFINE pattern == answer.name[1]
             prefix == answer.name[2]
             rows == HavePattern(Parsed(repository), pattern, prefix)
  <2>1. /\ repository \in Repositories /\ graph = GraphOf(Parsed(repository))
        /\ answer.result \in FindPatterns(graph, pattern, prefix)
    BY DEF SearchInv, AnswerGiven
  <2>2. PatternRows(graph, pattern, prefix) = rows
    BY <2>1, DecoratorRows, InjectionRows, FactoryRows DEF SupportedPatterns
  <2>3. IsFiniteSet(PatternRows(graph, pattern, prefix))
    BY GraphIsStored, RowsFinite
  <2> HIDE DEF rows
  <2>4. PICK page \in ExecuteQuery(PatternRows(graph, pattern, prefix)) : answer.result.instances = page.rows
    BY <2>1, InstancesAreRows
  <2>5. /\ page.rows \subseteq rows
        /\ Cardinality(rows) < ResultLimit => page.rows = rows
    BY <2>2, <2>3, <2>4, PageIs
  <2>6. QED
    BY <2>4, <2>5 DEF rows
<1>2. QED
  BY <1>1, SearchInvariant, PTL

-----------------------------------------------------------------------------
(* Callers: what is shown is what the indexer resolved.                     *)

\* The calls of the files as they are resolved, as pairs of the caller and
\* what is called, None if nothing that is indexed.
CallsResolved(files) ==
    UNION {UNION {{<<d.qn, ResolveName(callee, d.qn, f, Callables(files), files)>> : callee \in d.calls}
                  : d \in f.defined} : f \in files}

\* The functions that call a name, by what is resolved and by what is stored.
CallersResolved(files, name) ==
    {call[1] : call \in {c \in CallsResolved(files) : c[2] # None /\ (c[2] = name \/ <<Last(c[2])>> = name)}}
CallersStored(g, name) ==
    {r.from.qn : r \in {x \in g.edges : x.type = "CALLS" /\ x.to \in g.nodes /\ IsNamed(x.to, name)}}

LEMMA FirstIsIndexed ==
  ASSUME NEW paths, NEW known, NEW files
  PROVE  FirstIndexed(paths, known, files) \in known \cup {None}
<1>1. \A path : FollowReexports(path, known, files) \in known \cup {None}
  <2> SUFFICES ASSUME NEW path PROVE FollowReexports(path, known, files) \in known \cup {None}
    OBVIOUS
  <2> DEFINE after[hops \in 0 .. MaxHops] ==
                IF hops = 0 THEN path
                ELSE LET before == after[hops - 1]
                     IN  IF before = None \/ before \in known THEN before ELSE Rewritten(before, files)
  <2>1. FollowReexports(path, known, files) = IF after[MaxHops] \in known THEN after[MaxHops] ELSE None
    BY DEF FollowReexports
  <2> HIDE DEF after
  <2>2. QED
    BY <2>1
<1>2. \/ FirstIndexed(paths, known, files) = None
      \/ \E i : FirstIndexed(paths, known, files) = FollowReexports(paths[i], known, files)
  BY DEF FirstIndexed
<1>3. QED
  BY <1>1, <1>2

\* _resolve_name yields a name that is indexed, or none.
LEMMA ResolvedIsIndexed ==
  ASSUME NEW callee, NEW caller, NEW file, NEW known, NEW files
  PROVE  ResolveName(callee, caller, file, known, files) \in known \cup {None}
<1>1. OnlyMatch(callee[1], file, known, files) \in known \cup {None}
  <2> DEFINE matches == {qn \in known : /\ Last(qn) = callee[1]
                                        /\ OwningModule(qn, Modules(files)) \in Visible(file, files)}
  <2>1. OnlyMatch(callee[1], file, known, files) =
           IF Cardinality(matches) = 1 THEN CHOOSE qn \in matches : TRUE ELSE None
    BY DEF OnlyMatch
  <2>2. matches \subseteq known
    OBVIOUS
  <2> HIDE DEF matches
  <2>3. Cardinality(matches) = 1 => matches # {}
    BY FS_EmptySet
  <2>4. matches # {} => (CHOOSE qn \in matches : TRUE) \in matches
    OBVIOUS
  <2>5. QED
    BY <2>1, <2>2, <2>3, <2>4
<1>2. \/ ResolveName(callee, caller, file, known, files) = None
      \/ \E paths : ResolveName(callee, caller, file, known, files) = FirstIndexed(paths, known, files)
      \/ ResolveName(callee, caller, file, known, files) = OnlyMatch(callee[1], file, known, files)
  BY DEF ResolveName
<1>3. QED
  BY <1>1, <1>2, FirstIsIndexed

\* Only functions call, and what is indexed as a function has a node.
LEMMA CallableNodes ==
  ASSUME NEW repo \in Repositories
  PROVE  LET files == Parsed(repo)
         IN  /\ \A f \in files : \A d \in f.defined : d.calls # {} => Named(d.qn, {"Function", "Method"}, files) # {}
             /\ \A qn \in Callables(files) : Named(qn, {"Function", "Method"}, files) # {}
<1> DEFINE files == Parsed(repo)
           callable == {"Function", "Method"}
<1>1. ASSUME NEW f \in files, NEW d \in f.defined, d.label \in callable
      PROVE  Node(d.label, d.qn, f) \in Named(d.qn, callable, files)
  <2> DEFINE n == Node(d.label, d.qn, f)
  <2>1. n \in Nodes(files)
    BY DEF Nodes
  <2>2. n.qn = d.qn /\ n.label = d.label
    BY DEF Node
  <2> HIDE DEF n
  <2>3. n \in Named(d.qn, callable, files)
    BY <1>1, <2>1, <2>2 DEF Named
  <2>4. QED
    BY <2>3 DEF n
<1>2. ASSUME NEW f \in files, NEW d \in f.defined, d.calls # {} PROVE d.label \in callable
  <2>1. PICK s \in repo : f = ParseFile(s.path, s.body, s.parses)
    BY DEF Parsed
  <2>2. f.defined = CollectDefinitions(s.body, ModuleName(s.path)) \/ f.defined = {}
    BY <2>1 DEF ParseFile
  <2>3. PICK i \in DOMAIN s.body : d = Definition(s.body, i, ModuleName(s.path))
    BY <2>2 DEF CollectDefinitions
  <2>4. d.label = Label(s.body, i) /\ (s.body[i].kind = "class" => d.calls = {})
    BY <2>3 DEF Definition
  <2>5. QED
    BY <1>2, <2>4 DEF Label
<1>3. ASSUME NEW qn \in Callables(files) PROVE Named(qn, callable, files) # {}
  <2>1. PICK d \in UNION {f.defined : f \in files} : d.label \in callable /\ d.qn = qn
    BY DEF Callables, Defined
  <2>2. PICK f \in files : d \in f.defined
    BY <2>1
  <2>3. QED
    BY <1>1, <2>1, <2>2
<1>4. QED
  BY <1>1, <1>2, <1>3

\* The callers of a name in the graph are those whose calls were resolved to it.
LEMMA CallEdges ==
  ASSUME NEW repo \in Repositories, NEW name
  PROVE  CallersStored(GraphOf(Parsed(repo)), name) = CallersResolved(Parsed(repo), name)
<1> DEFINE files == Parsed(repo)
           g == GraphOf(files)
           callable == {"Function", "Method"}
           callers == {r.from.qn : r \in {x \in g.edges : x.type = "CALLS" /\ x.to \in g.nodes /\ IsNamed(x.to, name)}}
           is(qn) == qn = name \/ <<Last(qn)>> = name
           to(f, d, callee) == ResolveName(callee, d.qn, f, Callables(files), files)
           resolved == {call[1] : call \in {c \in CallsResolved(files) : c[2] # None /\ is(c[2])}}
           link(f, d, callee) == IF to(f, d, callee) = None THEN {}
                                 ELSE Between("CALLS", Named(d.qn, callable, files), Named(to(f, d, callee), callable, files))
<1>1. Calls(files) = UNION {UNION {UNION {link(f, d, callee) : callee \in d.calls} : d \in f.defined} : f \in files}
  BY DEF Calls
<1>2. CallsResolved(files) = UNION {UNION {{<<d.qn, to(f, d, callee)>> : callee \in d.calls} : d \in f.defined} : f \in files}
  BY DEF CallsResolved
<1>3. \A f, d, callee : \A r \in link(f, d, callee) :
         /\ to(f, d, callee) # None
         /\ r.from \in Named(d.qn, callable, files) /\ r.to \in Named(to(f, d, callee), callable, files)
  BY DEF Between, Rel
<1>4. \A f, d, callee : to(f, d, callee) # None =>
         \A n \in Named(d.qn, callable, files), m \in Named(to(f, d, callee), callable, files) :
            Rel("CALLS", n, m) \in link(f, d, callee)
  BY DEF Between
<1>5. \A f, d, callee : to(f, d, callee) # None => to(f, d, callee) \in Callables(files)
  BY ResolvedIsIndexed
<1> HIDE DEF to, link
<1>6. \A qn : \A n \in Named(qn, callable, files) : n \in Nodes(files) /\ n.qn = qn /\ (IsNamed(n, name) <=> is(qn))
  BY DEF Named, IsNamed, Bears, ShortName, Entities
<1>7. g.nodes = Nodes(files) /\ Calls(files) \subseteq g.edges
  BY DEF GraphOf
<1>8. ASSUME NEW r \in g.edges, r.type = "CALLS", IsNamed(r.to, name) PROVE r.from.qn \in resolved
  <2>1. r \in Calls(files)
    BY <1>8, EdgesOfType
  <2>2. PICK f \in files : \E d \in f.defined : \E callee \in d.calls : r \in link(f, d, callee)
    BY <1>1, <2>1
  <2>3. PICK d \in f.defined : \E callee \in d.calls : r \in link(f, d, callee)
    BY <2>2
  <2>4. PICK callee \in d.calls : r \in link(f, d, callee)
    BY <2>3
  <2>5. /\ to(f, d, callee) # None
        /\ r.from \in Named(d.qn, callable, files) /\ r.to \in Named(to(f, d, callee), callable, files)
    BY <1>3, <2>4
  <2>6. r.from.qn = d.qn /\ is(to(f, d, callee))
    BY <1>6, <1>8, <2>5
  <2>7. <<d.qn, to(f, d, callee)>> \in CallsResolved(files)
    BY <1>2
  <2> HIDE DEF is
  <2>8. QED
    BY <2>5, <2>6, <2>7
<1>9. ASSUME NEW f \in files, NEW d \in f.defined, NEW callee \in d.calls, to(f, d, callee) # None, is(to(f, d, callee))
      PROVE  d.qn \in callers
  <2>1. PICK n \in Named(d.qn, callable, files) : TRUE
    BY CallableNodes
  <2>2. PICK m \in Named(to(f, d, callee), callable, files) : TRUE
    BY <1>5, <1>9, CallableNodes
  <2> DEFINE r == Rel("CALLS", n, m)
  <2>3. n.qn = d.qn /\ m \in g.nodes /\ IsNamed(m, name)
    BY <1>6, <1>7, <1>9
  <2>4. r.type = "CALLS" /\ r.from = n /\ r.to = m
    BY DEF Rel
  <2>5. r \in link(f, d, callee)
    BY <1>4, <1>9
  <2> HIDE DEF r
  <2>6. r \in g.edges
    BY <1>1, <1>7, <2>5
  <2>7. QED
    BY <2>3, <2>4, <2>6
<1>10. callers = resolved
  <2>1. \A qn \in callers : qn \in resolved
    BY <1>8
  <2>2. \A qn \in resolved : qn \in callers
    BY <1>2, <1>9
  <2>3. QED
    BY <2>1, <2>2
<1>11. QED
  BY <1>10 DEF CallersStored, CallersResolved

\* The dependents that a list of them shows as calling, when it is not marked
\* as truncated, are exactly the functions one of whose calls the indexer
\* resolved to a definition of the name, whatever else is stored, and in
\* however many files a name is defined: neither the write of the edges nor
\* the branches of get_dependents lose a caller or make one up.  That the
\* resolution is what Python means is PythonNames!DependentsAreCallers.
DependentsAreResolved ==
    (answer # None /\ answer.kind = "incoming" /\ graph # EmptyGraph /\ ~answer.result.truncated) =>
        {r.qn : r \in {x \in answer.result.rows : x.type = "CALLS" /\ x.hop = "direct"}}
            = CallersResolved(Parsed(repository), answer.name)
THEOREM SearchDependentsResolved == Spec => []DependentsAreResolved
<1>1. SearchInv => DependentsAreResolved
  <2> SUFFICES ASSUME SearchInv, answer # None, answer.kind = "incoming", graph # EmptyGraph, ~answer.result.truncated
               PROVE  {r.qn : r \in {x \in answer.result.rows : x.type = "CALLS" /\ x.hop = "direct"}}
                        = CallersResolved(Parsed(repository), answer.name)
    BY DEF DependentsAreResolved
  <2> DEFINE name == answer.name
             of == {n \in graph.nodes : IsNamed(n, name)}
             along == {r \in graph.edges : r.type \in NeighborTypes}
             all(hop) == RowsOfBranch(graph, name, "incoming", hop)
             rows == answer.result.rows
             shown == {r.qn : r \in {x \in rows : x.type = "CALLS" /\ x.hop = "direct"}}
             edges == {x \in graph.edges : x.type = "CALLS" /\ x.to \in graph.nodes /\ IsNamed(x.to, name)}
  <2>1. /\ repository \in Repositories /\ graph = GraphOf(Parsed(repository))
        /\ answer.result \in GetNeighbors(graph, name, "incoming")
    BY DEF SearchInv, AnswerGiven
  <2>2. rows = UNION {all(hop) : hop \in Hops}
    BY <2>1, GraphIsStored, NeighborsAreAll
  <2>3. Matches(graph, name, "incoming", "direct") = {m \in of \X along : m[2].to = m[1]}
    BY DEF Matches, Source
  <2>4. \A hop : \A x \in all(hop) : x.hop = hop
    BY DEF RowsOfBranch, Row
  <2>5. \A m : Row(m, "incoming", "direct").type = m[2].type /\ Row(m, "incoming", "direct").qn = m[2].from.qn
    BY DEF Row, Other
  <2>6. all("direct") = {Row(m, "incoming", "direct") : m \in Matches(graph, name, "incoming", "direct")}
    BY DEF RowsOfBranch
  <2> HIDE DEF all, rows
  <2>7. ASSUME NEW x \in rows, x.type = "CALLS", x.hop = "direct" PROVE x.qn \in {r.from.qn : r \in edges}
    <3>1. x \in all("direct")
      BY <2>2, <2>4, <2>7
    <3>2. PICK m \in of \X along : m[2].to = m[1] /\ x = Row(m, "incoming", "direct")
      BY <2>3, <2>6, <3>1
    <3>3. m[2] \in edges /\ x.qn = m[2].from.qn
      BY <2>5, <2>7, <3>2
    <3>4. QED
      BY <3>3
  <2>8. ASSUME NEW r \in edges PROVE r.from.qn \in shown
    <3> DEFINE m == <<r.to, r>>
               x == Row(m, "incoming", "direct")
    <3>1. m \in of \X along /\ m[1] = r.to /\ m[2] = r
      BY DEF NeighborTypes
    <3>2. x \in all("direct")
      BY <2>3, <2>6, <3>1
    <3>3. x.type = "CALLS" /\ x.qn = r.from.qn /\ x.hop = "direct"
      BY <2>4, <2>5, <3>1, <3>2
    <3> HIDE DEF x
    <3>4. x \in rows
      BY <2>2, <3>2 DEF Hops
    <3>5. QED
      BY <3>3, <3>4
  <2>9. shown = {r.from.qn : r \in edges}
    <3>1. \A qn \in shown : qn \in {r.from.qn : r \in edges}
      BY <2>7
    <3>2. \A qn \in {r.from.qn : r \in edges} : qn \in shown
      BY <2>8
    <3>3. QED
      BY <3>1, <3>2
  <2>10. {r.from.qn : r \in edges} = CallersResolved(Parsed(repository), name)
    <3>1. CallersStored(graph, name) = CallersResolved(Parsed(repository), name)
      BY <2>1, CallEdges
    <3>2. QED
      BY <3>1 DEF CallersStored
  <2>11. QED
    BY <2>9, <2>10 DEF rows
<1>2. QED
  BY <1>1, SearchInvariant, PTL

=============================================================================
