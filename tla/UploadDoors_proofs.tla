-------------------------- MODULE UploadDoors_proofs -------------------------
(***************************************************************************)
(* How fast an upload has to be and by which doors media come in, for any  *)
(* settings, builds, bodies, owners, arrivals and numbers of rows: who is  *)
(* cut for speed, and that what is stored has passed the gate of the media *)
(* it is stored as, under a name that fits, within the quota.              *)
(***************************************************************************)
EXTENDS SpeedLimiter, UploadDoors, FiniteSetTheorems, SequenceTheorems, TLAPS

(***************************************************************************)
(* Names fit the columns they are stored in                                *)
(***************************************************************************)

\* A name cut to a column is a name and fits the column (bounds.fit_filename).
THEOREM FilenameFits ==
    ASSUME NEW limit \in Nat \ {0}, NEW name \in Name
    PROVE  /\ FitFilename(limit, name) \in Name
           /\ Size(FitFilename(limit, name)) <= limit
<1>1. name.stem \in Nat /\ name.ext \in Nat
  BY DEF Name
<1>2. CASE Size(name) <= limit
  <2>1. FitFilename(limit, name) = name
    BY <1>2 DEF FitFilename
  <2> QED
    BY <1>2, <2>1
<1>3. CASE Size(name) > limit /\ name.ext <= limit - 2
  <2> DEFINE cut == [stem |-> limit - name.ext, ext |-> name.ext]
  <2>1. limit # NoLimit /\ ~(Size(name) <= limit)
    BY <1>1, <1>3 DEF NoLimit, Size
  <2>2. FitFilename(limit, name) = cut
    BY <1>3, <2>1 DEF FitFilename, KeepsExtension
  <2>3. limit - name.ext \in Nat
    BY <1>1, <1>3
  <2>4. cut \in Name
    BY <1>1, <2>3 DEF Name
  <2>5. cut.stem = limit - name.ext /\ cut.ext = name.ext
    OBVIOUS
  <2>6. Size(cut) = limit
    BY <1>1, <2>5 DEF Size
  <2> QED
    BY <2>2, <2>4, <2>6
<1>4. CASE Size(name) > limit /\ ~(name.ext <= limit - 2)
  <2> DEFINE cut == [stem |-> limit, ext |-> 0]
  <2>1. limit # NoLimit /\ ~(Size(name) <= limit)
    BY <1>1, <1>4 DEF NoLimit, Size
  <2>2. Fit(limit, Size(name)) = limit
    BY <2>1 DEF Fit
  <2>3. FitFilename(limit, name) = cut
    BY <1>4, <2>1, <2>2 DEF FitFilename, KeepsExtension
  <2>4. cut \in Name
    BY DEF Name
  <2>5. Size(cut) = limit
    BY DEF Size
  <2> QED
    BY <2>3, <2>4, <2>5
<1> QED
  BY <1>1, <1>2, <1>3, <1>4 DEF Size

\* An extension that leaves room for a marked character survives the cut, so
\* the file is served under the type it came with.
THEOREM ExtensionSurvives ==
    ASSUME NEW limit \in Nat \ {0}, NEW name \in Name, KeepsExtension(limit, name)
    PROVE  /\ FitFilename(limit, name).ext = name.ext
           /\ name.stem > 0 => FitFilename(limit, name).stem > 0
<1>1. name.stem \in Nat /\ name.ext \in Nat /\ name.ext <= limit - 2
  BY DEF Name, KeepsExtension
<1>2. CASE Size(name) <= limit
  <2>1. FitFilename(limit, name) = name
    BY <1>2 DEF FitFilename
  <2> QED
    BY <2>1
<1>3. CASE ~(Size(name) <= limit)
  <2> DEFINE cut == [stem |-> limit - name.ext, ext |-> name.ext]
  <2>1. limit # NoLimit
    BY DEF NoLimit
  <2>2. FitFilename(limit, name) = cut
    BY <1>3, <2>1 DEF FitFilename
  <2>3. cut.stem = limit - name.ext /\ cut.ext = name.ext
    OBVIOUS
  <2>4. limit - name.ext > 0
    BY <1>1
  <2> QED
    BY <2>2, <2>3, <2>4
<1> QED
  BY <1>2, <1>3

\* A name that was cut once is not cut again: storing a stored name, as the
\* retype command does with the basename of the original, changes nothing.
THEOREM FitIsIdempotent ==
    ASSUME NEW limit \in Nat \ {0}, NEW name \in Name
    PROVE  FitFilename(limit, FitFilename(limit, name)) = FitFilename(limit, name)
<1>1. Size(FitFilename(limit, name)) <= limit
  BY FilenameFits
<1> DEFINE cut == FitFilename(limit, name)
<1>2. FitFilename(limit, cut) = cut
  <2> HIDE DEF cut
  <2>1. Size(cut) <= limit
    BY <1>1 DEF cut
  <2> QED
    BY <2>1 DEF FitFilename
<1> QED
  BY <1>2

\* A stored path, prefix and name, fits its column whenever the column has room
\* for the prefix at all; otherwise the upload fails before it writes a row
\* (bounds.fit_stored_name).
THEOREM StoredNameFits ==
    ASSUME NEW limit \in Nat, NEW prefix \in Nat, NEW name \in Name,
           ~NoRoom(prefix, limit)
    PROVE  prefix + Size(FitStoredName(prefix, limit, name)) <= limit
<1>1. limit # NoLimit
  BY DEF NoLimit
<1>2. limit - prefix \in Nat \ {0}
  BY <1>1 DEF NoRoom
<1>3. FitStoredName(prefix, limit, name) = FitFilename(limit - prefix, name)
  BY <1>1 DEF FitStoredName
<1> DEFINE stored == FitFilename(limit - prefix, name)
<1>4. stored \in Name /\ Size(stored) <= limit - prefix
  BY <1>2, FilenameFits
<1>5. Size(stored) \in Nat
  <2> HIDE DEF stored
  <2>1. stored.stem \in Nat /\ stored.ext \in Nat
    BY <1>4 DEF Name
  <2> QED
    BY <2>1 DEF Size
<1>6. prefix + Size(stored) <= limit
  <2> HIDE DEF stored
  <2> QED
    BY <1>4, <1>5
<1> QED
  BY <1>3, <1>6

(***************************************************************************)
(* Least numbers and sums                                                  *)
(***************************************************************************)

LEMMA LeastOf ==
    ASSUME NEW S \in SUBSET Nat, S # {}
    PROVE  \E m \in S : \A q \in S : m <= q
<1> DEFINE R == OpToRel(<, Nat)
<1>1. IsWellFoundedOn(R, Nat)
  BY NatLessThanWellFounded
<1>2. \A x, y \in Nat : x < y => <<x, y>> \in R
  BY DEF OpToRel
<1> HIDE DEF R
<1>3. PICK m \in S : \A q \in S : <<q, m>> \notin R
  BY <1>1, WFMin
<1>4. \A q \in S : ~(q < m)
  BY <1>2, <1>3
<1>5. \A q \in S : m <= q
  BY <1>4
<1> QED  BY <1>5

LEMMA MinIsLeast ==
    ASSUME NEW S \in SUBSET Nat, S # {}
    PROVE  Min(S) \in S /\ \A q \in S : Min(S) <= q
BY LeastOf DEF Min

\* A table of sums: what f adds up to over each set of the first n numbers.
Adds(table, f, n) ==
    \A s \in SUBSET (1..n) :
       /\ table[s] \in Nat
       /\ s = {} => table[s] = 0
       /\ \A x \in s : table[s] = f[x] + table[s \ {x}]

\* There is one, whatever the order in which a set is taken apart.
LEMMA TableExists ==
    ASSUME NEW f, NEW n \in Nat, \A i \in 1..n : f[i] \in Nat
    PROVE  \E table : Adds(table, f, n)
<1> DEFINE bad == {m \in 0..n : ~\E table : Adds(table, f, m)}
<1>1. SUFFICES ASSUME bad # {} PROVE FALSE
  BY n \in 0..n
<1>2. PICK m \in bad : \A q \in bad : m <= q
  <2>1. bad \in SUBSET Nat
    OBVIOUS
  <2> HIDE DEF bad
  <2> QED  BY <1>1, <2>1, LeastOf
<1>3. m \in 0..n /\ ~\E table : Adds(table, f, m)
  BY <1>2
<1>4. CASE m = 0
  <2> DEFINE table == [s \in {{}} |-> 0]
  <2>1. \A s \in SUBSET (1..0) : s = {}
    OBVIOUS
  <2>2. table[{}] = 0
    OBVIOUS
  <2> HIDE DEF table, bad
  <2>3. ASSUME NEW s \in SUBSET (1..0)
        PROVE  /\ table[s] \in Nat
               /\ s = {} => table[s] = 0
               /\ \A x \in s : table[s] = f[x] + table[s \ {x}]
    <3>1. s = {} /\ table[s] = 0
      BY <2>1, <2>2
    <3> QED  BY <3>1
  <2>4. Adds(table, f, 0)
    BY <2>3 DEF Adds
  <2> QED  BY <1>3, <1>4, <2>4
<1>5. CASE m # 0
  <2>1. m - 1 \in 0..n /\ m \in 1..n /\ ~(m <= m - 1)
    BY <1>3, <1>5
  <2>2. m - 1 \notin bad
    BY <1>2, <2>1
  <2>3. PICK below : Adds(below, f, m - 1)
    BY <2>1, <2>2
  <2> DEFINE table == [s \in SUBSET (1..m) |->
                         IF m \in s THEN below[s \ {m}] + f[m] ELSE below[s]]
  <2>4. \A s \in SUBSET (1..m) : s \ {m} \in SUBSET (1..(m - 1))
    BY <2>1
  <2>5. \A s \in SUBSET (1..m) :
           /\ m \in s => table[s] = below[s \ {m}] + f[m]
           /\ m \notin s => table[s] = below[s]
    OBVIOUS
  <2> HIDE DEF table
  <2>6. \A s \in SUBSET (1..(m - 1)) :
           /\ below[s] \in Nat
           /\ s = {} => below[s] = 0
           /\ \A x \in s : below[s] = f[x] + below[s \ {x}]
    BY <2>3 DEF Adds
  <2>7. f[m] \in Nat /\ \A x \in 1..m : f[x] \in Nat
    BY <2>1
  <2>8. ASSUME NEW s \in SUBSET (1..m)
        PROVE  /\ table[s] \in Nat
               /\ s = {} => table[s] = 0
               /\ \A x \in s : table[s] = f[x] + table[s \ {x}]
    <3>1. s \ {m} \in SUBSET (1..(m - 1)) /\ below[s \ {m}] \in Nat
      BY <2>4, <2>6
    <3>2. CASE m \notin s
      <4>1. s \in SUBSET (1..(m - 1)) /\ table[s] = below[s]
        BY <2>5, <3>1, <3>2
      <4>2. \A x \in s : m \notin s \ {x} /\ s \ {x} \in SUBSET (1..m)
        BY <3>2
      <4>3. \A x \in s : table[s \ {x}] = below[s \ {x}]
        BY <2>5, <4>2
      <4> QED  BY <2>6, <4>1, <4>3
    <3>3. CASE m \in s
      <4>1. table[s] = below[s \ {m}] + f[m]
        BY <2>5, <3>3
      <4>2. table[s \ {m}] = below[s \ {m}]
        BY <2>5, s \ {m} \in SUBSET (1..m)
      <4>3. ASSUME NEW x \in s, x # m
            PROVE  table[s] = f[x] + table[s \ {x}]
        <5>1. s \ {x} \in SUBSET (1..m) /\ m \in s \ {x} /\ x \in s \ {m}
          BY <3>3, <4>3
        <5>2. table[s \ {x}] = below[(s \ {x}) \ {m}] + f[m]
          BY <2>5, <5>1
        <5>3. below[s \ {m}] = f[x] + below[(s \ {m}) \ {x}]
          BY <2>6, <3>1, <5>1
        <5>4. (s \ {m}) \ {x} = (s \ {x}) \ {m}
          OBVIOUS
        <5>5. (s \ {x}) \ {m} \in SUBSET (1..(m - 1))
          BY <2>4, <5>1
        <5>6. below[(s \ {x}) \ {m}] \in Nat /\ f[x] \in Nat
          BY <2>6, <2>7, <5>5
        <5>7. below[s \ {m}] = f[x] + below[(s \ {x}) \ {m}]
          BY <5>3, <5>4
        <5>8. \A a, b, c \in Nat : (a + b) + c = a + (b + c)
          OBVIOUS
        <5>9. f[m] \in Nat
          BY <2>7
        <5> HIDE DEF bad
        <5> QED  BY <4>1, <5>2, <5>6, <5>7, <5>8, <5>9
      <4>4. table[s] = f[m] + table[s \ {m}]
        BY <2>7, <3>1, <4>1, <4>2
      <4>5. table[s] \in Nat /\ s # {}
        BY <2>7, <3>1, <3>3, <4>1
      <4> QED  BY <4>3, <4>4, <4>5
    <3> QED  BY <3>2, <3>3
  <2>9. Adds(table, f, m)
    BY <2>8 DEF Adds
  <2> QED  BY <1>3, <2>9
<1> QED  BY <1>4, <1>5

\* What the library adds up is what the table says.
LEMMA SumIs ==
    ASSUME NEW f, NEW n \in Nat, NEW table, Adds(table, f, n), NEW S \in SUBSET (1..n)
    PROVE  SumFunctionOnSet(f, S) = table[S]
<1> DEFINE one(s) == CHOOSE x \in s : TRUE
           sums(g) == [s \in SUBSET S |->
                         IF s = {} THEN 0 ELSE f[one(s)] + g[s \ {one(s)}]]
           iter == CHOOSE g : g = sums(g)
<1>1. SumFunctionOnSet(f, S) = iter[S]
  BY DEF SumFunctionOnSet, FoldFunctionOnSet, MapThenFoldSet
<1>2. \A s \in SUBSET S : s # {} => one(s) \in s /\ s \ {one(s)} \in SUBSET S
  OBVIOUS
<1>3. \A s \in SUBSET S : /\ s = {} => table[s] = 0
                          /\ s # {} => table[s] = f[one(s)] + table[s \ {one(s)}]
  BY <1>2 DEF Adds
<1> DEFINE here == [s \in SUBSET S |-> table[s]]
<1>4. here = sums(here)
  <2>1. \A s \in SUBSET S : here[s] = sums(here)[s]
    BY <1>2, <1>3
  <2> QED  BY <2>1
<1>5. iter = sums(iter)
  BY <1>4
<1>6. \A s \in SUBSET S : /\ s = {} => iter[s] = 0
                          /\ s # {} => iter[s] = f[one(s)] + iter[s \ {one(s)}]
  <2> HIDE DEF iter, one
  <2> QED  BY <1>5
<1> HIDE DEF iter, one
<1>7. \A s \in SUBSET S : iter[s] = table[s]
  <2> DEFINE wrong == {s \in SUBSET S : iter[s] # table[s]}
             sizes == {Cardinality(s) : s \in wrong}
  <2>1. \A s \in SUBSET S : IsFiniteSet(s) /\ Cardinality(s) \in Nat
    <3>1. IsFiniteSet(1..n)
      BY FS_Interval
    <3>2. \A s \in SUBSET S : s \in SUBSET (1..n)
      OBVIOUS
    <3>3. \A s \in SUBSET S : IsFiniteSet(s)
      BY <3>1, <3>2, FS_Subset
    <3> QED  BY <3>3, FS_CardinalityType
  <2>2. SUFFICES ASSUME wrong # {} PROVE FALSE
    OBVIOUS
  <2>3. sizes \in SUBSET Nat /\ sizes # {}
    BY <2>1, <2>2
  <2>4. PICK k \in sizes : \A q \in sizes : k <= q
    <3> HIDE DEF sizes
    <3> QED  BY <2>3, LeastOf
  <2>5. PICK s \in wrong : k = Cardinality(s)
    BY <2>4
  <2>6. s \in SUBSET S /\ iter[s] # table[s]
    BY <2>5
  <2>7. s # {}
    BY <1>3, <1>6, <2>6
  <2>8. one(s) \in s /\ s \ {one(s)} \in SUBSET S
    BY <1>2, <2>6, <2>7
  <2>9. Cardinality(s \ {one(s)}) = Cardinality(s) - 1
    BY <2>1, <2>6, <2>8, FS_RemoveElement
  <2>10. s \ {one(s)} \notin wrong
    BY <2>1, <2>4, <2>5, <2>6, <2>9
  <2>11. iter[s \ {one(s)}] = table[s \ {one(s)}]
    BY <2>8, <2>10
  <2> QED  BY <1>3, <1>6, <2>6, <2>7, <2>11
<1> QED  BY <1>1, <1>7

LEMMA SumIsNat ==
    ASSUME NEW f, NEW n \in Nat, NEW S \in SUBSET (1..n), \A i \in 1..n : f[i] \in Nat
    PROVE  SumFunctionOnSet(f, S) \in Nat
<1>1. PICK table : Adds(table, f, n)
  BY TableExists
<1>2. SumFunctionOnSet(f, S) = table[S]
  BY <1>1, SumIs
<1> QED  BY <1>1, <1>2 DEF Adds

LEMMA SumOfNone == ASSUME NEW f PROVE SumFunctionOnSet(f, {}) = 0
<1>1. 0 \in Nat /\ {} \in SUBSET (1..0) /\ \A i \in 1..0 : f[i] \in Nat
  OBVIOUS
<1>2. PICK table : Adds(table, f, 0)
  BY <1>1, TableExists
<1>3. SumFunctionOnSet(f, {}) = table[{}]
  BY <1>1, <1>2, SumIs
<1> QED  BY <1>1, <1>2, <1>3 DEF Adds

\* What does not differ adds up to the same.
LEMMA SumSame ==
    ASSUME NEW f, NEW g, NEW n \in Nat, NEW S \in SUBSET (1..n),
           \A i \in 1..n : f[i] \in Nat, \A i \in 1..n : g[i] = f[i]
    PROVE  SumFunctionOnSet(g, S) = SumFunctionOnSet(f, S)
<1>1. PICK table : Adds(table, f, n)
  BY TableExists
<1>2. Adds(table, g, n)
  BY <1>1 DEF Adds
<1> QED  BY <1>1, <1>2, SumIs

\* A number that joins a set adds its value to the sum.
LEMMA SumOneMore ==
    ASSUME NEW f, NEW n \in Nat, NEW S \in SUBSET (1..n), NEW x \in (1..n) \ S,
           \A i \in 1..n : f[i] \in Nat
    PROVE  SumFunctionOnSet(f, S \cup {x}) = SumFunctionOnSet(f, S) + f[x]
<1> DEFINE T == S \cup {x}
<1>1. T \in SUBSET (1..n) /\ x \in T /\ T \ {x} = S /\ f[x] \in Nat
  OBVIOUS
<1> HIDE DEF T
<1>2. PICK table : Adds(table, f, n)
  BY TableExists
<1>3. SumFunctionOnSet(f, T) = table[T]
  BY <1>1, <1>2, SumIs
<1>4. SumFunctionOnSet(f, S) = table[S]
  BY <1>2, SumIs
<1>5. table[T] = f[x] + table[S] /\ table[S] \in Nat
  BY <1>1, <1>2 DEF Adds
<1>6. SumFunctionOnSet(f, T) = SumFunctionOnSet(f, S) + f[x]
  BY <1>1, <1>3, <1>4, <1>5
<1> QED  BY <1>6 DEF T

(***************************************************************************)
(* Gates                                                                   *)
(***************************************************************************)

\* A gate answers "ok" when no test fires, and what a test that fired says
\* otherwise.
LEMMA GateAnswers ==
    ASSUME NEW n \in Nat, NEW tests, DOMAIN tests = 1..n
    PROVE  \/ FirstOf(tests) = "ok" /\ \A i \in 1..n : ~tests[i][1]
           \/ \E i \in 1..n : tests[i][1] /\ FirstOf(tests) = tests[i][2]
<1> DEFINE fired == {i \in DOMAIN tests : tests[i][1]}
<1>1. fired \in SUBSET Nat /\ FirstOf(tests) = IF fired = {} THEN "ok" ELSE tests[Min(fired)][2]
  BY DEF FirstOf
<1>2. \A i : i \in fired <=> i \in 1..n /\ tests[i][1]
  OBVIOUS
<1> HIDE DEF fired
<1>3. CASE fired = {}
  BY <1>1, <1>2, <1>3
<1>4. CASE fired # {}
  <2>1. Min(fired) \in fired
    BY <1>1, <1>4, MinIsLeast
  <2> QED  BY <1>1, <1>2, <1>4, <2>1
<1> QED  BY <1>3, <1>4

\* A decoder that answers "ok" is there, reads the format and has counted the
\* pixels, and the whole of them when asked.
LEMMA Decoded ==
    ASSUME NEW body \in Body, NEW ext, NEW verify \in BOOLEAN, MAX_IMAGE_PIXELS \in Nat
    PROVE  LET answer == DecodeDimensions(body, ext, verify)
           IN  /\ answer \in {"ok", "no_decoder", "unavailable", "invalid"}
               /\ answer = "no_decoder" => conf.decodes = {}
               /\ answer = "ok" => /\ conf.decodes # {} /\ body.form \in conf.decodes
                                   /\ body.pixels <= MAX_IMAGE_PIXELS
                                   /\ verify => body.whole
<1> DEFINE tests == << <<conf.decodes = {},                "no_decoder">>,
                       <<ext \in Undecodable,              "unavailable">>,
                       <<body.form \notin conf.decodes,    "invalid">>,
                       <<body.pixels > MAX_IMAGE_PIXELS,   "invalid">>,
                       <<verify /\ ~body.whole,            "invalid">> >>
           answer == DecodeDimensions(body, ext, verify)
<1>1. DOMAIN tests = 1..5 /\ answer = FirstOf(tests)
  BY DEF DecodeDimensions
<1>2. /\ tests[1][1] <=> conf.decodes = {}
      /\ tests[3][1] <=> body.form \notin conf.decodes
      /\ tests[4][1] <=> body.pixels > MAX_IMAGE_PIXELS
      /\ tests[5][1] <=> verify /\ ~body.whole
  OBVIOUS
<1>10. /\ tests[1][2] = "no_decoder" /\ tests[2][2] = "unavailable" /\ tests[3][2] = "invalid"
       /\ tests[4][2] = "invalid" /\ tests[5][2] = "invalid"
  OBVIOUS
<1> HIDE DEF tests, answer
<1>3. \/ answer = "ok" /\ \A i \in 1..5 : ~tests[i][1]
      \/ \E i \in 1..5 : tests[i][1] /\ answer = tests[i][2]
  BY <1>1, GateAnswers
<1>4. \A i \in 1..5 : i \in {1, 2, 3, 4, 5}
  OBVIOUS
<1>5. answer = "ok" => \A i \in 1..5 : ~tests[i][1]
  BY <1>10, <1>3, <1>4
<1>6. answer = "ok" => ~tests[1][1] /\ ~tests[3][1] /\ ~tests[4][1] /\ ~tests[5][1]
  BY <1>5
<1>7. body.pixels \in Nat
  BY DEF Body
<1>8. answer = "ok" => /\ conf.decodes # {} /\ body.form \in conf.decodes
                       /\ body.pixels <= MAX_IMAGE_PIXELS
                       /\ verify => body.whole
  BY <1>2, <1>6, <1>7
<1>9. /\ answer \in {"ok", "no_decoder", "unavailable", "invalid"}
      /\ answer = "no_decoder" => conf.decodes = {}
  BY <1>2, <1>10, <1>3, <1>4
<1> QED  BY <1>8, <1>9 DEF answer

\* Gates of two, three and four tests: "ok" when none of them fires, no other
\* answer than theirs.
LEMMA PassTwo ==
    ASSUME NEW tests, DOMAIN tests = 1..2, tests[1][2] # "ok", tests[2][2] # "ok"
    PROVE  /\ FirstOf(tests) = "ok" <=> ~tests[1][1] /\ ~tests[2][1]
           /\ FirstOf(tests) \in {"ok", tests[1][2], tests[2][2]}
<1>1. \A i : i \in 1..2 <=> i \in {1, 2}
  OBVIOUS
<1> QED  BY <1>1, GateAnswers

LEMMA PassThree ==
    ASSUME NEW tests, DOMAIN tests = 1..3,
           tests[1][2] # "ok", tests[2][2] # "ok", tests[3][2] # "ok"
    PROVE  /\ FirstOf(tests) = "ok" <=> ~tests[1][1] /\ ~tests[2][1] /\ ~tests[3][1]
           /\ FirstOf(tests) \in {"ok", tests[1][2], tests[2][2], tests[3][2]}
<1>1. \A i : i \in 1..3 <=> i \in {1, 2, 3}
  OBVIOUS
<1> QED  BY <1>1, GateAnswers

LEMMA PassFour ==
    ASSUME NEW tests, DOMAIN tests = 1..4, tests[1][2] # "ok", tests[2][2] # "ok",
           tests[3][2] # "ok", tests[4][2] # "ok"
    PROVE  /\ FirstOf(tests) = "ok" <=>
                 ~tests[1][1] /\ ~tests[2][1] /\ ~tests[3][1] /\ ~tests[4][1]
           /\ FirstOf(tests) \in {"ok", tests[1][2], tests[2][2], tests[3][2], tests[4][2]}
<1>1. \A i : i \in 1..4 <=> i \in {1, 2, 3, 4}
  OBVIOUS
<1> QED  BY <1>1, GateAnswers

\* An image file that passes is read by this deployment's decoder, or signed as
\* an image where there is none and none is required.
LEMMA ImageFileVetted ==
    ASSUME NEW body \in Body, NEW ext, MAX_IMAGE_PIXELS \in Nat,
           ValidateImageFile(body, ext) = "ok"
    PROVE  IF conf.decodes = {} THEN ~conf.require /\ Sniff(body) # "none"
           ELSE /\ body.form \in conf.decodes /\ body.pixels <= MAX_IMAGE_PIXELS
                /\ DecodeDimensions(body, ext, FALSE) = "ok"
<1> DEFINE decoded == DecodeDimensions(body, ext, FALSE)
           tests == << <<ext \notin Allowed["image"],                     "invalid">>,
                       <<decoded \in {"unavailable", "invalid"},          decoded>>,
                       <<decoded = "no_decoder" /\ conf.require,          "unavailable">>,
                       <<decoded = "no_decoder" /\ Sniff(body) = "none",  "invalid">> >>
<1>1. /\ decoded \in {"ok", "no_decoder", "unavailable", "invalid"}
      /\ decoded = "no_decoder" => conf.decodes = {}
      /\ decoded = "ok" => /\ conf.decodes # {} /\ body.form \in conf.decodes
                           /\ body.pixels <= MAX_IMAGE_PIXELS
  BY Decoded
<1>2. FirstOf(tests) = "ok"
  BY DEF ValidateImageFile
<1> HIDE DEF decoded
<1>3. /\ DOMAIN tests = 1..4
      /\ tests[2][1] <=> decoded \in {"unavailable", "invalid"}
      /\ tests[3][1] <=> decoded = "no_decoder" /\ conf.require
      /\ tests[4][1] <=> decoded = "no_decoder" /\ Sniff(body) = "none"
  <2>1. DOMAIN tests = 1..4
    OBVIOUS
  <2>2. tests[2][1] <=> decoded \in {"unavailable", "invalid"}
    OBVIOUS
  <2>3. tests[3][1] <=> decoded = "no_decoder" /\ conf.require
    OBVIOUS
  <2>4. tests[4][1] <=> decoded = "no_decoder" /\ Sniff(body) = "none"
    OBVIOUS
  <2> QED  BY <2>1, <2>2, <2>3, <2>4
<1>4. /\ tests[1][2] = "invalid" /\ tests[2][2] = decoded
      /\ tests[3][2] = "unavailable" /\ tests[4][2] = "invalid"
  OBVIOUS
<1> HIDE DEF tests
<1>5. CASE decoded = "ok"
  BY <1>1, <1>5 DEF decoded
<1>6. CASE decoded # "ok"
  <2>1. ~tests[2][1] /\ ~tests[3][1] /\ ~tests[4][1]
    BY <1>2, <1>3, <1>4, <1>6, PassFour
  <2> QED  BY <1>1, <1>3, <1>6, <2>1
<1> QED  BY <1>5, <1>6

LEMMA ImageFileAnswers ==
    ASSUME NEW body \in Body, NEW ext, MAX_IMAGE_PIXELS \in Nat
    PROVE  ValidateImageFile(body, ext) \in {"ok", "invalid", "unavailable"}
<1> DEFINE decoded == DecodeDimensions(body, ext, FALSE)
           tests == << <<ext \notin Allowed["image"],                     "invalid">>,
                       <<decoded \in {"unavailable", "invalid"},          decoded>>,
                       <<decoded = "no_decoder" /\ conf.require,          "unavailable">>,
                       <<decoded = "no_decoder" /\ Sniff(body) = "none",  "invalid">> >>
<1>1. decoded \in {"ok", "no_decoder", "unavailable", "invalid"}
  BY Decoded
<1>2. ValidateImageFile(body, ext) = FirstOf(tests)
  BY DEF ValidateImageFile
<1> HIDE DEF decoded
<1>3. DOMAIN tests = 1..4
  OBVIOUS
<1>4. tests[2][1] <=> decoded \in {"unavailable", "invalid"}
  OBVIOUS
<1>5. /\ tests[1][2] = "invalid" /\ tests[2][2] = decoded
      /\ tests[3][2] = "unavailable" /\ tests[4][2] = "invalid"
  OBVIOUS
<1> HIDE DEF tests
<1>6. \/ FirstOf(tests) = "ok"
      \/ \E i \in 1..4 : tests[i][1] /\ FirstOf(tests) = tests[i][2]
  BY <1>3, GateAnswers
<1>7. \A i : i \in 1..4 <=> i \in {1, 2, 3, 4}
  OBVIOUS
<1> QED  BY <1>2, <1>4, <1>5, <1>6, <1>7

\* What the gates of the upload doors let through.
LEMMA ImageUploadPasses ==
    ASSUME NEW part \in Part, MAX_IMAGE_PIXELS \in Nat, MaxSize["image"] \in Nat,
           ValidateImageUpload(part) = "ok"
    PROVE  /\ part.body.size <= MaxSize["image"]
           /\ ValidateImageFile(part.body, part.ext) = "ok"
<1> DEFINE valid == ValidateImageFile(part.body, part.ext)
           tests == << <<part.body.size > MaxSize["image"],      "413">>,
                       <<part.ext \notin Allowed["image"],       "400 format">>,
                       <<valid = "unavailable",                  "503">>,
                       <<valid = "invalid",                      "400 format">> >>
<1>1. part.body \in Body /\ part.body.size \in Nat
  BY DEF Part, Body
<1>2. valid \in {"ok", "invalid", "unavailable"}
  BY <1>1, ImageFileAnswers
<1>3. FirstOf(tests) = "ok"
  BY DEF ValidateImageUpload
<1> HIDE DEF valid
<1>4. /\ DOMAIN tests = 1..4 /\ tests[1][2] = "413" /\ tests[2][2] = "400 format"
      /\ tests[3][2] = "503" /\ tests[4][2] = "400 format"
  OBVIOUS
<1>5. tests[1][1] <=> part.body.size > MaxSize["image"]
  OBVIOUS
<1>6. (tests[3][1] <=> valid = "unavailable") /\ (tests[4][1] <=> valid = "invalid")
  OBVIOUS
<1> HIDE DEF tests
<1>7. ~tests[1][1] /\ ~tests[3][1] /\ ~tests[4][1]
  BY <1>3, <1>4, PassFour
<1> QED  BY <1>1, <1>2, <1>5, <1>6, <1>7 DEF valid

LEMMA ClipUploadPasses ==
    ASSUME NEW part \in Part, NEW media, MaxSize[media] \in Nat,
           ValidateClipUpload(media, part) = "ok"
    PROVE  part.body.size <= MaxSize[media] /\ part.body.form # "markup"
<1> DEFINE tests == << <<part.body.size > MaxSize[media],            "413">>,
                       <<part.ext \notin Allowed[media],             "400 format">>,
                       <<SniffIsActiveContent(part.body),            "400 type">> >>
<1>1. part.body.size \in Nat
  BY DEF Part, Body
<1>2. FirstOf(tests) = "ok"
  BY DEF ValidateClipUpload
<1>3. /\ DOMAIN tests = 1..3 /\ tests[1][2] = "413" /\ tests[2][2] = "400 format"
      /\ tests[3][2] = "400 type"
  OBVIOUS
<1>4. tests[1][1] <=> part.body.size > MaxSize[media]
  OBVIOUS
<1>5. tests[3][1] <=> part.body.form = "markup"
  BY DEF SniffIsActiveContent
<1> HIDE DEF tests
<1>6. ~tests[1][1] /\ ~tests[3][1]
  BY <1>2, <1>3, PassThree
<1> QED  BY <1>1, <1>4, <1>5, <1>6

LEMMA FileUploadPasses ==
    ASSUME NEW part \in Part, MaxSize["file"] \in Nat, ValidateFileUpload(part) = "ok"
    PROVE  part.body.size <= MaxSize["file"] /\ part.body.form # "markup"
<1> DEFINE tests == << <<part.body.size > MaxSize["file"],           "400 format">>,
                       <<part.ext \notin Allowed["file"],            "400 format">>,
                       <<part.mime \notin AllowedMime,               "400 format">>,
                       <<SniffIsActiveContent(part.body),            "400 type">> >>
<1>1. part.body.size \in Nat
  BY DEF Part, Body
<1>2. FirstOf(tests) = "ok"
  BY DEF ValidateFileUpload
<1>3. /\ DOMAIN tests = 1..4 /\ tests[1][2] = "400 format" /\ tests[2][2] = "400 format"
      /\ tests[3][2] = "400 format" /\ tests[4][2] = "400 type"
  OBVIOUS
<1>4. tests[1][1] <=> part.body.size > MaxSize["file"]
  OBVIOUS
<1>5. tests[4][1] <=> part.body.form = "markup"
  BY DEF SniffIsActiveContent
<1> HIDE DEF tests
<1>6. ~tests[1][1] /\ ~tests[4][1]
  BY <1>2, <1>3, PassFour
<1> QED  BY <1>1, <1>4, <1>5, <1>6

\* An import whose extension was found in its bytes has been decoded to the
\* end by a deployment with a decoder.
LEMMA ImportPasses ==
    ASSUME NEW body \in Body, MAX_IMAGE_PIXELS \in Nat, DetectImageExtension(body) = "ok"
    PROVE  Sniff(body) \in ImageForms /\ (conf.decodes # {} => body.whole)
<1> DEFINE decoded == DecodeDimensions(body, Sniff(body), TRUE)
           tests == << <<Sniff(body) = "none",                    "not_an_image">>,
                       <<Sniff(body) \notin Allowed["image"],     "unsupported">>,
                       <<decoded = "unavailable",                 "unsupported">>,
                       <<decoded = "invalid",                     "not_an_image">> >>
<1>1. /\ decoded \in {"ok", "no_decoder", "unavailable", "invalid"}
      /\ decoded = "no_decoder" => conf.decodes = {}
      /\ decoded = "ok" => body.whole
  BY Decoded
<1>2. FirstOf(tests) = "ok"
  BY DEF DetectImageExtension
<1> HIDE DEF decoded
<1>3. /\ DOMAIN tests = 1..4 /\ tests[1][2] = "not_an_image" /\ tests[2][2] = "unsupported"
      /\ tests[3][2] = "unsupported" /\ tests[4][2] = "not_an_image"
  OBVIOUS
<1>4. (tests[3][1] <=> decoded = "unavailable") /\ (tests[4][1] <=> decoded = "invalid")
  OBVIOUS
<1>5. tests[1][1] <=> Sniff(body) = "none"
  OBVIOUS
<1> HIDE DEF tests
<1>6. ~tests[1][1] /\ ~tests[3][1] /\ ~tests[4][1]
  BY <1>2, <1>3, PassFour
<1>7. Sniff(body) \in ImageForms \cup {"none"}
  BY DEF Sniff
<1> QED  BY <1>1, <1>4, <1>5, <1>6, <1>7

\* The type of an image is one the deployment declares.
LEMMA TypePasses ==
    ASSUME NEW door \in {"image", "typed"}, NEW asked, TypeVerdict(door, asked) = "ok"
    PROVE  UploadType(door, asked) \in conf.types
<1> DEFINE type == UploadType(door, asked)
           tests == << <<door = "image" /\ type = "", "400 type required">>,
                       <<door \in {"image", "typed"} /\ type \notin conf.types, "400 image type">> >>
<1>1. FirstOf(tests) = "ok"
  BY DEF TypeVerdict
<1> HIDE DEF type
<1>2. DOMAIN tests = 1..2 /\ tests[1][2] = "400 type required" /\ tests[2][2] = "400 image type"
  OBVIOUS
<1>3. tests[2][1] <=> type \notin conf.types
  OBVIOUS
<1> HIDE DEF tests
<1>4. ~tests[2][1]
  BY <1>1, <1>2, PassTwo
<1> QED  BY <1>3, <1>4 DEF type

(***************************************************************************)
(* What a request stores                                                   *)
(***************************************************************************)

Doors == {"image", "typed", "avatar", "video", "audio", "file"}
\* A row that types, was vetted, has real dimensions if anything can find
\* them, and is stored under a type its media may have.
RowOK(row) ==
    /\ row \in Row
    /\ Vetted(row)
    /\ row.dims = "placeholder" => conf.decodes = {}
    /\ row.media = "image" => row.type \in conf.types \cup {"avatar"}
    /\ row.media # "image" => row.type = row.media

LEMMA NamesStored ==
    ASSUME NEW media \in {"image", "video", "audio", "file"}, NEW name \in Name,
           ~NoRoom(PrefixLength[media], PathLimit)
    PROVE  /\ FitFilename(NameLimit, name) \in Name
           /\ FitStoredName(PrefixLength[media], PathLimit, name) \in Name
<1>1. FitFilename(NoLimit, name) = name
  BY DEF FitFilename
<1>2. FitFilename(NameLimit, name) \in Name
  BY <1>1, FilenameFits, SettingsAssumption DEF Limits
<1>3. CASE PathLimit = NoLimit
  BY <1>2, <1>3 DEF FitStoredName
<1>4. CASE PathLimit # NoLimit
  <2>1. PrefixLength[media] \in Nat /\ PathLimit \in Nat \ {0}
    BY <1>4, SettingsAssumption DEF Limits
  <2>2. PathLimit - PrefixLength[media] \in Nat \ {0}
    BY <1>4, <2>1 DEF NoRoom
  <2> QED  BY <1>2, <1>4, <2>2, FilenameFits DEF FitStoredName
<1> QED  BY <1>3, <1>4

LEMMA NewRowTypes ==
    ASSUME NEW owner \in Owners, NEW type \in StoredTypes,
           NEW media \in {"image", "video", "audio", "file"},
           NEW body \in {part.body : part \in Parts} \cup Fetched,
           NEW ext, Len(ext) \in Nat, NEW stem \in Nat,
           ~NoRoom(PrefixLength[media], PathLimit)
    PROVE  NewRow(owner, type, media, body, ext, stem) \in Row
<1> DEFINE name == [stem |-> stem, ext |-> Len(ext)]
           first == FitFilename(NameLimit, name)
           second == FitStoredName(PrefixLength[media], PathLimit, name)
           dims == Dimensions(media, body, ext)
<1>1. name \in Name
  BY SettingsAssumption DEF Name
<1>2. first \in Name /\ second \in Name
  <2> HIDE DEF name
  <2> QED  BY <1>1, NamesStored
<1>3. dims \in {"none", "real", "placeholder"}
  BY DEF Dimensions
<1>4. NewRow(owner, type, media, body, ext, stem) =
        [media |-> media, type |-> type, owner |-> owner, body |-> body,
         name |-> first, path |-> second, dims |-> dims]
  BY DEF NewRow
<1> HIDE DEF first, second, dims
<1> QED  BY <1>2, <1>3, <1>4 DEF Row

\* What Keep does: nothing to the rows, or one row more.
LEMMA KeepAppends ==
    ASSUME NEW owner, NEW type, NEW row, NEW over, Len(rows) \in Nat,
           Keep(owner, type, row, over)
    PROVE  \/ rows' = rows
           \/ /\ rows' = Append(rows, row) /\ Len(rows) < MaxRows
              /\ Existing(owner, type, row.body) = {}
              /\ ~over /\ ~NoRoom(PrefixLength[row.media], PathLimit)
<1>1. CASE Existing(owner, type, row.body) # {}
  BY <1>1 DEF Keep
<1>2. CASE Existing(owner, type, row.body) = {}
  <2>1. CASE over
    BY <1>2, <2>1 DEF Keep, Refuse
  <2>2. CASE ~over /\ NoRoom(PrefixLength[row.media], PathLimit)
    BY <1>2, <2>2 DEF Keep, Refuse
  <2>3. CASE ~over /\ ~NoRoom(PrefixLength[row.media], PathLimit)
    BY <1>2, <2>3 DEF Keep
  <2> QED  BY <2>1, <2>2, <2>3
<1> QED  BY <1>1, <1>2

\* The newest of some rows is one of them.
LEMMA NewestIsOne ==
    ASSUME NEW n \in Nat, NEW S \in SUBSET (1..n), S # {}
    PROVE  Max(S) \in S
<1> DEFINE Above == {m \in Nat : \A q \in S : q <= m}
<1>1. Above \in SUBSET Nat /\ n \in Above
  OBVIOUS
<1>2. \A m \in Above : \A q \in S : q <= m
  OBVIOUS
<1>3. \A m \in Nat : (\A q \in S : q <= m) => m \in Above
  OBVIOUS
<1> HIDE DEF Above
<1>4. PICK m \in Above : \A q \in Above : m <= q
  BY <1>1, LeastOf
<1>5. m \in Nat /\ \A q \in S : q \in Nat /\ q <= m
  BY <1>1, <1>2
<1>6. m \in S
  <2> SUFFICES ASSUME m \notin S PROVE FALSE
    OBVIOUS
  <2>1. \A q \in S : q <= m - 1
    BY <1>5
  <2>2. m - 1 \in Nat
    <3>1. PICK q \in S : TRUE
      OBVIOUS
    <3>2. q \in Nat /\ q <= m - 1
      BY <1>5, <2>1
    <3> QED  BY <1>5, <3>2
  <2>3. m - 1 \in Above
    BY <1>3, <2>1, <2>2
  <2> QED  BY <1>4, <1>5, <2>3
<1>7. \E x \in S : \A y \in S : x >= y
  BY <1>5, <1>6
<1> QED  BY <1>7 DEF Max

\* A reply that names a row names one there is.
LEMMA KeepReplies ==
    ASSUME NEW owner, NEW type, NEW row, NEW over, rows \in Seq(Row),
           Keep(owner, type, row, over)
    PROVE  reply'.row \in 0..Len(rows')
<1>1. Len(rows) \in Nat /\ DOMAIN rows = 1..Len(rows)
  OBVIOUS
<1>2. CASE Existing(owner, type, row.body) # {}
  <2>1. Existing(owner, type, row.body) \in SUBSET (1..Len(rows))
    BY <1>1 DEF Existing, Visible
  <2>2. Max(Existing(owner, type, row.body)) \in 1..Len(rows)
    BY <1>1, <1>2, <2>1, NewestIsOne
  <2>3. reply'.row = Max(Existing(owner, type, row.body)) /\ rows' = rows
    BY <1>2 DEF Keep, Answer
  <2> QED  BY <1>1, <2>2, <2>3
<1>3. CASE Existing(owner, type, row.body) = {}
  <2>1. CASE over
    <3>1. Refuse("403 quota")
      BY <1>3, <2>1 DEF Keep
    <3>2. reply'.row = 0 /\ rows' = rows
      BY <3>1 DEF Refuse, Answer
    <3> QED  BY <1>1, <3>2
  <2>2. CASE ~over /\ NoRoom(PrefixLength[row.media], PathLimit)
    <3>1. Refuse("500")
      BY <1>3, <2>2 DEF Keep
    <3>2. reply'.row = 0 /\ rows' = rows
      BY <3>1 DEF Refuse, Answer
    <3> QED  BY <1>1, <3>2
  <2>3. CASE ~over /\ ~NoRoom(PrefixLength[row.media], PathLimit)
    <3>1. rows' = Append(rows, row) /\ reply'.row = Len(rows) + 1
      BY <1>3, <2>3 DEF Keep, Answer
    <3>2. Len(rows') = Len(rows) + 1
      BY <3>1
    <3> QED  BY <1>1, <3>1, <3>2
  <2> QED  BY <2>1, <2>2, <2>3
<1> QED  BY <1>2, <1>3

\* One more row, all of them in order, and the reply.
Grows(row) == rows' = Append(rows, row) /\ Len(rows) < MaxRows /\ RowOK(row)

LEMMA PostStores ==
    ASSUME conf \in Deployments, rows \in Seq(Row), NEW door \in Doors,
           NEW caller \in Users \cup Guests, NEW asked \in AskedTypes, NEW part \in Parts,
           Post(door, caller, asked, part)
    PROVE  /\ conf' = conf /\ reply'.row \in 0..Len(rows')
           /\ \/ rows' = rows
              \/ \E row : /\ Grows(row) /\ row.owner = caller /\ row.body = part.body
                          /\ ~QuotaExceeded(caller, part.body.size)
<1> DEFINE type == UploadType(door, asked)
           tests == << <<caller \notin Permitted(door), "403">>,
                       <<TypeVerdict(door, asked) # "ok", TypeVerdict(door, asked)>>,
                       <<Validate(door, part) # "ok", Validate(door, part)>> >>
           media == MediaOf(door)
           row == NewRow(caller, type, media, part.body, part.ext, part.stem)
           over == QuotaExceeded(caller, part.body.size)
<1>1. /\ conf' = conf
      /\ IF FirstOf(tests) # "ok" THEN Refuse(FirstOf(tests)) ELSE Keep(caller, type, row, over)
  BY DEF Post
<1>2. CASE FirstOf(tests) # "ok"
  <2>1. rows' = rows /\ reply'.row = 0 /\ Len(rows) \in Nat
    BY <1>1, <1>2 DEF Refuse, Answer
  <2> QED  BY <1>1, <2>1
<1>3. CASE FirstOf(tests) = "ok"
  <2>1. Keep(caller, type, row, over)
    BY <1>1, <1>3
  <2>2. DOMAIN tests = 1..3
    OBVIOUS
  <2>3. tests[1][1] <=> caller \notin Permitted(door)
    OBVIOUS
  <2>4. tests[2][1] <=> TypeVerdict(door, asked) # "ok"
    OBVIOUS
  <2>5. tests[3][1] <=> Validate(door, part) # "ok"
    OBVIOUS
  <2>6. /\ tests[1][2] = "403" /\ tests[2][2] = TypeVerdict(door, asked)
        /\ tests[3][2] = Validate(door, part)
    OBVIOUS
  <2>7. caller \in Permitted(door) /\ TypeVerdict(door, asked) = "ok" /\ Validate(door, part) = "ok"
    <3> HIDE DEF tests
    <3>1. \A i : i \in 1..3 <=> i \in {1, 2, 3}
      OBVIOUS
    <3>2. \/ \A i \in 1..3 : ~tests[i][1]
          \/ \E i \in 1..3 : tests[i][1] /\ FirstOf(tests) = tests[i][2]
      BY <2>2, GateAnswers
    <3>3. \A i \in 1..3 : ~tests[i][1]
      BY <1>3, <2>4, <2>5, <2>6, <3>1, <3>2
    <3> QED  BY <2>3, <2>4, <2>5, <3>1, <3>3
  <2>8. reply'.row \in 0..Len(rows')
    <3> HIDE DEF row, over, type
    <3> QED  BY <2>1, KeepReplies
  <2>9. \/ rows' = rows
        \/ /\ rows' = Append(rows, row) /\ Len(rows) < MaxRows
           /\ ~over /\ ~NoRoom(PrefixLength[row.media], PathLimit)
    <3> HIDE DEF row, over, type
    <3>1. Len(rows) \in Nat
      OBVIOUS
    <3> QED  BY <2>1, <3>1, KeepAppends
  <2>10. /\ row.media = media /\ row.type = type /\ row.owner = caller /\ row.body = part.body
         /\ row.dims = Dimensions(media, part.body, part.ext)
    <3> HIDE DEF type, media, tests
    <3> QED  BY DEF NewRow
  <2>11. /\ part \in Part /\ part.body \in Body /\ Len(part.ext) \in Nat /\ part.stem \in Nat
         /\ MAX_IMAGE_PIXELS \in Nat /\ \A m \in {"image", "video", "audio", "file"} : MaxSize[m] \in Nat
    BY SettingsAssumption DEF Part
  <2>12. media \in {"image", "video", "audio", "file"}
    BY DEF Doors, MediaOf
  <2>13. /\ caller # Pool /\ (caller \in Guests => door = "avatar")
    BY <2>7, SettingsAssumption DEF Permitted
  <2>14. /\ media = "image" => /\ part.body.size <= MaxSize["image"]
                               /\ ValidateImageFile(part.body, part.ext) = "ok"
         /\ media # "image" => /\ part.body.size <= MaxSize[media] /\ part.body.form # "markup"
                               /\ type = media
    <3>1. CASE media = "image"
      <4>1. ValidateImageUpload(part) = "ok"
        BY <2>7, <3>1 DEF Validate, MediaOf
      <4> QED  BY <2>11, <3>1, <4>1, ImageUploadPasses
    <3>2. CASE door \in {"video", "audio"}
      <4>1. ValidateClipUpload(door, part) = "ok" /\ media = door /\ type = door /\ media # "image"
        BY <2>7, <3>2 DEF Validate, MediaOf, UploadType
      <4> QED  BY <2>11, <3>2, <4>1, ClipUploadPasses
    <3>3. CASE door = "file"
      <4>1. ValidateFileUpload(part) = "ok" /\ media = door /\ type = door /\ media # "image"
        BY <2>7, <3>3 DEF Validate, MediaOf, UploadType
      <4> QED  BY <2>11, <3>3, <4>1, FileUploadPasses
    <3> QED  BY <3>1, <3>2, <3>3 DEF Doors, MediaOf
  <2>15. media = "image" => type \in conf.types \cup {"avatar"}
    <3>1. CASE door \in {"image", "typed"}
      BY <2>7, <3>1, TypePasses
    <3>2. CASE door = "avatar"
      BY <3>2 DEF UploadType
    <3> QED  BY <3>1, <3>2 DEF Doors, MediaOf
  <2>16. type \in StoredTypes
    <3>1. conf.types \subseteq AskedTypes
      BY DEF AskedTypes
    <3> QED  BY <2>12, <2>14, <2>15, <3>1 DEF StoredTypes
  <2>17. door = "avatar" => type = "avatar"
    BY DEF UploadType
  <2> HIDE DEF type, media, over, tests
  <2>18. ASSUME ~NoRoom(PrefixLength[row.media], PathLimit) PROVE RowOK(row)
    <3>1. row \in Row
      <4>1. caller \in Owners /\ part.body \in {p.body : p \in Parts} \cup Fetched
        BY DEF Owners
      <4> QED  BY <2>10, <2>11, <2>12, <2>16, <2>18, <4>1, NewRowTypes
    <3> HIDE DEF row
    <3>2. Vetted(row)
      <4>1. media = "image" =>
               IF conf.decodes = {} THEN ~conf.require /\ Sniff(part.body) # "none"
               ELSE part.body.form \in conf.decodes /\ part.body.pixels <= MAX_IMAGE_PIXELS
        BY <2>11, <2>14, ImageFileVetted
      <4> QED  BY <2>10, <2>13, <2>14, <2>17, <4>1 DEF Vetted
    <3>3. row.dims = "placeholder" => conf.decodes = {}
      <4>1. media = "image" /\ conf.decodes # {} => DecodeDimensions(part.body, part.ext, FALSE) = "ok"
        BY <2>11, <2>14, ImageFileVetted
      <4> QED  BY <2>10, <4>1 DEF Dimensions
    <3> QED  BY <2>10, <2>14, <2>15, <3>1, <3>2, <3>3 DEF RowOK
  <2> HIDE DEF row
  <2> QED  BY <1>1, <2>8, <2>9, <2>10, <2>18 DEF Grows, over
<1> QED  BY <1>2, <1>3

LEMMA ImportStores ==
    ASSUME conf \in Deployments, rows \in Seq(Row),
           NEW type \in AskedTypes, NEW body \in Fetched, StoreImport(type, body)
    PROVE  /\ conf' = conf /\ reply'.row \in 0..Len(rows')
           /\ \/ rows' = rows
              \/ \E row : Grows(row) /\ row.owner = Pool /\ row.body = body
<1> DEFINE ext == Sniff(body)
           tests == << <<type \notin conf.types, "invalid_image_type">>,
                       <<DetectImageExtension(body) # "ok", DetectImageExtension(body)>> >>
           row == NewRow(Pool, type, "image", body, ext, ImportStem)
           fresh == Existing(Pool, type, body) = {} /\ ValidateImageFile(body, ext) # "ok"
<1>1. /\ conf' = conf /\ body.size <= IMPORT_FROM_URL_MAX_BYTES
      /\ IF FirstOf(tests) # "ok" THEN Refuse(FirstOf(tests))
         ELSE IF fresh THEN Refuse("invalid_image_file")
         ELSE Keep(Pool, type, row, FALSE)
  BY DEF StoreImport
<1>2. CASE FirstOf(tests) # "ok" \/ fresh
  <2>1. rows' = rows /\ reply'.row = 0 /\ Len(rows) \in Nat
    <3>1. Refuse(FirstOf(tests)) \/ Refuse("invalid_image_file")
      BY <1>1, <1>2
    <3> QED  BY <3>1 DEF Refuse, Answer
  <2> QED  BY <1>1, <2>1
<1>3. CASE FirstOf(tests) = "ok" /\ ~fresh
  <2>1. Keep(Pool, type, row, FALSE)
    BY <1>1, <1>3
  <2>2. DOMAIN tests = 1..2
    OBVIOUS
  <2>3. tests[1][1] <=> type \notin conf.types
    OBVIOUS
  <2>4. tests[2][1] <=> DetectImageExtension(body) # "ok"
    OBVIOUS
  <2>5. tests[1][2] = "invalid_image_type" /\ tests[2][2] = DetectImageExtension(body)
    OBVIOUS
  <2>6. type \in conf.types /\ DetectImageExtension(body) = "ok"
    <3> HIDE DEF tests
    <3>1. \A i : i \in 1..2 <=> i \in {1, 2}
      OBVIOUS
    <3>2. \/ \A i \in 1..2 : ~tests[i][1]
          \/ \E i \in 1..2 : tests[i][1] /\ FirstOf(tests) = tests[i][2]
      BY <2>2, GateAnswers
    <3>3. \A i \in 1..2 : ~tests[i][1]
      BY <1>3, <2>4, <2>5, <3>1, <3>2
    <3> QED  BY <2>3, <2>4, <3>1, <3>3
  <2>7. /\ row.media = "image" /\ row.type = type /\ row.owner = Pool /\ row.body = body
        /\ row.dims = Dimensions("image", body, ext)
    <3> HIDE DEF ext, tests
    <3> QED  BY DEF NewRow
  <2>9. body \in Body /\ body.size \in Nat /\ MAX_IMAGE_PIXELS \in Nat /\ Pool \notin Guests
    BY SettingsAssumption DEF Body
  <2>8. Len(ext) \in Nat /\ ImportStem \in Nat
    BY <2>6, <2>9, ImportPasses, SettingsAssumption DEF ImportStem
  <2> HIDE DEF ext, tests
  <2>10. reply'.row \in 0..Len(rows')
    <3> HIDE DEF row
    <3> QED  BY <2>1, KeepReplies
  <2>11. \/ rows' = rows
         \/ /\ rows' = Append(rows, row) /\ Len(rows) < MaxRows
            /\ Existing(Pool, type, body) = {}
            /\ ~NoRoom(PrefixLength[row.media], PathLimit)
    <3> HIDE DEF row
    <3>1. Len(rows) \in Nat
      OBVIOUS
    <3> QED  BY <2>1, <2>7, <3>1, KeepAppends
  <2>12. ASSUME ~NoRoom(PrefixLength[row.media], PathLimit), Existing(Pool, type, body) = {}
         PROVE  RowOK(row)
    <3>1. ValidateImageFile(body, ext) = "ok"
      BY <1>3, <2>12
    <3>2. row \in Row
      <4>1. Pool \in Owners /\ body \in {p.body : p \in Parts} \cup Fetched
        BY DEF Owners
      <4>2. conf.types \subseteq AskedTypes
        BY DEF AskedTypes
      <4>3. type \in StoredTypes
        BY <2>6, <4>2 DEF StoredTypes
      <4> QED  BY <2>7, <2>8, <2>12, <4>1, <4>3, NewRowTypes
    <3> HIDE DEF row
    <3>3. IF conf.decodes = {} THEN ~conf.require /\ Sniff(body) # "none"
          ELSE /\ body.form \in conf.decodes /\ body.pixels <= MAX_IMAGE_PIXELS
               /\ DecodeDimensions(body, ext, FALSE) = "ok"
      BY <2>9, <3>1, ImageFileVetted
    <3>4. conf.decodes # {} => body.whole
      BY <2>6, <2>9, ImportPasses
    <3>5. Vetted(row)
      BY <1>1, <2>7, <2>9, <3>3, <3>4 DEF Vetted
    <3>6. row.dims = "placeholder" => conf.decodes = {}
      BY <2>7, <3>3 DEF Dimensions
    <3> QED  BY <2>6, <2>7, <3>2, <3>5, <3>6 DEF RowOK
  <2> HIDE DEF row
  <2> QED  BY <1>1, <2>7, <2>10, <2>11, <2>12 DEF Grows
<1> QED  BY <1>2, <1>3

\* The endpoints that only answer, and the answer going out.
LEMMA ReadsStore ==
    ASSUME rows \in Seq(Row),
           \/ \E caller, body : FileExists(caller, body)
           \/ \E refs : Describe(refs)
           \/ \E type : \E processed \in SUBSET (DOMAIN rows) : RandomImage(type, processed)
           \/ Respond
    PROVE  conf' = conf /\ rows' = rows /\ reply'.row \in 0..Len(rows')
<1>1. Len(rows) \in Nat /\ DOMAIN rows = 1..Len(rows)
  OBVIOUS
<1>2. ASSUME NEW caller, NEW body, FileExists(caller, body)
      PROVE  conf' = conf /\ rows' = rows /\ reply'.row \in 0..Len(rows')
  <2> DEFINE media == ExistsAs(caller, body)
             held == Held(caller, media, body)
             tests == [k \in DOMAIN Kinds |-> <<Held(caller, Kinds[k], body) # {}, Kinds[k]>>]
  <2>1. /\ reply' = [code |-> media, row |-> IF media = "ok" THEN 0 ELSE Max(held)]
        /\ conf' = conf /\ rows' = rows
    BY <1>2 DEF FileExists, Answer
  <2>2. media = "ok" \/ held # {}
    <3>1. DOMAIN Kinds = 1..4
      BY DEF Kinds
    <3>2. DOMAIN tests = 1..4 /\ media = FirstOf(tests)
      BY <3>1 DEF ExistsAs
    <3>3. \A k \in 1..4 : tests[k][2] = Kinds[k]
      BY <3>1
    <3>4. \A k \in 1..4 : tests[k][1] <=> Held(caller, Kinds[k], body) # {}
      BY <3>1
    <3> HIDE DEF tests, media
    <3>5. media = "ok" \/ \E k \in 1..4 : tests[k][1] /\ media = tests[k][2]
      BY <3>2, GateAnswers
    <3>6. ASSUME NEW k \in 1..4, tests[k][1], media = tests[k][2]
          PROVE  held # {}
      <4>1. media = Kinds[k] /\ Held(caller, Kinds[k], body) # {}
        BY <3>3, <3>4, <3>6
      <4> QED  BY <4>1
    <3> QED  BY <3>5, <3>6
  <2>3. held \in SUBSET (1..Len(rows))
    BY <1>1 DEF Held
  <2> HIDE DEF media, held
  <2>4. held # {} => Max(held) \in 1..Len(rows)
    BY <1>1, <2>3, NewestIsOne
  <2>5. reply'.row = IF media = "ok" THEN 0 ELSE Max(held)
    BY <2>1
  <2> QED  BY <1>1, <2>1, <2>2, <2>4, <2>5
<1>3. ASSUME NEW refs, Describe(refs)
      PROVE  conf' = conf /\ rows' = rows /\ reply'.row \in 0..Len(rows')
  BY <1>1, <1>3 DEF Describe, Answer
<1>4. ASSUME NEW asked, NEW processed \in SUBSET (DOMAIN rows), RandomImage(asked, processed)
      PROVE  conf' = conf /\ rows' = rows /\ reply'.row \in 0..Len(rows')
  <2> DEFINE found == {i \in processed : rows[i].type = asked /\ rows[i].media = "image"}
  <2>1. conf' = conf /\ rows' = rows
    BY <1>4 DEF RandomImage
  <2>2. IF asked \notin conf.types THEN Answer("400 image type", 0)
        ELSE IF found = {} THEN Answer("404", 0) ELSE \E i \in found : Answer("200", i)
    BY <1>4 DEF RandomImage
  <2>3. reply'.row = 0 \/ \E i \in found : reply'.row = i
    <3>1. ASSUME NEW code, NEW i, Answer(code, i) PROVE reply'.row = i
      BY <3>1 DEF Answer
    <3> HIDE DEF found
    <3>2. \/ Answer("400 image type", 0)
          \/ Answer("404", 0)
          \/ \E i \in found : Answer("200", i)
      BY <2>2
    <3> QED  BY <3>1, <3>2
  <2>4. found \subseteq 1..Len(rows)
    BY <1>1
  <2> HIDE DEF found
  <2>5. reply'.row \in 0..Len(rows)
    BY <1>1, <2>3, <2>4
  <2>6. reply'.row \in 0..Len(rows')
    BY <2>1, <2>5, Zenon
  <2> QED  BY <2>1, <2>6, Zenon
<1>5. ASSUME Respond PROVE conf' = conf /\ rows' = rows /\ reply'.row \in 0..Len(rows')
  <2>1. conf' = conf /\ rows' = rows /\ reply'.row = 0
    BY <1>5 DEF Respond, NoReply
  <2> QED  BY <1>1, <2>1
<1> QED  BY <1>2, <1>3, <1>4, <1>5


\* Only an import or an owner within the quota adds a row.
Paid(row) == row.owner = Pool \/ ~QuotaExceeded(row.owner, row.body.size)

LEMMA NextStores ==
    ASSUME conf \in Deployments, rows \in Seq(Row), DoorsNext
    PROVE  /\ conf' = conf /\ reply'.row \in 0..Len(rows')
           /\ rows' = rows \/ \E row : Grows(row) /\ Paid(row)
<1> DEFINE Stores == /\ conf' = conf /\ reply'.row \in 0..Len(rows')
                     /\ rows' = rows \/ \E row : Grows(row) /\ Paid(row)
<1>1. ASSUME NEW door \in Doors, NEW caller \in Users \cup Guests, NEW asked \in AskedTypes,
             NEW part \in Parts, Post(door, caller, asked, part)
      PROVE  Stores
  <2>1. /\ conf' = conf /\ reply'.row \in 0..Len(rows')
        /\ \/ rows' = rows
           \/ \E row : /\ Grows(row) /\ row.owner = caller /\ row.body = part.body
                       /\ ~QuotaExceeded(caller, part.body.size)
    BY <1>1, PostStores
  <2>2. ASSUME NEW row, row.owner = caller, row.body = part.body,
               ~QuotaExceeded(caller, part.body.size)
        PROVE  Paid(row)
    BY <2>2 DEF Paid
  <2> QED  BY <2>1, <2>2
<1>2. ASSUME NEW type \in AskedTypes, NEW body \in Fetched, StoreImport(type, body)
      PROVE  Stores
  <2>1. /\ conf' = conf /\ reply'.row \in 0..Len(rows')
        /\ rows' = rows \/ \E row : Grows(row) /\ row.owner = Pool
    BY <1>2, ImportStores
  <2> QED  BY <2>1 DEF Paid
<1>3. ASSUME \/ \E caller, body : FileExists(caller, body)
             \/ \E refs : Describe(refs)
             \/ \E type : \E processed \in SUBSET (DOMAIN rows) : RandomImage(type, processed)
             \/ Respond
      PROVE  Stores
  BY <1>3, ReadsStore
<1>4. \/ \E door \in Doors, caller \in Users \cup Guests, asked \in AskedTypes, part \in Parts :
            Post(door, caller, asked, part)
      \/ \E type \in AskedTypes, body \in Fetched : StoreImport(type, body)
      \/ \E caller, body : FileExists(caller, body)
      \/ \E refs : Describe(refs)
      \/ \E type : \E processed \in SUBSET (DOMAIN rows) : RandomImage(type, processed)
      \/ Respond
  <2>1. "" \in AskedTypes
    BY DEF AskedTypes
  <2>2. {"image", "typed", "avatar", "video", "audio", "file"} \subseteq Doors
    BY DEF Doors
  <2>3. ASSUME NEW caller \in Users \cup Guests, NEW part \in Parts, NEW asked \in AskedTypes,
               ImageUpload(caller, asked, part) \/ TypedUpload(caller, asked, part)
        PROVE  \E door \in Doors : Post(door, caller, asked, part)
    BY <2>2, <2>3 DEF ImageUpload, TypedUpload
  <2>4. ASSUME NEW caller \in Users \cup Guests, NEW part \in Parts,
               \/ AvatarUpload(caller, part) \/ VideoUpload(caller, part)
               \/ AudioUpload(caller, part) \/ FileUpload(caller, part)
        PROVE  \E door \in Doors : Post(door, caller, "", part)
    BY <2>2, <2>4 DEF AvatarUpload, VideoUpload, AudioUpload, FileUpload
  <2>5. Handle \/ Respond
    BY DEF DoorsNext
  <2>6. CASE Handle
    <3>1. \/ \E caller \in Users \cup Guests, part \in Parts, asked \in AskedTypes :
                ImageUpload(caller, asked, part) \/ TypedUpload(caller, asked, part)
          \/ \E caller \in Users \cup Guests, part \in Parts :
                \/ AvatarUpload(caller, part) \/ VideoUpload(caller, part)
                \/ AudioUpload(caller, part) \/ FileUpload(caller, part)
          \/ \E type \in AskedTypes, body \in Fetched : StoreImport(type, body)
          \/ \E caller, body : FileExists(caller, body)
          \/ \E refs : Describe(refs)
          \/ \E type : \E processed \in SUBSET (DOMAIN rows) : RandomImage(type, processed)
      BY <2>6, Zenon DEF Handle
    <3> QED  BY <2>1, <2>3, <2>4, <3>1, Zenon
  <2> QED  BY <2>5, <2>6
<1> HIDE DEF Stores
<1>5. Stores
  BY <1>1, <1>2, <1>3, <1>4, Zenon
<1> QED  BY <1>5 DEF Stores

(***************************************************************************)
(* Every row stored was let in                                             *)
(***************************************************************************)

\* The inductive invariant: what a row must have been to be stored.
Inv == /\ conf \in Deployments
       /\ rows \in Seq(Row)
       /\ Len(rows) <= MaxRows
       /\ reply.row \in 0..Len(rows)
       /\ \A i \in DOMAIN rows : RowOK(rows[i])

LEMMA InvInit == ASSUME DoorsInit PROVE Inv
<1>1. rows \in Seq(Row) /\ Len(rows) = 0 /\ DOMAIN rows = {}
  BY DEF DoorsInit
<1>2. reply.row = 0 /\ conf \in Deployments /\ MaxRows \in Nat
  BY SettingsAssumption DEF DoorsInit, NoReply
<1> QED  BY <1>1, <1>2 DEF Inv

LEMMA InvStep == ASSUME Inv, [DoorsNext]_doorsVars PROVE Inv'
<1>1. /\ conf \in Deployments /\ rows \in Seq(Row) /\ Len(rows) <= MaxRows
      /\ reply.row \in 0..Len(rows) /\ \A i \in DOMAIN rows : RowOK(rows[i])
  BY DEF Inv
<1>2. CASE UNCHANGED doorsVars
  BY <1>2 DEF doorsVars, Inv, RowOK, Vetted, Undecodable
<1>3. CASE DoorsNext
  <2>1. /\ conf' = conf /\ reply'.row \in 0..Len(rows')
        /\ rows' = rows \/ \E row : Grows(row) /\ Paid(row)
    BY <1>1, <1>3, NextStores
  <2>2. \A row : RowOK(row) <=> RowOK(row)'
    BY <2>1 DEF RowOK, Vetted
  <2>3. CASE rows' = rows
    BY <1>1, <2>1, <2>2, <2>3 DEF Inv
  <2>4. ASSUME NEW row, Grows(row)
        PROVE  Inv'
    <3>1. rows' = Append(rows, row) /\ Len(rows) < MaxRows /\ RowOK(row)
      BY <2>4 DEF Grows
    <3>2. row \in Row
      BY <3>1 DEF RowOK
    <3>3. rows' \in Seq(Row) /\ Len(rows') = Len(rows) + 1 /\ Len(rows) \in Nat
      BY <1>1, <3>1, <3>2
    <3>4. MaxRows \in Nat
      BY SettingsAssumption
    <3>5. \A i \in DOMAIN rows' : rows'[i] = row \/ (i \in DOMAIN rows /\ rows'[i] = rows[i])
      BY <1>1, <3>1, <3>2
    <3>6. \A i \in DOMAIN rows' : RowOK(rows'[i])
      BY <1>1, <3>1, <3>5
    <3>7. (\A i \in DOMAIN rows : RowOK(rows[i]))'
      BY <2>2, <3>6
    <3>8. Len(rows') <= MaxRows /\ conf' \in Deployments
      BY <1>1, <2>1, <3>1, <3>3, <3>4
    <3> QED  BY <2>1, <3>3, <3>7, <3>8 DEF Inv
  <2> QED  BY <2>1, <2>3, <2>4
<1> QED  BY <1>2, <1>3


\* The types hold at every moment: a stored row has the columns of its table
\* and a name and a path cut to them, and a reply names a row there is.
THEOREM DoorsTypeCorrect == DoorsSpec => []DoorsTypeOK
<1>1. Inv => DoorsTypeOK
  <2> SUFFICES ASSUME Inv PROVE DoorsTypeOK
    OBVIOUS
  <2>1. /\ conf \in Deployments /\ rows \in Seq(Row) /\ Len(rows) <= MaxRows
        /\ reply.row \in 0..Len(rows)
    BY DEF Inv
  <2>2. \A i \in DOMAIN rows : rows[i] \in Row
    BY <2>1
  <2> QED  BY <2>1, <2>2 DEF DoorsTypeOK
<1> QED  BY <1>1, InvInit, InvStep, PTL DEF DoorsSpec

\* Whatever the door, the caller and the settings, a row that is stored has
\* passed the gate of its media: size, decoder, pixels, no markup where the
\* media is served as it is, guests with avatars only (the upload views and
\* import_from_url).
THEOREM StoredIsVettedAlways == DoorsSpec => []StoredIsVetted
<1>1. Inv => StoredIsVetted
  BY DEF Inv, StoredIsVetted, RowOK
<1> QED  BY <1>1, InvInit, InvStep, PTL DEF DoorsSpec

\* A placeholder dimension is stored only where nothing decodes: the gate and
\* Image.save put the same question to the same decoder.
THEOREM DimensionsAreRealAlways == DoorsSpec => []DimensionsAreReal
<1>1. Inv => DimensionsAreReal
  BY DEF Inv, DimensionsAreReal, RowOK
<1> QED  BY <1>1, InvInit, InvStep, PTL DEF DoorsSpec

\* Where the types have the avatar and none of the reserved prefixes, the ref
\* of every row resolves, to that row or an older one of the same content
\* (services._batch_resolve_media against what the doors store).
THEOREM RefsResolveAlways == DoorsSpec => []RefsResolve
<1>1. ASSUME Inv PROVE RefsResolve
  <2> SUFFICES ASSUME RefPrefixesApart, NEW i \in DOMAIN rows
               PROVE  \E j \in Resolve(Ref(rows[i])) : j <= i
    BY DEF RefsResolve
  <2>1. RowOK(rows[i]) /\ i \in Nat
    BY <1>1 DEF Inv
  <2>2. /\ rows[i].media \in {"image", "video", "audio", "file"}
        /\ rows[i].media = "image" => rows[i].type \in conf.types \cup {"avatar"}
        /\ rows[i].media # "image" => rows[i].type = rows[i].media
    BY <2>1 DEF RowOK, Row
  <2> DEFINE ref == Ref(rows[i])
  <2>3. ref.type = rows[i].type /\ ref.body = rows[i].body
    BY DEF Ref
  <2> HIDE DEF ref
  <2>4. "avatar" \in conf.types /\ conf.types \cap {"video", "audio", "file"} = {}
    BY DEF RefPrefixesApart
  <2>5. ResolvedMedia(ref) = rows[i].media
    <3>1. CASE rows[i].media = "image"
      BY <2>2, <2>3, <2>4, <3>1 DEF ResolvedMedia
    <3>2. CASE rows[i].media # "image"
      <4>1. ref.type \in {"video", "file", "audio"} /\ ref.type \notin conf.types
        BY <2>2, <2>3, <2>4, <3>2
      <4> QED  BY <2>2, <2>3, <3>2, <4>1 DEF ResolvedMedia
    <3> QED  BY <3>1, <3>2
  <2>6. i \in Resolve(ref)
    BY <2>3, <2>5 DEF Resolve
  <2>7. i <= i
    BY <2>1
  <2> QED  BY <2>6, <2>7 DEF ref
<1> QED  BY <1>1, InvInit, InvStep, PTL DEF DoorsSpec

\* In the default scope, whatever an upload would answer "already there" for,
\* the check before uploads says exists (`_exists_response` asks every kind of
\* media an upload looks among).
THEOREM ExistsBeforeUploadAlways == DoorsSpec => []ExistsBeforeUpload
<1>1. ASSUME Inv PROVE ExistsBeforeUpload
  <2> SUFFICES ASSUME conf.scope = "owner", NEW caller \in Users, NEW type \in StoredTypes,
                      NEW part \in Parts, Existing(caller, type, part.body) # {}
               PROVE  ExistsAs(caller, part.body) # "ok"
    BY DEF ExistsBeforeUpload
  <2> DEFINE body == part.body
             tests == [k \in DOMAIN Kinds |-> <<Held(caller, Kinds[k], body) # {}, Kinds[k]>>]
  <2>1. PICK i \in DOMAIN rows : rows[i].owner = caller /\ rows[i].body = body
    BY "owner" # "global" DEF Existing, Visible
  <2>2. rows[i].media \in {"image", "video", "audio", "file"}
    BY <1>1 DEF Inv, RowOK, Row
  <2>3. DOMAIN Kinds = 1..4 /\ \A k \in 1..4 : Kinds[k] # "ok"
    BY DEF Kinds
  <2>4. PICK k \in 1..4 : Kinds[k] = rows[i].media
    BY <2>2 DEF Kinds
  <2>5. Held(caller, Kinds[k], body) # {}
    BY <2>1, <2>4 DEF Held
  <2>6. DOMAIN tests = 1..4 /\ ExistsAs(caller, body) = FirstOf(tests)
    BY <2>3 DEF ExistsAs
  <2>7. \A q \in 1..4 : tests[q][2] = Kinds[q]
    BY <2>3
  <2>8. tests[k][1] <=> Held(caller, Kinds[k], body) # {}
    BY <2>3
  <2> HIDE DEF tests, body
  <2>9. \/ \A q \in 1..4 : ~tests[q][1]
        \/ \E q \in 1..4 : FirstOf(tests) = tests[q][2]
    BY <2>6, GateAnswers
  <2>10. FirstOf(tests) # "ok"
    BY <2>3, <2>5, <2>7, <2>8, <2>9
  <2> QED  BY <2>6, <2>10 DEF body
<1> QED  BY <1>1, InvInit, InvStep, PTL DEF DoorsSpec


(***************************************************************************)
(* The quota                                                               *)
(***************************************************************************)

LEMMA TotalIsNat ==
    ASSUME NEW stored, NEW n \in Nat, NEW S \in SUBSET (1..n), \A i \in 1..n : i \in DOMAIN stored,
           \A i \in 1..n : stored[i].body.size \in Nat
    PROVE  TotalBytes(stored, S) \in Nat
<1> DEFINE size == [i \in DOMAIN stored |-> stored[i].body.size]
<1>1. \A i \in 1..n : size[i] \in Nat
  OBVIOUS
<1> HIDE DEF size
<1>2. SumFunctionOnSet(size, S) \in Nat
  BY <1>1, SumIsNat
<1> QED  BY <1>2 DEF TotalBytes, size

\* Bodies outside a set do not matter to its sum.
LEMMA TotalSame ==
    ASSUME NEW stored, NEW grown, NEW n \in Nat, NEW S \in SUBSET (1..n),
           \A i \in 1..n : i \in DOMAIN stored /\ i \in DOMAIN grown,
           \A i \in 1..n : stored[i].body.size \in Nat,
           \A i \in 1..n : grown[i] = stored[i]
    PROVE  TotalBytes(grown, S) = TotalBytes(stored, S)
<1> DEFINE f == [i \in DOMAIN stored |-> stored[i].body.size]
           g == [i \in DOMAIN grown |-> grown[i].body.size]
<1>1. \A i \in 1..n : f[i] \in Nat /\ g[i] = f[i]
  OBVIOUS
<1> HIDE DEF f, g
<1>2. SumFunctionOnSet(g, S) = SumFunctionOnSet(f, S)
  BY <1>1, SumSame
<1> QED  BY <1>2 DEF TotalBytes, f, g

\* One body more adds its size to a set it joins.
LEMMA TotalOneMore ==
    ASSUME NEW stored, NEW n \in Nat, NEW S \in SUBSET (1..n),
           \A i \in 1..(n + 1) : i \in DOMAIN stored,
           \A i \in 1..(n + 1) : stored[i].body.size \in Nat
    PROVE  TotalBytes(stored, S \cup {n + 1}) = TotalBytes(stored, S) + stored[n + 1].body.size
<1> DEFINE f == [i \in DOMAIN stored |-> stored[i].body.size]
           m == n + 1
<1>1. (\A i \in 1..m : f[i] \in Nat) /\ f[m] = stored[m].body.size
  OBVIOUS
<1>2. m \in Nat /\ S \in SUBSET (1..m) /\ m \in (1..m) \ S
  OBVIOUS
<1> HIDE DEF f, m
<1>3. SumFunctionOnSet(f, S \cup {m}) = SumFunctionOnSet(f, S) + f[m]
  BY <1>1, <1>2, SumOneMore
<1> QED  BY <1>1, <1>3 DEF TotalBytes, f, m

\* What a ceiling admits it holds.
LEMMA UnderCeiling ==
    ASSUME NEW raw \in Seq(Int), Len(raw) <= 1, NEW default \in Nat, NEW used \in Nat,
           ~Over(QuotaCeiling(raw, default), used), raw # <<>>
    PROVE  used <= IF raw[1] > 0 THEN raw[1] ELSE default
<1>1. Len(raw) = 1 /\ raw[1] \in Int
  <2>1. Len(raw) # 0 /\ Len(raw) \in Nat
    BY EmptySeq
  <2>2. Len(raw) = 1
    <3>1. \A l \in Nat : l # 0 /\ l <= 1 => l = 1
      OBVIOUS
    <3> QED  BY <2>1, <3>1, Zenon
  <2>3. 1 \in 1..Len(raw)
    BY <2>2
  <2> QED  BY <2>2, <2>3
<1> DEFINE ceiling == IF raw[1] > 0 THEN raw[1] ELSE default
<1>2. QuotaCeiling(raw, default) = ceiling
  BY DEF QuotaCeiling
<1>3. ceiling \in Nat
  BY <1>1
<1> HIDE DEF ceiling
<1>4. used <= ceiling
  BY <1>2, <1>3 DEF Over, NoCeiling
<1> QED  BY <1>4 DEF ceiling

LEMMA QuotaInit == ASSUME DoorsInit PROVE QuotaHolds
<1>1. conf \in Deployments /\ DOMAIN rows = {}
  BY DEF DoorsInit
<1>2. ASSUME NEW owner \in Users \cup Guests PROVE OwnerRows(owner) = {}
  BY <1>1 DEF OwnerRows
<1>3. Cardinality({}) = 0
  BY FS_EmptySet
<1>4. TotalBytes(rows, {}) = 0
  BY SumOfNone DEF TotalBytes
<1>5. /\ conf.objects \in Seq(Int) /\ Len(conf.objects) <= 1
      /\ conf.bytes \in Seq(Int) /\ Len(conf.bytes) <= 1
      /\ DefaultObjects \in Nat /\ DefaultBytes \in Nat
  BY <1>1, SettingsAssumption
<1>6. \A raw \in Seq(Int), default \in Nat :
         raw # <<>> => 0 <= IF raw[1] > 0 THEN raw[1] ELSE default
  OBVIOUS
<1> QED  BY <1>2, <1>3, <1>4, <1>5, <1>6 DEF QuotaHolds, OwnerRows


LEMMA QuotaStep == ASSUME Inv, QuotaHolds, [DoorsNext]_doorsVars PROVE QuotaHolds'
<1>1. conf \in Deployments /\ rows \in Seq(Row) /\ \A i \in DOMAIN rows : RowOK(rows[i])
  BY DEF Inv
<1>2. CASE rows' = rows /\ conf' = conf
  BY <1>2 DEF QuotaHolds
<1>3. ASSUME conf' = conf, NEW row, Grows(row), Paid(row)
      PROVE  QuotaHolds'
  <2> DEFINE n == Len(rows)
  <2>1. rows' = Append(rows, row) /\ RowOK(row)
    BY <1>3 DEF Grows
  <2>2. row \in Row /\ \A i \in DOMAIN rows : rows[i] \in Row
    BY <1>1, <2>1 DEF RowOK
  <2>3. n \in Nat /\ DOMAIN rows = 1..n /\ DOMAIN rows' = 1..(n + 1)
    BY <1>1, <2>1, <2>2
  <2>4. rows'[n + 1] = row /\ \A i \in 1..n : rows'[i] = rows[i]
    BY <1>1, <2>1, <2>2
  <2>5. \A i \in 1..(n + 1) : rows'[i].body.size \in Nat
    <3>1. \A r \in Row : r.body.size \in Nat
      BY SettingsAssumption DEF Row, Part, Body
    <3>2. \A i \in 1..(n + 1) : rows'[i] \in Row
      BY <2>2, <2>3, <2>4
    <3> QED  BY <3>1, <3>2
  <2>6. /\ conf.objects \in Seq(Int) /\ Len(conf.objects) <= 1
        /\ conf.bytes \in Seq(Int) /\ Len(conf.bytes) <= 1
        /\ DefaultObjects \in Nat /\ DefaultBytes \in Nat
    BY <1>1, SettingsAssumption
  <2> HIDE DEF n
  <2>7. ASSUME NEW owner \in Users \cup Guests
        PROVE  LET mine == {i \in DOMAIN rows' : rows'[i].owner = owner}
               IN  /\ conf.objects # <<>> =>
                         Cardinality(mine) <= IF conf.objects[1] > 0 THEN conf.objects[1]
                                              ELSE DefaultObjects
                   /\ conf.bytes # <<>> =>
                         TotalBytes(rows', mine) <= IF conf.bytes[1] > 0 THEN conf.bytes[1]
                                                    ELSE DefaultBytes
    <3> DEFINE mine == {i \in DOMAIN rows' : rows'[i].owner = owner}
               old == OwnerRows(owner)
    <3>1. old \in SUBSET (1..n)
      BY <2>3 DEF OwnerRows
    <3>2. /\ TotalBytes(rows, old) \in Nat
          /\ TotalBytes(rows', old) = TotalBytes(rows, old)
          /\ TotalBytes(rows', old \cup {n + 1}) = TotalBytes(rows, old) + row.body.size
      <4> HIDE DEF mine, old
      <4>1. \A i \in 1..n : rows[i].body.size \in Nat
        BY <2>3, <2>4, <2>5
      <4>2. TotalBytes(rows, old) \in Nat
        BY <2>3, <3>1, <4>1, TotalIsNat
      <4>3. (\A i \in 1..n : i \in DOMAIN rows) /\ \A i \in 1..(n + 1) : i \in DOMAIN rows'
        BY <2>3
      <4>4. \A i \in 1..n : i \in DOMAIN rows /\ i \in DOMAIN rows'
        BY <2>3
      <4>5. TotalBytes(rows', old) = TotalBytes(rows, old)
        BY <2>3, <2>4, <3>1, <4>1, <4>4, TotalSame
      <4>6. TotalBytes(rows', old \cup {n + 1}) = TotalBytes(rows', old) + rows'[n + 1].body.size
        BY <2>3, <2>5, <3>1, <4>3, TotalOneMore
      <4> QED  BY <2>4, <4>2, <4>5, <4>6
    <3>3. IsFiniteSet(old) /\ Cardinality(old) \in Nat
      <4>1. IsFiniteSet(1..n)
        BY <2>3, FS_Interval
      <4>2. IsFiniteSet(old)
        <5> HIDE DEF old
        <5> QED  BY <3>1, <4>1, FS_Subset
      <4> QED  BY <4>2, FS_CardinalityType
    <3>4. CASE row.owner # owner
      <4>1. mine = old
        BY <2>3, <2>4, <3>4 DEF OwnerRows
      <4>2. /\ conf.objects # <<>> =>
                  Cardinality(old) <= IF conf.objects[1] > 0 THEN conf.objects[1]
                                      ELSE DefaultObjects
            /\ conf.bytes # <<>> =>
                  TotalBytes(rows, old) <= IF conf.bytes[1] > 0 THEN conf.bytes[1]
                                           ELSE DefaultBytes
        BY DEF QuotaHolds, OwnerRows
      <4> HIDE DEF mine, old
      <4>3. TotalBytes(rows', mine) = TotalBytes(rows, old)
        BY <3>2, <4>1
      <4> QED  BY <4>1, <4>2, <4>3 DEF mine
    <3>5. CASE row.owner = owner
      <4>1. mine = old \cup {n + 1} /\ n + 1 \notin old
        BY <2>3, <2>4, <3>5 DEF OwnerRows
      <4>2. ~QuotaExceeded(owner, row.body.size)
        BY <1>3, <3>5, SettingsAssumption DEF Paid
      <4>3. /\ ~Over(QuotaCeiling(conf.objects, DefaultObjects), Cardinality(old) + 1)
            /\ ~Over(QuotaCeiling(conf.bytes, DefaultBytes), TotalBytes(rows, old) + row.body.size)
        BY <4>2 DEF QuotaExceeded, UsedBytes
      <4> HIDE DEF mine, old
      <4>4. Cardinality(mine) = Cardinality(old) + 1
        BY <3>3, <4>1, FS_AddElement
      <4>5. TotalBytes(rows', mine) = TotalBytes(rows, old) + row.body.size
        BY <3>2, <4>1
      <4>6. Cardinality(old) + 1 \in Nat
        BY <3>3
      <4>7. TotalBytes(rows, old) + row.body.size \in Nat
        BY <2>3, <2>4, <2>5, <3>2
      <4>8. conf.objects # <<>> =>
               Cardinality(mine) <= IF conf.objects[1] > 0 THEN conf.objects[1]
                                    ELSE DefaultObjects
        BY <2>6, <4>3, <4>4, <4>6, UnderCeiling
      <4>9. conf.bytes # <<>> =>
               TotalBytes(rows', mine) <= IF conf.bytes[1] > 0 THEN conf.bytes[1]
                                          ELSE DefaultBytes
        BY <2>6, <4>3, <4>5, <4>7, UnderCeiling
      <4> QED  BY <4>8, <4>9 DEF mine
    <3> QED  BY <3>4, <3>5
  <2> QED  BY <1>3, <2>7 DEF QuotaHolds
<1>4. CASE UNCHANGED doorsVars
  BY <1>2, <1>4 DEF doorsVars
<1>5. CASE DoorsNext
  BY <1>1, <1>2, <1>3, <1>5, NextStores
<1> QED  BY <1>4, <1>5

\* No owner is ever past a ceiling: whatever was sent, by whichever door and in
\* whichever order, the objects and the bytes of one owner stay within what the
\* settings say, or the shipped ceiling where they say nonsense
\* (ownership.quota_exceeded before every `save` of an upload).
THEOREM QuotaAlwaysHolds == DoorsSpec => []QuotaHolds
BY InvInit, InvStep, QuotaInit, QuotaStep, PTL DEF DoorsSpec


(***************************************************************************)
(* The speed of an upload                                                  *)
(***************************************************************************)

SizesOf(chunks) == [j \in DOMAIN chunks |-> chunks[j].size]

\* What the chunks from the i-th on add up to.
RecentBytes(chunks, i) == SumFunctionOnSet(SizesOf(chunks), i..Len(chunks))

LEMMA SizesAre ==
    ASSUME NEW chunks \in Seq(Chunk)
    PROVE  /\ Len(chunks) \in Nat /\ DOMAIN chunks = 1..Len(chunks)
           /\ \A j \in 1..Len(chunks) : /\ chunks[j].at \in Nat /\ chunks[j].size \in Nat
                                        /\ SizesOf(chunks)[j] = chunks[j].size
<1>1. Len(chunks) \in Nat /\ DOMAIN chunks = 1..Len(chunks)
  OBVIOUS
<1>2. \A j \in 1..Len(chunks) : chunks[j] \in Chunk
  OBVIOUS
<1>3. \A c \in Chunk : c.at \in Nat /\ c.size \in Nat
  BY SpeedAssumption DEF Chunk
<1> QED  BY <1>1, <1>2, <1>3 DEF SizesOf

LEMMA RecentIsNat ==
    ASSUME NEW chunks \in Seq(Chunk), NEW i \in Nat \ {0}
    PROVE  RecentBytes(chunks, i) \in Nat
<1> DEFINE n == Len(chunks)
           S == i..n
           f == SizesOf(chunks)
<1>1. n \in Nat /\ \A j \in 1..n : f[j] \in Nat
  BY SizesAre
<1>2. S \in SUBSET (1..n)
  BY <1>1
<1> HIDE DEF n, S, f
<1>3. SumFunctionOnSet(f, S) \in Nat
  BY <1>1, <1>2, SumIsNat
<1> QED  BY <1>3 DEF RecentBytes, n, S, f

LEMMA RecentNone ==
    ASSUME NEW chunks \in Seq(Chunk)
    PROVE  RecentBytes(chunks, Len(chunks) + 1) = 0
<1>1. (Len(chunks) + 1)..Len(chunks) = {}
  BY SizesAre
<1> QED  BY <1>1, SumOfNone DEF RecentBytes

LEMMA RecentFirst ==
    ASSUME NEW chunks \in Seq(Chunk), NEW i \in 1..Len(chunks)
    PROVE  RecentBytes(chunks, i) = chunks[i].size + RecentBytes(chunks, i + 1)
<1> DEFINE n == Len(chunks)
           S == (i + 1)..n
           f == SizesOf(chunks)
<1>1. /\ n \in Nat /\ \A j \in 1..n : f[j] \in Nat
      /\ f[i] = chunks[i].size
  BY SizesAre
<1>2. S \in SUBSET (1..n) /\ i \in (1..n) \ S /\ S \cup {i} = i..n
  BY <1>1
<1>3. RecentBytes(chunks, i) = SumFunctionOnSet(f, S \cup {i}) /\ RecentBytes(chunks, i + 1) = SumFunctionOnSet(f, S)
  BY <1>2 DEF RecentBytes
<1>4. i + 1 \in Nat \ {0}
  BY <1>1
<1>5. RecentBytes(chunks, i + 1) \in Nat
  BY <1>4, RecentIsNat
<1> HIDE DEF n, S, f
<1>6. SumFunctionOnSet(f, S \cup {i}) = SumFunctionOnSet(f, S) + f[i]
  BY <1>1, <1>2, SumOneMore
<1>7. f[i] \in Nat
  BY <1>1, <1>2
<1>8. \A a, b \in Nat : a + b = b + a
  OBVIOUS
<1> QED  BY <1>1, <1>3, <1>5, <1>6, <1>7, <1>8

\* A chunk that arrives counts in every sum.
LEMMA RecentAppend ==
    ASSUME NEW chunks \in Seq(Chunk), NEW c \in Chunk, NEW i \in 1..(Len(chunks) + 1)
    PROVE  RecentBytes(Append(chunks, c), i) = RecentBytes(chunks, i) + c.size
<1> DEFINE n == Len(chunks)
           m == n + 1
           S == i..n
           f == SizesOf(chunks)
           longer == Append(chunks, c)
           g == SizesOf(longer)
<1>1. longer \in Seq(Chunk) /\ Len(longer) = m
  OBVIOUS
<1>2. \A j \in 1..n : longer[j] = chunks[j]
  OBVIOUS
<1>3. longer[m] = c
  OBVIOUS
<1>4. n \in Nat /\ m \in Nat
  BY SizesAre
<1> HIDE DEF longer
<1>5. /\ \A j \in 1..n : f[j] = chunks[j].size /\ f[j] \in Nat
      /\ \A j \in 1..m : g[j] = longer[j].size /\ g[j] \in Nat
  BY <1>1, SizesAre
<1>6. \A j \in 1..n : g[j] = f[j]
  BY <1>2, <1>4, <1>5
<1>7. g[m] = c.size
  BY <1>3, <1>4, <1>5
<1>8. /\ S \in SUBSET (1..n) /\ S \in SUBSET (1..m) /\ m \in (1..m) \ S
      /\ S \cup {m} = i..m
  BY <1>4
<1>9. RecentBytes(longer, i) = SumFunctionOnSet(g, S \cup {m}) /\ RecentBytes(chunks, i) = SumFunctionOnSet(f, S)
  BY <1>1, <1>8 DEF RecentBytes
<1> HIDE DEF f, g, S, n, m
<1>10. SumFunctionOnSet(g, S \cup {m}) = SumFunctionOnSet(g, S) + g[m]
  BY <1>4, <1>5, <1>8, SumOneMore
<1>11. SumFunctionOnSet(g, S) = SumFunctionOnSet(f, S)
  BY <1>4, <1>5, <1>6, <1>8, SumSame
<1> QED  BY <1>7, <1>9, <1>10, <1>11 DEF longer

LEMMA SinceIs ==
    ASSUME NEW chunks \in Seq(Chunk), NEW k \in 1..Len(chunks)
    PROVE  /\ Since(chunks, k) \in Seq(Chunk)
           /\ Len(Since(chunks, k)) = Len(chunks) + 1 - k
           /\ \A j \in 1..Len(Since(chunks, k)) :
                 /\ j + k - 1 \in 1..Len(chunks)
                 /\ Since(chunks, k)[j] = chunks[j + k - 1]
<1>1. Len(chunks) \in Nat
  OBVIOUS
<1>2. Since(chunks, k) = [j \in 1..(Len(chunks) + 1 - k) |-> chunks[j + k - 1]]
  BY <1>1 DEF Since
<1>3. \A j \in 1..(Len(chunks) + 1 - k) : j + k - 1 \in 1..Len(chunks) /\ chunks[j + k - 1] \in Chunk
  BY <1>1
<1> DEFINE m == Len(chunks) + 1 - k
           left == [j \in 1..m |-> chunks[j + k - 1]]
<1>4. m \in Nat /\ (\A j \in 1..m : left[j] = chunks[j + k - 1] /\ left[j] \in Chunk)
  BY <1>1, <1>3
<1>5. left \in [1..m -> Chunk] /\ DOMAIN left = 1..m
  BY <1>3
<1>6. left \in Seq(Chunk) /\ Len(left) = m
  BY <1>4, <1>5
<1> QED  BY <1>2, <1>3, <1>4, <1>6

\* An eviction changes no sum of what is left.
LEMMA RecentSince ==
    ASSUME NEW chunks \in Seq(Chunk), NEW k \in 1..Len(chunks),
           NEW i \in 1..(Len(Since(chunks, k)) + 1)
    PROVE  RecentBytes(Since(chunks, k), i) = RecentBytes(chunks, i + k - 1)
<1> DEFINE left == Since(chunks, k)
           n == Len(chunks)
           m == Len(left)
           bad == {d \in 0..m : RecentBytes(left, m + 1 - d) # RecentBytes(chunks, n + 1 - d)}
<1>1. /\ left \in Seq(Chunk) /\ m = n + 1 - k /\ n \in Nat /\ m \in Nat
      /\ \A j \in 1..m : left[j] = chunks[j + k - 1]
  BY SinceIs, SizesAre
<1> HIDE DEF left, m, n
<1>2. bad = {}
  <2>1. SUFFICES ASSUME bad # {} PROVE FALSE
    OBVIOUS
  <2>2. bad \in SUBSET Nat
    OBVIOUS
  <2>3. PICK d \in bad : \A q \in bad : d <= q
    <3> HIDE DEF bad
    <3> QED  BY <2>1, <2>2, LeastOf
  <2>4. d \in 0..m /\ RecentBytes(left, m + 1 - d) # RecentBytes(chunks, n + 1 - d)
    BY <2>3
  <2>5. d # 0
    <3>1. RecentBytes(left, m + 1) = 0 /\ RecentBytes(chunks, n + 1) = 0
      BY <1>1, RecentNone DEF m, n
    <3>2. m + 1 - 0 = m + 1 /\ n + 1 - 0 = n + 1
      BY <1>1
    <3> HIDE DEF bad
    <3> QED  BY <2>4, <3>1, <3>2
  <2> DEFINE i1 == m + 1 - d
             i2 == n + 1 - d
  <2>6. /\ i1 \in 1..m /\ i2 \in 1..n /\ i2 = i1 + k - 1
        /\ i1 + 1 = m + 1 - (d - 1) /\ i2 + 1 = n + 1 - (d - 1)
        /\ d - 1 \in 0..m /\ ~(d <= d - 1)
    BY <1>1, <2>4, <2>5
  <2>7. d - 1 \notin bad
    BY <2>3, <2>6
  <2>8. RecentBytes(left, m + 1 - (d - 1)) = RecentBytes(chunks, n + 1 - (d - 1))
    BY <2>6, <2>7
  <2> HIDE DEF bad, i1, i2
  <2>9. RecentBytes(left, i1) = left[i1].size + RecentBytes(left, i1 + 1)
    BY <1>1, <2>6, RecentFirst DEF m
  <2>10. RecentBytes(chunks, i2) = chunks[i2].size + RecentBytes(chunks, i2 + 1)
    BY <1>1, <2>6, RecentFirst DEF n
  <2>11. left[i1] = chunks[i2]
    BY <1>1, <2>6
  <2>12. RecentBytes(left, i1) = RecentBytes(chunks, i2)
    BY <2>6, <2>8, <2>9, <2>10, <2>11
  <2> QED  BY <2>4, <2>12 DEF i1, i2
<1> DEFINE d == m + 1 - i
<1>3. d \in 0..m /\ m + 1 - d = i /\ n + 1 - d = i + k - 1
  BY <1>1 DEF m, left
<1>4. RecentBytes(left, m + 1 - d) = RecentBytes(chunks, n + 1 - d)
  BY <1>2, <1>3
<1> QED  BY <1>3, <1>4 DEF left


\* Every chunk of the window has been paid for by those after it, from its own
\* moment to the last.
Paying(chunks, last) ==
    \A i \in DOMAIN chunks :
       RecentBytes(chunks, i + 1) >= UPLOAD_MIN_SPEED * (last - chunks[i].at)

\* When a chunk of the window had come, what had arrived by then and what had
\* arrived before it made the minimum from the end of the first window on.
Settled(chunks, total) ==
    \A i \in DOMAIN chunks :
       2 * (total - RecentBytes(chunks, i + 1)) - chunks[i].size
          >= UPLOAD_MIN_SPEED * (chunks[i].at - SPEED_WINDOW)

LEMMA PayingSince ==
    ASSUME NEW chunks \in Seq(Chunk), NEW k \in 1..Len(chunks), NEW last \in Nat,
           Paying(chunks, last)
    PROVE  Paying(Since(chunks, k), last)
<1> DEFINE left == Since(chunks, k)
<1>1. /\ Len(left) \in Nat /\ DOMAIN left = 1..Len(left) /\ Len(chunks) \in Nat
      /\ \A j \in 1..Len(left) : j + k - 1 \in 1..Len(chunks) /\ left[j] = chunks[j + k - 1]
  BY SinceIs, SizesAre
<1>2. SUFFICES ASSUME NEW j \in 1..Len(left)
               PROVE  RecentBytes(left, j + 1) >= UPLOAD_MIN_SPEED * (last - left[j].at)
  BY <1>1 DEF Paying
<1>3. RecentBytes(left, j + 1) = RecentBytes(chunks, (j + 1) + k - 1)
  BY <1>1, RecentSince
<1>4. (j + 1) + k - 1 = (j + k - 1) + 1 /\ j + k - 1 \in DOMAIN chunks
  BY <1>1
<1> HIDE DEF left
<1>5. RecentBytes(chunks, (j + k - 1) + 1) >= UPLOAD_MIN_SPEED * (last - chunks[j + k - 1].at)
  BY <1>4 DEF Paying
<1> QED  BY <1>1, <1>3, <1>4, <1>5

LEMMA SettledSince ==
    ASSUME NEW chunks \in Seq(Chunk), NEW k \in 1..Len(chunks), NEW total \in Nat,
           Settled(chunks, total)
    PROVE  Settled(Since(chunks, k), total)
<1> DEFINE left == Since(chunks, k)
<1>1. /\ Len(left) \in Nat /\ DOMAIN left = 1..Len(left) /\ Len(chunks) \in Nat
      /\ \A j \in 1..Len(left) : j + k - 1 \in 1..Len(chunks) /\ left[j] = chunks[j + k - 1]
  BY SinceIs, SizesAre
<1>2. SUFFICES ASSUME NEW j \in 1..Len(left)
               PROVE  2 * (total - RecentBytes(left, j + 1)) - left[j].size
                        >= UPLOAD_MIN_SPEED * (left[j].at - SPEED_WINDOW)
  BY <1>1 DEF Settled
<1>3. RecentBytes(left, j + 1) = RecentBytes(chunks, (j + 1) + k - 1)
  BY <1>1, RecentSince
<1>4. (j + 1) + k - 1 = (j + k - 1) + 1 /\ j + k - 1 \in DOMAIN chunks
  BY <1>1
<1> HIDE DEF left
<1>5. 2 * (total - RecentBytes(chunks, (j + k - 1) + 1)) - chunks[j + k - 1].size
        >= UPLOAD_MIN_SPEED * (chunks[j + k - 1].at - SPEED_WINDOW)
  BY <1>4 DEF Settled
<1> QED  BY <1>1, <1>3, <1>4, <1>5

LEMMA PayingAppend ==
    ASSUME NEW chunks \in Seq(Chunk), NEW last \in Nat, NEW c \in Chunk, c.at >= last,
           Paying(chunks, last), chunks # <<>> => c.size >= UPLOAD_MIN_SPEED * (c.at - last)
    PROVE  Paying(Append(chunks, c), c.at)
<1> DEFINE longer == Append(chunks, c)
           n == Len(chunks)
<1>1. /\ longer \in Seq(Chunk) /\ Len(longer) = n + 1 /\ DOMAIN longer = 1..(n + 1)
      /\ longer[n + 1] = c /\ n \in Nat /\ DOMAIN chunks = 1..n
  OBVIOUS
<1>2. \A i \in 1..n : longer[i] = chunks[i]
  OBVIOUS
<1>3. UPLOAD_MIN_SPEED \in Nat /\ c.at \in Nat /\ c.size \in Nat
  BY SpeedAssumption DEF Chunk
<1> HIDE DEF longer
<1>4. ASSUME NEW i \in 1..n
      PROVE  RecentBytes(longer, i + 1) >= UPLOAD_MIN_SPEED * (c.at - longer[i].at)
  <2>1. i + 1 \in 1..(n + 1) /\ i + 1 \in Nat \ {0} /\ chunks # <<>>
    BY <1>1
  <2>2. RecentBytes(longer, i + 1) = RecentBytes(chunks, i + 1) + c.size
    BY <2>1, RecentAppend DEF longer
  <2>3. RecentBytes(chunks, i + 1) >= UPLOAD_MIN_SPEED * (last - chunks[i].at)
    BY <1>1 DEF Paying
  <2>4. RecentBytes(chunks, i + 1) \in Nat /\ chunks[i].at \in Nat
    BY <1>1, <2>1, RecentIsNat, SizesAre
  <2>5. \A v, a, b, d \in Nat : v * (a - d) = v * (b - d) + v * (a - b)
    OBVIOUS
  <2> DEFINE rest == RecentBytes(chunks, i + 1)
             p == UPLOAD_MIN_SPEED * (last - chunks[i].at)
             q == UPLOAD_MIN_SPEED * (c.at - last)
  <2>6. UPLOAD_MIN_SPEED * (c.at - chunks[i].at) = p + q
    BY <1>3, <2>4, <2>5
  <2>7. rest >= p /\ c.size >= q /\ p \in Int /\ q \in Int /\ rest \in Nat
    BY <1>3, <2>1, <2>3, <2>4
  <2> HIDE DEF rest, p, q
  <2>8. rest + c.size >= p + q
    BY <1>3, <2>7
  <2> QED  BY <1>2, <2>2, <2>6, <2>8 DEF rest
<1>5. RecentBytes(longer, (n + 1) + 1) >= UPLOAD_MIN_SPEED * (c.at - longer[n + 1].at)
  <2>1. RecentBytes(longer, (n + 1) + 1) = 0
    BY <1>1, RecentNone
  <2>2. c.at - c.at = 0 /\ UPLOAD_MIN_SPEED * 0 = 0
    BY <1>3
  <2> QED  BY <1>1, <2>1, <2>2
<1>6. \A i \in 1..(n + 1) : i \in 1..n \/ i = n + 1
  BY <1>1
<1> QED  BY <1>1, <1>4, <1>5, <1>6 DEF Paying, longer

\* The chunks there were stay settled; of the one that comes it is to be shown.
LEMMA SettledAppend ==
    ASSUME NEW chunks \in Seq(Chunk), NEW total \in Nat, NEW c \in Chunk, Settled(chunks, total),
           2 * (total + c.size) - c.size >= UPLOAD_MIN_SPEED * (c.at - SPEED_WINDOW)
    PROVE  Settled(Append(chunks, c), total + c.size)
<1> DEFINE longer == Append(chunks, c)
           n == Len(chunks)
           sum == total + c.size
<1>1. /\ longer \in Seq(Chunk) /\ Len(longer) = n + 1 /\ DOMAIN longer = 1..(n + 1)
      /\ longer[n + 1] = c /\ n \in Nat /\ DOMAIN chunks = 1..n
  OBVIOUS
<1>2. \A i \in 1..n : longer[i] = chunks[i]
  OBVIOUS
<1>3. c.size \in Nat
  BY SpeedAssumption DEF Chunk
<1> HIDE DEF longer
<1>4. ASSUME NEW i \in 1..n
      PROVE  2 * (sum - RecentBytes(longer, i + 1)) - longer[i].size
                >= UPLOAD_MIN_SPEED * (longer[i].at - SPEED_WINDOW)
  <2>1. i + 1 \in 1..(n + 1) /\ i + 1 \in Nat \ {0}
    BY <1>1
  <2>2. RecentBytes(longer, i + 1) = RecentBytes(chunks, i + 1) + c.size
    BY <2>1, RecentAppend DEF longer
  <2>3. 2 * (total - RecentBytes(chunks, i + 1)) - chunks[i].size
           >= UPLOAD_MIN_SPEED * (chunks[i].at - SPEED_WINDOW)
    BY <1>1 DEF Settled
  <2>4. RecentBytes(chunks, i + 1) \in Nat
    BY <2>1, RecentIsNat
  <2>5. sum - (RecentBytes(chunks, i + 1) + c.size) = total - RecentBytes(chunks, i + 1)
    BY <1>3, <2>4
  <2> QED  BY <1>2, <2>2, <2>3, <2>5
<1>5. 2 * (sum - RecentBytes(longer, (n + 1) + 1)) - longer[n + 1].size
         >= UPLOAD_MIN_SPEED * (longer[n + 1].at - SPEED_WINDOW)
  <2>1. RecentBytes(longer, (n + 1) + 1) = 0
    BY <1>1, RecentNone
  <2>2. sum - 0 = sum
    BY <1>3
  <2> QED  BY <1>1, <2>1, <2>2
<1>6. \A i \in 1..(n + 1) : i \in 1..n \/ i = n + 1
  BY <1>1
<1> HIDE DEF sum
<1> QED  BY <1>1, <1>4, <1>5, <1>6 DEF Settled, longer, sum


LEMMA WindowIsRecent ==
    ASSUME NEW chunks \in Seq(Chunk)
    PROVE  WindowBytes(chunks) = RecentBytes(chunks, 1)
<1>1. DOMAIN SizesOf(chunks) = 1..Len(chunks)
  BY SizesAre DEF SizesOf
<1> QED  BY <1>1 DEF WindowBytes, SumFunction, SizesOf, RecentBytes

\* A window is cut for its speed only if what came after its first chunk is less
\* than the minimum, too.
LEMMA PayingIsFast ==
    ASSUME NEW chunks \in Seq(Chunk), chunks # <<>>, NEW now \in Nat, NEW elapsed,
           Paying(chunks, now)
    PROVE  ~TooSlow(chunks, elapsed, now)
<1>1. 1 \in 1..Len(chunks) /\ 1 \in DOMAIN chunks /\ 1 + 1 = 2
  OBVIOUS
<1>2. WindowBytes(chunks) = chunks[1].size + RecentBytes(chunks, 2)
  BY <1>1, WindowIsRecent, RecentFirst
<1>3. RecentBytes(chunks, 2) >= UPLOAD_MIN_SPEED * (now - chunks[1].at)
  BY <1>1 DEF Paying
<1>4. RecentBytes(chunks, 2) \in Nat /\ chunks[1].size \in Nat /\ chunks[1].at \in Nat
  BY <1>1, SizesAre, RecentIsNat
<1> DEFINE least == UPLOAD_MIN_SPEED * (now - chunks[1].at)
<1>5. least \in Int
  BY <1>4, SpeedAssumption
<1>6. TooSlow(chunks, elapsed, now) => WindowBytes(chunks) < least
  BY DEF TooSlow
<1> HIDE DEF least
<1>7. ~(chunks[1].size + RecentBytes(chunks, 2) < least)
  BY <1>3, <1>4, <1>5 DEF least
<1> QED  BY <1>2, <1>6, <1>7

\* What Evict leaves: the chunks from the first that is not older than the
\* window, the last one among them.
LEMMA EvictIs ==
    ASSUME NEW chunks \in Seq(Chunk), chunks # <<>>, NEW now \in Nat,
           chunks[Len(chunks)].at = now
    PROVE  \E k \in 1..Len(chunks) :
              /\ Evict(chunks, now) = Since(chunks, k)
              /\ chunks[k].at >= now - SPEED_WINDOW
              /\ \A i \in 1..Len(chunks) : chunks[i].at >= now - SPEED_WINDOW => k <= i
<1> DEFINE fresh == {i \in DOMAIN chunks : chunks[i].at >= now - SPEED_WINDOW}
<1>1. Len(chunks) \in Nat /\ DOMAIN chunks = 1..Len(chunks) /\ Len(chunks) \in 1..Len(chunks)
  BY SizesAre
<1>2. now >= now - SPEED_WINDOW
  BY SpeedAssumption
<1>3. Len(chunks) \in fresh /\ fresh \in SUBSET Nat
  BY <1>1, <1>2
<1>4. Evict(chunks, now) = Since(chunks, Min(fresh))
  BY DEF Evict
<1> HIDE DEF fresh
<1>5. Min(fresh) \in fresh /\ \A i \in fresh : Min(fresh) <= i
  BY <1>3, MinIsLeast
<1> QED  BY <1>1, <1>4, <1>5 DEF fresh

\* The chunk that comes is settled if the handler lets it pass.
LEMMA ArrivalSettled ==
    ASSUME NEW chunks \in Seq(Chunk), NEW total \in Nat, NEW last \in Nat, NEW c \in Chunk,
           c.at >= last, c.at - last <= SPEED_WINDOW,
           Settled(chunks, total),
           chunks = <<>> => total = 0 /\ last = 0,
           chunks # <<>> => chunks[Len(chunks)].at = last,
           \A i \in DOMAIN chunks : chunks[i].at <= last,
           ~TooSlow(Evict(Append(chunks, c), c.at), c.at, c.at)
    PROVE  2 * (total + c.size) - c.size >= UPLOAD_MIN_SPEED * (c.at - SPEED_WINDOW)
<1> DEFINE longer == Append(chunks, c)
           n == Len(chunks)
           now == c.at
           goal == UPLOAD_MIN_SPEED * (now - SPEED_WINDOW)
<1> HIDE DEF goal
<1>1. /\ longer \in Seq(Chunk) /\ Len(longer) = n + 1 /\ longer # <<>>
      /\ longer[n + 1] = c /\ n \in Nat /\ DOMAIN chunks = 1..n
      /\ \A i \in 1..n : longer[i] = chunks[i]
  <2>1. /\ Append(chunks, c) \in Seq(Chunk) /\ Len(Append(chunks, c)) = Len(chunks) + 1
        /\ Append(chunks, c)[Len(chunks) + 1] = c
        /\ \A i \in 1..Len(chunks) : Append(chunks, c)[i] = chunks[i]
    BY AppendProperties
  <2>2. Len(chunks) \in Nat /\ DOMAIN chunks = 1..Len(chunks)
    BY SizesAre
  <2>3. Append(chunks, c) # <<>>
    BY <2>1, <2>2
  <2> QED  BY <2>1, <2>2, <2>3
<1>2. \A i \in 1..n : longer[i] = chunks[i]
  BY <1>1
<1>3. UPLOAD_MIN_SPEED \in Nat /\ now \in Nat /\ c.size \in Nat /\ SPEED_WINDOW \in Nat /\ goal \in Int
  <2>1. c.at \in Nat /\ c.size \in Nat
    BY SpeedAssumption DEF Chunk
  <2>2. \A v, a, b \in Nat : v * (a - b) \in Int
    OBVIOUS
  <2> QED  BY <2>1, <2>2, SpeedAssumption DEF goal, now
<1>4. 2 * (total + c.size) - c.size = 2 * total + c.size
  BY <1>3
<1>5. SUFFICES 2 * total + c.size >= goal
  BY <1>4 DEF goal, now
<1> HIDE DEF longer
<1>6. CASE chunks = <<>> \/ ~(now >= SPEED_WINDOW)
  <2>1. now - SPEED_WINDOW <= 0
    BY <1>3, <1>6 DEF now
  <2>2. \A v \in Nat, d \in Int : d <= 0 => v * d <= 0
    OBVIOUS
  <2>3. goal <= 0
    BY <1>3, <2>1, <2>2 DEF goal
  <2> QED  BY <1>3, <2>3
<1>7. CASE chunks # <<>> /\ now >= SPEED_WINDOW
  <2>1. n \in 1..n /\ chunks[n].at = last /\ n \in DOMAIN chunks
    BY <1>1, <1>7
  <2>2. PICK k \in 1..(n + 1) :
           /\ Evict(longer, now) = Since(longer, k)
           /\ \A i \in 1..(n + 1) : longer[i].at >= now - SPEED_WINDOW => k <= i
    <3>1. longer[Len(longer)].at = now
      BY <1>1
    <3> HIDE DEF now
    <3> QED  BY <1>1, <1>3, <3>1, EvictIs
  <2>3. k <= n
    <3>1. longer[n].at >= now - SPEED_WINDOW /\ n \in 1..(n + 1)
      BY <1>1, <1>2, <1>3, <2>1
    <3> QED  BY <2>2, <3>1
  <2>4. k \in 1..n /\ longer[k] = chunks[k] /\ chunks[k].at \in Nat /\ chunks[k].at <= last
    BY <1>1, <1>2, <2>2, <2>3, SizesAre
  <2> DEFINE kept == Since(longer, k)
             mid == chunks[k].at
  <2>5. kept \in Seq(Chunk) /\ kept # <<>> /\ kept[1] = chunks[k]
    <3>1. /\ kept \in Seq(Chunk) /\ Len(kept) = (n + 1) + 1 - k
          /\ \A j \in 1..Len(kept) : kept[j] = longer[j + k - 1]
      BY <1>1, <2>2, SinceIs
    <3>2. 1 \in 1..Len(kept) /\ 1 + k - 1 = k
      BY <1>1, <2>4, <3>1
    <3> QED  BY <2>4, <3>1, <3>2
  <2>6. ~(now - mid > 0 /\ WindowBytes(kept) < UPLOAD_MIN_SPEED * (now - mid))
    BY <1>7, <2>2, <2>5 DEF TooSlow, longer
  <2>7. /\ 2 * (total - RecentBytes(chunks, k + 1)) - chunks[k].size
              >= UPLOAD_MIN_SPEED * (mid - SPEED_WINDOW)
        /\ 2 * (total - RecentBytes(chunks, n + 1)) - chunks[n].size
              >= UPLOAD_MIN_SPEED * (last - SPEED_WINDOW)
    BY <1>1, <2>1, <2>4 DEF Settled
  <2>8. /\ RecentBytes(chunks, k + 1) \in Nat /\ RecentBytes(chunks, n + 1) = 0
        /\ chunks[k].size \in Nat /\ chunks[n].size \in Nat
    <3>1. k + 1 \in Nat \ {0}
      BY <2>4
    <3> QED  BY <2>1, <2>4, <3>1, RecentIsNat, RecentNone, SizesAre
  <2>9. CASE now - mid > 0
    <3>1. WindowBytes(kept) = (chunks[k].size + RecentBytes(chunks, k + 1)) + c.size
      <4>1. 1 \in 1..(Len(kept) + 1) /\ 1 + k - 1 = k
        <5>1. Len(kept) \in Nat
          BY <2>5
        <5> QED  BY <2>4, <5>1
      <4>2. WindowBytes(kept) = RecentBytes(longer, k)
        BY <1>1, <2>2, <2>5, <4>1, WindowIsRecent, RecentSince
      <4>3. RecentBytes(longer, k) = RecentBytes(chunks, k) + c.size
        BY <2>2, RecentAppend DEF longer
      <4>4. RecentBytes(chunks, k) = chunks[k].size + RecentBytes(chunks, k + 1)
        BY <2>4, RecentFirst
      <4> QED  BY <4>2, <4>3, <4>4
    <3> DEFINE rest == RecentBytes(chunks, k + 1)
               own == chunks[k].size
               p == UPLOAD_MIN_SPEED * (now - mid)
               q == UPLOAD_MIN_SPEED * (mid - SPEED_WINDOW)
    <3>2. p \in Int /\ q \in Int /\ goal = p + q
      <4>1. \A v, a, b, d \in Nat : v * (a - d) = v * (a - b) + v * (b - d)
        OBVIOUS
      <4>2. mid \in Nat
        BY <2>4
      <4> HIDE DEF mid
      <4> QED  BY <1>3, <4>1, <4>2 DEF goal
    <3>3. ~((own + rest) + c.size < p) /\ 2 * (total - rest) - own >= q
      BY <2>6, <2>7, <2>9, <3>1
    <3>4. rest \in Nat /\ own \in Nat
      BY <2>8
    <3> HIDE DEF rest, own, p, q, goal
    <3> QED  BY <1>3, <3>2, <3>3, <3>4
  <2>10. CASE ~(now - mid > 0)
    <3>1. now = last
      BY <1>3, <2>4, <2>10
    <3>2. 2 * (total - 0) - chunks[n].size >= goal
      BY <2>7, <2>8, <3>1 DEF goal
    <3> HIDE DEF goal
    <3> QED  BY <1>3, <2>8, <3>2
  <2> QED  BY <2>9, <2>10
<1> QED  BY <1>6, <1>7


Upload == [state : {"idle", "open", "late", "slow", "complete"}, start : {0},
           chunks : Seq(Chunk), total : 0..MaxTotal, last : Nat,
           steady : BOOLEAN, fast : BOOLEAN]

InOrder(chunks) == \A i, j \in DOMAIN chunks : i <= j => chunks[i].at <= chunks[j].at

\* What is known of a handler's record between two chunks.
UploadOK(u) ==
    /\ u \in Upload
    /\ \A i \in DOMAIN u.chunks : u.chunks[i].at \in (u.last - SPEED_WINDOW)..u.last
    /\ InOrder(u.chunks)
    /\ u.chunks = <<>> => u.total = 0 /\ u.last = 0
    /\ u.chunks # <<>> => u.chunks[Len(u.chunks)].at = u.last
    /\ u.fast => Paying(u.chunks, u.last)
    /\ u.state # "slow" /\ u.steady => Settled(u.chunks, u.total)
    /\ u.state = "slow" => ~u.fast

LEMMA IdleOK ==
    ASSUME NEW state \in {"idle", "open"}
    PROVE  UploadOK([Idle EXCEPT !.state = state])
<1> DEFINE u == [Idle EXCEPT !.state = state]
<1>1. /\ u.state = state /\ u.chunks = <<>> /\ u.total = 0 /\ u.last = 0
      /\ u.start = 0
  BY DEF Idle
<1>4. <<>> \in Seq(Chunk) /\ DOMAIN <<>> = {} /\ 0 \in 0..MaxTotal
  BY EmptySeq, SpeedAssumption
<1>5. u \in Upload
  <2>1. Idle \in Upload
    BY <1>4 DEF Idle, Upload
  <2> QED  BY <2>1 DEF Upload
<1> HIDE DEF u
<1>6. Paying(u.chunks, u.last) /\ Settled(u.chunks, u.total) /\ InOrder(u.chunks)
  BY <1>1, <1>4 DEF Paying, Settled, InOrder
<1>7. \A i \in DOMAIN u.chunks : u.chunks[i].at \in (u.last - SPEED_WINDOW)..u.last
  BY <1>1, <1>4
<1>8. UploadOK(u)
  BY <1>1, <1>5, <1>6, <1>7 DEF UploadOK
<1> QED  BY <1>8 DEF u

\* A change of the state alone, to one that is not "slow".
LEMMA MovesOn ==
    ASSUME NEW u, UploadOK(u), u.state # "slow", NEW state \in {"late", "complete"}
    PROVE  UploadOK([u EXCEPT !.state = state])
<1> DEFINE v == [u EXCEPT !.state = state]
<1>1. /\ v.state = state /\ v.chunks = u.chunks /\ v.total = u.total /\ v.last = u.last
      /\ v \in Upload
  BY DEF UploadOK, Upload
<1>2. v.steady = u.steady
  BY DEF UploadOK, Upload
<1>3. v.fast = u.fast
  BY DEF UploadOK, Upload
<1> HIDE DEF v
<1>4. UploadOK(v)
  BY <1>1, <1>2, <1>3 DEF UploadOK
<1> QED  BY <1>4 DEF v

LEMMA ReceiveOK ==
    ASSUME UploadOK(upload), NEW gap \in 0..MaxGap, NEW size \in ChunkSizes,
           upload.total + size <= MaxTotal, ReceiveDataChunk(upload.last + gap, size)
    PROVE  UploadOK(upload')
<1> DEFINE now == upload.last + gap
           c == [at |-> now, size |-> size]
           longer == Append(upload.chunks, c)
           kept == Evict(longer, now)
           paid == size >= UPLOAD_MIN_SPEED * (now - upload.last)
           quick == now - upload.last <= SPEED_WINDOW
           steady == upload.steady /\ quick
           fast == upload.fast /\ paid
           heard == [upload EXCEPT !.chunks = kept, !.total = @ + size, !.last = now,
                                   !.steady = steady, !.fast = fast]
           slow == TooSlow(kept, now - upload.start, now)
<1>1. /\ upload \in Upload /\ upload.start = 0 /\ upload.last \in Nat
      /\ upload.chunks \in Seq(Chunk) /\ upload.total \in 0..MaxTotal
  BY DEF UploadOK, Upload
<1>2. /\ now \in Nat /\ now - upload.last = gap /\ now >= upload.last /\ now - upload.start = now
      /\ size \in Nat /\ c \in Chunk /\ c.at = now /\ c.size = size
  BY <1>1, SpeedAssumption DEF Chunk
<1>3. upload.state = "open"
  BY DEF ReceiveDataChunk
<1>4. upload' = IF now - upload.start > UPLOAD_MAX_TIME THEN [upload EXCEPT !.state = "late"]
                ELSE IF slow THEN [heard EXCEPT !.state = "slow"] ELSE heard
  BY DEF ReceiveDataChunk
<1>5. CASE now - upload.start > UPLOAD_MAX_TIME
  BY <1>3, <1>4, <1>5, MovesOn
<1>6. CASE ~(now - upload.start > UPLOAD_MAX_TIME)
  <2>1. /\ longer \in Seq(Chunk) /\ Len(longer) = Len(upload.chunks) + 1
        /\ longer[Len(longer)] = c /\ longer # <<>>
        /\ \A i \in 1..Len(upload.chunks) : longer[i] = upload.chunks[i]
    <3>1. /\ longer \in Seq(Chunk) /\ Len(longer) = Len(upload.chunks) + 1
          /\ longer[Len(upload.chunks) + 1] = c
          /\ \A i \in 1..Len(upload.chunks) : longer[i] = upload.chunks[i]
      <4> HIDE DEF c
      <4> QED  BY <1>1, <1>2, AppendProperties
    <3>2. Len(upload.chunks) \in Nat
      BY <1>1
    <3> HIDE DEF longer
    <3> QED  BY <3>1, <3>2
  <2>2. PICK k \in 1..Len(longer) : /\ kept = Since(longer, k)
                                    /\ longer[k].at >= now - SPEED_WINDOW
                                    /\ \A i \in 1..Len(longer) :
                                          longer[i].at >= now - SPEED_WINDOW => k <= i
    <3>1. longer[Len(longer)].at = now
      BY <1>2, <2>1
    <3> HIDE DEF longer, now
    <3> QED  BY <1>2, <2>1, <3>1, EvictIs
  <2>3. /\ kept \in Seq(Chunk) /\ Len(kept) = Len(longer) + 1 - k
        /\ \A j \in 1..Len(kept) : j + k - 1 \in 1..Len(longer) /\ kept[j] = longer[j + k - 1]
    <3> HIDE DEF longer, kept
    <3> QED  BY <2>1, <2>2, SinceIs
  <2>4. Len(longer) \in Nat /\ Len(kept) \in Nat \ {0} /\ DOMAIN kept = 1..Len(kept) /\ kept # <<>>
    <3> HIDE DEF longer, kept
    <3> QED  BY <2>1, <2>2, <2>3
  <2>5. kept[Len(kept)].at = now
    <3>1. Len(kept) \in 1..Len(kept) /\ Len(kept) + k - 1 = Len(longer)
      BY <2>2, <2>3, <2>4
    <3>2. kept[Len(kept)] = c
      BY <2>1, <2>3, <3>1
    <3> QED  BY <1>2, <3>2
  <2>6. \A i \in DOMAIN upload.chunks : upload.chunks[i].at <= upload.last
    <3>1. \A i \in DOMAIN upload.chunks : upload.chunks[i] \in Chunk
      BY <1>1
    <3>2. \A x \in Chunk : x.at \in Nat
      BY DEF Chunk
    <3> QED  BY <1>1, <3>1, <3>2, SpeedAssumption DEF UploadOK
  <2>7. /\ DOMAIN upload.chunks = 1..Len(upload.chunks) /\ Len(upload.chunks) \in Nat
        /\ \A i \in 1..Len(longer) : longer[i].at \in Nat /\ longer[i].at <= now
        /\ \A i, j \in 1..Len(longer) : i <= j => longer[i].at <= longer[j].at
    <3>1. DOMAIN upload.chunks = 1..Len(upload.chunks) /\ Len(upload.chunks) \in Nat
      BY <1>1
    <3>2. \A i \in 1..Len(longer) : longer[i].at \in Nat
      <4> HIDE DEF longer
      <4> QED  BY <2>1, SizesAre
    <3>3. \A i \in 1..Len(longer) : i \in 1..Len(upload.chunks) \/ i = Len(longer)
      BY <2>1, <3>1
    <3>4. \A i \in 1..Len(upload.chunks) : longer[i].at <= upload.last
      BY <2>1, <2>6, <3>1
    <3>5. longer[Len(longer)].at = now
      BY <1>2, <2>1
    <3>6. \A i, j \in 1..Len(upload.chunks) : i <= j => longer[i].at <= longer[j].at
      BY <2>1, <3>1 DEF UploadOK, InOrder
    <3>7. \A i \in 1..Len(longer) : longer[i].at <= now
      <4> HIDE DEF longer, now
      <4>1. ASSUME NEW i \in 1..Len(longer) PROVE longer[i].at <= now
        <5>1. CASE i = Len(longer)
          BY <1>2, <3>5, <5>1
        <5>2. CASE i \in 1..Len(upload.chunks)
          BY <1>1, <1>2, <3>2, <3>4, <5>2
        <5> QED  BY <3>3, <5>1, <5>2
      <4> QED  BY <4>1
    <3> HIDE DEF longer, now
    <3>8. ASSUME NEW i \in 1..Len(longer), NEW j \in 1..Len(longer), i <= j
          PROVE  longer[i].at <= longer[j].at
      <4>1. CASE j = Len(longer)
        BY <3>5, <3>7, <4>1
      <4>2. CASE j # Len(longer)
        <5>1. j \in 1..Len(upload.chunks) /\ i \in 1..Len(upload.chunks)
          BY <2>1, <3>1, <3>3, <3>8, <4>2
        <5> QED  BY <3>6, <3>8, <5>1
      <4> QED  BY <4>1, <4>2
    <3> QED  BY <3>1, <3>2, <3>7, <3>8
  <2>8. \A j \in DOMAIN kept : kept[j].at \in (now - SPEED_WINDOW)..now
    <3> HIDE DEF longer, kept, now
    <3>1. ASSUME NEW j \in 1..Len(kept)
          PROVE  kept[j].at \in (now - SPEED_WINDOW)..now
      <4>1. j + k - 1 \in 1..Len(longer) /\ kept[j] = longer[j + k - 1] /\ k <= j + k - 1
        BY <2>2, <2>3, <2>4
      <4>2. longer[k].at <= longer[j + k - 1].at /\ longer[j + k - 1].at <= now
        BY <2>2, <2>7, <4>1
      <4>3. longer[k].at \in Nat /\ longer[j + k - 1].at \in Nat /\ now - SPEED_WINDOW \in Int
        BY <1>2, <2>2, <2>7, <4>1, SpeedAssumption
      <4> QED  BY <1>2, <2>2, <4>1, <4>2, <4>3
    <3> QED  BY <2>4, <3>1
  <2>9. InOrder(kept)
    <3> HIDE DEF longer, kept, now
    <3>1. ASSUME NEW i \in 1..Len(kept), NEW j \in 1..Len(kept), i <= j
          PROVE  kept[i].at <= kept[j].at
      <4>1. i + k - 1 \in 1..Len(longer) /\ j + k - 1 \in 1..Len(longer) /\ i + k - 1 <= j + k - 1
        BY <2>2, <2>3, <2>4, <3>1
      <4> QED  BY <2>3, <2>7, <4>1
    <3> QED  BY <2>4, <3>1 DEF InOrder
  <2>10. fast => Paying(kept, now)
    <3> SUFFICES ASSUME upload.fast, paid PROVE Paying(kept, now)
      OBVIOUS
    <3>1. Paying(upload.chunks, upload.last)
      BY DEF UploadOK
    <3>2. c.size >= UPLOAD_MIN_SPEED * (c.at - upload.last)
      BY <1>2
    <3>3. Paying(longer, now)
      <4> HIDE DEF c
      <4>1. Paying(Append(upload.chunks, c), c.at)
        BY <1>1, <1>2, <3>1, <3>2, PayingAppend
      <4> QED  BY <1>2, <4>1
    <3> HIDE DEF longer, kept, now
    <3> QED  BY <1>2, <2>1, <2>2, <3>3, PayingSince
  <2>11. steady /\ ~slow => Settled(kept, upload.total + size)
    <3> SUFFICES ASSUME upload.steady, quick, ~slow PROVE Settled(kept, upload.total + size)
      OBVIOUS
    <3>1. Settled(upload.chunks, upload.total) /\ upload.total \in Nat
      BY <1>1, <1>3 DEF UploadOK
    <3>2. ~TooSlow(Evict(Append(upload.chunks, c), c.at), c.at, c.at)
      <4>1. ~TooSlow(Evict(Append(upload.chunks, c), now), now, now)
        BY <1>2
      <4> QED  BY <1>2, <4>1
    <3>3. /\ upload.chunks = <<>> => upload.total = 0 /\ upload.last = 0
          /\ upload.chunks # <<>> => upload.chunks[Len(upload.chunks)].at = upload.last
      BY DEF UploadOK
    <3>4. c.at >= upload.last /\ c.at - upload.last <= SPEED_WINDOW
      BY <1>2
    <3>5. Settled(longer, upload.total + size)
      <4> HIDE DEF c
      <4>1. 2 * (upload.total + c.size) - c.size >= UPLOAD_MIN_SPEED * (c.at - SPEED_WINDOW)
        BY <1>1, <1>2, <2>6, <3>1, <3>2, <3>3, <3>4, ArrivalSettled
      <4>2. Settled(Append(upload.chunks, c), upload.total + c.size)
        BY <1>1, <1>2, <3>1, <4>1, SettledAppend
      <4> QED  BY <1>2, <4>2
    <3>6. upload.total + size \in Nat
      BY <1>2, <3>1
    <3> HIDE DEF longer, kept
    <3> QED  BY <2>1, <2>2, <3>5, <3>6, SettledSince
  <2>12. slow => ~fast
    <3> HIDE DEF kept, now, fast
    <3> QED  BY <1>2, <2>3, <2>4, <2>10, PayingIsFast
  <2>13. upload.total + size \in 0..MaxTotal /\ now \in Nat
    BY <1>1, <1>2, SpeedAssumption
  <2>18. steady \in BOOLEAN /\ fast \in BOOLEAN
    OBVIOUS
  <2> HIDE DEF now, c, longer, kept, paid, quick, slow, steady, fast
  <2>14. ASSUME NEW u, u \in Upload, u.chunks = kept, u.total = upload.total + size, u.last = now,
                u.steady = steady, u.fast = fast,
                u.state = "slow" <=> slow
         PROVE  UploadOK(u)
    <3>1. u.state # "slow" /\ u.steady => Settled(u.chunks, u.total)
      BY <2>11, <2>14
    <3>2. (u.fast => Paying(u.chunks, u.last)) /\ (u.state = "slow" => ~u.fast)
      BY <2>10, <2>12, <2>14
    <3> QED  BY <2>4, <2>5, <2>8, <2>9, <2>14, <3>1, <3>2 DEF UploadOK
  <2>15. /\ heard.chunks = kept /\ heard.total = upload.total + size /\ heard.last = now
         /\ heard.state = "open" /\ heard.start = 0
    BY <1>1, <1>3 DEF Upload
  <2>16. heard.steady = steady
    BY <1>1 DEF Upload
  <2>17. heard.fast = fast
    BY <1>1 DEF Upload
  <2>20. heard \in Upload
    BY <1>1, <2>3, <2>13, <2>18 DEF Upload
  <2> HIDE DEF heard
  <2>21. CASE slow
    <3> DEFINE cut == [heard EXCEPT !.state = "slow"]
    <3>1. upload' = cut
      BY <1>4, <1>6, <2>21
    <3>2. /\ cut \in Upload /\ cut.state = "slow"
          /\ cut.chunks = heard.chunks /\ cut.total = heard.total /\ cut.last = heard.last
      BY <2>20 DEF Upload
    <3>3. cut.steady = heard.steady
      BY <2>20 DEF Upload
    <3>4. cut.fast = heard.fast
      BY <2>20 DEF Upload
    <3> HIDE DEF cut
    <3> QED  BY <2>14, <2>15, <2>16, <2>17, <2>21, <3>1, <3>2, <3>3, <3>4
  <2>22. CASE ~slow
    <3>1. upload' = heard
      BY <1>4, <1>6, <2>22
    <3> QED  BY <2>14, <2>15, <2>16, <2>17, <2>20, <2>22, <3>1
  <2> QED  BY <2>21, <2>22
<1> QED  BY <1>5, <1>6

LEMMA SpeedStep == ASSUME UploadOK(upload), [SpeedNext]_speedVars PROVE UploadOK(upload')
<1>1. CASE NewFile
  BY <1>1, IdleOK DEF NewFile
<1>2. ASSUME NEW gap \in 0..MaxGap, NEW size \in ChunkSizes, upload.total + size <= MaxTotal,
             ReceiveDataChunk(upload.last + gap, size)
      PROVE  UploadOK(upload')
  BY <1>2, ReceiveOK
<1>3. CASE FileComplete
  BY <1>3, MovesOn DEF FileComplete
<1>4. CASE RequestEnds
  <2>1. [Idle EXCEPT !.state = "idle"] = Idle
    BY DEF Idle
  <2> QED  BY <1>4, <2>1, IdleOK DEF RequestEnds
<1>5. CASE UNCHANGED speedVars
  BY <1>5 DEF speedVars
<1> QED  BY <1>1, <1>2, <1>3, <1>4, <1>5 DEF SpeedNext

LEMMA UploadAlwaysOK == SpeedSpec => []UploadOK(upload)
<1>1. SpeedInit => UploadOK(upload)
  <2>1. [Idle EXCEPT !.state = "idle"] = Idle
    BY DEF Idle
  <2> QED  BY <2>1, IdleOK DEF SpeedInit
<1>2. UploadOK(upload) /\ [SpeedNext]_speedVars => UploadOK(upload)'
  BY SpeedStep
<1> QED  BY <1>1, <1>2, PTL DEF SpeedSpec

\* The handler's record, whatever arrives when: past an eviction nothing in the
\* window is older than the window.
THEOREM SpeedTypeCorrect == SpeedSpec => []SpeedTypeOK
<1>1. UploadOK(upload) => SpeedTypeOK
  BY DEF UploadOK, SpeedTypeOK, Upload
<1> QED  BY <1>1, UploadAlwaysOK, PTL

\* A client that pays for each of its silences with the next chunk is never cut
\* for its speed, wherever the window happens to begin, for any minimum, window
\* and sequence of arrivals (receive_data_chunk).
THEOREM FastUploadsAlwaysFinish == SpeedSpec => []FastUploadsFinish
<1>1. UploadOK(upload) => FastUploadsFinish
  BY DEF UploadOK, FastUploadsFinish
<1> QED  BY <1>1, UploadAlwaysOK, PTL

\* A client without a silence longer than the window pays at least half of the
\* minimum past the first window: by the chunks at which one window ends and the
\* next begins, which count in both.
THEOREM SteadyUploadsAlwaysPay == SpeedSpec => []SteadyUploadsPay
<1>1. ASSUME UploadOK(upload) PROVE SteadyUploadsPay
  <2>1. SUFFICES ASSUME upload.state # "slow", upload.steady
                 PROVE  2 * upload.total >= UPLOAD_MIN_SPEED * (upload.last - upload.start - SPEED_WINDOW)
    BY DEF SteadyUploadsPay
  <2>2. /\ upload.start = 0 /\ upload.last \in Nat /\ upload.total \in Nat
        /\ upload.chunks \in Seq(Chunk)
    BY <1>1 DEF UploadOK, Upload
  <2>3. upload.last - upload.start - SPEED_WINDOW = upload.last - SPEED_WINDOW
    BY <2>2, SpeedAssumption
  <2>4. CASE upload.chunks = <<>>
    <3>1. upload.last = 0 /\ upload.last - SPEED_WINDOW <= 0 /\ upload.last - SPEED_WINDOW \in Int
      BY <1>1, <2>4, SpeedAssumption DEF UploadOK
    <3>2. \A v \in Nat, d \in Int : d <= 0 => v * d <= 0 /\ v * d \in Int
      OBVIOUS
    <3> DEFINE due == UPLOAD_MIN_SPEED * (upload.last - SPEED_WINDOW)
    <3>3. due <= 0 /\ due \in Int
      BY <3>1, <3>2, SpeedAssumption
    <3> HIDE DEF due
    <3>4. 2 * upload.total >= due
      BY <2>2, <3>3
    <3> QED  BY <2>3, <3>4 DEF due
  <2>5. CASE upload.chunks # <<>>
    <3> DEFINE n == Len(upload.chunks)
               due == UPLOAD_MIN_SPEED * (upload.last - SPEED_WINDOW)
    <3>1. n \in 1..n /\ n \in DOMAIN upload.chunks
      BY <2>2, <2>5
    <3>2. upload.chunks[n].at = upload.last /\ Settled(upload.chunks, upload.total)
      BY <1>1, <2>1, <2>5 DEF UploadOK
    <3>3. RecentBytes(upload.chunks, n + 1) = 0 /\ upload.chunks[n].size \in Nat
      BY <2>2, <3>1, RecentNone, SizesAre
    <3>4. 2 * (upload.total - 0) - upload.chunks[n].size >= due
      BY <3>1, <3>2, <3>3 DEF Settled
    <3>5. due \in Int
      <4>1. \A v, a, b \in Nat : v * (a - b) \in Int
        OBVIOUS
      <4> QED  BY <2>2, <4>1, SpeedAssumption
    <3> HIDE DEF n, due
    <3>6. 2 * upload.total >= due
      BY <2>2, <3>3, <3>4, <3>5
    <3> QED  BY <2>3, <3>6 DEF due
  <2> QED  BY <2>4, <2>5
<1> QED  BY <1>1, UploadAlwaysOK, PTL
===============================================================================
