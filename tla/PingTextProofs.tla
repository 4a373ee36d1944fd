--------------------------- MODULE PingTextProofs ---------------------------
(***************************************************************************)
(* The MOTD and the banner for texts of any length: what the regular       *)
(* expressions and the replacements of server.go and banner.go make of     *)
(* every text.                                                             *)
(***************************************************************************)
EXTENDS PingResponseProofs

(* Induction from the end of a text: what holds at the end, and at every   *)
(* place if it holds at all places behind it, holds everywhere.            *)
LEMMA FromTheEnd ==
    ASSUME NEW N \in Nat, NEW T \in SUBSET (1..(N + 1)), N + 1 \in T,
           \A p \in 1..N : (\A q \in (p + 1)..(N + 1) : q \in T) => p \in T
    PROVE  T = 1..(N + 1)
<1> DEFINE U == {n \in 0..N : N + 1 - n \notin T}
<1> SUFFICES ASSUME U # {} PROVE FALSE
  <2> SUFFICES ASSUME NEW p \in 1..(N + 1), p \notin T PROVE FALSE
    OBVIOUS
  <2>1. N + 1 - p \in 0..N /\ N + 1 - (N + 1 - p) = p
    OBVIOUS
  <2>2. N + 1 - p \in U
    BY <2>1
  <2> QED BY <2>2
<1>1. U \in SUBSET Nat
  OBVIOUS
<1>2. PICK n \in U : \A m \in U : n <= m
  BY <1>1, Least
<1>3. n \in 0..N /\ N + 1 - n \notin T
  OBVIOUS
<1> DEFINE p == N + 1 - n
<1>4. p \in 1..N
  BY <1>3
<1>5. ASSUME NEW q \in (p + 1)..(N + 1) PROVE q \in T
  <2> SUFFICES ASSUME q \notin T PROVE FALSE
    OBVIOUS
  <2>1. N + 1 - q \in 0..N /\ N + 1 - (N + 1 - q) = q /\ N + 1 - q < n
    BY <1>3
  <2>2. N + 1 - q \in U
    BY <2>1
  <2> QED BY <1>2, <1>3, <2>1, <2>2
<1> QED BY <1>3, <1>4, <1>5

(* What ReplaceAll needs: pieces that are not empty and lie in the text. *)
Pieces(n, end, by, V) ==
    /\ end \in [1..n -> 1..n] /\ by \in [1..n -> Seq(V)]
    /\ \A p \in 1..n : p <= end[p]

(* Its recursion, and a solution of it from p on. *)
IsSolution(f, n, end, by) ==
    f = [p \in 1..(n + 1) |-> IF p > n THEN <<>> ELSE by[p] \o f[end[p] + 1]]

SolvesFrom(g, p, n, end, by, V) ==
    /\ g \in [p..(n + 1) -> Seq(V)]
    /\ g[n + 1] = <<>>
    /\ \A q \in p..n : g[q] = by[q] \o g[end[q] + 1]

Solvable(n, end, by, V) == {p \in 1..(n + 1) : \E g : SolvesFrom(g, p, n, end, by, V)}

LEMMA SolveOneMore ==
    ASSUME NEW n \in Nat, NEW V, NEW end, NEW by, Pieces(n, end, by, V),
           NEW p \in 1..n, NEW g, SolvesFrom(g, p + 1, n, end, by, V)
    PROVE  \E h : SolvesFrom(h, p, n, end, by, V)
<1> DEFINE h == [q \in p..(n + 1) |-> IF q = p THEN by[p] \o g[end[p] + 1] ELSE g[q]]
<1>1. end[p] + 1 \in (p + 1)..(n + 1) /\ by[p] \in Seq(V)
  BY DEF Pieces
<1>2. g \in [(p + 1)..(n + 1) -> Seq(V)]
  BY DEF SolvesFrom
<1>3. by[p] \o g[end[p] + 1] \in Seq(V)
  BY <1>1, <1>2
<1>4. \A q \in p..(n + 1) : q # p => q \in (p + 1)..(n + 1)
  OBVIOUS
<1>5. h \in [p..(n + 1) -> Seq(V)]
  BY <1>2, <1>3, <1>4
<1>6. h[p] = by[p] \o g[end[p] + 1]
  <2>1. p \in p..(n + 1)
    OBVIOUS
  <2> QED BY <2>1
<1>7. \A q \in (p + 1)..(n + 1) : h[q] = g[q]
  OBVIOUS
<1> HIDE DEF h
<1>8. h[n + 1] = <<>>
  <2>1. h[n + 1] = g[n + 1]
    BY <1>7
  <2> QED BY <2>1 DEF SolvesFrom
<1>9. ASSUME NEW q \in p..n PROVE h[q] = by[q] \o h[end[q] + 1]
  <2>1. end[q] + 1 \in (p + 1)..(n + 1)
    BY DEF Pieces
  <2>2. h[end[q] + 1] = g[end[q] + 1]
    BY <1>7, <2>1
  <2>3. CASE q = p
    BY <1>6, <2>2, <2>3
  <2>4. CASE q # p
    <3>1. q \in (p + 1)..n
      BY <2>4
    <3>2. g[q] = by[q] \o g[end[q] + 1]
      BY <3>1 DEF SolvesFrom
    <3>3. h[q] = g[q]
      BY <1>7, <3>1
    <3> QED BY <2>2, <3>2, <3>3
  <2> QED BY <2>3, <2>4
<1>10. SolvesFrom(h, p, n, end, by, V)
  BY <1>5, <1>8, <1>9 DEF SolvesFrom
<1> QED BY <1>10

(* The recursion of ReplaceAll has a solution, built from the end. *)
LEMMA ReplaceExists ==
    ASSUME NEW n \in Nat, NEW V, NEW end, NEW by, Pieces(n, end, by, V)
    PROVE  \E rest : IsSolution(rest, n, end, by)
<1> DEFINE T == Solvable(n, end, by, V)
<1>1. n + 1 \in T
  <2> DEFINE g == [q \in (n + 1)..(n + 1) |-> <<>>]
  <2>1. g \in [(n + 1)..(n + 1) -> Seq(V)] /\ g[n + 1] = <<>>
    OBVIOUS
  <2> HIDE DEF g
  <2>2. (n + 1)..n = {}
    OBVIOUS
  <2>3. SolvesFrom(g, n + 1, n, end, by, V)
    BY <2>1, <2>2 DEF SolvesFrom
  <2> QED BY <2>3 DEF Solvable
<1>2. ASSUME NEW p \in 1..n, \A q \in (p + 1)..(n + 1) : q \in T PROVE p \in T
  <2>1. p + 1 \in T
    BY <1>2
  <2>2. PICK g : SolvesFrom(g, p + 1, n, end, by, V)
    BY <2>1 DEF Solvable
  <2>3. \E h : SolvesFrom(h, p, n, end, by, V)
    BY <2>2, SolveOneMore
  <2> QED BY <2>3 DEF Solvable
<1>3. T \in SUBSET (1..(n + 1))
  BY DEF Solvable
<1> HIDE DEF T
<1>4. T = 1..(n + 1)
  BY <1>1, <1>2, <1>3, FromTheEnd
<1>5. 1 \in T
  BY <1>4
<1>6. PICK g : SolvesFrom(g, 1, n, end, by, V)
  BY <1>5 DEF T, Solvable
<1> DEFINE f == [p \in 1..(n + 1) |-> IF p > n THEN <<>> ELSE by[p] \o g[end[p] + 1]]
<1>7. g \in [1..(n + 1) -> Seq(V)] /\ f \in [1..(n + 1) -> {f[p] : p \in 1..(n + 1)}]
  BY <1>6 DEF SolvesFrom
<1>8. ASSUME NEW p \in 1..(n + 1) PROVE g[p] = f[p]
  <2>1. f[p] = IF p > n THEN <<>> ELSE by[p] \o g[end[p] + 1]
    OBVIOUS
  <2> HIDE DEF f
  <2>2. CASE p = n + 1
    <3>1. f[p] = <<>>
      BY <2>1, <2>2
    <3> QED BY <1>6, <2>2, <3>1 DEF SolvesFrom
  <2>3. CASE p # n + 1
    <3>1. p \in 1..n /\ ~ (p > n)
      BY <2>3
    <3>2. g[p] = by[p] \o g[end[p] + 1]
      BY <1>6, <3>1 DEF SolvesFrom
    <3> QED BY <2>1, <3>1, <3>2
  <2> QED BY <2>2, <2>3
<1>9. g = f
  BY <1>7, <1>8
<1>10. IsSolution(g, n, end, by)
  BY <1>9 DEF IsSolution
<1> QED BY <1>10

LEMMA SolutionSolves ==
    ASSUME NEW n \in Nat, NEW V, NEW end, NEW by, Pieces(n, end, by, V),
           NEW rest, IsSolution(rest, n, end, by)
    PROVE  SolvesFrom(rest, 1, n, end, by, V)
<1>1. rest[n + 1] = <<>>
  <2>1. n + 1 \in 1..(n + 1) /\ n + 1 > n
    OBVIOUS
  <2> QED BY <2>1 DEF IsSolution
<1>2. ASSUME NEW p \in 1..n PROVE rest[p] = by[p] \o rest[end[p] + 1]
  <2>1. p \in 1..(n + 1) /\ ~ (p > n)
    OBVIOUS
  <2> QED BY <2>1 DEF IsSolution
<1> DEFINE T == {p \in 1..(n + 1) : rest[p] \in Seq(V)}
<1>3. n + 1 \in T
  <2>1. n + 1 \in 1..(n + 1) /\ <<>> \in Seq(V)
    OBVIOUS
  <2> QED BY <1>1, <2>1
<1>4. ASSUME NEW p \in 1..n, \A q \in (p + 1)..(n + 1) : q \in T PROVE p \in T
  <2>1. end[p] + 1 \in (p + 1)..(n + 1) /\ by[p] \in Seq(V)
    BY DEF Pieces
  <2>2. rest[end[p] + 1] \in Seq(V)
    BY <1>4, <2>1
  <2>3. by[p] \o rest[end[p] + 1] \in Seq(V)
    BY <2>1, <2>2, ConcatProperties
  <2>4. rest[p] \in Seq(V)
    BY <1>2, <2>3
  <2>5. p \in 1..(n + 1)
    OBVIOUS
  <2> QED BY <2>4, <2>5
<1>5. T \in SUBSET (1..(n + 1)) /\ \A p \in T : rest[p] \in Seq(V)
  OBVIOUS
<1> HIDE DEF T
<1>6. T = 1..(n + 1)
  BY <1>3, <1>4, <1>5, FromTheEnd
<1>7. DOMAIN rest = 1..(n + 1) /\ rest = [p \in DOMAIN rest |-> rest[p]]
  BY DEF IsSolution
<1>8. rest \in [1..(n + 1) -> Seq(V)]
  BY <1>5, <1>6, <1>7
<1> QED BY <1>1, <1>2, <1>8 DEF SolvesFrom

(* ReplaceFrom is that solution. *)
LEMMA ReplaceUnfold ==
    ASSUME NEW s, Len(s) \in Nat, NEW V, NEW end, NEW by, Pieces(Len(s), end, by, V)
    PROVE  SolvesFrom(ReplaceFrom(s, end, by), 1, Len(s), end, by, V)
<1>1. ReplaceFrom(s, end, by) = CHOOSE f : IsSolution(f, Len(s), end, by)
  BY DEF ReplaceFrom, IsSolution
<1>2. \E f : IsSolution(f, Len(s), end, by)
  BY ReplaceExists
<1>3. IsSolution(ReplaceFrom(s, end, by), Len(s), end, by)
  BY <1>1, <1>2
<1> QED BY <1>3, SolutionSolves

-----------------------------------------------------------------------------
(* The places that show that a text of n characters tells its positions. *)
TellsAt(at, told, n, A, tale) ==
    /\ at \in [1..n -> A]
    /\ \A j, k \in 1..n : j < k => at[j] < at[k]
    /\ \A p \in A : \E k \in 1..n : at[k] = p
    /\ \A k \in 1..n : told[k] = tale[at[k]]

LEMMA TellsHow ==
    ASSUME NEW told, NEW n, DOMAIN told = 1..n, NEW A, NEW tale
    PROVE  TellsInOrder(told, A, tale) <=> \E at : TellsAt(at, told, n, A, tale)
  BY DEF TellsInOrder, TellsAt

Before(A, B) == \A a \in A, b \in B : a < b

(* A text in pieces tells what its pieces tell. *)
LEMMA TellsConcat ==
    ASSUME NEW V, NEW u \in Seq(V), NEW v \in Seq(V), NEW tale,
           NEW A \in SUBSET Int, NEW B \in SUBSET Int, Before(A, B),
           TellsInOrder(u, A, tale), TellsInOrder(v, B, tale)
    PROVE  TellsInOrder(u \o v, A \cup B, tale)
<1> DEFINE m == Len(u)
           n == Len(v)
<1>1. m \in Nat /\ n \in Nat /\ DOMAIN u = 1..m /\ DOMAIN v = 1..n
  OBVIOUS
<1>2. /\ DOMAIN (u \o v) = 1..(m + n)
      /\ \A k \in 1..m : (u \o v)[k] = u[k]
      /\ \A k \in 1..n : (u \o v)[m + k] = v[k]
  OBVIOUS
<1>c. PICK f : TellsAt(f, u, m, A, tale)
  BY <1>1, TellsHow
<1>d. PICK g : TellsAt(g, v, n, B, tale)
  BY <1>1, TellsHow
<1>3. /\ f \in [1..m -> A]
      /\ \A j, k \in 1..m : j < k => f[j] < f[k]
      /\ \A p \in A : \E k \in 1..m : f[k] = p
      /\ \A k \in 1..m : u[k] = tale[f[k]]
  BY <1>c DEF TellsAt
<1>4. /\ g \in [1..n -> B]
      /\ \A j, k \in 1..n : j < k => g[j] < g[k]
      /\ \A p \in B : \E k \in 1..n : g[k] = p
      /\ \A k \in 1..n : v[k] = tale[g[k]]
  BY <1>d DEF TellsAt
<1> DEFINE h == [k \in 1..(m + n) |-> IF k <= m THEN f[k] ELSE g[k - m]]
<1> HIDE DEF m, n
<1>a. \A k \in 1..(m + n) : h[k] = IF k <= m THEN f[k] ELSE g[k - m]
  OBVIOUS
<1>b. DOMAIN h = 1..(m + n) /\ h = [k \in 1..(m + n) |-> h[k]]
  OBVIOUS
<1> HIDE DEF h
<1>5. ASSUME NEW k \in 1..(m + n)
      PROVE  (k \in 1..m /\ h[k] = f[k]) \/ (k \notin 1..m /\ k - m \in 1..n /\ h[k] = g[k - m])
  <2>1. CASE k <= m
    <3>1. k \in 1..m
      BY <1>1, <2>1
    <3> QED BY <1>a, <2>1, <3>1
  <2>2. CASE ~ (k <= m)
    <3>1. k \notin 1..m /\ k - m \in 1..n
      BY <1>1, <2>2
    <3> QED BY <1>a, <2>2, <3>1
  <2> QED BY <2>1, <2>2
<1>6. ASSUME NEW k \in 1..m PROVE k \in 1..(m + n) /\ h[k] = f[k]
  <2>1. k \in 1..(m + n)
    BY <1>1
  <2> QED BY <1>5, <2>1
<1>7. ASSUME NEW k \in 1..n PROVE m + k \in 1..(m + n) /\ h[m + k] = g[k]
  <2>1. m + k \in 1..(m + n) /\ m + k \notin 1..m /\ (m + k) - m = k
    BY <1>1
  <2> QED BY <1>5, <2>1
<1>8. h \in [1..(m + n) -> A \cup B]
  <2>1. \A k \in 1..(m + n) : h[k] \in A \cup B
    BY <1>3, <1>4, <1>5
  <2> QED BY <1>b, <2>1
<1>9. ASSUME NEW j \in 1..(m + n), NEW k \in 1..(m + n), j < k PROVE h[j] < h[k]
  <2>1. CASE k \in 1..m
    <3>1. j \in 1..m
      BY <1>1, <1>9, <2>1
    <3> QED BY <1>3, <1>6, <1>9, <2>1, <3>1
  <2>2. CASE k \notin 1..m
    <3>1. k - m \in 1..n /\ h[k] = g[k - m]
      BY <1>5, <2>2
    <3>2. CASE j \in 1..m
      <4>1. f[j] \in A /\ g[k - m] \in B
        BY <1>3, <1>4, <3>1, <3>2
      <4>2. f[j] < g[k - m]
        BY <4>1 DEF Before
      <4> QED BY <1>6, <3>1, <3>2, <4>2
    <3>3. CASE j \notin 1..m
      <4>1. j - m \in 1..n /\ h[j] = g[j - m]
        BY <1>5, <3>3
      <4>2. j - m < k - m
        BY <1>1, <1>9
      <4> QED BY <1>4, <3>1, <4>1, <4>2
    <3> QED BY <3>2, <3>3
  <2> QED BY <2>1, <2>2
<1>10. ASSUME NEW p \in A \cup B PROVE \E k \in 1..(m + n) : h[k] = p
  <2>1. CASE p \in A
    <3>1. PICK k \in 1..m : f[k] = p
      BY <1>3, <2>1
    <3> QED BY <1>6, <3>1
  <2>2. CASE p \in B
    <3>1. PICK k \in 1..n : g[k] = p
      BY <1>4, <2>2
    <3> QED BY <1>7, <3>1
  <2> QED BY <2>1, <2>2
<1>11. ASSUME NEW k \in 1..(m + n) PROVE (u \o v)[k] = tale[h[k]]
  <2>1. CASE k \in 1..m
    BY <1>2, <1>3, <1>6, <2>1 DEF m, n
  <2>2. CASE k \notin 1..m
    <3>1. k - m \in 1..n /\ h[k] = g[k - m] /\ k = m + (k - m)
      BY <1>1, <1>5, <2>2
    <3>2. (u \o v)[k] = v[k - m]
      BY <1>2, <3>1 DEF m, n
    <3> QED BY <1>4, <3>1, <3>2
  <2> QED BY <2>1, <2>2
<1>12. DOMAIN (u \o v) = 1..(m + n)
  BY <1>2 DEF m, n
<1>13. TellsAt(h, u \o v, m + n, A \cup B, tale)
  BY <1>8, <1>9, <1>10, <1>11 DEF TellsAt
<1> QED BY <1>12, <1>13, TellsHow

LEMMA TellsNothing == ASSUME NEW tale PROVE TellsInOrder(<<>>, {}, tale)
<1> DEFINE at == [k \in {} |-> 0]
<1>1. DOMAIN <<>> = {} /\ at \in [{} -> {}]
  OBVIOUS
<1> QED BY <1>1 DEF TellsInOrder

(* A piece tells the interval behind p that it is made of. *)
LEMMA TellsInterval ==
    ASSUME NEW p \in Int, NEW m \in Nat, NEW piece, DOMAIN piece = 1..m, NEW tale,
           \A k \in 1..m : piece[k] = tale[p + k]
    PROVE  TellsInOrder(piece, (p + 1)..(p + m), tale)
<1> DEFINE at == [k \in 1..m |-> p + k]
<1>1. at \in [DOMAIN piece -> (p + 1)..(p + m)]
  OBVIOUS
<1>2. \A j, k \in DOMAIN piece : j < k => at[j] < at[k]
  OBVIOUS
<1>3. ASSUME NEW q \in (p + 1)..(p + m) PROVE \E k \in DOMAIN piece : at[k] = q
  <2>1. q - p \in 1..m /\ at[q - p] = q
    OBVIOUS
  <2> QED BY <2>1
<1>4. \A k \in DOMAIN piece : piece[k] = tale[at[k]]
  OBVIOUS
<1> HIDE DEF at
<1> QED BY <1>1, <1>2, <1>3, <1>4 DEF TellsInOrder

LEMMA TellsOne ==
    ASSUME NEW p \in Int, NEW tale, NEW x, x = tale[p] PROVE TellsInOrder(<<x>>, {p}, tale)
<1>1. p - 1 \in Int /\ (p - 1) + 1 = p /\ ((p - 1) + 1)..((p - 1) + 1) = {p}
  OBVIOUS
<1>2. DOMAIN <<x>> = 1..1 /\ \A k \in 1..1 : <<x>>[k] = tale[(p - 1) + k]
  BY <1>1
<1> QED BY <1>1, <1>2, TellsInterval

-----------------------------------------------------------------------------
LEMMA CodeIsTwo ==
    ASSUME NEW s \in Seq(STRING), NEW p \in 1..Len(s), IsCode(s, p)
    PROVE  /\ p + 1 \in 1..Len(s) /\ s[p] = Section /\ s[p + 1] # Section
           /\ ~ IsCode(s, p + 1)
<1>1. p + 1 \in 1..Len(s) /\ s[p] = Section /\ s[p + 1] \in Codes
  BY DEF IsCode
<1>2. s[p + 1] # Section
  BY <1>1, TextAssumption
<1> QED BY <1>1, <1>2 DEF IsCode

(* The kept positions from p on, and from p to before q. *)
KeptFrom(s, p) == {q \in Kept(s) : q >= p}
KeptIn(s, p, q) == {r \in Kept(s) : r \in p..(q - 1)}

LEMMA KeptSplit ==
    ASSUME NEW s \in Seq(STRING), NEW p \in 1..(Len(s) + 1), NEW q \in 1..(Len(s) + 1), p <= q
    PROVE  /\ KeptFrom(s, p) = KeptIn(s, p, q) \cup KeptFrom(s, q)
           /\ KeptIn(s, p, q) \in SUBSET Int /\ KeptFrom(s, q) \in SUBSET Int
           /\ Before(KeptIn(s, p, q), KeptFrom(s, q))
<1>1. DOMAIN s = 1..Len(s)
  OBVIOUS
<1>2. \A r \in Kept(s) : r \in 1..Len(s)
  BY <1>1 DEF Kept
<1> QED BY <1>2 DEF KeptFrom, KeptIn, Before

LEMMA KeptDef ==
    ASSUME NEW s \in Seq(STRING), NEW p \in 1..Len(s)
    PROVE  p \in Kept(s) <=> ~ IsCode(s, p) /\ ~ (p > 1 /\ IsCode(s, p - 1))
<1>1. p \in DOMAIN s
  OBVIOUS
<1> QED BY <1>1 DEF Kept

(* What StripColorCodes makes of the text from each position on. *)
StripRest(rest, s) ==
    /\ rest \in [1..(Len(s) + 1) -> Seq(STRING)]
    /\ rest[Len(s) + 1] = <<>>
    /\ \A p \in 1..Len(s) : IsCode(s, p) => rest[p] = rest[p + 2]
    /\ \A p \in 1..Len(s) : ~ IsCode(s, p) => rest[p] = <<s[p]>> \o rest[p + 1]

LEMMA StripUnfold ==
    ASSUME NEW s \in Seq(STRING)
    PROVE  \E rest : StripRest(rest, s) /\ StripColorCodes(s) = rest[1]
<1> DEFINE n == Len(s)
           end == [p \in DOMAIN s |-> IF IsCode(s, p) THEN p + 1 ELSE p]
           by == [p \in DOMAIN s |-> IF IsCode(s, p) THEN <<>> ELSE <<s[p]>>]
           rest == ReplaceFrom(s, end, by)
<1>1. n \in Nat /\ DOMAIN s = 1..n /\ \A p \in 1..n : s[p] \in STRING
  OBVIOUS
<1>2. \A p \in 1..n : IsCode(s, p) => end[p] = p + 1 /\ by[p] = <<>> /\ p + 1 \in 1..n
  BY <1>1, CodeIsTwo
<1>3. \A p \in 1..n : ~ IsCode(s, p) => end[p] = p /\ by[p] = <<s[p]>>
  BY <1>1
<1>4. end = [p \in 1..n |-> end[p]] /\ by = [p \in 1..n |-> by[p]]
  BY <1>1
<1>5. StripColorCodes(s) = rest[1]
  BY DEF StripColorCodes, ReplaceAll
<1> HIDE DEF end, by
<1>6. ASSUME NEW p \in 1..n PROVE end[p] \in 1..n /\ by[p] \in Seq(STRING) /\ p <= end[p]
  <2>1. CASE IsCode(s, p)
    <3>1. end[p] = p + 1 /\ by[p] = <<>> /\ p + 1 \in 1..n
      BY <1>2, <2>1
    <3>2. p <= p + 1 /\ <<>> \in Seq(STRING)
      OBVIOUS
    <3> QED BY <3>1, <3>2
  <2>2. CASE ~ IsCode(s, p)
    <3>1. <<s[p]>> \in Seq(STRING)
      BY <1>1
    <3>2. end[p] = p /\ by[p] = <<s[p]>> /\ p <= p
      BY <1>3, <2>2
    <3> QED BY <3>1, <3>2
  <2> QED BY <2>1, <2>2
<1>7. Pieces(n, end, by, STRING)
  BY <1>4, <1>6 DEF Pieces
<1>f. SolvesFrom(rest, 1, n, end, by, STRING)
  BY <1>1, <1>7, ReplaceUnfold
<1> HIDE DEF rest
<1>8. /\ rest \in [1..(n + 1) -> Seq(STRING)]
      /\ rest[n + 1] = <<>>
      /\ \A p \in 1..n : rest[p] = by[p] \o rest[end[p] + 1]
  BY <1>f DEF SolvesFrom
<1>9. ASSUME NEW p \in 1..n, IsCode(s, p) PROVE rest[p] = rest[p + 2]
  <2>1. p + 2 \in 1..(n + 1) /\ (p + 1) + 1 = p + 2 /\ end[p] = p + 1 /\ by[p] = <<>>
    BY <1>1, <1>2, <1>9
  <2>2. rest[p] = <<>> \o rest[p + 2]
    BY <1>8, <2>1
  <2> QED BY <1>8, <2>1, <2>2
<1>10. ASSUME NEW p \in 1..n, ~ IsCode(s, p) PROVE rest[p] = <<s[p]>> \o rest[p + 1]
  BY <1>3, <1>8, <1>10
<1>11. StripRest(rest, s)
  BY <1>8, <1>9, <1>10 DEF StripRest, n
<1> QED BY <1>5, <1>11

(* StripColorCodes tells every kept character. *)
LEMMA StripTells ==
    ASSUME NEW s \in Seq(STRING) PROVE TellsInOrder(StripColorCodes(s), Kept(s), s)
<1> DEFINE n == Len(s)
<1>1. n \in Nat
  OBVIOUS
<1>2. PICK rest : StripRest(rest, s) /\ StripColorCodes(s) = rest[1]
  BY StripUnfold
<1> DEFINE Reached(p) == p \in 2..n => ~ IsCode(s, p - 1)
           T == {p \in 1..(n + 1) : Reached(p) => TellsInOrder(rest[p], KeptFrom(s, p), s)}
<1>3. n + 1 \in T
  <2>1. KeptFrom(s, n + 1) = {}
    <3>1. DOMAIN s = 1..n
      OBVIOUS
    <3> QED BY <1>1, <3>1 DEF KeptFrom, Kept
  <2>2. n + 1 \in 1..(n + 1) /\ rest[n + 1] = <<>>
    BY <1>1, <1>2 DEF StripRest
  <2> QED BY <2>1, <2>2, TellsNothing
<1>4. ASSUME NEW p \in 1..n, \A q \in (p + 1)..(n + 1) : q \in T PROVE p \in T
  <2> SUFFICES ASSUME Reached(p) PROVE TellsInOrder(rest[p], KeptFrom(s, p), s)
    BY <1>1
  <2>1. CASE IsCode(s, p)
    <3>1. p + 1 \in 1..n /\ ~ IsCode(s, p + 1)
      BY <2>1, CodeIsTwo
    <3>2. p + 2 \in (p + 1)..(n + 1) /\ p + 2 \in 1..(n + 1) /\ (p + 2) - 1 = p + 1
          /\ (p + 1) - 1 = p /\ p + 1 > 1 /\ p \in 1..(n + 1) /\ p..(p + 1) = {p, p + 1}
      BY <1>1, <3>1
    <3>3. p + 2 \in T /\ Reached(p + 2)
      BY <1>4, <3>1, <3>2
    <3>4. p \notin Kept(s) /\ p + 1 \notin Kept(s)
      BY <2>1, <3>1, <3>2, KeptDef
    <3>5. KeptIn(s, p, p + 2) = {}
      BY <3>2, <3>4 DEF KeptIn
    <3>6. KeptFrom(s, p) = KeptFrom(s, p + 2)
      <4>1. p <= p + 2
        OBVIOUS
      <4>2. p \in 1..(n + 1) /\ p + 2 \in 1..(n + 1)
        BY <3>2
      <4>3. KeptFrom(s, p) = KeptIn(s, p, p + 2) \cup KeptFrom(s, p + 2)
        BY <4>1, <4>2, KeptSplit
      <4> QED BY <3>5, <4>3
    <3>7. rest[p] = rest[p + 2]
      BY <1>2, <2>1 DEF StripRest
    <3> QED BY <3>3, <3>6, <3>7
  <2>2. CASE ~ IsCode(s, p)
    <3>1. p + 1 \in (p + 1)..(n + 1) /\ p + 1 \in 1..(n + 1) /\ (p + 1) - 1 = p
          /\ p \in 1..(n + 1) /\ p..p = {p} /\ p \in Int
      BY <1>1
    <3>2. p + 1 \in T /\ Reached(p + 1)
      BY <1>4, <2>2, <3>1
    <3>3. p \in Kept(s)
      BY <1>1, <2>2, KeptDef
    <3>4. KeptIn(s, p, p + 1) = {p}
      BY <3>1, <3>3 DEF KeptIn
    <3>5. /\ KeptFrom(s, p) = {p} \cup KeptFrom(s, p + 1)
          /\ {p} \in SUBSET Int /\ KeptFrom(s, p + 1) \in SUBSET Int
          /\ Before({p}, KeptFrom(s, p + 1))
      <4>1. p <= p + 1
        OBVIOUS
      <4>2. p \in 1..(n + 1) /\ p + 1 \in 1..(n + 1)
        BY <3>1
      <4>3. /\ KeptFrom(s, p) = KeptIn(s, p, p + 1) \cup KeptFrom(s, p + 1)
            /\ KeptIn(s, p, p + 1) \in SUBSET Int /\ KeptFrom(s, p + 1) \in SUBSET Int
            /\ Before(KeptIn(s, p, p + 1), KeptFrom(s, p + 1))
        BY <4>1, <4>2, KeptSplit
      <4> QED BY <3>4, <4>3
    <3>6. TellsInOrder(<<s[p]>>, {p}, s)
      BY <3>1, TellsOne
    <3>7. rest[p] = <<s[p]>> \o rest[p + 1] /\ rest[p + 1] \in Seq(STRING)
      BY <1>2, <2>2, <3>1 DEF StripRest
    <3>8. <<s[p]>> \in Seq(STRING)
      OBVIOUS
    <3>9. TellsInOrder(rest[p + 1], KeptFrom(s, p + 1), s)
      BY <3>2
    <3>10. TellsInOrder(<<s[p]>> \o rest[p + 1], {p} \cup KeptFrom(s, p + 1), s)
      BY <3>5, <3>6, <3>7, <3>8, <3>9, TellsConcat
    <3> QED BY <3>5, <3>7, <3>10
  <2> QED BY <2>1, <2>2
<1>5. T \in SUBSET (1..(n + 1))
  OBVIOUS
<1>6. 1 \in T => TellsInOrder(rest[1], KeptFrom(s, 1), s)
  BY <1>1
<1>7. KeptFrom(s, 1) = Kept(s)
  <2>1. DOMAIN s = 1..n
    OBVIOUS
  <2> QED BY <1>1, <2>1 DEF KeptFrom, Kept
<1> HIDE DEF T, n
<1>8. T = 1..(n + 1)
  BY <1>1, <1>3, <1>4, <1>5, FromTheEnd
<1>9. 1 \in T
  BY <1>1, <1>8
<1> QED BY <1>2, <1>6, <1>7, <1>9

-----------------------------------------------------------------------------
(* A span is not empty, has no section sign but its first, and ends before *)
(* the next.                                                               *)
LEMMA SpanEnds ==
    ASSUME NEW s \in Seq(STRING), NEW p \in 1..Len(s), IsCode(s, p)
    PROVE  /\ SpanEnd(s, p) \in (p + 1)..Len(s)
           /\ \A m \in (p + 1)..SpanEnd(s, p) : s[m] # Section
           /\ SpanEnd(s, p) < Len(s) => s[SpanEnd(s, p) + 1] = Section
<1> DEFINE signs == {q \in (p + 2)..Len(s) : s[q] = Section}
<1>1. p + 1 \in 1..Len(s) /\ s[p + 1] # Section
  BY CodeIsTwo
<1>2. SpanEnd(s, p) = IF signs = {} THEN Len(s) ELSE Min(signs) - 1
  BY DEF SpanEnd
<1>3. \A m \in (p + 1)..Len(s) : m = p + 1 \/ m \in (p + 2)..Len(s)
  OBVIOUS
<1>4. CASE signs = {}
  <2>1. \A m \in (p + 2)..Len(s) : s[m] # Section
    BY <1>4
  <2>2. SpanEnd(s, p) = Len(s)
    BY <1>2, <1>4
  <2> QED BY <1>1, <1>3, <2>1, <2>2
<1>5. CASE signs # {}
  <2>1. signs \in SUBSET Nat
    OBVIOUS
  <2>2. \E x \in signs : \A y \in signs : x <= y
    BY <1>5, <2>1, Least
  <2>3. Min(signs) \in signs /\ \A y \in signs : Min(signs) <= y
    <3> HIDE DEF signs
    <3> QED BY <2>2 DEF Min
  <2> DEFINE e == Min(signs)
  <2>4. e \in (p + 2)..Len(s) /\ s[e] = Section /\ \A y \in (p + 2)..Len(s) : s[y] = Section => e <= y
    BY <2>3
  <2>5. SpanEnd(s, p) = e - 1
    BY <1>2, <1>5
  <2> HIDE DEF e, signs
  <2>6. e - 1 \in (p + 1)..Len(s) /\ (e - 1) + 1 = e
    BY <2>4
  <2>7. ASSUME NEW m \in (p + 1)..(e - 1) PROVE s[m] # Section
    <3>1. m < e /\ m \in (p + 1)..Len(s) /\ ~ (e <= m)
      BY <2>4
    <3> QED BY <1>1, <1>3, <2>4, <3>1
  <2> QED BY <2>4, <2>5, <2>6, <2>7
<1> QED BY <1>4, <1>5

(* The characters of a text, each with its style. *)
Tale(s) == [p \in DOMAIN s |-> <<StyleAt(s, p), s[p]>>]
Styled == ({None} \cup STRING) \X STRING

(* A code governs the text up to the next section sign. *)
Governed(s, p) == \E q \in 1..p : LastSign(s, q, p) /\ IsCode(s, q)

LEMMA StyleGiven ==
    ASSUME NEW s \in Seq(STRING), NEW q \in 1..Len(s), NEW p \in q..Len(s),
           IsCode(s, q), \A m \in (q + 1)..p : s[m] # Section
    PROVE  StyleAt(s, p) = s[q + 1]
<1>1. q \in 1..p /\ LastSign(s, q, p)
  BY CodeIsTwo DEF LastSign
<1>2. ASSUME NEW r \in 1..p, LastSign(s, r, p) PROVE r = q
  <2>1. s[r] = Section /\ s[q] = Section
    BY <1>1, <1>2 DEF LastSign
  <2>2. ~ (r \in (q + 1)..p)
    BY <2>1
  <2>3. ~ (q \in (r + 1)..p)
    BY <1>2, <2>1 DEF LastSign
  <2> QED BY <2>2, <2>3
<1>3. (CHOOSE r \in 1..p : LastSign(s, r, p)) = q
  BY <1>1, <1>2
<1>4. \E r \in 1..p : LastSign(s, r, p) /\ IsCode(s, r)
  BY <1>1
<1> QED BY <1>3, <1>4 DEF StyleAt

LEMMA StyleNone ==
    ASSUME NEW s, NEW p, ~ Governed(s, p) PROVE StyleAt(s, p) = None
  BY DEF StyleAt, Governed

(* What holds where a match of FormatMOTDHTML may begin. *)
Free(s, p) == p \in 1..Len(s) /\ Governed(s, p) => IsCode(s, p)

LEMMA FreeIsKept ==
    ASSUME NEW s \in Seq(STRING), NEW p \in 1..Len(s), Free(s, p), ~ IsCode(s, p)
    PROVE  p \in Kept(s) /\ StyleAt(s, p) = None
<1>1. ~ Governed(s, p)
  BY DEF Free
<1>2. ASSUME p > 1, IsCode(s, p - 1) PROVE FALSE
  <2>1. p - 1 \in 1..Len(s) /\ p - 1 \in 1..p /\ (p - 1) + 1 = p /\ ((p - 1) + 1)..p = {p}
    BY <1>2
  <2>2. s[p - 1] = Section /\ s[p] # Section
    BY <1>2, <2>1, CodeIsTwo
  <2>3. LastSign(s, p - 1, p)
    BY <2>1, <2>2 DEF LastSign
  <2> QED BY <1>1, <1>2, <2>1, <2>3 DEF Governed
<1> QED BY <1>1, <1>2, StyleNone, KeptDef

LEMMA FreeGoesOn ==
    ASSUME NEW s \in Seq(STRING), NEW p \in 1..Len(s), Free(s, p), ~ IsCode(s, p)
    PROVE  Free(s, p + 1)
<1> SUFFICES ASSUME p + 1 \in 1..Len(s), Governed(s, p + 1) PROVE IsCode(s, p + 1)
  BY DEF Free
<1>1. PICK q \in 1..(p + 1) : LastSign(s, q, p + 1) /\ IsCode(s, q)
  BY DEF Governed
<1>2. CASE q = p + 1
  BY <1>1, <1>2
<1>3. CASE q # p + 1
  <2>1. q \in 1..p /\ (q + 1)..p \subseteq (q + 1)..(p + 1)
    BY <1>3
  <2>2. LastSign(s, q, p)
    BY <1>1, <2>1 DEF LastSign
  <2>3. Governed(s, p)
    BY <1>1, <2>1, <2>2 DEF Governed
  <2> QED BY <2>3 DEF Free
<1> QED BY <1>2, <1>3

LEMMA SignIsFree ==
    ASSUME NEW s \in Seq(STRING), NEW p \in 1..(Len(s) + 1),
           p <= Len(s) => s[p] = Section
    PROVE  Free(s, p)
<1> SUFFICES ASSUME p \in 1..Len(s), Governed(s, p) PROVE IsCode(s, p)
  BY DEF Free
<1>1. PICK q \in 1..p : LastSign(s, q, p) /\ IsCode(s, q)
  BY DEF Governed
<1>2. ~ (p \in (q + 1)..p)
  BY <1>1 DEF LastSign
<1>3. q = p
  BY <1>2
<1> QED BY <1>1, <1>3

(* A span: its characters with the style of its code. *)
SpanOf(s, p) == [k \in 1..(SpanEnd(s, p) - p - 1) |-> <<s[p + 1], s[p + 1 + k]>>]

(* What FormatMOTDHTML makes of the text from each position on. *)
HtmlRest(rest, s) ==
    /\ rest \in [1..(Len(s) + 1) -> Seq(Styled)]
    /\ rest[Len(s) + 1] = <<>>
    /\ \A p \in 1..Len(s) : IsCode(s, p) => rest[p] = SpanOf(s, p) \o rest[SpanEnd(s, p) + 1]
    /\ \A p \in 1..Len(s) : ~ IsCode(s, p) => rest[p] = <<<<None, s[p]>>>> \o rest[p + 1]

LEMMA SpanIsText ==
    ASSUME NEW s \in Seq(STRING), NEW p \in 1..Len(s), IsCode(s, p)
    PROVE  /\ SpanOf(s, p) \in Seq(Styled)
           /\ DOMAIN SpanOf(s, p) = 1..(SpanEnd(s, p) - p - 1)
           /\ SpanEnd(s, p) - p - 1 \in Nat
<1> DEFINE e == SpanEnd(s, p)
           m == e - p - 1
<1>1. p + 1 \in 1..Len(s) /\ e \in (p + 1)..Len(s)
  BY CodeIsTwo, SpanEnds
<1>2. SpanOf(s, p) = [k \in 1..m |-> <<s[p + 1], s[p + 1 + k]>>]
  BY DEF SpanOf
<1> HIDE DEF e
<1>3. m \in Nat /\ \A k \in 1..m : p + 1 + k \in 1..Len(s)
  BY <1>1
<1>4. ASSUME NEW k \in 1..m PROVE <<s[p + 1], s[p + 1 + k]>> \in Styled
  <2>1. s[p + 1] \in STRING /\ s[p + 1 + k] \in STRING
    BY <1>1, <1>3, ElementOfSeq
  <2> QED BY <2>1 DEF Styled
<1> HIDE DEF m
<1>5. SpanOf(s, p) \in [1..m -> Styled]
  BY <1>2, <1>4
<1>6. SpanOf(s, p) \in Seq(Styled) /\ DOMAIN SpanOf(s, p) = 1..m
  BY <1>3, <1>5, IsASeq
<1> QED BY <1>3, <1>6 DEF m, e

LEMMA HtmlUnfold ==
    ASSUME NEW s \in Seq(STRING)
    PROVE  \E rest : HtmlRest(rest, s) /\ FormatMOTDHTML(s) = rest[1]
<1> DEFINE n == Len(s)
           end == [p \in DOMAIN s |-> IF SpanAt(s, p) THEN SpanEnd(s, p) ELSE p]
           by == [p \in DOMAIN s |-> IF SpanAt(s, p)
                                     THEN [k \in 1..(SpanEnd(s, p) - p - 1) |->
                                              <<s[p + 1], s[p + 1 + k]>>]
                                     ELSE <<<<None, s[p]>>>>]
           rest == ReplaceFrom(s, end, by)
<1>1. n \in Nat /\ DOMAIN s = 1..n /\ \A p \in 1..n : s[p] \in STRING
  OBVIOUS
<1>2. \A p \in 1..n : IsCode(s, p) => end[p] = SpanEnd(s, p) /\ by[p] = SpanOf(s, p)
  BY <1>1 DEF SpanAt, SpanOf
<1>3. \A p \in 1..n : ~ IsCode(s, p) => end[p] = p /\ by[p] = <<<<None, s[p]>>>>
  BY <1>1 DEF SpanAt
<1>4. end = [p \in 1..n |-> end[p]] /\ by = [p \in 1..n |-> by[p]]
  BY <1>1
<1>5. FormatMOTDHTML(s) = rest[1]
  BY DEF FormatMOTDHTML, ReplaceAll
<1> HIDE DEF end, by
<1>6. ASSUME NEW p \in 1..n PROVE end[p] \in 1..n /\ by[p] \in Seq(Styled) /\ p <= end[p]
  <2>1. CASE IsCode(s, p)
    <3>1. end[p] = SpanEnd(s, p) /\ by[p] = SpanOf(s, p)
      BY <1>2, <2>1
    <3>2. SpanEnd(s, p) \in (p + 1)..n
      BY <2>1, SpanEnds
    <3>3. SpanOf(s, p) \in Seq(Styled)
      BY <2>1, SpanIsText
    <3>4. SpanEnd(s, p) \in 1..n /\ p <= SpanEnd(s, p)
      BY <3>2
    <3> QED BY <3>1, <3>3, <3>4
  <2>2. CASE ~ IsCode(s, p)
    <3>1. <<None, s[p]>> \in Styled
      BY <1>1 DEF Styled
    <3>2. <<<<None, s[p]>>>> \in Seq(Styled)
      BY <3>1
    <3>3. end[p] = p /\ by[p] = <<<<None, s[p]>>>> /\ p <= p
      BY <1>3, <2>2
    <3> QED BY <3>2, <3>3
  <2> QED BY <2>1, <2>2
<1>7. Pieces(n, end, by, Styled)
  BY <1>4, <1>6 DEF Pieces
<1>8. SolvesFrom(rest, 1, n, end, by, Styled)
  BY <1>1, <1>7, ReplaceUnfold
<1> HIDE DEF rest
<1>9. /\ rest \in [1..(n + 1) -> Seq(Styled)]
      /\ rest[n + 1] = <<>>
      /\ \A p \in 1..n : rest[p] = by[p] \o rest[end[p] + 1]
  BY <1>8 DEF SolvesFrom
<1>10. ASSUME NEW p \in 1..n, IsCode(s, p) PROVE rest[p] = SpanOf(s, p) \o rest[SpanEnd(s, p) + 1]
  BY <1>2, <1>9, <1>10
<1>11. ASSUME NEW p \in 1..n, ~ IsCode(s, p) PROVE rest[p] = <<<<None, s[p]>>>> \o rest[p + 1]
  BY <1>3, <1>9, <1>11
<1>12. HtmlRest(rest, s)
  BY <1>9, <1>10, <1>11 DEF HtmlRest, n
<1> QED BY <1>5, <1>12

(* A span tells the text behind its code. *)
LEMMA SpanTells ==
    ASSUME NEW s \in Seq(STRING), NEW p \in 1..Len(s), IsCode(s, p)
    PROVE  TellsInOrder(SpanOf(s, p), KeptIn(s, p, SpanEnd(s, p) + 1), Tale(s))
<1> DEFINE e == SpanEnd(s, p)
           m == e - p - 1
<1>1. /\ e \in (p + 1)..Len(s)
      /\ \A k \in (p + 1)..e : s[k] # Section
      /\ p + 1 \in 1..Len(s)
  BY CodeIsTwo, SpanEnds
<1>2. DOMAIN SpanOf(s, p) = 1..m /\ m \in Nat
  BY SpanIsText
<1>3. \A k \in 1..m : SpanOf(s, p)[k] = <<s[p + 1], s[p + 1 + k]>>
  BY DEF SpanOf
<1> HIDE DEF e
<1>4. ASSUME NEW k \in 1..m PROVE SpanOf(s, p)[k] = Tale(s)[p + 1 + k]
  <2>1. p + 1 + k \in p..Len(s) /\ p + 1 + k \in DOMAIN s
        /\ \A r \in (p + 1)..(p + 1 + k) : r \in (p + 1)..e
    BY <1>1
  <2>2. StyleAt(s, p + 1 + k) = s[p + 1]
    BY <1>1, <2>1, StyleGiven
  <2>3. Tale(s)[p + 1 + k] = <<StyleAt(s, p + 1 + k), s[p + 1 + k]>>
    BY <2>1 DEF Tale
  <2> QED BY <1>3, <2>2, <2>3
<1>5. KeptIn(s, p, e + 1) = (p + 2)..e
  <2>1. p \notin Kept(s)
    BY KeptDef
  <2>2. p + 1 \notin Kept(s)
    <3>1. p + 1 > 1 /\ (p + 1) - 1 = p
      OBVIOUS
    <3> QED BY <1>1, <3>1, KeptDef
  <2>3. ASSUME NEW r \in (p + 2)..e PROVE r \in Kept(s)
    <3>1. r \in 1..Len(s) /\ r \in (p + 1)..e /\ r - 1 \in (p + 1)..e
      BY <1>1
    <3>2. s[r] # Section /\ s[r - 1] # Section
      BY <1>1, <3>1
    <3>3. ~ IsCode(s, r) /\ ~ IsCode(s, r - 1)
      BY <3>2 DEF IsCode
    <3> QED BY <3>1, <3>3, KeptDef
  <2>4. \A r \in p..((e + 1) - 1) : r = p \/ r = p + 1 \/ r \in (p + 2)..e
    BY <1>1
  <2>5. \A r \in (p + 2)..e : r \in p..((e + 1) - 1)
    BY <1>1
  <2> QED BY <2>1, <2>2, <2>3, <2>4, <2>5 DEF KeptIn
<1>6. (p + 1) + 1 = p + 2 /\ (p + 1) + m = e /\ p + 1 \in Int
  BY <1>1
<1> HIDE DEF m
<1>7. TellsInOrder(SpanOf(s, p), ((p + 1) + 1)..((p + 1) + m), Tale(s))
  BY <1>2, <1>4, <1>6, TellsInterval
<1> QED BY <1>5, <1>6, <1>7 DEF e

(* FormatMOTDHTML tells every kept character with its style. *)
LEMMA HtmlTells ==
    ASSUME NEW s \in Seq(STRING) PROVE TellsInOrder(FormatMOTDHTML(s), Kept(s), Tale(s))
<1> DEFINE n == Len(s)
<1>1. n \in Nat
  OBVIOUS
<1>2. PICK rest : HtmlRest(rest, s) /\ FormatMOTDHTML(s) = rest[1]
  BY HtmlUnfold
<1> DEFINE T == {p \in 1..(n + 1) : Free(s, p) => TellsInOrder(rest[p], KeptFrom(s, p), Tale(s))}
<1>3. n + 1 \in T
  <2>1. KeptFrom(s, n + 1) = {}
    <3>1. DOMAIN s = 1..n
      OBVIOUS
    <3> QED BY <1>1, <3>1 DEF KeptFrom, Kept
  <2>2. n + 1 \in 1..(n + 1) /\ rest[n + 1] = <<>>
    BY <1>1, <1>2 DEF HtmlRest
  <2> QED BY <2>1, <2>2, TellsNothing
<1>4. ASSUME NEW p \in 1..n, \A q \in (p + 1)..(n + 1) : q \in T PROVE p \in T
  <2> SUFFICES ASSUME Free(s, p) PROVE TellsInOrder(rest[p], KeptFrom(s, p), Tale(s))
    BY <1>1
  <2>1. CASE IsCode(s, p)
    <3> DEFINE q == SpanEnd(s, p) + 1
    <3>1. /\ SpanEnd(s, p) \in (p + 1)..n
          /\ SpanEnd(s, p) < n => s[SpanEnd(s, p) + 1] = Section
      BY <2>1, SpanEnds
    <3>2. q \in (p + 1)..(n + 1) /\ q \in 1..(n + 1) /\ p \in 1..(n + 1) /\ p <= q
      BY <1>1, <3>1
    <3>3. q <= n => s[q] = Section
      BY <1>1, <3>1
    <3>4. SpanOf(s, p) \in Seq(Styled)
      BY <2>1, SpanIsText
    <3>5. TellsInOrder(SpanOf(s, p), KeptIn(s, p, q), Tale(s))
      BY <2>1, SpanTells
    <3>6. rest[p] = SpanOf(s, p) \o rest[q]
      BY <1>2, <2>1 DEF HtmlRest
    <3> HIDE DEF q
    <3>7. q \in T /\ Free(s, q)
      BY <1>4, <3>2, <3>3, SignIsFree
    <3>8. TellsInOrder(rest[q], KeptFrom(s, q), Tale(s))
      BY <3>7
    <3>9. rest[q] \in Seq(Styled)
      BY <1>2, <3>2 DEF HtmlRest
    <3>10. /\ KeptFrom(s, p) = KeptIn(s, p, q) \cup KeptFrom(s, q)
           /\ KeptIn(s, p, q) \in SUBSET Int /\ KeptFrom(s, q) \in SUBSET Int
           /\ Before(KeptIn(s, p, q), KeptFrom(s, q))
      BY <3>2, KeptSplit
    <3>11. TellsInOrder(SpanOf(s, p) \o rest[q], KeptIn(s, p, q) \cup KeptFrom(s, q), Tale(s))
      BY <3>4, <3>5, <3>8, <3>9, <3>10, TellsConcat
    <3> QED BY <3>6, <3>10, <3>11
  <2>2. CASE ~ IsCode(s, p)
    <3>1. p + 1 \in (p + 1)..(n + 1) /\ p + 1 \in 1..(n + 1) /\ (p + 1) - 1 = p
          /\ p \in 1..(n + 1) /\ p..p = {p} /\ p \in Int /\ p \in DOMAIN s /\ p <= p + 1
      BY <1>1
    <3>2. p + 1 \in T /\ Free(s, p + 1)
      BY <1>4, <2>2, <3>1, FreeGoesOn
    <3>3. p \in Kept(s) /\ StyleAt(s, p) = None
      BY <2>2, FreeIsKept
    <3>4. KeptIn(s, p, p + 1) = {p}
      BY <3>1, <3>3 DEF KeptIn
    <3>5. /\ KeptFrom(s, p) = {p} \cup KeptFrom(s, p + 1)
          /\ {p} \in SUBSET Int /\ KeptFrom(s, p + 1) \in SUBSET Int
          /\ Before({p}, KeptFrom(s, p + 1))
      <4>1. p \in 1..(n + 1) /\ p + 1 \in 1..(n + 1) /\ p <= p + 1
        BY <3>1
      <4>2. /\ KeptFrom(s, p) = KeptIn(s, p, p + 1) \cup KeptFrom(s, p + 1)
            /\ KeptIn(s, p, p + 1) \in SUBSET Int /\ KeptFrom(s, p + 1) \in SUBSET Int
            /\ Before(KeptIn(s, p, p + 1), KeptFrom(s, p + 1))
        BY <4>1, KeptSplit
      <4> QED BY <3>4, <4>2
    <3>6. Tale(s)[p] = <<None, s[p]>>
      BY <3>1, <3>3 DEF Tale
    <3>7. TellsInOrder(<<<<None, s[p]>>>>, {p}, Tale(s))
      BY <3>1, <3>6, TellsOne
    <3>8. rest[p] = <<<<None, s[p]>>>> \o rest[p + 1] /\ rest[p + 1] \in Seq(Styled)
      BY <1>2, <2>2, <3>1 DEF HtmlRest
    <3>9. <<<<None, s[p]>>>> \in Seq(Styled)
      <4>1. s[p] \in STRING
        OBVIOUS
      <4>2. <<None, s[p]>> \in Styled
        BY <4>1 DEF Styled
      <4> QED BY <4>2
    <3>10. TellsInOrder(rest[p + 1], KeptFrom(s, p + 1), Tale(s))
      BY <3>2
    <3>11. TellsInOrder(<<<<None, s[p]>>>> \o rest[p + 1], {p} \cup KeptFrom(s, p + 1), Tale(s))
      BY <3>5, <3>7, <3>8, <3>9, <3>10, TellsConcat
    <3> QED BY <3>5, <3>8, <3>11
  <2> QED BY <2>1, <2>2
<1>5. T \in SUBSET (1..(n + 1))
  OBVIOUS
<1>6. Free(s, 1)
  <2>1. ASSUME 1 \in 1..Len(s), Governed(s, 1) PROVE IsCode(s, 1)
    <3>1. \A q \in 1..1 : q = 1
      OBVIOUS
    <3> QED BY <2>1, <3>1 DEF Governed
  <2> QED BY <2>1 DEF Free
<1>7. 1 \in T => TellsInOrder(rest[1], KeptFrom(s, 1), Tale(s))
  BY <1>6
<1>8. KeptFrom(s, 1) = Kept(s)
  <2>1. DOMAIN s = 1..n
    OBVIOUS
  <2> QED BY <1>1, <2>1 DEF KeptFrom, Kept
<1> HIDE DEF T, n
<1>9. T = 1..(n + 1)
  BY <1>1, <1>3, <1>4, <1>5, FromTheEnd
<1>10. 1 \in T
  BY <1>1, <1>9
<1> QED BY <1>2, <1>7, <1>8, <1>10

-----------------------------------------------------------------------------
(* Texts that are made by putting characters in front. *)
Put(x, s) == <<x>> \o s

LEMMA PutIs ==
    ASSUME NEW S, NEW s \in Seq(S), NEW x \in S
    PROVE  /\ Put(x, s) \in Seq(S) /\ Len(Put(x, s)) = Len(s) + 1
           /\ Put(x, s)[1] = x
           /\ \A p \in 1..Len(s) : Put(x, s)[p + 1] = s[p]
<1>1. <<x>> \in Seq(S) /\ Len(<<x>>) = 1 /\ <<x>>[1] = x
  OBVIOUS
<1>2. <<x>> \o s \in Seq(S) /\ Len(<<x>> \o s) = 1 + Len(s)
  BY <1>1
<1>4. \A p \in 1..Len(s) : (<<x>> \o s)[p + 1] = s[p]
  BY <1>1
<1>5. (<<x>> \o s)[1] = x
  BY <1>1
<1> QED BY <1>2, <1>4, <1>5 DEF Put

LEMMA Uncons ==
    ASSUME NEW S, NEW t \in Seq(S), t # <<>>
    PROVE  \E x \in S, s \in Seq(S) : t = Put(x, s) /\ Len(s) = Len(t) - 1
<1>1. Head(t) \in S /\ Tail(t) \in Seq(S) /\ Len(Tail(t)) = Len(t) - 1 /\ t = <<Head(t)>> \o Tail(t)
  BY HeadTailProperties
<1> QED BY <1>1 DEF Put

LEMMA ByConsing ==
    ASSUME NEW S, NEW T \in SUBSET Seq(S), <<>> \in T,
           \A s \in T : \A x \in S : Put(x, s) \in T
    PROVE  T = Seq(S)
<1> DEFINE L == {Len(t) : t \in Seq(S) \ T}
<1> SUFFICES ASSUME L # {} PROVE FALSE
  OBVIOUS
<1>1. L \in SUBSET Nat
  OBVIOUS
<1>2. PICK n \in L : \A m \in L : n <= m
  BY <1>1, Least
<1>3. PICK t \in Seq(S) : t \notin T /\ Len(t) = n
  OBVIOUS
<1>4. PICK x \in S, s \in Seq(S) : t = Put(x, s) /\ Len(s) = Len(t) - 1
  BY <1>3, Uncons
<1>5. s \notin T
  BY <1>3, <1>4
<1>6. Len(s) \in L
  BY <1>5
<1>7. Len(t) \in Nat
  OBVIOUS
<1> HIDE DEF L
<1> QED BY <1>2, <1>3, <1>4, <1>6, <1>7

(* A character in front does not disturb what is replaced behind it. *)
Behind(n, e, b, e2, b2) == \A p \in 1..n : e2[p + 1] = e[p] + 1 /\ b2[p + 1] = b[p]

LEMMA Shift ==
    ASSUME NEW n \in Nat, NEW V, NEW e, NEW b, NEW e2, NEW b2, NEW r, NEW r2,
           Pieces(n, e, b, V), SolvesFrom(r, 1, n, e, b, V), SolvesFrom(r2, 1, n + 1, e2, b2, V),
           Behind(n, e, b, e2, b2)
    PROVE  \A p \in 1..(n + 1) : r2[p + 1] = r[p]
<1> DEFINE T == {p \in 1..(n + 1) : r2[p + 1] = r[p]}
<1>1. r[n + 1] = <<>> /\ \A q \in 1..n : r[q] = b[q] \o r[e[q] + 1]
  BY DEF SolvesFrom
<1>2. r2[(n + 1) + 1] = <<>> /\ \A q \in 1..(n + 1) : r2[q] = b2[q] \o r2[e2[q] + 1]
  BY DEF SolvesFrom
<1>3. n + 1 \in T
  BY <1>1, <1>2
<1>4. ASSUME NEW p \in 1..n, \A q \in (p + 1)..(n + 1) : q \in T PROVE p \in T
  <2>1. e[p] + 1 \in (p + 1)..(n + 1)
    BY DEF Pieces
  <2>2. p + 1 \in 1..(n + 1) /\ e2[p + 1] + 1 = (e[p] + 1) + 1 /\ b2[p + 1] = b[p]
    BY DEF Behind
  <2>3. r2[(e[p] + 1) + 1] = r[e[p] + 1]
    BY <1>4, <2>1
  <2>4. r2[p + 1] = b2[p + 1] \o r2[e2[p + 1] + 1]
    BY <1>2, <2>2
  <2>5. r2[p + 1] = r[p]
    BY <1>1, <2>2, <2>3, <2>4
  <2>6. p \in 1..(n + 1)
    OBVIOUS
  <2> QED BY <2>5, <2>6
<1>5. T \in SUBSET (1..(n + 1)) /\ \A p \in T : r2[p + 1] = r[p]
  OBVIOUS
<1> HIDE DEF T
<1> QED BY <1>3, <1>4, <1>5, FromTheEnd

(* The characters of a text, and those that are put in. *)
AmpSign == "&"
LtSign == "<"
GtSign == ">"
QuoteSign == "quote"
Newline == "newline"
Blank == " "
Dots == "..."
AmpEntity == "amp;"
LtEntity == "lt;"
GtEntity == "gt;"
QuoteEntity == "quot;"

Special == {AmpSign, LtSign, GtSign, QuoteSign}
Entities == {AmpEntity, LtEntity, GtEntity, QuoteEntity}
Char == STRING \cup Special \cup Entities \cup {Newline, Blank, Dots}

LEMMA Chars ==
    /\ AmpSign \in Char /\ LtSign \in Char /\ GtSign \in Char /\ QuoteSign \in Char
    /\ AmpEntity \in Char /\ LtEntity \in Char /\ GtEntity \in Char /\ QuoteEntity \in Char
    /\ Newline \in Char /\ Blank \in Char /\ Dots \in Char
  BY Zenon DEF Char, Special, Entities

LEMMA Different ==
    /\ AmpSign # LtSign /\ AmpSign # GtSign /\ AmpSign # QuoteSign
    /\ LtSign # GtSign /\ LtSign # QuoteSign /\ GtSign # QuoteSign
    /\ AmpEntity # LtEntity /\ AmpEntity # GtEntity /\ AmpEntity # QuoteEntity
    /\ LtEntity # GtEntity /\ LtEntity # QuoteEntity /\ GtEntity # QuoteEntity
  BY Zenon DEF AmpSign, LtSign, GtSign, QuoteSign, AmpEntity, LtEntity, GtEntity, QuoteEntity

LEMMA NoEntityIsSign ==
    /\ AmpEntity # AmpSign /\ AmpEntity # LtSign /\ AmpEntity # GtSign /\ AmpEntity # QuoteSign
    /\ LtEntity # AmpSign /\ LtEntity # LtSign /\ LtEntity # GtSign /\ LtEntity # QuoteSign
    /\ GtEntity # AmpSign /\ GtEntity # LtSign /\ GtEntity # GtSign /\ GtEntity # QuoteSign
    /\ QuoteEntity # AmpSign /\ QuoteEntity # LtSign /\ QuoteEntity # GtSign /\ QuoteEntity # QuoteSign
  BY Zenon DEF AmpSign, LtSign, GtSign, QuoteSign, AmpEntity, LtEntity, GtEntity, QuoteEntity

LEMMA PutChar ==
    ASSUME NEW s \in Seq(Char), NEW x \in Char
    PROVE  /\ Put(x, s) \in Seq(Char) /\ Len(Put(x, s)) = Len(s) + 1
           /\ Put(x, s)[1] = x
           /\ \A p \in 1..Len(s) : Put(x, s)[p + 1] = s[p]
<1> DEFINE C == Char
<1>1. s \in Seq(C) /\ x \in C
  OBVIOUS
<1> HIDE DEF C
<1>2. Put(x, s) \in Seq(C) /\ Len(Put(x, s)) = Len(s) + 1
  BY <1>1, PutIs
<1>3. Put(x, s)[1] = x /\ \A p \in 1..Len(s) : Put(x, s)[p + 1] = s[p]
  BY <1>1, PutIs
<1> QED BY <1>2, <1>3 DEF C

LEMMA TextIsChars == ASSUME NEW s \in Seq(STRING) PROVE s \in Seq(Char)
<1>1. STRING \subseteq Char
  BY Zenon DEF Char
<1> DEFINE S == STRING
<1> HIDE DEF S
<1>2. S \subseteq Char /\ s \in Seq(S)
  BY <1>1 DEF S
<1> QED BY <1>2

(* ReplaceEach, character by character. *)
Instead(x, c, by) == IF x = c THEN by ELSE <<x>>
EachEnd(s) == [p \in DOMAIN s |-> p]
EachBy(s, c, by) == [p \in DOMAIN s |-> Instead(s[p], c, by)]
EachFrom(s, c, by) == ReplaceFrom(s, EachEnd(s), EachBy(s, c, by))

LEMMA EachIs == ASSUME NEW s, NEW c, NEW by PROVE ReplaceEach(s, c, by) = EachFrom(s, c, by)[1]
  BY DEF ReplaceEach, ReplaceAll, EachFrom, EachEnd, EachBy, Instead

LEMMA InsteadType ==
    ASSUME NEW x \in Char, NEW c, NEW by \in Seq(Char) PROVE Instead(x, c, by) \in Seq(Char)
<1>1. <<x>> \in Seq(Char)
  OBVIOUS
<1> QED BY <1>1 DEF Instead

LEMMA EachValues ==
    ASSUME NEW s \in Seq(Char), NEW c, NEW by, NEW p \in 1..Len(s)
    PROVE  EachEnd(s)[p] = p /\ EachBy(s, c, by)[p] = Instead(s[p], c, by)
<1>1. p \in DOMAIN s
  OBVIOUS
<1> QED BY <1>1 DEF EachEnd, EachBy

LEMMA EachSolves ==
    ASSUME NEW s \in Seq(Char), NEW c, NEW by \in Seq(Char)
    PROVE  /\ Pieces(Len(s), EachEnd(s), EachBy(s, c, by), Char)
           /\ SolvesFrom(EachFrom(s, c, by), 1, Len(s), EachEnd(s), EachBy(s, c, by), Char)
<1> DEFINE n == Len(s)
           e == EachEnd(s)
           b == EachBy(s, c, by)
<1>1. n \in Nat /\ DOMAIN s = 1..n
  OBVIOUS
<1>2. e = [p \in 1..n |-> e[p]] /\ b = [p \in 1..n |-> b[p]]
  BY <1>1 DEF EachEnd, EachBy
<1>3. ASSUME NEW p \in 1..n PROVE e[p] \in 1..n /\ p <= e[p] /\ b[p] \in Seq(Char)
  <2>1. e[p] = p /\ b[p] = Instead(s[p], c, by)
    BY EachValues
  <2>2. s[p] \in Char
    BY <1>1
  <2> HIDE DEF e, b
  <2>3. b[p] \in Seq(Char)
    BY <2>1, <2>2, InsteadType
  <2> QED BY <2>1, <2>3
<1> HIDE DEF e, b
<1>4. Pieces(n, e, b, Char)
  BY <1>2, <1>3 DEF Pieces
<1>5. SolvesFrom(ReplaceFrom(s, e, b), 1, n, e, b, Char)
  BY <1>1, <1>4, ReplaceUnfold
<1> QED BY <1>4, <1>5 DEF EachFrom, e, b

LEMMA EachType ==
    ASSUME NEW s \in Seq(Char), NEW c, NEW by \in Seq(Char)
    PROVE  ReplaceEach(s, c, by) \in Seq(Char)
<1>1. SolvesFrom(EachFrom(s, c, by), 1, Len(s), EachEnd(s), EachBy(s, c, by), Char)
  BY EachSolves
<1>2. 1 \in 1..(Len(s) + 1)
  OBVIOUS
<1>3. EachFrom(s, c, by)[1] \in Seq(Char)
  BY <1>1, <1>2 DEF SolvesFrom
<1> QED BY <1>3, EachIs

LEMMA EachNone ==
    ASSUME NEW c, NEW by \in Seq(Char) PROVE ReplaceEach(<<>>, c, by) = <<>>
<1>1. <<>> \in Seq(Char) /\ Len(<<>>) = 0 /\ 0 + 1 = 1
  OBVIOUS
<1>3. SolvesFrom(EachFrom(<<>>, c, by), 1, Len(<<>>), EachEnd(<<>>), EachBy(<<>>, c, by), Char)
  BY <1>1, EachSolves
<1>2. EachFrom(<<>>, c, by)[0 + 1] = <<>>
  BY <1>1, <1>3 DEF SolvesFrom
<1> QED BY <1>1, <1>2, EachIs

LEMMA InsteadIs ==
    ASSUME NEW x, NEW c, NEW by
    PROVE  (x = c => Instead(x, c, by) = by) /\ (x # c => Instead(x, c, by) = <<x>>)
  BY DEF Instead

LEMMA EachCons ==
    ASSUME NEW s \in Seq(Char), NEW x \in Char, NEW c, NEW by \in Seq(Char)
    PROVE  ReplaceEach(Put(x, s), c, by) = Instead(x, c, by) \o ReplaceEach(s, c, by)
<1> DEFINE t == Put(x, s)
           n == Len(s)
<1>1. /\ t \in Seq(Char) /\ Len(t) = n + 1 /\ t[1] = x /\ n \in Nat
      /\ \A p \in 1..n : t[p + 1] = s[p]
  <2>1. n \in Nat
    OBVIOUS
  <2>2. /\ t \in Seq(Char) /\ Len(t) = n + 1 /\ t[1] = x
        /\ \A p \in 1..n : t[p + 1] = s[p]
    BY PutChar
  <2> QED BY <2>1, <2>2
<1> HIDE DEF t, n
<1>2. /\ Pieces(n, EachEnd(s), EachBy(s, c, by), Char)
      /\ SolvesFrom(EachFrom(s, c, by), 1, n, EachEnd(s), EachBy(s, c, by), Char)
  BY EachSolves DEF n
<1>3. SolvesFrom(EachFrom(t, c, by), 1, n + 1, EachEnd(t), EachBy(t, c, by), Char)
  BY <1>1, EachSolves
<1>4. ASSUME NEW p \in 1..n
      PROVE  /\ EachEnd(t)[p + 1] = EachEnd(s)[p] + 1
             /\ EachBy(t, c, by)[p + 1] = EachBy(s, c, by)[p]
  <2>1. p + 1 \in 1..Len(t) /\ t[p + 1] = s[p]
    BY <1>1
  <2>2. EachEnd(s)[p] = p /\ EachBy(s, c, by)[p] = Instead(s[p], c, by)
    BY EachValues DEF n
  <2>3. /\ EachEnd(t)[p + 1] = p + 1
        /\ EachBy(t, c, by)[p + 1] = Instead(t[p + 1], c, by)
    BY <1>1, <2>1, EachValues
  <2> QED BY <2>1, <2>2, <2>3
<1>5. \A p \in 1..(n + 1) : EachFrom(t, c, by)[p + 1] = EachFrom(s, c, by)[p]
  <2>1. Behind(n, EachEnd(s), EachBy(s, c, by), EachEnd(t), EachBy(t, c, by))
    BY <1>4 DEF Behind
  <2> QED BY <1>1, <1>2, <1>3, <2>1, Shift
<1>6. 1 \in 1..(n + 1) /\ 1 \in 1..Len(t)
  BY <1>1
<1>7. EachEnd(t)[1] = 1 /\ EachBy(t, c, by)[1] = Instead(x, c, by)
  BY <1>1, <1>6, EachValues
<1>8. EachFrom(t, c, by)[1] = EachBy(t, c, by)[1] \o EachFrom(t, c, by)[EachEnd(t)[1] + 1]
  BY <1>3, <1>6 DEF SolvesFrom
<1>9. EachFrom(t, c, by)[1 + 1] = EachFrom(s, c, by)[1]
  BY <1>5, <1>6
<1> QED BY <1>7, <1>8, <1>9, EachIs DEF t

(* A character that is not replaced, and one that is. *)
LEMMA EachOther ==
    ASSUME NEW s \in Seq(Char), NEW c \in Char, NEW y \in Char, NEW z \in Char,
           NEW x \in Char, x # c
    PROVE  ReplaceEach(Put(x, s), c, <<y, z>>) = Put(x, ReplaceEach(s, c, <<y, z>>))
<1> DEFINE by == <<y, z>>
<1>1. by \in Seq(Char)
  OBVIOUS
<1> HIDE DEF by
<1>2. ReplaceEach(Put(x, s), c, by) = Instead(x, c, by) \o ReplaceEach(s, c, by)
  BY <1>1, EachCons
<1>3. Instead(x, c, by) = <<x>>
  BY InsteadIs
<1> QED BY <1>2, <1>3 DEF Put, by

LEMMA TwoInFront ==
    ASSUME NEW s \in Seq(Char), NEW x \in Char, NEW y \in Char
    PROVE  <<x, y>> \in Seq(Char) /\ <<x, y>> \o s = Put(x, Put(y, s))
<1>1. <<x>> \in Seq(Char) /\ <<y>> \in Seq(Char) /\ <<x, y>> \in Seq(Char)
  OBVIOUS
<1>2. <<x>> \o <<y>> \in Seq(Char) /\ Len(<<x>> \o <<y>>) = 2 /\ Len(<<x, y>>) = 2
  BY <1>1
<1>3. \A k \in 1..2 : (<<x>> \o <<y>>)[k] = <<x, y>>[k]
  BY <1>1
<1>4. <<x>> \o <<y>> = <<x, y>>
  BY <1>1, <1>2, <1>3, SeqEqual
<1>5. (<<x>> \o <<y>>) \o s = <<x>> \o (<<y>> \o s)
  BY <1>1, ConcatAssociative
<1> QED BY <1>1, <1>4, <1>5 DEF Put

LEMMA EachSame ==
    ASSUME NEW s \in Seq(Char), NEW c \in Char, NEW x \in Char, NEW y \in Char
    PROVE  ReplaceEach(Put(c, s), c, <<x, y>>) = Put(x, Put(y, ReplaceEach(s, c, <<x, y>>)))
<1> DEFINE by == <<x, y>>
           r == ReplaceEach(s, c, by)
<1>1. by \in Seq(Char)
  BY TwoInFront
<1>2. r \in Seq(Char)
  BY <1>1, EachType
<1>3. by \o r = Put(x, Put(y, r))
  BY <1>2, TwoInFront
<1> HIDE DEF by, r
<1>4. ReplaceEach(Put(c, s), c, by) = Instead(c, c, by) \o ReplaceEach(s, c, by)
  BY <1>1, EachCons
<1>5. Instead(c, c, by) = by
  BY InsteadIs
<1> QED BY <1>3, <1>4, <1>5 DEF by, r

-----------------------------------------------------------------------------
(* Line breaks become blanks. *)
OneLine(s) == [k \in DOMAIN s |-> IF s[k] = Newline THEN Blank ELSE s[k]]
Line(x) == IF x = Newline THEN Blank ELSE x

LEMMA LineType == ASSUME NEW x \in Char PROVE Line(x) \in Char
  BY Chars DEF Line

LEMMA OneLineIs ==
    ASSUME NEW s \in Seq(Char)
    PROVE  /\ OneLine(s) \in Seq(Char) /\ Len(OneLine(s)) = Len(s)
           /\ \A k \in 1..Len(s) : OneLine(s)[k] = Line(s[k])
<1> DEFINE n == Len(s)
<1>1. n \in Nat /\ DOMAIN s = 1..n /\ \A k \in 1..n : s[k] \in Char
  OBVIOUS
<1> HIDE DEF n
<1>2. OneLine(s) = [k \in 1..n |-> Line(s[k])]
  BY <1>1 DEF OneLine, Line
<1>3. OneLine(s) \in [1..n -> Char]
  BY <1>1, <1>2, LineType
<1>4. OneLine(s) \in Seq(Char)
  BY <1>1, <1>3, IsASeq
<1>5. Len(OneLine(s)) = n
  BY <1>1, <1>3, <1>4
<1> QED BY <1>2, <1>4, <1>5 DEF n

LEMMA OneLineCons ==
    ASSUME NEW s \in Seq(Char), NEW x \in Char
    PROVE  OneLine(Put(x, s)) = Put(Line(x), OneLine(s))
<1> DEFINE t == Put(x, s)
           o == OneLine(s)
           u == Put(Line(x), o)
           n == Len(s)
<1>0. n \in Nat
  OBVIOUS
<1>1. Line(x) \in Char
  BY LineType
<1>2. /\ t \in Seq(Char) /\ Len(t) = n + 1 /\ t[1] = x
      /\ \A p \in 1..n : t[p + 1] = s[p]
  BY PutChar
<1>3. o \in Seq(Char) /\ Len(o) = n /\ \A k \in 1..n : o[k] = Line(s[k])
  BY OneLineIs
<1> HIDE DEF o, n
<1>4. /\ u \in Seq(Char) /\ Len(u) = n + 1 /\ u[1] = Line(x)
      /\ \A p \in 1..n : u[p + 1] = o[p]
  <2> DEFINE y == Line(x)
  <2>0. y \in Char /\ o \in Seq(Char)
    BY <1>1, <1>3
  <2> HIDE DEF y
  <2>1. /\ Put(y, o) \in Seq(Char) /\ Len(Put(y, o)) = Len(o) + 1 /\ Put(y, o)[1] = y
        /\ \A p \in 1..Len(o) : Put(y, o)[p + 1] = o[p]
    BY <2>0, PutChar
  <2>2. u = Put(y, o)
    BY DEF y
  <2> HIDE DEF u
  <2> QED BY <1>3, <2>1, <2>2 DEF y
<1> HIDE DEF t, u
<1>5. /\ OneLine(t) \in Seq(Char) /\ Len(OneLine(t)) = n + 1
      /\ \A k \in 1..(n + 1) : OneLine(t)[k] = Line(t[k])
  BY <1>2, OneLineIs
<1>6. ASSUME NEW k \in 1..(n + 1) PROVE OneLine(t)[k] = u[k]
  <2>1. CASE k = 1
    BY <1>2, <1>4, <1>5, <2>1
  <2>2. CASE k # 1
    <3>1. k - 1 \in 1..n /\ (k - 1) + 1 = k
      BY <1>0, <2>2
    <3>2. t[k] = s[k - 1] /\ u[k] = o[k - 1]
      BY <1>2, <1>4, <3>1
    <3> QED BY <1>3, <1>5, <3>1, <3>2
  <2> QED BY <2>1, <2>2
<1>7. OneLine(t) = u
  BY <1>0, <1>4, <1>5, <1>6, SeqEqual
<1> QED BY <1>7 DEF t, u, o

LEMMA NewlinesGo ==
    ASSUME NEW s \in Seq(Char) PROVE ReplaceEach(s, Newline, <<Blank>>) = OneLine(s)
<1> DEFINE R(t) == ReplaceEach(t, Newline, <<Blank>>)
           T == {t \in Seq(Char) : R(t) = OneLine(t)}
<1>1. <<Blank>> \in Seq(Char)
  BY Chars
<1>2. <<>> \in T
  <2>1. R(<<>>) = <<>>
    BY <1>1, EachNone
  <2>2. <<>> \in Seq(Char) /\ Len(<<>>) = 0
    OBVIOUS
  <2>3. OneLine(<<>>) \in Seq(Char) /\ Len(OneLine(<<>>)) = 0
    BY <2>2, OneLineIs
  <2>4. OneLine(<<>>) = <<>>
    BY <2>3, EmptySeq
  <2> QED BY <2>1, <2>2, <2>4
<1>3. ASSUME NEW t \in T, NEW x \in Char PROVE Put(x, t) \in T
  <2>1. t \in Seq(Char) /\ R(t) = OneLine(t)
    OBVIOUS
  <2> HIDE DEF T
  <2>2. Put(x, t) \in Seq(Char)
    BY <2>1, PutChar
  <2>3. R(Put(x, t)) = Instead(x, Newline, <<Blank>>) \o R(t)
    BY <1>1, <2>1, EachCons
  <2>4. Instead(x, Newline, <<Blank>>) = <<Line(x)>>
    BY DEF Instead, Line
  <2>5. R(Put(x, t)) = OneLine(Put(x, t))
    <3>1. OneLine(Put(x, t)) = Put(Line(x), OneLine(t))
      BY <2>1, OneLineCons
    <3> HIDE DEF R
    <3> QED BY <2>1, <2>3, <2>4, <3>1 DEF Put
  <2> QED BY <2>2, <2>5 DEF T
<1>4. T \in SUBSET Seq(Char) /\ \A t \in T : R(t) = OneLine(t)
  OBVIOUS
<1> HIDE DEF T, R
<1>5. T = Seq(Char)
  BY <1>2, <1>3, <1>4, ByConsing
<1> QED BY <1>4, <1>5 DEF R

-----------------------------------------------------------------------------
(* The four replacements of EscapeXML. *)
Amp(s) == ReplaceEach(s, AmpSign, <<AmpSign, AmpEntity>>)
Lt(s) == ReplaceEach(s, LtSign, <<AmpSign, LtEntity>>)
Gt(s) == ReplaceEach(s, GtSign, <<AmpSign, GtEntity>>)
Quot(s) == ReplaceEach(s, QuoteSign, <<AmpSign, QuoteEntity>>)

LEMMA EscapeIs == ASSUME NEW s PROVE EscapeXML(s) = Quot(Gt(Lt(Amp(s))))
  BY Zenon DEF EscapeXML, Amp, Lt, Gt, Quot,
      AmpSign, LtSign, GtSign, QuoteSign, AmpEntity, LtEntity, GtEntity, QuoteEntity

LEMMA EscapeStages ==
    ASSUME NEW s \in Seq(Char)
    PROVE  /\ Amp(s) \in Seq(Char)
           /\ Lt(s) \in Seq(Char)
           /\ Gt(s) \in Seq(Char)
           /\ Quot(s) \in Seq(Char)
<1>1. /\ <<AmpSign, AmpEntity>> \in Seq(Char)
      /\ <<AmpSign, LtEntity>> \in Seq(Char)
      /\ <<AmpSign, GtEntity>> \in Seq(Char)
      /\ <<AmpSign, QuoteEntity>> \in Seq(Char)
  BY Chars, TwoInFront
<1> QED BY <1>1, EachType DEF Amp, Lt, Gt, Quot

LEMMA StageOther ==
    ASSUME NEW s \in Seq(Char), NEW x \in Char
    PROVE  /\ x # AmpSign => Amp(Put(x, s)) = Put(x, Amp(s))
           /\ x # LtSign => Lt(Put(x, s)) = Put(x, Lt(s))
           /\ x # GtSign => Gt(Put(x, s)) = Put(x, Gt(s))
           /\ x # QuoteSign => Quot(Put(x, s)) = Put(x, Quot(s))
  BY EachOther, Chars DEF Amp, Lt, Gt, Quot

LEMMA StageSame ==
    ASSUME NEW s \in Seq(Char)
    PROVE  /\ Amp(Put(AmpSign, s)) = Put(AmpSign, Put(AmpEntity, Amp(s)))
           /\ Lt(Put(LtSign, s)) = Put(AmpSign, Put(LtEntity, Lt(s)))
           /\ Gt(Put(GtSign, s)) = Put(AmpSign, Put(GtEntity, Gt(s)))
           /\ Quot(Put(QuoteSign, s)) = Put(AmpSign, Put(QuoteEntity, Quot(s)))
  BY EachSame, Chars DEF Amp, Lt, Gt, Quot

LEMMA EscapeType == ASSUME NEW s \in Seq(Char) PROVE EscapeXML(s) \in Seq(Char)
  BY EscapeIs, EscapeStages

LEMMA EscapeNone == EscapeXML(<<>>) = <<>>
<1>0. /\ <<AmpSign, AmpEntity>> \in Seq(Char)
      /\ <<AmpSign, LtEntity>> \in Seq(Char)
      /\ <<AmpSign, GtEntity>> \in Seq(Char)
      /\ <<AmpSign, QuoteEntity>> \in Seq(Char)
  BY Chars
<1>1. Amp(<<>>) = <<>> /\ Lt(<<>>) = <<>> /\ Gt(<<>>) = <<>> /\ Quot(<<>>) = <<>>
  BY <1>0, EachNone DEF Amp, Lt, Gt, Quot
<1> QED BY <1>1, EscapeIs

LEMMA EscapeOther ==
    ASSUME NEW s \in Seq(Char), NEW x \in Char, x \notin Special
    PROVE  EscapeXML(Put(x, s)) = Put(x, EscapeXML(s))
<1>1. x # AmpSign /\ x # LtSign /\ x # GtSign /\ x # QuoteSign
  BY DEF Special
<1> QED BY <1>1, EscapeIs, EscapeStages, StageOther

EntityOf(x) ==
    CASE x = AmpSign -> AmpEntity [] x = LtSign -> LtEntity
      [] x = GtSign -> GtEntity [] OTHER -> QuoteEntity

LEMMA EscapeSpecial ==
    ASSUME NEW s \in Seq(Char), NEW x \in Special
    PROVE  EscapeXML(Put(x, s)) = Put(AmpSign, Put(EntityOf(x), EscapeXML(s)))
<1> DEFINE a == Amp(s)
           l == Lt(a)
           g == Gt(l)
           q == Quot(g)
<1>1. a \in Seq(Char) /\ l \in Seq(Char) /\ g \in Seq(Char) /\ q \in Seq(Char)
  BY EscapeStages
<1>2. EscapeXML(s) = q /\ EscapeXML(Put(x, s)) = Quot(Gt(Lt(Amp(Put(x, s)))))
  BY EscapeIs
<1>3. \A y \in Char : \A t \in Seq(Char) : Put(y, t) \in Seq(Char)
  BY PutChar
<1>4. CASE x = AmpSign
  <2>1. Amp(Put(x, s)) = Put(AmpSign, Put(AmpEntity, a))
    BY <1>4, StageSame
  <2>2. Lt(Amp(Put(x, s))) = Put(AmpSign, Put(AmpEntity, l))
    BY <1>1, <1>3, <2>1, StageOther, Chars, Different, NoEntityIsSign
  <2>3. Gt(Lt(Amp(Put(x, s)))) = Put(AmpSign, Put(AmpEntity, g))
    BY <1>1, <1>3, <2>2, StageOther, Chars, Different, NoEntityIsSign
  <2>4. Quot(Gt(Lt(Amp(Put(x, s))))) = Put(AmpSign, Put(AmpEntity, q))
    BY <1>1, <1>3, <2>3, StageOther, Chars, Different, NoEntityIsSign
  <2>5. EntityOf(x) = AmpEntity
    BY <1>4, Different DEF EntityOf
  <2> QED BY <1>2, <2>4, <2>5
<1>5. CASE x = LtSign
  <2>1. Amp(Put(x, s)) = Put(LtSign, a)
    BY <1>5, StageOther, Chars, Different
  <2>2. Lt(Amp(Put(x, s))) = Put(AmpSign, Put(LtEntity, l))
    BY <1>1, <2>1, StageSame
  <2>3. Gt(Lt(Amp(Put(x, s)))) = Put(AmpSign, Put(LtEntity, g))
    BY <1>1, <1>3, <2>2, StageOther, Chars, Different, NoEntityIsSign
  <2>4. Quot(Gt(Lt(Amp(Put(x, s))))) = Put(AmpSign, Put(LtEntity, q))
    BY <1>1, <1>3, <2>3, StageOther, Chars, Different, NoEntityIsSign
  <2>5. EntityOf(x) = LtEntity
    BY <1>5, Different DEF EntityOf
  <2> QED BY <1>2, <2>4, <2>5
<1>6. CASE x = GtSign
  <2>1. Amp(Put(x, s)) = Put(GtSign, a)
    BY <1>6, StageOther, Chars, Different
  <2>2. Lt(Amp(Put(x, s))) = Put(GtSign, l)
    BY <1>1, <2>1, StageOther, Chars, Different
  <2>3. Gt(Lt(Amp(Put(x, s)))) = Put(AmpSign, Put(GtEntity, g))
    BY <1>1, <2>2, StageSame
  <2>4. Quot(Gt(Lt(Amp(Put(x, s))))) = Put(AmpSign, Put(GtEntity, q))
    BY <1>1, <1>3, <2>3, StageOther, Chars, Different, NoEntityIsSign
  <2>5. EntityOf(x) = GtEntity
    BY <1>6, Different DEF EntityOf
  <2> QED BY <1>2, <2>4, <2>5
<1>7. CASE x = QuoteSign
  <2>1. Amp(Put(x, s)) = Put(QuoteSign, a)
    BY <1>7, StageOther, Chars, Different
  <2>2. Lt(Amp(Put(x, s))) = Put(QuoteSign, l)
    BY <1>1, <2>1, StageOther, Chars, Different
  <2>3. Gt(Lt(Amp(Put(x, s)))) = Put(QuoteSign, g)
    BY <1>1, <2>2, StageOther, Chars, Different
  <2>4. Quot(Gt(Lt(Amp(Put(x, s))))) = Put(AmpSign, Put(QuoteEntity, q))
    BY <1>1, <2>3, StageSame
  <2>5. EntityOf(x) = QuoteEntity
    BY <1>7, Different DEF EntityOf
  <2> QED BY <1>2, <2>4, <2>5
<1> QED BY <1>4, <1>5, <1>6, <1>7 DEF Special

-----------------------------------------------------------------------------
(* The entities that EscapeXML writes, and what a reader makes of them. *)
LEMMA EntityIs ==
    Entity = [e \in Entities |-> CASE e = AmpEntity -> AmpSign [] e = LtEntity -> LtSign
                                   [] e = GtEntity -> GtSign [] OTHER -> QuoteSign]
  BY Zenon DEF Entity, Entities,
      AmpSign, LtSign, GtSign, QuoteSign, AmpEntity, LtEntity, GtEntity, QuoteEntity

LEMMA EntityReads ==
    /\ DOMAIN Entity = Entities /\ \A e \in Entities : Entity[e] \in Char
    /\ \A x \in Special : EntityOf(x) \in Entities /\ Entity[EntityOf(x)] = x
<1>1. DOMAIN Entity = Entities
  BY EntityIs
<1>2. /\ Entity[AmpEntity] = AmpSign /\ Entity[LtEntity] = LtSign
      /\ Entity[GtEntity] = GtSign /\ Entity[QuoteEntity] = QuoteSign
  BY EntityIs, Different DEF Entities
<1>3. /\ EntityOf(AmpSign) = AmpEntity /\ EntityOf(LtSign) = LtEntity
      /\ EntityOf(GtSign) = GtEntity /\ EntityOf(QuoteSign) = QuoteEntity
  BY Different DEF EntityOf
<1>4. \A e \in Entities : e = AmpEntity \/ e = LtEntity \/ e = GtEntity \/ e = QuoteEntity
  BY DEF Entities
<1>5. \A x \in Special : x = AmpSign \/ x = LtSign \/ x = GtSign \/ x = QuoteSign
  BY DEF Special
<1>6. AmpEntity \in Entities /\ LtEntity \in Entities /\ GtEntity \in Entities /\ QuoteEntity \in Entities
  BY DEF Entities
<1>7. \A e \in Entities : Entity[e] \in Char
  BY <1>2, <1>4, Chars
<1>8. ASSUME NEW x \in Special PROVE EntityOf(x) \in Entities /\ Entity[EntityOf(x)] = x
  BY <1>2, <1>3, <1>5, <1>6
<1> QED BY <1>1, <1>7, <1>8

LEMMA EntityChars ==
    ASSUME NEW x \in Special
    PROVE  EntityOf(x) \in Char /\ EntityOf(x) \notin Special /\ x \in Char /\ AmpSign \in Special
<1>1. EntityOf(x) \in {AmpEntity, LtEntity, GtEntity, QuoteEntity}
  BY EntityReads DEF Entities
<1>2. x \in {AmpSign, LtSign, GtSign, QuoteSign}
  BY DEF Special
<1>3. EntityOf(x) \in Char /\ x \in Char
  BY <1>1, <1>2, Chars
<1>4. EntityOf(x) \notin Special
  BY <1>1, NoEntityIsSign DEF Special
<1> QED BY <1>3, <1>4 DEF Special

LEMMA IsEntityIs ==
    ASSUME NEW s, NEW p
    PROVE  IsEntity(s, p) <=> p < Len(s) /\ s[p] = AmpSign /\ s[p + 1] \in Entities
  BY EntityReads, Zenon DEF IsEntity, AmpSign

(* ReadXML, character by character. *)
ReadEnd(s) == [p \in DOMAIN s |-> IF IsEntity(s, p) THEN p + 1 ELSE p]
ReadBy(s) == [p \in DOMAIN s |-> IF IsEntity(s, p) THEN <<Entity[s[p + 1]]>> ELSE <<s[p]>>]
ReadFrom(s) == ReplaceFrom(s, ReadEnd(s), ReadBy(s))

LEMMA ReadIs == ASSUME NEW s PROVE ReadXML(s) = ReadFrom(s)[1]
  BY DEF ReadXML, ReplaceAll, ReadFrom, ReadEnd, ReadBy

LEMMA ReadValues ==
    ASSUME NEW s \in Seq(Char), NEW p \in 1..Len(s)
    PROVE  /\ IsEntity(s, p) => ReadEnd(s)[p] = p + 1 /\ ReadBy(s)[p] = <<Entity[s[p + 1]]>>
           /\ ~ IsEntity(s, p) => ReadEnd(s)[p] = p /\ ReadBy(s)[p] = <<s[p]>>
<1>1. p \in DOMAIN s
  OBVIOUS
<1> QED BY <1>1 DEF ReadEnd, ReadBy

LEMMA ReadSolves ==
    ASSUME NEW s \in Seq(Char)
    PROVE  /\ Pieces(Len(s), ReadEnd(s), ReadBy(s), Char)
           /\ SolvesFrom(ReadFrom(s), 1, Len(s), ReadEnd(s), ReadBy(s), Char)
<1> DEFINE n == Len(s)
           e == ReadEnd(s)
           b == ReadBy(s)
<1>1. n \in Nat /\ DOMAIN s = 1..n /\ \A p \in 1..n : s[p] \in Char
  OBVIOUS
<1>2. e = [p \in 1..n |-> e[p]] /\ b = [p \in 1..n |-> b[p]]
  BY <1>1 DEF ReadEnd, ReadBy
<1>3. ASSUME NEW p \in 1..n PROVE e[p] \in 1..n /\ p <= e[p] /\ b[p] \in Seq(Char)
  <2>1. CASE IsEntity(s, p)
    <3>1. e[p] = p + 1 /\ b[p] = <<Entity[s[p + 1]]>>
      BY <2>1, ReadValues
    <3>2. p + 1 \in 1..n /\ p <= p + 1 /\ s[p + 1] \in Entities
      BY <2>1, IsEntityIs
    <3>3. Entity[s[p + 1]] \in Char
      BY <3>2, EntityReads
    <3>4. <<Entity[s[p + 1]]>> \in Seq(Char)
      BY <3>3
    <3> HIDE DEF e, b
    <3> QED BY <3>1, <3>2, <3>4
  <2>2. CASE ~ IsEntity(s, p)
    <3>1. e[p] = p /\ b[p] = <<s[p]>>
      BY <2>2, ReadValues
    <3>2. <<s[p]>> \in Seq(Char)
      BY <1>1
    <3> HIDE DEF e, b
    <3> QED BY <3>1, <3>2
  <2> QED BY <2>1, <2>2
<1> HIDE DEF e, b
<1>4. Pieces(n, e, b, Char)
  BY <1>2, <1>3 DEF Pieces
<1>5. SolvesFrom(ReplaceFrom(s, e, b), 1, n, e, b, Char)
  BY <1>1, <1>4, ReplaceUnfold
<1> QED BY <1>4, <1>5 DEF ReadFrom, e, b

(* A character in front does not disturb what is read behind it. *)
LEMMA ReadShift ==
    ASSUME NEW s \in Seq(Char), NEW x \in Char
    PROVE  \A p \in 1..(Len(s) + 1) : ReadFrom(Put(x, s))[p + 1] = ReadFrom(s)[p]
<1> DEFINE t == Put(x, s)
           n == Len(s)
<1>0. n \in Nat
  OBVIOUS
<1>1. /\ t \in Seq(Char) /\ Len(t) = n + 1
      /\ \A p \in 1..n : t[p + 1] = s[p]
  BY PutChar
<1> HIDE DEF t, n
<1>2. /\ Pieces(n, ReadEnd(s), ReadBy(s), Char)
      /\ SolvesFrom(ReadFrom(s), 1, n, ReadEnd(s), ReadBy(s), Char)
  BY ReadSolves DEF n
<1>3. SolvesFrom(ReadFrom(t), 1, n + 1, ReadEnd(t), ReadBy(t), Char)
  BY <1>1, ReadSolves
<1>4. ASSUME NEW p \in 1..n
      PROVE  ReadEnd(t)[p + 1] = ReadEnd(s)[p] + 1 /\ ReadBy(t)[p + 1] = ReadBy(s)[p]
  <2>1. p + 1 \in 1..Len(t) /\ t[p + 1] = s[p] /\ p \in 1..Len(s)
    BY <1>0, <1>1 DEF n
  <2>2. CASE IsEntity(s, p)
    <3>1. p + 1 \in 1..n /\ p < n /\ s[p] = AmpSign /\ s[p + 1] \in Entities
      BY <1>0, <2>2, IsEntityIs DEF n
    <3>2. t[(p + 1) + 1] = s[p + 1] /\ p + 1 < Len(t)
      BY <1>0, <1>1, <3>1
    <3>3. IsEntity(t, p + 1)
      BY <2>1, <3>1, <3>2, IsEntityIs
    <3>4. ReadEnd(s)[p] = p + 1 /\ ReadBy(s)[p] = <<Entity[s[p + 1]]>>
      BY <2>1, <2>2, ReadValues
    <3>5. ReadEnd(t)[p + 1] = (p + 1) + 1 /\ ReadBy(t)[p + 1] = <<Entity[t[(p + 1) + 1]]>>
      BY <1>1, <2>1, <3>3, ReadValues
    <3> QED BY <3>2, <3>4, <3>5
  <2>3. CASE ~ IsEntity(s, p)
    <3>1. ~ IsEntity(t, p + 1)
      <4> SUFFICES ASSUME IsEntity(t, p + 1) PROVE FALSE
        OBVIOUS
      <4>1. p + 1 < Len(t) /\ t[p + 1] = AmpSign /\ t[(p + 1) + 1] \in Entities
        BY IsEntityIs
      <4>2. p < n /\ p + 1 \in 1..n
        BY <1>0, <1>1, <4>1
      <4>3. s[p] = AmpSign /\ s[p + 1] \in Entities
        BY <1>1, <2>1, <4>1, <4>2
      <4> QED BY <2>3, <4>2, <4>3, IsEntityIs DEF n
    <3>2. ReadEnd(s)[p] = p /\ ReadBy(s)[p] = <<s[p]>>
      BY <2>1, <2>3, ReadValues
    <3>3. ReadEnd(t)[p + 1] = p + 1 /\ ReadBy(t)[p + 1] = <<t[p + 1]>>
      BY <1>1, <2>1, <3>1, ReadValues
    <3> QED BY <2>1, <3>2, <3>3
  <2> QED BY <2>2, <2>3
<1>5. Behind(n, ReadEnd(s), ReadBy(s), ReadEnd(t), ReadBy(t))
  BY <1>4 DEF Behind
<1>6. \A p \in 1..(n + 1) : ReadFrom(t)[p + 1] = ReadFrom(s)[p]
  BY <1>0, <1>2, <1>3, <1>5, Shift
<1> QED BY <1>6 DEF t, n

LEMMA ReadNone == ReadXML(<<>>) = <<>>
<1>1. <<>> \in Seq(Char) /\ Len(<<>>) = 0 /\ 0 + 1 = 1
  OBVIOUS
<1>2. SolvesFrom(ReadFrom(<<>>), 1, Len(<<>>), ReadEnd(<<>>), ReadBy(<<>>), Char)
  BY <1>1, ReadSolves
<1>3. ReadFrom(<<>>)[0 + 1] = <<>>
  BY <1>1, <1>2 DEF SolvesFrom
<1> QED BY <1>1, <1>3, ReadIs

LEMMA ReadOther ==
    ASSUME NEW s \in Seq(Char), NEW x \in Char, x # AmpSign
    PROVE  ReadXML(Put(x, s)) = Put(x, ReadXML(s))
<1> DEFINE t == Put(x, s)
           n == Len(s)
<1>1. t \in Seq(Char) /\ Len(t) = n + 1 /\ t[1] = x /\ n \in Nat
  BY PutChar
<1>2. 1 \in 1..(n + 1) /\ 1 \in 1..Len(t) /\ 1 + 1 = 2
  BY <1>1
<1>3. ReadFrom(t)[1 + 1] = ReadFrom(s)[1]
  BY <1>2, ReadShift
<1> HIDE DEF t
<1>4. ~ IsEntity(t, 1)
  BY <1>1, IsEntityIs
<1>5. ReadEnd(t)[1] = 1 /\ ReadBy(t)[1] = <<x>>
  BY <1>1, <1>2, <1>4, ReadValues
<1>6. SolvesFrom(ReadFrom(t), 1, Len(t), ReadEnd(t), ReadBy(t), Char)
  BY <1>1, ReadSolves
<1>7. ReadFrom(t)[1] = ReadBy(t)[1] \o ReadFrom(t)[ReadEnd(t)[1] + 1]
  BY <1>2, <1>6 DEF SolvesFrom
<1>8. ReadFrom(t)[1] = <<x>> \o ReadFrom(s)[1]
  BY <1>3, <1>5, <1>7
<1> QED BY <1>8, ReadIs DEF t, Put

LEMMA PutAmp ==
    ASSUME NEW u \in Seq(Char)
    PROVE  /\ Put(AmpSign, u) \in Seq(Char) /\ Len(Put(AmpSign, u)) = Len(u) + 1
           /\ Put(AmpSign, u)[1] = AmpSign
           /\ \A p \in 1..Len(u) : Put(AmpSign, u)[p + 1] = u[p]
<1>1. AmpSign \in Char
  BY Chars
<1> QED BY <1>1, PutChar

LEMMA ReadEntity ==
    ASSUME NEW s \in Seq(Char), NEW e \in Entities, e \in Char
    PROVE  ReadXML(Put(AmpSign, Put(e, s))) = Put(Entity[e], ReadXML(s))
<1> DEFINE u == Put(e, s)
           t == Put(AmpSign, u)
           n == Len(s)
<1>1. u \in Seq(Char) /\ Len(u) = n + 1 /\ u[1] = e /\ n \in Nat
  BY PutChar
<1>2. 1 \in 1..(n + 1) /\ 1 + 1 = 2 /\ 2 \in 1..(Len(u) + 1) /\ 1 \in 1..Len(u) /\ 2 + 1 = 3
  BY <1>1
<1>3. ReadFrom(u)[1 + 1] = ReadFrom(s)[1]
  BY <1>2, ReadShift
<1> HIDE DEF u
<1>4. t \in Seq(Char) /\ Len(t) = Len(u) + 1 /\ t[1] = AmpSign /\ t[1 + 1] = u[1]
  <2>1. /\ Put(AmpSign, u) \in Seq(Char) /\ Len(Put(AmpSign, u)) = Len(u) + 1
        /\ Put(AmpSign, u)[1] = AmpSign
        /\ \A p \in 1..Len(u) : Put(AmpSign, u)[p + 1] = u[p]
    BY <1>1, PutAmp
  <2> QED BY <1>2, <2>1
<1>5. ReadFrom(t)[2 + 1] = ReadFrom(u)[2]
  BY <1>1, <1>2, ReadShift, Chars
<1> HIDE DEF t
<1>6. 1 \in 1..Len(t) /\ 1 < Len(t)
  BY <1>1, <1>4
<1>7. IsEntity(t, 1)
  BY <1>1, <1>4, <1>6, IsEntityIs
<1>8. ReadEnd(t)[1] = 2 /\ ReadBy(t)[1] = <<Entity[e]>>
  BY <1>1, <1>2, <1>4, <1>6, <1>7, ReadValues
<1>9. SolvesFrom(ReadFrom(t), 1, Len(t), ReadEnd(t), ReadBy(t), Char)
  BY <1>4, ReadSolves
<1>10. ReadFrom(t)[1] = ReadBy(t)[1] \o ReadFrom(t)[ReadEnd(t)[1] + 1]
  BY <1>6, <1>9 DEF SolvesFrom
<1>11. ReadFrom(t)[1] = <<Entity[e]>> \o ReadFrom(s)[1]
  BY <1>2, <1>3, <1>5, <1>8, <1>10
<1> QED BY <1>11, ReadIs DEF t, u, Put

(* What is escaped reads as it was. *)
LEMMA EscapedReads == ASSUME NEW s \in Seq(Char) PROVE ReadXML(EscapeXML(s)) = s
<1> DEFINE T == {t \in Seq(Char) : ReadXML(EscapeXML(t)) = t}
<1>1. <<>> \in T
  <2>1. <<>> \in Seq(Char)
    OBVIOUS
  <2> QED BY <2>1, EscapeNone, ReadNone
<1>2. ASSUME NEW t \in T, NEW x \in Char PROVE Put(x, t) \in T
  <2>1. t \in Seq(Char) /\ ReadXML(EscapeXML(t)) = t
    OBVIOUS
  <2> HIDE DEF T
  <2>2. Put(x, t) \in Seq(Char) /\ EscapeXML(t) \in Seq(Char)
    BY <2>1, PutChar, EscapeType
  <2>3. ReadXML(EscapeXML(Put(x, t))) = Put(x, t)
    <3>1. CASE x \in Special
      <4>1. EscapeXML(Put(x, t)) = Put(AmpSign, Put(EntityOf(x), EscapeXML(t)))
        BY <2>1, <3>1, EscapeSpecial
      <4>2. EntityOf(x) \in Entities /\ EntityOf(x) \in Char /\ Entity[EntityOf(x)] = x
        BY <3>1, EntityReads, EntityChars
      <4> QED BY <2>1, <2>2, <4>1, <4>2, ReadEntity
    <3>2. CASE x \notin Special
      <4>1. EscapeXML(Put(x, t)) = Put(x, EscapeXML(t))
        BY <2>1, <3>2, EscapeOther
      <4>2. x # AmpSign
        BY <3>2 DEF Special
      <4> QED BY <2>1, <2>2, <4>1, <4>2, ReadOther
    <3> QED BY <3>1, <3>2
  <2> QED BY <2>2, <2>3 DEF T
<1>3. T \in SUBSET Seq(Char) /\ \A t \in T : ReadXML(EscapeXML(t)) = t
  OBVIOUS
<1> HIDE DEF T
<1>4. T = Seq(Char)
  BY <1>1, <1>2, <1>3, ByConsing
<1> QED BY <1>3, <1>4

-----------------------------------------------------------------------------
(* Characters of two bytes. *)
Bytes2 == {LeadByte, TrailByte}

LEMMA ByteChars ==
    /\ Section \notin Bytes2 /\ Newline \notin Bytes2
    /\ \A x \in Special : x \notin Bytes2
    /\ \A e \in Entities : e # LeadByte
    /\ Blank # LeadByte /\ Dots # LeadByte
<1>1. /\ Section \notin Bytes2 /\ Newline \notin Bytes2 /\ AmpSign \notin Bytes2
      /\ LtSign \notin Bytes2 /\ GtSign \notin Bytes2 /\ QuoteSign \notin Bytes2
  BY TextAssumption, Zenon DEF Bytes2, Newline, AmpSign, LtSign, GtSign, QuoteSign
<1>2. LeadByte \notin {AmpEntity, LtEntity, GtEntity, QuoteEntity, Blank, Dots}
  BY TextAssumption, Zenon DEF AmpEntity, LtEntity, GtEntity, QuoteEntity, Blank, Dots
<1>3. \A x \in Special : x \notin Bytes2
  BY <1>1 DEF Special
<1>4. (\A e \in Entities : e # LeadByte) /\ Blank # LeadByte /\ Dots # LeadByte
  BY <1>2 DEF Entities
<1> QED BY <1>1, <1>3, <1>4

LEMMA WholeIs ==
    ASSUME NEW s \in Seq(Char)
    PROVE  Whole(s) <=> \A p \in 1..Len(s) : s[p] = LeadByte => p < Len(s) /\ s[p + 1] = TrailByte
<1>1. DOMAIN s = 1..Len(s)
  OBVIOUS
<1> QED BY <1>1 DEF Whole

StartsTrailing(s) == s # <<>> /\ s[1] = TrailByte

LEMMA WholePut ==
    ASSUME NEW s \in Seq(Char), NEW x \in Char
    PROVE  Whole(Put(x, s)) <=> Whole(s) /\ (x = LeadByte => StartsTrailing(s))
<1> DEFINE t == Put(x, s)
           n == Len(s)
<1>1. n \in Nat /\ (s = <<>> <=> n = 0)
  BY EmptySeq
<1>2. /\ t \in Seq(Char) /\ Len(t) = n + 1 /\ t[1] = x
      /\ \A p \in 1..n : t[p + 1] = s[p]
  BY PutChar
<1> HIDE DEF t
<1>3. Whole(t) <=> \A p \in 1..(n + 1) : t[p] = LeadByte => p < n + 1 /\ t[p + 1] = TrailByte
  BY <1>2, WholeIs
<1>4. Whole(s) <=> \A p \in 1..n : s[p] = LeadByte => p < n /\ s[p + 1] = TrailByte
  BY WholeIs
<1> HIDE DEF n
<1>5. ASSUME Whole(t) PROVE Whole(s) /\ (x = LeadByte => StartsTrailing(s))
  <2>1. ASSUME NEW p \in 1..n, s[p] = LeadByte PROVE p < n /\ s[p + 1] = TrailByte
    <3>1. p + 1 \in 1..(n + 1) /\ t[p + 1] = LeadByte
      BY <1>1, <1>2, <2>1
    <3>2. p + 1 < n + 1 /\ t[(p + 1) + 1] = TrailByte
      BY <1>3, <1>5, <3>1
    <3>3. p < n /\ p + 1 \in 1..n
      BY <1>1, <3>2
    <3> QED BY <1>2, <3>2, <3>3
  <2>2. ASSUME x = LeadByte PROVE StartsTrailing(s)
    <3>1. 1 \in 1..(n + 1) /\ t[1] = LeadByte
      BY <1>1, <1>2, <2>2
    <3>2. 1 < n + 1 /\ t[1 + 1] = TrailByte
      BY <1>3, <1>5, <3>1
    <3>3. 1 \in 1..n /\ n # 0
      BY <1>1, <3>2
    <3>4. s[1] = TrailByte
      BY <1>2, <3>2, <3>3
    <3> QED BY <1>1, <3>3, <3>4 DEF StartsTrailing
  <2> QED BY <1>4, <2>1, <2>2
<1>6. ASSUME Whole(s), x = LeadByte => StartsTrailing(s) PROVE Whole(t)
  <2>1. ASSUME NEW p \in 1..(n + 1), t[p] = LeadByte PROVE p < n + 1 /\ t[p + 1] = TrailByte
    <3>1. CASE p = 1
      <4>1. n # 0 /\ s[1] = TrailByte
        BY <1>1, <1>2, <1>6, <2>1, <3>1 DEF StartsTrailing
      <4>2. 1 \in 1..n /\ 1 < n + 1
        BY <1>1, <4>1
      <4>3. t[1 + 1] = TrailByte
        BY <1>2, <4>1, <4>2
      <4> QED BY <3>1, <4>2, <4>3
    <3>2. CASE p # 1
      <4>1. p - 1 \in 1..n /\ (p - 1) + 1 = p
        BY <1>1, <3>2
      <4>2. s[p - 1] = LeadByte
        BY <1>2, <2>1, <4>1
      <4>3. p - 1 < n /\ s[(p - 1) + 1] = TrailByte
        BY <1>4, <1>6, <4>1, <4>2
      <4>4. p \in 1..n /\ p < n + 1 /\ s[p] = TrailByte
        BY <1>1, <4>1, <4>3
      <4>5. t[p + 1] = s[p]
        BY <1>2, <4>4
      <4> QED BY <4>4, <4>5
    <3> QED BY <3>1, <3>2
  <2> QED BY <1>3, <2>1
<1> QED BY <1>5, <1>6 DEF t

(* A well formed text is whole, and its ampersands begin entities. *)
Markup(s) ==
    \A p \in 1..Len(s) : /\ s[p] # LtSign /\ s[p] # GtSign /\ s[p] # QuoteSign
                         /\ s[p] = AmpSign => p < Len(s) /\ s[p + 1] \in Entities

LEMMA WellFormedIs == ASSUME NEW s \in Seq(Char) PROVE WellFormed(s) <=> Whole(s) /\ Markup(s)
<1>1. DOMAIN s = 1..Len(s)
  OBVIOUS
<1>2. DOMAIN Entity = Entities
  BY EntityReads
<1>3. Markup(s) <=> \A p \in DOMAIN s : /\ s[p] \notin {LtSign, GtSign, QuoteSign}
                                        /\ s[p] = AmpSign => p < Len(s) /\ s[p + 1] \in DOMAIN Entity
  BY <1>1, <1>2 DEF Markup
<1>4. WellFormed(s) <=>
         Whole(s) /\ \A p \in DOMAIN s : /\ s[p] \notin {LtSign, GtSign, QuoteSign}
                                         /\ s[p] = AmpSign => p < Len(s) /\ s[p + 1] \in DOMAIN Entity
  BY Zenon DEF WellFormed, AmpSign, LtSign, GtSign, QuoteSign
<1> QED BY <1>3, <1>4

LEMMA MarkupPut ==
    ASSUME NEW s \in Seq(Char), Markup(s), NEW x \in Char, x # LtSign, x # GtSign, x # QuoteSign,
           x = AmpSign => s # <<>> /\ s[1] \in Entities
    PROVE  Markup(Put(x, s))
<1> DEFINE t == Put(x, s)
           n == Len(s)
<1>1. n \in Nat /\ (s = <<>> <=> n = 0)
  BY EmptySeq
<1>2. /\ Len(t) = n + 1 /\ t[1] = x
      /\ \A p \in 1..n : t[p + 1] = s[p]
  BY PutChar
<1>3. \A p \in 1..n : /\ s[p] # LtSign /\ s[p] # GtSign /\ s[p] # QuoteSign
                      /\ s[p] = AmpSign => p < n /\ s[p + 1] \in Entities
  BY DEF Markup
<1> HIDE DEF t, n
<1>4. ASSUME NEW p \in 1..(n + 1)
      PROVE  /\ t[p] # LtSign /\ t[p] # GtSign /\ t[p] # QuoteSign
             /\ t[p] = AmpSign => p < n + 1 /\ t[p + 1] \in Entities
  <2>1. CASE p = 1
    <3>1. t[p] = x
      BY <1>2, <2>1
    <3>2. ASSUME x = AmpSign PROVE p < n + 1 /\ t[p + 1] \in Entities
      <4>1. 1 \in 1..n /\ 1 < n + 1 /\ s[1] \in Entities
        BY <1>1, <3>2
      <4> QED BY <1>2, <2>1, <4>1
    <3> QED BY <3>1, <3>2
  <2>2. CASE p # 1
    <3>1. p - 1 \in 1..n /\ (p - 1) + 1 = p
      BY <1>1, <2>2
    <3>2. t[p] = s[p - 1]
      BY <1>2, <3>1
    <3>3. ASSUME s[p - 1] = AmpSign PROVE p < n + 1 /\ t[p + 1] \in Entities
      <4>1. p - 1 < n /\ s[(p - 1) + 1] \in Entities
        BY <1>3, <3>1, <3>3
      <4>2. p \in 1..n /\ p < n + 1 /\ s[p] \in Entities
        BY <1>1, <3>1, <4>1
      <4> QED BY <1>2, <4>2
    <3> QED BY <1>3, <3>1, <3>2, <3>3
  <2> QED BY <2>1, <2>2
<1>5. Markup(t)
  BY <1>2, <1>4 DEF Markup
<1> QED BY <1>5 DEF t

(* EscapeXML leaves the bytes of a character together. *)
LEMMA EscapedIsWellFormed ==
    ASSUME NEW s \in Seq(Char)
    PROVE  Markup(EscapeXML(s)) /\ (Whole(s) => Whole(EscapeXML(s)))
<1> DEFINE Good(t) == /\ Markup(EscapeXML(t))
                      /\ StartsTrailing(t) => StartsTrailing(EscapeXML(t))
                      /\ Whole(t) => Whole(EscapeXML(t))
           T == {t \in Seq(Char) : Good(t)}
<1>1. <<>> \in T
  <2>1. <<>> \in Seq(Char) /\ Len(<<>>) = 0 /\ 1..0 = {}
    OBVIOUS
  <2>2. Markup(<<>>)
    BY <2>1 DEF Markup
  <2>3. ~ StartsTrailing(<<>>)
    BY DEF StartsTrailing
  <2> QED BY <2>1, <2>2, <2>3, EscapeNone
<1>2. ASSUME NEW t \in T, NEW x \in Char PROVE Put(x, t) \in T
  <2>1. t \in Seq(Char) /\ Good(t)
    OBVIOUS
  <2> DEFINE e == EscapeXML(t)
             u == Put(x, t)
             f == EscapeXML(u)
  <2>2. u \in Seq(Char) /\ u[1] = x /\ u # <<>> /\ e \in Seq(Char)
    <3>1. u \in Seq(Char) /\ u[1] = x /\ Len(u) = Len(t) + 1 /\ Len(t) \in Nat
      BY <2>1, PutChar
    <3>2. u # <<>>
      <4> HIDE DEF u
      <4> QED BY <3>1, EmptySeq
    <3> QED BY <2>1, <3>1, <3>2, EscapeType
  <2>3. Whole(u) <=> Whole(t) /\ (x = LeadByte => StartsTrailing(t))
    BY <2>1, WholePut
  <2>4. StartsTrailing(u) => x = TrailByte
    BY <2>2 DEF StartsTrailing
  <2>5. CASE x \in Special
    <3> DEFINE y == EntityOf(x)
               v == Put(y, e)
    <3>1. f = Put(AmpSign, v)
      BY <2>1, <2>5, EscapeSpecial
    <3>2. y \in Entities /\ y \in Char /\ y \notin Special /\ y # LeadByte /\ AmpSign \in Special
      BY <2>5, EntityReads, EntityChars, ByteChars
    <3>3. y # LtSign /\ y # GtSign /\ y # QuoteSign /\ y # AmpSign
      BY <3>2 DEF Special
    <3> HIDE DEF y
    <3>4. v \in Seq(Char) /\ v[1] = y /\ Len(v) = Len(e) + 1 /\ Len(e) \in Nat
      BY <2>2, <3>2, PutChar
    <3>5. Markup(v)
      BY <2>1, <2>2, <3>2, <3>3, MarkupPut
    <3>6. Whole(v) <=> Whole(e)
      BY <2>2, <3>2, WholePut
    <3> HIDE DEF v
    <3>7. v # <<>>
      BY <3>4, EmptySeq
    <3>8. Markup(Put(AmpSign, v))
      BY <3>2, <3>4, <3>5, <3>7, MarkupPut, Chars, Different
    <3>9. Whole(Put(AmpSign, v)) <=> Whole(v)
      <4>1. AmpSign # LeadByte
        BY <3>2, ByteChars DEF Bytes2
      <4> QED BY <3>4, <4>1, WholePut, Chars
    <3>10. ~ StartsTrailing(u)
      BY <2>4, <2>5, ByteChars DEF Bytes2
    <3>11. Good(u)
      <4> HIDE DEF f, u
      <4>1. Whole(u) => Whole(f)
        BY <2>1, <2>3, <3>1, <3>6, <3>9
      <4> QED BY <3>1, <3>8, <3>10, <4>1 DEF f
    <3> QED BY <2>2, <3>11
  <2>6. CASE x \notin Special
    <3>1. f = Put(x, e)
      BY <2>1, <2>6, EscapeOther
    <3>2. x # AmpSign /\ x # LtSign /\ x # GtSign /\ x # QuoteSign
      BY <2>6 DEF Special
    <3>3. Markup(Put(x, e))
      BY <2>1, <2>2, <3>2, MarkupPut
    <3>4. Whole(Put(x, e)) <=> Whole(e) /\ (x = LeadByte => StartsTrailing(e))
      BY <2>2, WholePut
    <3>5. Put(x, e)[1] = x /\ Put(x, e) # <<>>
      <4>1. Put(x, e) \in Seq(Char) /\ Put(x, e)[1] = x /\ Len(Put(x, e)) = Len(e) + 1 /\ Len(e) \in Nat
        BY <2>2, PutChar
      <4> DEFINE v == Put(x, e)
      <4> HIDE DEF v
      <4>2. v # <<>>
        BY <4>1, EmptySeq DEF v
      <4> QED BY <4>1, <4>2 DEF v
    <3>6. x = TrailByte => StartsTrailing(Put(x, e))
      BY <3>5 DEF StartsTrailing
    <3>7. Good(u)
      <4> HIDE DEF f, u, e
      <4>1. Whole(u) => Whole(f)
        BY <2>1, <2>3, <3>1, <3>4 DEF e
      <4>2. Markup(f) /\ (StartsTrailing(u) => StartsTrailing(f))
        BY <2>4, <3>1, <3>3, <3>6
      <4> QED BY <4>1, <4>2 DEF f
    <3> QED BY <2>2, <3>7
  <2> QED BY <2>5, <2>6
<1>3. T \in SUBSET Seq(Char) /\ \A t \in T : Good(t)
  OBVIOUS
<1> HIDE DEF T
<1>4. T = Seq(Char)
  BY <1>1, <1>2, <1>3, ByConsing
<1>5. Good(s)
  BY <1>3, <1>4
<1> QED BY <1>5

-----------------------------------------------------------------------------
(* What stripping, joining the lines and cutting do to such characters.    *)
LEMMA PutStarts ==
    ASSUME NEW s \in Seq(Char), NEW x \in Char
    PROVE  StartsTrailing(Put(x, s)) <=> x = TrailByte
<1> DEFINE t == Put(x, s)
<1>1. Len(t) = Len(s) + 1 /\ Len(s) \in Nat /\ t[1] = x /\ t \in Seq(Char)
  BY PutChar
<1> HIDE DEF t
<1>2. t # <<>>
  BY <1>1, EmptySeq
<1>3. StartsTrailing(t) <=> x = TrailByte
  BY <1>1, <1>2 DEF StartsTrailing
<1> QED BY <1>3 DEF t

LEMMA StripType == ASSUME NEW s \in Seq(STRING) PROVE StripColorCodes(s) \in Seq(STRING)
<1>1. PICK rest : StripRest(rest, s) /\ StripColorCodes(s) = rest[1]
  BY StripUnfold
<1>2. 1 \in 1..(Len(s) + 1)
  OBVIOUS
<1> QED BY <1>1, <1>2 DEF StripRest

(* A code has no byte of a longer character. *)
LEMMA StripWhole == ASSUME NEW s \in Seq(STRING), Whole(s) PROVE Whole(StripColorCodes(s))
<1> DEFINE n == Len(s)
<1>1. n \in Nat /\ s \in Seq(Char) /\ \A p \in 1..n : s[p] \in STRING
  BY TextIsChars
<1>2. PICK rest : StripRest(rest, s) /\ StripColorCodes(s) = rest[1]
  BY StripUnfold
<1>3. /\ rest \in [1..(n + 1) -> Seq(STRING)] /\ rest[n + 1] = <<>>
      /\ \A p \in 1..n : IsCode(s, p) => rest[p] = rest[p + 2]
      /\ \A p \in 1..n : ~ IsCode(s, p) => rest[p] = <<s[p]>> \o rest[p + 1]
  BY <1>2 DEF StripRest
<1>4. \A p \in 1..n : s[p] = LeadByte => p < n /\ s[p + 1] = TrailByte
  BY <1>1, WholeIs
<1> HIDE DEF n
<1> DEFINE Good(p) == /\ Whole(rest[p])
                      /\ p \in 1..n /\ s[p] = TrailByte => StartsTrailing(rest[p])
           T == {p \in 1..(n + 1) : Good(p)}
<1>5. n + 1 \in T
  <2>1. Whole(<<>>)
    BY DEF Whole
  <2>2. n + 1 \in 1..(n + 1) /\ n + 1 \notin 1..n
    BY <1>1
  <2> QED BY <1>3, <2>1, <2>2
<1>6. ASSUME NEW p \in 1..n, \A q \in (p + 1)..(n + 1) : q \in T PROVE p \in T
  <2>1. p \in 1..(n + 1) /\ p + 1 \in (p + 1)..(n + 1) /\ p + 1 \in 1..(n + 1)
    BY <1>1
  <2>2. CASE IsCode(s, p)
    <3>1. s[p] = Section /\ p + 1 \in 1..n
      BY <1>1, <2>2, CodeIsTwo DEF n
    <3>2. p + 2 \in (p + 1)..(n + 1)
      BY <1>1, <3>1
    <3>3. Whole(rest[p + 2])
      BY <1>6, <3>2
    <3>4. s[p] # TrailByte
      BY <3>1, ByteChars DEF Bytes2
    <3> QED BY <1>3, <2>1, <2>2, <3>3, <3>4
  <2>3. CASE ~ IsCode(s, p)
    <3> DEFINE r == rest[p + 1]
               x == s[p]
    <3>1. rest[p] = Put(x, r)
      BY <1>3, <2>3 DEF Put
    <3>2. r \in Seq(Char) /\ x \in Char
      <4>1. r \in Seq(STRING)
        BY <1>3, <2>1
      <4>2. x \in STRING
        BY <1>1
      <4> HIDE DEF r, x
      <4> QED BY <4>1, <4>2, TextIsChars DEF Char
    <3>3. Whole(r) /\ (p + 1 \in 1..n /\ s[p + 1] = TrailByte => StartsTrailing(r))
      BY <1>6, <2>1
    <3>4. x = LeadByte => p + 1 \in 1..n /\ s[p + 1] = TrailByte
      <4>1. x = LeadByte => p < n /\ s[p + 1] = TrailByte
        BY <1>4
      <4>2. p < n => p + 1 \in 1..n
        BY <1>1
      <4> QED BY <4>1, <4>2
    <3> HIDE DEF r
    <3>5. Whole(Put(x, r))
      BY <3>2, <3>3, <3>4, WholePut
    <3>6. x = TrailByte => StartsTrailing(Put(x, r))
      BY <3>2, PutStarts
    <3> QED BY <2>1, <3>1, <3>5, <3>6
  <2> QED BY <2>2, <2>3
<1>7. T \in SUBSET (1..(n + 1)) /\ \A p \in T : Whole(rest[p])
  OBVIOUS
<1> HIDE DEF T
<1>8. T = 1..(n + 1)
  BY <1>1, <1>5, <1>6, <1>7, FromTheEnd
<1>9. 1 \in 1..(n + 1)
  BY <1>1
<1> QED BY <1>2, <1>7, <1>8, <1>9

LEMMA OneLineWhole == ASSUME NEW s \in Seq(Char), Whole(s) PROVE Whole(OneLine(s))
<1> DEFINE n == Len(s)
           o == OneLine(s)
<1>1. n \in Nat /\ o \in Seq(Char) /\ Len(o) = n /\ \A k \in 1..n : o[k] = Line(s[k])
  BY OneLineIs
<1>2. \A p \in 1..n : s[p] = LeadByte => p < n /\ s[p + 1] = TrailByte
  BY WholeIs
<1> HIDE DEF n, o
<1>3. ASSUME NEW p \in 1..n, o[p] = LeadByte PROVE p < n /\ o[p + 1] = TrailByte
  <2>1. Line(s[p]) = LeadByte
    BY <1>1, <1>3
  <2>2. s[p] = LeadByte
    BY <2>1, ByteChars DEF Line
  <2>3. p < n /\ s[p + 1] = TrailByte
    BY <1>2, <2>2
  <2>4. p + 1 \in 1..n
    BY <1>1, <2>3
  <2>5. Line(s[p + 1]) = TrailByte
    BY <2>3, ByteChars DEF Line, Bytes2
  <2> QED BY <1>1, <2>3, <2>4, <2>5
<1>4. Whole(o) <=> \A p \in 1..n : o[p] = LeadByte => p < n /\ o[p + 1] = TrailByte
  BY <1>1, WholeIs
<1> QED BY <1>3, <1>4 DEF o

(* A cut can only part the two bytes at its end. *)
Cut(v) == SubSeq(v, 1, MaxVersion) \o <<Dots>>

LEMMA CutIs ==
    ASSUME NEW v \in Seq(Char), Len(v) > MaxVersion
    PROVE  /\ Cut(v) \in Seq(Char)
           /\ Whole(v) /\ v[MaxVersion] # LeadByte => Whole(Cut(v))
<1> DEFINE m == MaxVersion
           u == SubSeq(v, 1, m)
           c == Cut(v)
<1>1. m \in Nat /\ Len(v) \in Nat /\ m < Len(v)
  BY ResponseAssumption
<1>2. u \in Seq(Char) /\ Len(u) = m /\ \A k \in 1..m : u[k] = v[k]
  BY <1>1
<1>3. <<Dots>> \in Seq(Char) /\ Len(<<Dots>>) = 1 /\ <<Dots>>[1] = Dots
  BY Chars
<1> HIDE DEF u
<1>4. c \in Seq(Char) /\ Len(c) = m + 1 /\ c[m + 1] = Dots /\ \A k \in 1..m : c[k] = u[k]
  <2>1. c = u \o <<Dots>>
    BY DEF Cut, u
  <2>2. c \in Seq(Char) /\ Len(c) = m + 1
    BY <1>1, <1>2, <1>3, <2>1
  <2>3. \A k \in 1..m : c[k] = u[k]
    BY <1>1, <1>2, <1>3, <2>1
  <2>4. c[m + 1] = Dots
    BY <1>1, <1>2, <1>3, <2>1
  <2> QED BY <2>2, <2>3, <2>4
<1> HIDE DEF c
<1>5. ASSUME Whole(v), v[m] # LeadByte PROVE Whole(c)
  <2>1. \A p \in 1..Len(v) : v[p] = LeadByte => p < Len(v) /\ v[p + 1] = TrailByte
    BY <1>5, WholeIs
  <2>2. ASSUME NEW p \in 1..(m + 1), c[p] = LeadByte PROVE p < m + 1 /\ c[p + 1] = TrailByte
    <3>1. p # m + 1
      BY <1>4, <2>2, ByteChars
    <3>2. p \in 1..m /\ p \in 1..Len(v)
      BY <1>1, <3>1
    <3>3. v[p] = LeadByte
      BY <1>2, <1>4, <2>2, <3>2
    <3>4. p # m
      BY <1>5, <3>3
    <3>5. p + 1 \in 1..m /\ p < m + 1
      BY <1>1, <3>2, <3>4
    <3>6. v[p + 1] = TrailByte
      BY <2>1, <3>2, <3>3
    <3> QED BY <1>2, <1>4, <3>5, <3>6
  <2>3. Whole(c) <=> \A p \in 1..(m + 1) : c[p] = LeadByte => p < m + 1 /\ c[p + 1] = TrailByte
    BY <1>4, WholeIs
  <2> QED BY <2>2, <2>3
<1> QED BY <1>4, <1>5 DEF c

-----------------------------------------------------------------------------
(* What the status tells is made of the answer, once; what a banner tells  *)
(* is made of the status, which nothing changes afterwards.                *)
Told(st) ==
    [motd |-> BannerMotd(st), version |-> BannerVersion(st.version), address |-> BannerAddress(st)]

TextInv ==
    /\ StatusInv
    /\ status.online => /\ response \in Responses
                        /\ status.clean = StripColorCodes(response.motd)
                        /\ status.html = FormatMOTDHTML(response.motd)
                        /\ status.version = response.version
    /\ ~ status.online => status.clean = <<>> /\ status.version = <<>>
    /\ banner # None => pc = "done" /\ banner = Told(status)

LEMMA TextInit == Init => TextInv
<1> SUFFICES ASSUME Init PROVE TextInv
  OBVIOUS
<1>1. StatusInv
  BY DecodeInit DEF DecodeInv
<1>2. status.online = FALSE /\ status.clean = <<>> /\ status.version = <<>> /\ banner = None
  BY DEF Init, Offline
<1> QED BY <1>1, <1>2 DEF TextInv

LEMMA TextStep == ASSUME TextInv, DecodeInv, [Next]_vars PROVE TextInv'
<1>0. StatusInv'
  BY DecodeStep DEF DecodeInv
<1>1. CASE PingFails
  BY <1>0, <1>1 DEF PingFails, TextInv
<1>2. CASE PingAnswered
  <2>1. PICK res \in Responses :
            /\ response' = res
            /\ status' = [online |-> TRUE, host |-> status.host,
                          clean |-> StripColorCodes(res.motd), html |-> FormatMOTDHTML(res.motd),
                          version |-> res.version, icon |-> FALSE]
    BY <1>2 DEF PingAnswered
  <2>2. banner' = None
    BY <1>2 DEF PingAnswered, TextInv
  <2> QED BY <1>0, <2>1, <2>2 DEF TextInv
<1>3. CASE FaviconRefused
  BY <1>0, <1>3 DEF FaviconRefused, TextInv
<1>4. CASE DecodeBegin
  BY <1>0, <1>4 DEF DecodeBegin, TextInv
<1>5. CASE Collect
  BY <1>0, <1>5 DEF Collect, ReadDigit, TextInv
<1>6. CASE Emit
  <2>1. UNCHANGED <<response, status>> /\ pc = "decode"
    BY <1>6 DEF Emit, ReadDigit
  <2>2. UNCHANGED banner
    BY <1>6 DEF Emit
  <2> QED BY <1>0, <2>1, <2>2 DEF TextInv
<1>7. CASE DecodeEnd
  <2>1. PICK icon : status' = [status EXCEPT !.icon = icon]
    BY <1>7 DEF DecodeEnd
  <2>2. /\ status'.online = status.online /\ status'.clean = status.clean /\ status'.host = status.host
        /\ status'.html = status.html /\ status'.version = status.version
    BY <2>1 DEF TextInv, StatusInv
  <2>3. banner' = None /\ response' = response
    BY <1>7 DEF DecodeEnd, TextInv
  <2> QED BY <1>0, <2>2, <2>3 DEF TextInv
<1>8. CASE GenerateBanner
  BY <1>0, <1>8 DEF GenerateBanner, TextInv, Told
<1>9. CASE UNCHANGED vars
  BY <1>0, <1>9 DEF vars, TextInv
<1> QED BY <1>1, <1>2, <1>3, <1>4, <1>5, <1>6, <1>7, <1>8, <1>9 DEF Next

LEMMA TextInvariant == Spec => []TextInv
<1>1. TextInv /\ DecodeInv /\ [Next]_vars => TextInv'
  BY TextStep
<1> QED BY <1>1, TextInit, DecodeInvariant, PTL DEF Spec

-----------------------------------------------------------------------------
(* Whatever MOTD a game server sends, stripColorCodes and formatMOTDHTML   *)
(* (server.go) both tell every character that is no part of a formatting   *)
(* code, once and in order, and the HTML gives it the style of the last    *)
(* section sign before it.                                                 *)
THEOREM MotdTold == Spec => []MotdToldTwice
<1>1. TextInv => MotdToldTwice
  <2> SUFFICES ASSUME TextInv, status.online PROVE MotdToldTwice
    BY DEF MotdToldTwice
  <2> DEFINE s == response.motd
  <2>1. /\ status.clean = StripColorCodes(s) /\ status.html = FormatMOTDHTML(s)
        /\ s \in Seq(STRING)
    BY ResponseAssumption DEF TextInv
  <2> HIDE DEF s
  <2>2. TellsInOrder(StripColorCodes(s), Kept(s), s)
    BY <2>1, StripTells
  <2>3. TellsInOrder(FormatMOTDHTML(s), Kept(s), [p \in DOMAIN s |-> <<StyleAt(s, p), s[p]>>])
    BY <2>1, HtmlTells DEF Tale
  <2> QED BY <2>1, <2>2, <2>3 DEF MotdToldTwice, s
<1> QED BY <1>1, TextInvariant, PTL

Shown(st) == IF st.clean = <<>> THEN st.host ELSE st.clean

(* The same with the names for characters. *)
LEMMA BannerIs ==
    ASSUME NEW st, NEW v
    PROVE  /\ BannerMotd(st) = EscapeXML(ReplaceEach(Shown(st), Newline, <<Blank>>))
           /\ BannerVersion(v) = EscapeXML(IF Len(v) > MaxVersion THEN Cut(v) ELSE v)
<1>1. BannerMotd(st) = EscapeXML(ReplaceEach(Shown(st), Newline, <<Blank>>))
  BY Zenon DEF BannerMotd, Shown, Newline, Blank
<1>2. BannerVersion(v) = EscapeXML(IF Len(v) > MaxVersion THEN Cut(v) ELSE v)
  BY Zenon DEF BannerVersion, Cut, Dots
<1> QED BY <1>1, <1>2

LEMMA Texts ==
    /\ \A h \in Host : h \in Seq(STRING) /\ Whole(h)
    /\ \A res \in Responses : Whole(res.motd) /\ Whole(res.version)
  BY TextAssumption, Zenon

LEMMA ResponseTexts ==
    ASSUME NEW res \in Responses
    PROVE  res.motd \in Seq(STRING) /\ res.version \in Seq(STRING)
  BY ResponseAssumption

(* A text without markup is escaped already, *)
LEMMA PlainEscapes ==
    ASSUME NEW s \in Seq(Char), \A p \in 1..Len(s) : s[p] \notin Special
    PROVE  EscapeXML(s) = s
<1> DEFINE Bare(t) == \A p \in 1..Len(t) : t[p] \notin Special
           T == {t \in Seq(Char) : Bare(t) => EscapeXML(t) = t}
<1>1. <<>> \in T
  <2>1. <<>> \in Seq(Char)
    OBVIOUS
  <2> QED BY <2>1, EscapeNone
<1>2. ASSUME NEW t \in T, NEW x \in Char PROVE Put(x, t) \in T
  <2>1. t \in Seq(Char) /\ Len(t) \in Nat /\ (Bare(t) => EscapeXML(t) = t)
    OBVIOUS
  <2>2. /\ Put(x, t) \in Seq(Char) /\ Len(Put(x, t)) = Len(t) + 1
        /\ Put(x, t)[1] = x /\ \A p \in 1..Len(t) : Put(x, t)[p + 1] = t[p]
    BY <2>1, PutChar
  <2>3. ASSUME Bare(Put(x, t)) PROVE x \notin Special /\ Bare(t)
    <3>1. 1 \in 1..(Len(t) + 1) /\ \A p \in 1..Len(t) : p + 1 \in 1..(Len(t) + 1)
      BY <2>1
    <3> QED BY <2>2, <2>3, <3>1
  <2>4. Bare(Put(x, t)) => EscapeXML(Put(x, t)) = Put(x, t)
    BY <2>1, <2>3, EscapeOther
  <2> QED BY <2>2, <2>4
<1>3. T \in SUBSET Seq(Char) /\ \A t \in T : Bare(t) => EscapeXML(t) = t
  OBVIOUS
<1> HIDE DEF T
<1>4. T = Seq(Char)
  BY <1>1, <1>2, <1>3, ByConsing
<1> QED BY <1>3, <1>4

(* and so it is well formed and read as it is. *)
LEMMA PlainReads ==
    ASSUME NEW s \in Seq(STRING), Whole(s), ~ HasMarkup(s)
    PROVE  WellFormed(s) /\ ReadXML(s) = s
<1>1. s \in Seq(Char) /\ DOMAIN s = 1..Len(s)
  BY TextIsChars
<1>2. \A p \in DOMAIN s : s[p] \notin Special
  BY Zenon DEF HasMarkup, Special, AmpSign, LtSign, GtSign, QuoteSign
<1>3. EscapeXML(s) = s
  BY <1>1, <1>2, PlainEscapes
<1> QED BY <1>1, <1>3, EscapedIsWellFormed, WellFormedIs, EscapedReads

(* Whatever a game server sends, the texts that GenerateBanner (banner.go) *)
(* puts into its SVG are well formed and read as they were sent, the MOTD  *)
(* on one line, the version cut short and the address, with two exceptions:*)
(* a version that is cut in the middle of a character, and an ip with      *)
(* markup in it, which the address line does not escape (banner.go:111).   *)
THEOREM BannersRead == Spec => []BannerReadsBack
<1>1. TextInv => BannerReadsBack
  <2> SUFFICES ASSUME TextInv, banner # None PROVE BannerReadsBack
    BY DEF BannerReadsBack
  <2> DEFINE v == status.version
             shown == Shown(status)
  <2>0. status.host \in Seq(STRING) /\ Whole(status.host)
    BY Texts DEF TextInv, StatusInv
  <2>1. banner.motd = BannerMotd(status) /\ banner.version = BannerVersion(v) /\ banner.address = status.host
    BY DEF TextInv, Told, BannerAddress
  <2>2. v \in Seq(STRING) /\ Whole(v) /\ shown \in Seq(STRING) /\ Whole(shown)
    <3>1. CASE status.online
      <4>1. /\ response.motd \in Seq(STRING) /\ Whole(response.motd)
            /\ v \in Seq(STRING) /\ Whole(v) /\ status.clean = StripColorCodes(response.motd)
        BY <3>1, ResponseTexts, Texts DEF TextInv
      <4>2. status.clean \in Seq(STRING) /\ Whole(status.clean)
        BY <4>1, StripType, StripWhole
      <4> QED BY <2>0, <4>1, <4>2 DEF Shown
    <3>2. CASE ~ status.online
      <4>1. v = <<>> /\ status.clean = <<>>
        BY <3>2 DEF TextInv
      <4>2. <<>> \in Seq(STRING) /\ Whole(<<>>)
        BY DEF Whole
      <4> QED BY <2>0, <4>1, <4>2 DEF Shown
    <3> QED BY <3>1, <3>2
  <2> HIDE DEF v, shown
  <2>3. v \in Seq(Char) /\ shown \in Seq(Char)
    BY <2>2, TextIsChars
  <2>4. BannerMotd(status) = EscapeXML(OneLine(shown))
    BY <2>3, BannerIs, NewlinesGo DEF shown
  <2>5. OneLine(shown) \in Seq(Char) /\ Whole(OneLine(shown))
    BY <2>2, <2>3, OneLineIs, OneLineWhole
  <2>6. WellFormed(banner.motd)
    <3>1. EscapeXML(OneLine(shown)) \in Seq(Char)
      BY <2>5, EscapeType
    <3> QED BY <2>1, <2>4, <2>5, <3>1, EscapedIsWellFormed, WellFormedIs
  <2>7. ReadXML(banner.motd) = OneLine(shown)
    BY <2>1, <2>4, <2>5, EscapedReads
  <2>8. /\ WellFormed(banner.version) \/ (Len(v) > MaxVersion /\ v[MaxVersion] = LeadByte)
        /\ ReadXML(banner.version) = IF Len(v) <= MaxVersion THEN v ELSE Cut(v)
    <3>1. Len(v) \in Nat /\ MaxVersion \in Nat /\ (Len(v) > MaxVersion <=> ~ (Len(v) <= MaxVersion))
      BY <2>3, ResponseAssumption
    <3>2. CASE Len(v) <= MaxVersion
      <4>1. banner.version = EscapeXML(v)
        BY <2>1, <3>1, <3>2, BannerIs
      <4>2. EscapeXML(v) \in Seq(Char) /\ ReadXML(EscapeXML(v)) = v
        BY <2>3, EscapeType, EscapedReads
      <4>3. WellFormed(EscapeXML(v))
        BY <2>2, <2>3, <4>2, EscapedIsWellFormed, WellFormedIs
      <4> QED BY <3>2, <4>1, <4>2, <4>3
    <3>3. CASE Len(v) > MaxVersion
      <4> DEFINE c == Cut(v)
      <4>1. banner.version = EscapeXML(c)
        BY <2>1, <3>3, BannerIs
      <4>2. c \in Seq(Char) /\ (v[MaxVersion] # LeadByte => Whole(c))
        BY <2>2, <2>3, <3>3, CutIs
      <4> HIDE DEF c
      <4>3. EscapeXML(c) \in Seq(Char) /\ ReadXML(EscapeXML(c)) = c
        BY <4>2, EscapeType, EscapedReads
      <4>4. Whole(c) => WellFormed(EscapeXML(c))
        BY <4>2, <4>3, EscapedIsWellFormed, WellFormedIs
      <4> QED BY <3>1, <3>3, <4>1, <4>2, <4>3, <4>4 DEF c
    <3> QED BY <3>1, <3>2, <3>3
  <2>9. ReadXML(banner.motd) =
            LET text1 == IF status.clean = <<>> THEN status.host ELSE status.clean
            IN [k \in DOMAIN text1 |-> IF text1[k] = "newline" THEN " " ELSE text1[k]]
    BY <2>7, Zenon DEF OneLine, shown, Shown, Newline, Blank
  <2>10. ReadXML(banner.version) =
            IF Len(status.version) <= MaxVersion THEN status.version
            ELSE SubSeq(status.version, 1, MaxVersion) \o <<"...">>
    BY <2>8, Zenon DEF v, Cut, Dots
  <2>11. WellFormed(banner.version)
            \/ (Len(status.version) > MaxVersion /\ status.version[MaxVersion] = LeadByte)
    BY <2>8 DEF v
  <2>12. \/ WellFormed(banner.address) /\ ReadXML(banner.address) = status.host
         \/ HasMarkup(status.host)
    BY <2>0, <2>1, PlainReads
  <2> QED BY <2>6, <2>9, <2>10, <2>11, <2>12, Zenon DEF BannerReadsBack
<1> QED BY <1>1, TextInvariant, PTL
=============================================================================
