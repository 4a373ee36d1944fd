------------------------ MODULE PingResponseProofs ------------------------
(* decodeBase64 for every favicon, of any length and content.              *)
EXTENDS PingResponse, SequenceTheorems, WellFoundedInduction, TLAPS

Sign == Digit \cup {PngUri, DataUri, Pad, Foreign}

(* The loop has written as many whole bytes as the digits it has read make *)
(* up, the rest is in the buffer.                                          *)
LoopInv ==
    /\ text \in Seq(Sign)
    /\ i \in 0..Len(text)
    /\ bits \in {0, 2, 4, 6}
    /\ outIdx \in Nat
    /\ buffer \in 0..(Word - 1)
    /\ 8 * outIdx + bits = 6 * i
    /\ decoded \in Seq(0..255)
    /\ Len(decoded) = DecodedLen(text)

(* The last digit read is at the end of the buffer, whatever it has lost,  *)
(* and every byte written is the one of its group.                         *)
ByteInv ==
    /\ \A k \in 1..i : text[k] # Pad
    /\ i >= 1 => buffer % 64 = Value(text[i])
    /\ \A m \in 1..outIdx : decoded[m] = ByteAt(text, m - 1)

(* What is decoded is the favicon of the answer, and an icon was one. *)
Favicon == Trimmed(response.favicon)

StatusInv ==
    /\ pc \in {"ping", "favicon", "decode", "banner", "done"}
    /\ response \in Responses \cup {None}
    /\ pc \in {"favicon", "decode"} => response \in Responses /\ response.favicon # <<>>
    /\ pc = "decode" => text = Favicon /\ ~ StartsWith(text, {PngUri, DataUri})
    /\ status = [online |-> status.online, host |-> status.host, clean |-> status.clean,
                 html |-> status.html, version |-> status.version, icon |-> status.icon]
    /\ status.online \in BOOLEAN /\ status.icon \in BOOLEAN /\ status.host \in Host
    /\ status.icon => /\ pc \in {"banner", "done"}
                      /\ ~ StartsWith(Favicon, {PngUri, DataUri})
                      /\ ReferenceDecode(AsDigits(Favicon)) \in Pictures

DecodeInv == LoopInv /\ ByteInv /\ StatusInv

(* Every set of natural numbers but the empty one has a least element. *)
LEMMA Least ==
    ASSUME NEW T \in SUBSET Nat, T # {} PROVE \E x \in T : \A y \in T : x <= y
<1> DEFINE R == OpToRel(<, Nat)
<1>1. IsWellFoundedOn(R, Nat)
  BY NatLessThanWellFounded
<1>2. \A x, y \in Nat : y < x => <<y, x>> \in R
  BY DEF OpToRel
<1> HIDE DEF R
<1>3. PICK x \in T : \A y \in T : ~ (<<y, x>> \in R)
  BY <1>1, WFMin
<1>4. \A y \in T : ~ (y < x)
  BY <1>2, <1>3
<1> QED BY <1>4

(* A word is a whole number of groups of twelve bits: what overflows does  *)
(* not touch the twelve lowest.                                            *)
LEMMA Remainders ==
    ASSUME NEW W \in Nat \ {0}, W % 4096 = 0, NEW x \in Nat
    PROVE  (x % W) % 4096 = x % 4096
<1>1. PICK q \in Nat : W = 4096 * q
  <2>1. W = 4096 * (W \div 4096)
    OBVIOUS
  <2>2. W \div 4096 \in Nat
    OBVIOUS
  <2> QED BY <2>1, <2>2
<1> DEFINE k == x \div W
<1>2. k \in Nat /\ x % W \in Nat /\ x = W * k + (x % W)
  OBVIOUS
<1> DEFINE r == x % W
<1> HIDE DEF k, r
<1>3. PICK p \in Int : p = q * k
  BY <1>1, <1>2
<1>4. W * k = 4096 * p
  BY <1>1, <1>2, <1>3
<1>5. r \in Nat /\ x = 4096 * p + r
  BY <1>2, <1>4 DEF r
<1>6. x % 4096 = r % 4096
  BY <1>5
<1> QED BY <1>6 DEF r

Pair(a, b) == 64 * a + b

Four(a, b, c, d) == 262144 * a + 4096 * b + 64 * c + d

EndsWith(x, a, b) == x % 4096 = Pair(a, b)

Taken(x, b) == (x \div Scale(b)) % 256

TakesByte(y, a, b, c, d) ==
    /\ EndsWith(y, a, b) => Taken(y, 4) = ByteOf(Four(a, b, c, d), 0)
    /\ EndsWith(y, b, c) => Taken(y, 2) = ByteOf(Four(a, b, c, d), 1)
    /\ EndsWith(y, c, d) => Taken(y, 0) = ByteOf(Four(a, b, c, d), 2)

(* Two digits that follow one another hold the byte between them: the      *)
(* shifts of decodeBase64 take out what the group of four has there.       *)
LEMMA ThreeBytes ==
    ASSUME NEW a \in 0..63, NEW b \in 0..63, NEW c \in 0..63, NEW d \in 0..63, NEW y \in Nat
    PROVE  TakesByte(y, a, b, c, d)
<1> DEFINE n == Four(a, b, c, d)
<1>0. n \in Nat /\ n = 262144 * a + 4096 * b + 64 * c + d
  BY DEF Four
<1> HIDE DEF n
<1>1. PICK b1 \in 0..3, b2 \in 0..15 : b = 16 * b1 + b2
  <2>1. b \div 16 \in 0..3 /\ b % 16 \in 0..15 /\ b = 16 * (b \div 16) + (b % 16)
    OBVIOUS
  <2> QED BY <2>1
<1>2. PICK c1 \in 0..15, c2 \in 0..3 : c = 4 * c1 + c2
  <2>1. c \div 4 \in 0..15 /\ c % 4 \in 0..3 /\ c = 4 * (c \div 4) + (c % 4)
    OBVIOUS
  <2> QED BY <2>1
<1>3. ASSUME NEW x \in Nat PROVE \E p \in Nat : x = 4096 * p + (x % 4096)
  <2>1. x \div 4096 \in Nat /\ x = 4096 * (x \div 4096) + (x % 4096)
    OBVIOUS
  <2> QED BY <2>1
<1>4. n \div 65536 = 4 * a + b1
  <2>1. n = 65536 * (4 * a + b1) + (4096 * b2 + 64 * c + d)
    BY <1>0, <1>1
  <2> QED BY <2>1
<1>5. n \div 256 = 1024 * a + 16 * b + c1 /\ (n \div 256) % 256 = 16 * b2 + c1
  <2>1. n = 256 * (1024 * a + 16 * b + c1) + (64 * c2 + d)
    BY <1>0, <1>2
  <2>2. n \div 256 = 1024 * a + 16 * b + c1
    BY <2>1
  <2>3. 1024 * a + 16 * b + c1 = 256 * (4 * a + b1) + (16 * b2 + c1)
    BY <1>1
  <2>4. (1024 * a + 16 * b + c1) % 256 = 16 * b2 + c1
    BY <2>3
  <2> QED BY <2>2, <2>4
<1>6. n % 256 = 64 * c2 + d
  <2>1. n = 256 * (1024 * a + 16 * b + c1) + (64 * c2 + d)
    BY <1>0, <1>2
  <2> QED BY <2>1
<1>7. ASSUME NEW x \in Nat, EndsWith(x, a, b) PROVE (x \div 16) % 256 = 4 * a + b1
  <2>1. PICK p \in Nat : x = 4096 * p + 64 * a + b
    BY <1>3, <1>7 DEF EndsWith, Pair
  <2>2. x = 16 * (256 * p + 4 * a + b1) + b2
    BY <1>1, <2>1
  <2>3. x \div 16 = 256 * p + (4 * a + b1)
    BY <2>2
  <2>4. (256 * p + (4 * a + b1)) % 256 = 4 * a + b1
    OBVIOUS
  <2> QED BY <2>3, <2>4
<1>8. ASSUME NEW x \in Nat, EndsWith(x, b, c) PROVE (x \div 4) % 256 = 16 * b2 + c1
  <2>1. PICK p \in Nat : x = 4096 * p + 64 * b + c
    BY <1>3, <1>8 DEF EndsWith, Pair
  <2>2. x = 4 * (1024 * p + 16 * b + c1) + c2
    BY <1>2, <2>1
  <2>3. x \div 4 = 256 * (4 * p + b1) + (16 * b2 + c1)
    BY <1>1, <2>2
  <2>4. (256 * (4 * p + b1) + (16 * b2 + c1)) % 256 = 16 * b2 + c1
    OBVIOUS
  <2> QED BY <2>3, <2>4
<1>9. ASSUME NEW x \in Nat, EndsWith(x, c, d) PROVE (x \div 1) % 256 = 64 * c2 + d
  <2>1. PICK p \in Nat : x = 4096 * p + 64 * c + d
    BY <1>3, <1>9 DEF EndsWith, Pair
  <2>2. x \div 1 = 256 * (16 * p + c1) + (64 * c2 + d)
    BY <1>2, <2>1
  <2>3. (256 * (16 * p + c1) + (64 * c2 + d)) % 256 = 64 * c2 + d
    OBVIOUS
  <2> QED BY <2>2, <2>3
<1>10. Scale(4) = 16 /\ Scale(2) = 4 /\ Scale(0) = 1
  BY DEF Scale
<1>11. /\ ByteOf(n, 0) = 4 * a + b1
       /\ ByteOf(n, 1) = 16 * b2 + c1
       /\ ByteOf(n, 2) = 64 * c2 + d
  BY <1>4, <1>5, <1>6 DEF ByteOf
<1>12. ASSUME NEW x \in Nat, EndsWith(x, a, b) PROVE Taken(x, 4) = ByteOf(n, 0)
  BY <1>7, <1>10, <1>11, <1>12 DEF Taken
<1>13. ASSUME NEW x \in Nat, EndsWith(x, b, c) PROVE Taken(x, 2) = ByteOf(n, 1)
  BY <1>8, <1>10, <1>11, <1>13 DEF Taken
<1>14. ASSUME NEW x \in Nat, EndsWith(x, c, d) PROVE Taken(x, 0) = ByteOf(n, 2)
  BY <1>9, <1>10, <1>11, <1>14 DEF Taken
<1> QED BY <1>12, <1>13, <1>14 DEF n, TakesByte

(* The place where the loop ends is the number of digits, *)
LEMMA CountOfDigits ==
    ASSUME NEW S, NEW s \in Seq(S), NEW n \in 0..Len(s),
           \A k \in 1..n : s[k] # Pad, n < Len(s) => s[n + 1] = Pad
    PROVE  DigitCount(s) = n
<1> DEFINE P(m) == (\A k \in 1..m : s[k] # Pad) /\ (m < Len(s) => s[m + 1] = Pad)
<1>1. P(n)
  OBVIOUS
<1>2. \A m \in 0..Len(s) : P(m) => m = n
  <2> SUFFICES ASSUME NEW m \in 0..Len(s), P(m), m # n PROVE FALSE
    OBVIOUS
  <2>1. CASE m < n
    BY <2>1
  <2>2. CASE n < m
    BY <2>2
  <2> QED BY <2>1, <2>2
<1> HIDE DEF P
<1>3. DigitCount(s) = CHOOSE m \in 0..Len(s) : P(m)
  BY DEF DigitCount, P
<1> QED BY <1>1, <1>2, <1>3

(* and every text has one: the least place with padding behind it. *)
LEMMA CountExists ==
    ASSUME NEW S, NEW s \in Seq(S)
    PROVE  \E n \in 0..Len(s) : (\A k \in 1..n : s[k] # Pad) /\ (n < Len(s) => s[n + 1] = Pad)
<1> DEFINE T == {n \in 0..Len(s) : n < Len(s) => s[n + 1] = Pad}
<1>1. T \in SUBSET Nat /\ T # {}
  <2>1. Len(s) \in T
    OBVIOUS
  <2> QED BY <2>1
<1>2. PICK n \in T : \A m \in T : n <= m
  BY <1>1, Least
<1>3. \A k \in 1..n : s[k] # Pad
  <2> SUFFICES ASSUME NEW k \in 1..n, s[k] = Pad PROVE FALSE
    OBVIOUS
  <2>1. n \in 0..Len(s) /\ k - 1 \in T
    OBVIOUS
  <2>2. n <= k - 1
    BY <2>1, <1>2
  <2> QED BY <2>1, <2>2
<1> QED BY <1>2, <1>3
(* A byte that is complete still has room in the slice. *)
LEMMA RoomForByte ==
    ASSUME NEW n \in Nat, NEW k \in Nat, NEW b \in {0, 2, 4, 6}, NEW out \in Nat,
           8 * out + b = 6 * k, k < n, b + 6 >= 8
    PROVE  out < (n * 6) \div 8 /\ b - 2 \in {0, 2, 4} /\ 8 * (out + 1) + (b - 2) = 6 * (k + 1)
  OBVIOUS

Pushed(b, v) == (b * 64 + v) % Word

(* What a step of the loop leaves in the buffer. *)
LEMMA BufferAfter ==
    ASSUME NEW b \in Nat, NEW v \in 0..63
    PROVE  /\ Pushed(b, v) \in 0..(Word - 1) /\ Pushed(b, v) % 64 = v
           /\ EndsWith(Pushed(b, v), b % 64, v)
<1>1. Word \in Nat \ {0} /\ Word % 4096 = 0
  BY ResponseAssumption
<1> DEFINE x == Pushed(b, v)
<1>2. b * 64 + v \in Nat /\ x = (b * 64 + v) % Word
  BY DEF Pushed
<1>3. x \in 0..(Word - 1)
  BY <1>1, <1>2
<1>4. x % 4096 = (b * 64 + v) % 4096
  BY <1>1, <1>2, Remainders
<1> HIDE DEF x
<1>5. x % 64 = v
  BY <1>3, <1>4
<1>6. x % 4096 = 64 * (b % 64) + v
  BY <1>3, <1>4
<1> QED BY <1>3, <1>5, <1>6 DEF EndsWith, Pair, x

LEMMA ValueType == ASSUME NEW c PROVE Value(c) \in 0..63
  BY DEF Value, Digit

LEMMA TakenType == ASSUME NEW x \in Nat, NEW b PROVE Taken(x, b) \in 0..255
<1>1. PICK q \in Nat : q = x \div Scale(b)
  <2>1. x \div 1 \in Nat /\ x \div 4 \in Nat /\ x \div 16 \in Nat
    OBVIOUS
  <2>2. Scale(b) = 1 \/ Scale(b) = 4 \/ Scale(b) = 16
    BY DEF Scale
  <2> QED BY <2>1, <2>2
<1>2. q % 256 \in 0..255
  OBVIOUS
<1> QED BY <1>1, <1>2 DEF Taken

LEMMA DigitType == ASSUME NEW s, NEW k PROVE DigitAt(s, k) \in 0..63
  BY DEF DigitAt, Digit

(* The shifted buffer holds the byte that RFC 4648 has at this place. *)
LEMMA EmittedByte ==
    ASSUME NEW s \in Seq(Sign), NEW k \in Nat, k >= 1, k < Len(s),
           NEW b \in {2, 4, 6}, NEW out \in Nat, 8 * out + b = 6 * k,
           NEW x \in Nat, EndsWith(x, Value(s[k]), Value(s[k + 1]))
    PROVE  Taken(x, b - 2) = ByteAt(s, out)
<1> DEFINE g == k \div 4
<1>1. /\ g \in Nat
      /\ \/ b = 6 /\ k = 4 * g + 1 /\ out = 3 * g
         \/ b = 4 /\ k = 4 * g + 2 /\ out = 3 * g + 1
         \/ b = 2 /\ k = 4 * g + 3 /\ out = 3 * g + 2
  OBVIOUS
<1> HIDE DEF g
<1>2. PICK d1 \in 0..63 : d1 = DigitAt(s, 4 * g + 1)
  BY DigitType
<1>3. PICK d2 \in 0..63 : d2 = DigitAt(s, 4 * g + 2)
  BY DigitType
<1>4. PICK d3 \in 0..63 : d3 = DigitAt(s, 4 * g + 3)
  BY DigitType
<1>5. PICK d4 \in 0..63 : d4 = DigitAt(s, 4 * g + 4)
  BY DigitType
<1>6. Group(s, g) = Four(d1, d2, d3, d4)
  BY <1>2, <1>3, <1>4, <1>5 DEF Group, Four
<1>7. Value(s[k]) = DigitAt(s, k) /\ Value(s[k + 1]) = DigitAt(s, k + 1)
  BY DEF Value, DigitAt
<1>8. /\ EndsWith(x, d1, d2) => Taken(x, 4) = ByteOf(Group(s, g), 0)
      /\ EndsWith(x, d2, d3) => Taken(x, 2) = ByteOf(Group(s, g), 1)
      /\ EndsWith(x, d3, d4) => Taken(x, 0) = ByteOf(Group(s, g), 2)
  <2>1. TakesByte(x, d1, d2, d3, d4)
    BY ThreeBytes
  <2> QED BY <1>6, <2>1 DEF TakesByte
<1>9. CASE b = 6 /\ k = 4 * g + 1 /\ out = 3 * g
  <2>1. b - 2 = 4 /\ k + 1 = 4 * g + 2 /\ out \div 3 = g /\ out % 3 = 0
    BY <1>1, <1>9
  <2> QED BY <1>2, <1>3, <1>7, <1>8, <1>9, <2>1 DEF ByteAt
<1>10. CASE b = 4 /\ k = 4 * g + 2 /\ out = 3 * g + 1
  <2>1. b - 2 = 2 /\ k + 1 = 4 * g + 3 /\ out \div 3 = g /\ out % 3 = 1
    BY <1>1, <1>10
  <2> QED BY <1>3, <1>4, <1>7, <1>8, <1>10, <2>1 DEF ByteAt
<1>11. CASE b = 2 /\ k = 4 * g + 3 /\ out = 3 * g + 2
  <2>1. b - 2 = 0 /\ k + 1 = 4 * g + 4 /\ out \div 3 = g /\ out % 3 = 2
    BY <1>1, <1>11
  <2> QED BY <1>4, <1>5, <1>7, <1>8, <1>11, <2>1 DEF ByteAt
<1> QED BY <1>1, <1>9, <1>10, <1>11

(* The reference is asked for a text in which every foreign character is   *)
(* the digit 0: its bytes are those of the text as the loop reads it.      *)
LEMMA ReadAsDigits ==
    ASSUME NEW s \in Seq(Sign) PROVE ReferenceDecode(AsDigits(s)) = ReferenceDecode(s)
<1> DEFINE t == AsDigits(s)
<1>1. /\ t \in Seq(Digit \cup {Pad}) /\ Len(t) = Len(s) /\ Len(s) \in Nat
      /\ \A k \in 1..Len(s) : t[k] = IF s[k] \in Digit \cup {Pad} THEN s[k] ELSE 0
  <2> DEFINE D == Digit \cup {Pad}
             n == Len(s)
  <2>1. n \in Nat /\ DOMAIN s = 1..n /\ 0 \in D
    BY DEF Digit
  <2>2. t = [k \in 1..n |-> IF s[k] \in D THEN s[k] ELSE 0]
    BY <2>1 DEF AsDigits
  <2> HIDE DEF D, t, n
  <2>3. t \in [1..n -> D]
    BY <2>1, <2>2
  <2>4. t \in Seq(D) /\ Len(t) = n
    BY <2>1, <2>3
  <2>5. \A k \in 1..n : t[k] = IF s[k] \in D THEN s[k] ELSE 0
    BY <2>2
  <2> QED BY <2>1, <2>4, <2>5 DEF D, n
<1>2. Pad \notin Digit /\ 0 \in Digit
  <2>1. Pad \notin Digit
    BY ResponseAssumption
  <2>2. 0 \in Digit
    BY DEF Digit
  <2> QED BY <2>1, <2>2
<1>3. \A k \in 1..Len(s) : t[k] = Pad <=> s[k] = Pad
  BY <1>1, <1>2
<1> HIDE DEF t
<1>4. DigitCount(t) = DigitCount(s)
  <2>1. PICK n \in 0..Len(s) : (\A k \in 1..n : s[k] # Pad) /\ (n < Len(s) => s[n + 1] = Pad)
    BY CountExists
  <2>2. DigitCount(s) = n
    BY <2>1, CountOfDigits
  <2>3. (\A k \in 1..n : t[k] # Pad) /\ (n < Len(t) => t[n + 1] = Pad)
    BY <1>1, <1>3, <2>1
  <2>4. DigitCount(t) = n
    BY <1>1, <2>1, <2>3, CountOfDigits
  <2> QED BY <2>2, <2>4
<1>5. ASSUME NEW k \in Nat, k >= 1 PROVE DigitAt(t, k) = DigitAt(s, k)
  BY <1>1, <1>2, <1>5 DEF DigitAt
<1>6. ASSUME NEW g \in Nat PROVE Group(t, g) = Group(s, g)
  <2>1. /\ 4 * g + 1 \in Nat /\ 4 * g + 2 \in Nat /\ 4 * g + 3 \in Nat /\ 4 * g + 4 \in Nat
        /\ 4 * g + 1 >= 1 /\ 4 * g + 2 >= 1 /\ 4 * g + 3 >= 1 /\ 4 * g + 4 >= 1
    OBVIOUS
  <2> QED BY <1>5, <2>1 DEF Group
<1>7. ASSUME NEW m \in Nat PROVE ByteAt(t, m) = ByteAt(s, m)
  BY <1>6 DEF ByteAt
<1>8. DigitCount(s) \in Nat
  BY CountExists, CountOfDigits
<1>9. ASSUME NEW m \in 1..((DigitCount(s) * 6) \div 8) PROVE ByteAt(t, m - 1) = ByteAt(s, m - 1)
  <2>1. m - 1 \in Nat
    BY <1>8
  <2> QED BY <1>7, <2>1
<1>10. ReferenceDecode(t) = ReferenceDecode(s)
  BY <1>4, <1>9 DEF ReferenceDecode
<1> QED BY <1>10 DEF t

LEMMA TrimmedType == ASSUME NEW s \in Seq(Sign), s # <<>> PROVE Trimmed(s) \in Seq(Sign)
  BY DEF Trimmed

(* At the end of the loop the bytes are those of RFC 4648. *)
LEMMA DecodedAtEnd ==
    ASSUME LoopInv, ByteInv, i < Len(text) => text[i + 1] = Pad
    PROVE  Bytes = ReferenceDecode(text)
<1>1. DigitCount(text) = i
  BY CountOfDigits DEF LoopInv, ByteInv
<1>2. i \in Nat /\ (i * 6) \div 8 = outIdx /\ outIdx <= Len(decoded)
  BY DEF LoopInv, DecodedLen
<1>3. ReferenceDecode(text) = [m \in 1..outIdx |-> ByteAt(text, m - 1)]
  BY <1>1, <1>2 DEF ReferenceDecode
<1>4. Bytes = [m \in 1..outIdx |-> decoded[m]]
  <2>1. decoded \in Seq(0..255) /\ outIdx \in Nat /\ outIdx <= Len(decoded)
    BY <1>2 DEF LoopInv
  <2> QED BY <2>1 DEF Bytes
<1> QED BY <1>3, <1>4 DEF ByteInv

LEMMA DecodeInit == Init => DecodeInv
<1> SUFFICES ASSUME Init PROVE DecodeInv
  OBVIOUS
<1>1. LoopInv
  BY ResponseAssumption DEF Init, LoopInv, DecodedLen
<1>2. ByteInv
  BY DEF Init, ByteInv
<1>3. PICK host \in Host : status = Offline(host)
  BY DEF Init
<1>4. StatusInv
  BY <1>3 DEF Init, StatusInv, Offline
<1> QED BY <1>1, <1>2, <1>4 DEF DecodeInv

(* Steps that do not touch the loop. *)
LEMMA LoopKept == ASSUME LoopInv, ByteInv, UNCHANGED loopVars PROVE LoopInv' /\ ByteInv'
  BY DEF LoopInv, ByteInv, loopVars, DecodedLen

LEMMA BeginStep == ASSUME DecodeInv, DecodeBegin PROVE DecodeInv'
<1>1. /\ pc = "favicon" /\ pc' = "decode" /\ i' = 0 /\ buffer' = 0 /\ bits' = 0 /\ outIdx' = 0
      /\ response' = response /\ status' = status
      /\ text' = Favicon /\ ~ StartsWith(text', {PngUri, DataUri})
      /\ decoded' = [k \in 1..DecodedLen(text') |-> 0]
  BY DEF DecodeBegin, Favicon
<1>2. response \in Responses /\ response.favicon # <<>>
  BY <1>1 DEF DecodeInv, StatusInv
<1>3. text' \in Seq(Sign)
  <2>1. response.favicon \in Seq(Sign)
    BY <1>2, ResponseAssumption DEF Sign
  <2> QED BY <1>1, <1>2, <2>1, TrimmedType DEF Favicon
<1>4. DecodedLen(text') \in Nat
  BY <1>3 DEF DecodedLen
<1>5. decoded' \in Seq(0..255) /\ Len(decoded') = DecodedLen(text')
  BY <1>1, <1>4
<1>6. LoopInv'
  BY <1>1, <1>3, <1>5, ResponseAssumption DEF LoopInv, DecodedLen
<1>7. ByteInv'
  BY <1>1 DEF ByteInv
<1>8. StatusInv'
  BY <1>1, <1>2 DEF DecodeInv, StatusInv, Favicon
<1> QED BY <1>6, <1>7, <1>8 DEF DecodeInv

(* One digit more. *)
LEMMA DigitRead ==
    ASSUME LoopInv, ByteInv, ReadDigit
    PROVE  /\ i' = i + 1 /\ i' \in 1..Len(text) /\ i < Len(text)
           /\ buffer' \in 0..(Word - 1) /\ buffer' % 64 = Value(text[i + 1])
           /\ i >= 1 => EndsWith(buffer', Value(text[i]), Value(text[i + 1]))
           /\ \A k \in 1..i' : text[k] # Pad
<1>1. /\ i \in Nat /\ Len(text) \in Nat /\ i < Len(text) /\ i' = i + 1 /\ text[i + 1] # Pad
      /\ buffer' = Pushed(buffer, Value(text[i + 1]))
  BY DEF LoopInv, ReadDigit, Shifted, Pushed
<1>2. buffer \in Nat
  BY ResponseAssumption DEF LoopInv
<1>3. /\ buffer' \in 0..(Word - 1) /\ buffer' % 64 = Value(text[i + 1])
      /\ EndsWith(buffer', buffer % 64, Value(text[i + 1]))
  <2>1. Value(text[i + 1]) \in 0..63
    BY ValueType
  <2> QED BY <1>1, <1>2, <2>1, BufferAfter
<1>4. i >= 1 => buffer % 64 = Value(text[i])
  BY DEF ByteInv
<1>5. \A k \in 1..i' : text[k] # Pad
  BY <1>1 DEF ByteInv
<1> QED BY <1>1, <1>3, <1>4, <1>5

LEMMA StatusKept ==
    ASSUME StatusInv, pc = "decode", UNCHANGED <<pc, response, status, text>> PROVE StatusInv'
  BY DEF StatusInv, Favicon

LEMMA CollectStep == ASSUME DecodeInv, Collect PROVE DecodeInv'
<1>1. LoopInv /\ ByteInv /\ StatusInv /\ ReadDigit /\ pc = "decode"
  BY DEF DecodeInv, Collect, ReadDigit
<1>2. bits + 6 < 8 /\ bits' = bits + 6 /\ UNCHANGED <<pc, response, status, text, decoded, outIdx>>
  BY DEF Collect
<1>3. /\ i' = i + 1 /\ i' \in 1..Len(text) /\ buffer' \in 0..(Word - 1)
      /\ buffer' % 64 = Value(text[i + 1]) /\ \A k \in 1..i' : text[k] # Pad
  BY <1>1, DigitRead
<1>4. /\ text \in Seq(Sign) /\ i \in Nat /\ bits = 0 /\ outIdx \in Nat
      /\ 8 * outIdx + bits = 6 * i /\ decoded \in Seq(0..255) /\ Len(decoded) = DecodedLen(text)
  BY <1>1, <1>2 DEF LoopInv
<1>5. bits' = 6 /\ 8 * outIdx + bits' = 6 * i'
  BY <1>2, <1>3, <1>4
<1>6. LoopInv'
  BY <1>2, <1>3, <1>4, <1>5 DEF LoopInv, DecodedLen
<1>7. ByteInv'
  BY <1>1, <1>2, <1>3 DEF ByteInv
<1> QED BY <1>1, <1>2, <1>6, <1>7, StatusKept DEF DecodeInv

LEMMA EmitStep == ASSUME DecodeInv, Emit PROVE DecodeInv'
<1>1. LoopInv /\ ByteInv /\ StatusInv /\ ReadDigit /\ pc = "decode"
  BY DEF DecodeInv, Emit, ReadDigit
<1>2. /\ bits + 6 >= 8 /\ bits' = bits - 2 /\ UNCHANGED <<response, status, text>>
  BY DEF Emit
<1>3. /\ i' = i + 1 /\ i' \in 1..Len(text) /\ i < Len(text) /\ buffer' \in 0..(Word - 1)
      /\ buffer' % 64 = Value(text[i + 1]) /\ \A k \in 1..i' : text[k] # Pad
      /\ i >= 1 => EndsWith(buffer', Value(text[i]), Value(text[i + 1]))
  BY <1>1, DigitRead
<1>4. /\ text \in Seq(Sign) /\ i \in Nat /\ Len(text) \in Nat /\ bits \in {2, 4, 6} /\ outIdx \in Nat
      /\ 8 * outIdx + bits = 6 * i /\ decoded \in Seq(0..255) /\ Len(decoded) = DecodedLen(text)
  BY <1>1, <1>2 DEF LoopInv
<1>5. outIdx < Len(decoded) /\ bits' \in {0, 2, 4} /\ 8 * (outIdx + 1) + bits' = 6 * i'
  BY <1>2, <1>3, <1>4, RoomForByte DEF DecodedLen
<1>6. PICK x \in Nat : x = buffer'
  BY <1>3, ResponseAssumption
<1>7. PICK byte : byte = Taken(x, bits - 2)
  OBVIOUS
<1>8. decoded' = [decoded EXCEPT ![outIdx + 1] = byte] /\ outIdx' = outIdx + 1 /\ pc' = pc
  BY <1>5, <1>6, <1>7 DEF Emit, Taken
<1>9. byte = ByteAt(text, outIdx)
  <2>1. i >= 1
    BY <1>4
  <2>2. EndsWith(x, Value(text[i]), Value(text[i + 1]))
    BY <1>3, <1>6, <2>1
  <2> QED BY <1>3, <1>4, <1>7, <2>1, <2>2, EmittedByte
<1>10. byte \in 0..255
  BY <1>7, TakenType
<1>11. /\ decoded' \in Seq(0..255) /\ Len(decoded') = Len(decoded)
       /\ \A m \in 1..Len(decoded) : decoded'[m] = IF m = outIdx + 1 THEN byte ELSE decoded[m]
  <2>1. outIdx + 1 \in 1..Len(decoded)
    BY <1>4, <1>5
  <2> QED BY <1>4, <1>8, <1>10, <2>1, ExceptSeq
<1>12. LoopInv'
  <2>1. outIdx' \in Nat /\ 8 * outIdx' + bits' = 6 * i'
    BY <1>4, <1>5, <1>8
  <2>2. i' \in 0..Len(text)
    BY <1>3
  <2> QED BY <1>2, <1>3, <1>4, <1>5, <1>11, <2>1, <2>2 DEF LoopInv, DecodedLen
<1>13. \A m \in 1..outIdx' : decoded'[m] = ByteAt(text, m - 1)
  <2> SUFFICES ASSUME NEW m \in 1..(outIdx + 1) PROVE decoded'[m] = ByteAt(text, m - 1)
    BY <1>8
  <2>1. m \in 1..Len(decoded)
    BY <1>4, <1>5
  <2>2. CASE m = outIdx + 1
    <3>1. m - 1 = outIdx
      BY <1>4, <2>2
    <3> QED BY <1>9, <1>11, <2>1, <2>2, <3>1
  <2>3. CASE m # outIdx + 1
    <3>1. m \in 1..outIdx
      BY <1>4, <2>3
    <3> QED BY <1>1, <1>11, <2>1, <2>3, <3>1 DEF ByteInv
  <2> QED BY <2>2, <2>3
<1>14. ByteInv'
  BY <1>2, <1>3, <1>13 DEF ByteInv
<1> QED BY <1>1, <1>2, <1>8, <1>12, <1>14, StatusKept DEF DecodeInv

LEMMA EndStep == ASSUME DecodeInv, DecodeEnd PROVE DecodeInv'
<1>1. /\ pc = "decode" /\ pc' = "banner"
      /\ i < Len(text) => text[i + 1] = Pad
      /\ UNCHANGED <<response, loopVars>>
  BY DEF DecodeEnd
<1>2. PICK icon \in {FALSE, (Bytes \in Pictures)} : status' = [status EXCEPT !.icon = icon]
  BY DEF DecodeEnd
<1>3. /\ status' = [online |-> status.online, host |-> status.host, clean |-> status.clean,
                    html |-> status.html, version |-> status.version, icon |-> icon]
      /\ status.online \in BOOLEAN /\ status.host \in Host
  BY <1>2 DEF DecodeInv, StatusInv
<1>4. icon = FALSE \/ icon = (Bytes \in Pictures)
  BY <1>2, Zenon
<1>5. icon \in BOOLEAN /\ (icon => Bytes \in Pictures)
  <2>1. CASE Bytes \in Pictures
    <3>1. icon = TRUE \/ icon = FALSE
      BY <1>4, <2>1, Zenon
    <3> QED BY <2>1, <3>1
  <2>2. CASE ~ (Bytes \in Pictures)
    <3>1. (Bytes \in Pictures) = FALSE
      BY <2>2
    <3>2. icon = FALSE
      BY <1>4, <3>1
    <3> QED BY <3>2
  <2> QED BY <2>1, <2>2
<1>6. Bytes = ReferenceDecode(AsDigits(text))
  BY <1>1, DecodedAtEnd, ReadAsDigits DEF DecodeInv, LoopInv
<1>7. text = Favicon /\ ~ StartsWith(Favicon, {PngUri, DataUri}) /\ response \in Responses
  BY <1>1 DEF DecodeInv, StatusInv
<1>8. Favicon' = Favicon /\ response' = response
  BY <1>1 DEF Favicon
<1>9. /\ status'.icon = icon /\ status'.online = status.online /\ status'.host = status.host
      /\ status' = [online |-> status'.online, host |-> status'.host, clean |-> status'.clean,
                    html |-> status'.html, version |-> status'.version, icon |-> status'.icon]
  BY <1>3
<1>10. status'.icon \in BOOLEAN /\ status'.online \in BOOLEAN /\ status'.host \in Host
  BY <1>3, <1>5, <1>9, Zenon
<1>11. status'.icon => ReferenceDecode(AsDigits(Favicon)) \in Pictures
  BY <1>5, <1>6, <1>7, <1>9, Zenon
<1> HIDE DEF Favicon
<1>12. StatusInv'
  BY <1>1, <1>7, <1>8, <1>9, <1>10, <1>11 DEF StatusInv
<1> QED BY <1>1, <1>12, LoopKept DEF DecodeInv

LEMMA AnsweredStep == ASSUME DecodeInv, PingAnswered PROVE DecodeInv'
<1>1. PICK res \in Responses :
          /\ response' = res
          /\ status' = [online |-> TRUE, host |-> status.host,
                        clean |-> StripColorCodes(res.motd), html |-> FormatMOTDHTML(res.motd),
                        version |-> res.version, icon |-> FALSE]
          /\ pc' = IF res.favicon = <<>> THEN "banner" ELSE "favicon"
  BY DEF PingAnswered
<1>2. UNCHANGED loopVars
  BY DEF PingAnswered
<1>3. StatusInv'
  BY <1>1 DEF DecodeInv, StatusInv
<1> QED BY <1>2, <1>3, LoopKept DEF DecodeInv

LEMMA DecodeStep == ASSUME DecodeInv, [Next]_vars PROVE DecodeInv'
<1>1. CASE PingFails
  BY <1>1, LoopKept DEF PingFails, DecodeInv, StatusInv, Favicon
<1>2. CASE GenerateBanner
  BY <1>2, LoopKept DEF GenerateBanner, DecodeInv, StatusInv, Favicon
<1>3. CASE FaviconRefused
  BY <1>3, LoopKept DEF FaviconRefused, DecodeInv, StatusInv, Favicon
<1>4. CASE UNCHANGED vars
  <2>1. LoopInv' /\ ByteInv'
    BY <1>4, LoopKept DEF vars, DecodeInv
  <2>2. StatusInv'
    BY <1>4 DEF vars, loopVars, DecodeInv, StatusInv, Favicon
  <2> QED BY <2>1, <2>2 DEF DecodeInv
<1> QED
  BY <1>1, <1>2, <1>3, <1>4, AnsweredStep, BeginStep, CollectStep, EmitStep, EndStep DEF Next

THEOREM DecodeInvariant == Spec => []DecodeInv
  BY DecodeInit, DecodeStep, PTL DEF Spec

-----------------------------------------------------------------------------
(* Whatever a game server sends for a favicon, decodeBase64                *)
(* (server.go:523-557) never writes behind its slice.                      *)
THEOREM DecodeNeverPanics == Spec => []DecodeInBounds
<1>1. DecodeInv => DecodeInBounds
  BY DEF DecodeInv, StatusInv, DecodeInBounds
<1> QED BY <1>1, DecodeInvariant, PTL

(* The indices of the loop stay inside the text and the slice, and what is *)
(* written are bytes.                                                      *)
THEOREM PingTypes == Spec => []TypeOK
<1>1. DecodeInv => TypeOK
  <2> SUFFICES ASSUME DecodeInv PROVE TypeOK
    OBVIOUS
  <2>1. outIdx \in 0..Len(decoded) /\ \A k \in DOMAIN decoded : decoded[k] \in 0..255
    <3>1. /\ outIdx \in Nat /\ 8 * outIdx <= 6 * i /\ i \in Nat /\ i <= Len(text)
          /\ decoded \in Seq(0..255) /\ Len(decoded) = (Len(text) * 6) \div 8 /\ Len(text) \in Nat
      BY DEF DecodeInv, LoopInv, DecodedLen
    <3>2. outIdx <= Len(decoded) /\ Len(decoded) \in Nat
      BY <3>1
    <3>3. \A k \in DOMAIN decoded : decoded[k] \in 0..255
      <4>1. DOMAIN decoded = 1..Len(decoded)
        BY <3>1
      <4> QED BY <3>1, <4>1, ElementOfSeq
    <3>4. outIdx \in 0..Len(decoded)
      BY <3>1, <3>2
    <3> QED BY <3>3, <3>4
  <2> QED BY <2>1 DEF DecodeInv, LoopInv, StatusInv, TypeOK
<1> QED BY <1>1, DecodeInvariant, PTL

(* decodeBase64 decodes a favicon of any length, padded or not, as RFC     *)
(* 4648 does, although its buffer overflows.  Characters that RFC 4648     *)
(* refuses count as the digit 0 (server.go:540-547).  An icon is linked    *)
(* only for a favicon whose bytes, so decoded, are a picture.              *)
THEOREM FaviconsDecode == Spec => []DecodesEveryFavicon
<1>1. DecodeInv => DecodesEveryFavicon
  <2> SUFFICES ASSUME DecodeInv PROVE DecodesEveryFavicon
    OBVIOUS
  <2>1. PICK n \in 0..Len(text) : /\ \A k \in 1..n : text[k] # Pad
                                  /\ n < Len(text) => text[n + 1] = Pad
    BY CountExists DEF DecodeInv, LoopInv
  <2>2. DigitCount(text) = n /\ n \in Nat
    BY <2>1, CountOfDigits DEF DecodeInv, LoopInv
  <2>3. i <= n
    BY <2>1 DEF DecodeInv, LoopInv, ByteInv
  <2>4. outIdx <= (n * 6) \div 8 /\ (n * 6) \div 8 \in Nat
    BY <2>2, <2>3 DEF DecodeInv, LoopInv
  <2>5. ReferenceDecode(text) = [m \in 1..((n * 6) \div 8) |-> ByteAt(text, m - 1)]
    BY <2>2 DEF ReferenceDecode
  <2>6. outIdx <= Len(ReferenceDecode(text))
    BY <2>4, <2>5
  <2>7. \A m \in 1..outIdx : decoded[m] = ReferenceDecode(text)[m]
    BY <2>4, <2>5 DEF DecodeInv, LoopInv, ByteInv
  <2>8. ReferenceDecode(AsDigits(text)) = ReferenceDecode(text)
    BY ReadAsDigits DEF DecodeInv, LoopInv
  <2> QED BY <2>6, <2>7, <2>8 DEF DecodeInv, StatusInv, Favicon, DecodesEveryFavicon
<1> QED BY <1>1, DecodeInvariant, PTL
=============================================================================
