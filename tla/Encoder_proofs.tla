--------------------------- MODULE Encoder_proofs ---------------------------
(***************************************************************************)
(* Encoder and decoder fit: an encoded payload is a frame of the format,    *)
(* decoding it gives the payload back, and the decoder, run along it from   *)
(* any state, ends with that payload.  The run is a fold over a frame of    *)
(* any length, so the first part has the induction it needs: the library's  *)
(* induction theorems take a predicate, but the least element of a set of   *)
(* numbers does not.                                                        *)
(***************************************************************************)
EXTENDS Decoder_proofs, WellFoundedInduction

-----------------------------------------------------------------------------
(* Induction                                                                *)

LEMMA LeastNatural ==
  ASSUME NEW T \in SUBSET Nat, T # {}
  PROVE  \E n \in T : \A m \in T : n <= m
<1> DEFINE R == OpToRel(<, Nat)
<1>1. IsWellFoundedOn(R, Nat)
  BY NatLessThanWellFounded
<1>2. R = {ss \in Nat \X Nat : ss[1] < ss[2]}
  BY DEF OpToRel
<1>3. \A m, n \in Nat : m < n => <<m, n>> \in R
  BY <1>2
<1> HIDE DEF R
<1>4. PICK n \in T : \A m \in T : ~(<<m, n>> \in R)
  BY <1>1, WFMin
<1>5. ASSUME NEW m \in T PROVE n <= m
  <2>1. m \in Nat /\ n \in Nat
    OBVIOUS
  <2>2. ~(m < n)
    BY <1>3, <1>4, <2>1
  <2> QED
    BY <2>1, <2>2
<1> QED
  BY <1>5

(* A set that holds 0, and k + 1 with k < n, holds every number up to n.    *)
LEMMA Induction ==
  ASSUME NEW n \in Nat, NEW P, 0 \in P, \A k \in 0 .. n - 1 : k \in P => k + 1 \in P
  PROVE  \A k \in 0 .. n : k \in P
<1> DEFINE T == {k \in 0 .. n : k \notin P}
<1> SUFFICES ASSUME T # {} PROVE FALSE
  OBVIOUS
<1>1. T \in SUBSET Nat
  OBVIOUS
<1>2. PICK k \in T : \A m \in T : k <= m
  BY <1>1, LeastNatural
<1>3. k \in 0 .. n /\ k \notin P /\ k # 0
  OBVIOUS
<1>4. k - 1 \in 0 .. n - 1 /\ ~(k <= k - 1) /\ k - 1 \in 0 .. n
  BY <1>3
<1>5. k - 1 \in P
  BY <1>2, <1>4
<1>6. k - 1 + 1 \in P /\ k - 1 + 1 = k
  BY <1>3, <1>4, <1>5
<1> QED
  BY <1>3, <1>6

-----------------------------------------------------------------------------
(* The fold of the state machine over a sequence                            *)

(* One round of FoldLeft's recursion, which takes the largest index first.  *)
FoldRound(g, t, d, s) == IF t = {} THEN d ELSE Step(g[t \ {Max(t)}], s[Max(t)])

IsFold(g, n, d, s) == g = [t \in SUBSET (1 .. n) |-> FoldRound(g, t, d, s)]

LEMMA MaxOf ==
  ASSUME NEW n \in Nat, NEW t \in SUBSET (1 .. n), n \in t
  PROVE  Max(t) = n
<1>1. \A y \in t : n >= y
  OBVIOUS
<1>2. ASSUME NEW x \in t, \A y \in t : x >= y PROVE x = n
  BY <1>2
<1> QED
  BY <1>1, <1>2 DEF Max

LEMMA FoldExtends ==
  ASSUME NEW k \in Nat, NEW d, NEW s, NEW g, IsFold(g, k, d, s)
  PROVE  \E h : IsFold(h, k + 1, d, s)
<1> DEFINE h == [t \in SUBSET (1 .. k + 1) |->
                   IF k + 1 \in t THEN Step(g[t \ {k + 1}], s[k + 1]) ELSE g[t]]
<1>1. ASSUME NEW t \in SUBSET (1 .. k + 1) PROVE h[t] = FoldRound(h, t, d, s)
  <2>1. CASE k + 1 \in t
    <3>1. Max(t) = k + 1
      BY <2>1, MaxOf
    <3>2. t \ {k + 1} \in SUBSET (1 .. k + 1) /\ k + 1 \notin t \ {k + 1}
      OBVIOUS
    <3>3. h[t \ {k + 1}] = g[t \ {k + 1}]
      BY <3>2
    <3>4. h[t] = Step(g[t \ {k + 1}], s[k + 1])
      BY <2>1
    <3>5. t # {}
      BY <2>1
    <3> HIDE DEF h
    <3> QED
      BY <3>1, <3>3, <3>4, <3>5 DEF FoldRound
  <2>2. CASE k + 1 \notin t
    <3>1. t \in SUBSET (1 .. k)
      BY <2>2
    <3>2. h[t] = g[t]
      BY <2>2
    <3>3. g[t] = FoldRound(g, t, d, s)
      BY <3>1 DEF IsFold
    <3>4. h[t \ {Max(t)}] = g[t \ {Max(t)}]
      <4>1. t \ {Max(t)} \in SUBSET (1 .. k + 1) /\ k + 1 \notin t \ {Max(t)}
        BY <2>2
      <4> QED
        BY <4>1
    <3> HIDE DEF h
    <3> QED
      BY <3>2, <3>3, <3>4 DEF FoldRound
  <2> QED
    BY <2>1, <2>2
<1>2. h = [t \in SUBSET (1 .. k + 1) |-> h[t]]
  OBVIOUS
<1> HIDE DEF h
<1>3. IsFold(h, k + 1, d, s)
  BY <1>1, <1>2 DEF IsFold
<1> QED
  BY <1>3

LEMMA FoldExists ==
  ASSUME NEW n \in Nat, NEW d, NEW s
  PROVE  \E g : IsFold(g, n, d, s)
<1> DEFINE P == {k \in Nat : \E g : IsFold(g, k, d, s)}
<1>1. 0 \in P
  <2> DEFINE g == [t \in SUBSET (1 .. 0) |-> d]
  <2>1. ASSUME NEW t \in SUBSET (1 .. 0) PROVE FoldRound(g, t, d, s) = d
    <3>1. t = {}
      OBVIOUS
    <3> QED
      BY <3>1 DEF FoldRound
  <2>2. g = [t \in SUBSET (1 .. 0) |-> FoldRound(g, t, d, s)]
    BY <2>1
  <2> QED
    BY <2>2 DEF IsFold
<1>2. \A k \in 0 .. n - 1 : k \in P => k + 1 \in P
  BY FoldExtends
<1> HIDE DEF P
<1>3. n \in P
  BY <1>1, <1>2, Induction
<1> QED
  BY <1>3 DEF P

(* The states of the machine along s, whose last one is the fold.           *)
LEMMA FoldRun ==
  ASSUME NEW d, NEW S, NEW s \in Seq(S)
  PROVE  \E run : /\ run[0] = d
                  /\ \A k \in 1 .. Len(s) : run[k] = Step(run[k - 1], s[k])
                  /\ FoldLeft(Step, d, s) = run[Len(s)]
<1> DEFINE n == Len(s)
           F == CHOOSE g : IsFold(g, n, d, s)
           run == [k \in 0 .. n |-> F[1 .. k]]
<1>1. n \in Nat /\ DOMAIN s = 1 .. n
  OBVIOUS
<1>2. IsFold(F, n, d, s)
  BY <1>1, FoldExists
<1>3. FoldLeft(Step, d, s) = F[1 .. n]
  <2>1. FoldLeft(Step, d, s) =
          (CHOOSE g : g = [t \in SUBSET DOMAIN s |->
                             IF t = {} THEN d ELSE Step(g[t \ {Max(t)}], s[Max(t)])])[DOMAIN s]
    BY DEF FoldLeft, MapThenFoldSet
  <2> QED
    BY <1>1, <2>1 DEF IsFold, FoldRound
<1> HIDE DEF F
<1>4. ASSUME NEW t \in SUBSET (1 .. n) PROVE F[t] = FoldRound(F, t, d, s)
  BY <1>2 DEF IsFold
<1>5. run[0] = d
  <2>1. 1 .. 0 = {} /\ 1 .. 0 \in SUBSET (1 .. n)
    OBVIOUS
  <2>2. F[1 .. 0] = d
    BY <1>4, <2>1 DEF FoldRound
  <2> QED
    BY <1>1, <2>2
<1>6. ASSUME NEW k \in 1 .. n PROVE run[k] = Step(run[k - 1], s[k])
  <2> DEFINE t == 1 .. k
  <2>1. t \in SUBSET (1 .. n) /\ t # {} /\ t \in SUBSET (1 .. k) /\ k \in t /\ k \in Nat
    <3>1. k \in Nat /\ k \in 1 .. k /\ k <= n
      BY <1>1
    <3>2. \A x \in 1 .. k : x \in 1 .. n
      BY <1>1, <3>1
    <3> QED
      BY <3>1, <3>2
  <2>2. Max(t) = k
    BY <2>1, MaxOf
  <2>3. t \ {k} = 1 .. k - 1
    BY <1>1
  <2> HIDE DEF t
  <2>4. F[t] = Step(F[t \ {k}], s[k])
    BY <1>4, <2>1, <2>2 DEF FoldRound
  <2>5. F[1 .. k] = Step(F[1 .. k - 1], s[k])
    BY <2>3, <2>4 DEF t
  <2>6. k \in 0 .. n /\ k - 1 \in 0 .. n
    BY <1>1
  <2>7. run[k] = F[1 .. k]
    BY <2>6
  <2>8. run[k - 1] = F[1 .. k - 1]
    BY <2>6
  <2> HIDE DEF run
  <2> QED
    BY <2>5, <2>7, <2>8
<1>7. run[n] = F[1 .. n]
  BY <1>1
<1> HIDE DEF run
<1> QED
  BY <1>3, <1>5, <1>6, <1>7

-----------------------------------------------------------------------------
(* Hexadecimal and back                                                     *)

LEMMA DigitValue ==
  ASSUME NEW x \in 0 .. 15
  PROVE  HexDigit(x) \in Byte /\ IsHexChar(HexDigit(x)) /\ HexValue(HexDigit(x)) = x
BY DEF HexDigit, HexValue, IsHexChar, Byte

LEMMA Nibbles ==
  ASSUME NEW b \in Byte
  PROVE  b \div 16 \in 0 .. 15 /\ b % 16 \in 0 .. 15 /\ 16 * (b \div 16) + (b % 16) = b
BY DEF Byte

LEMMA ByteDigits ==
  ASSUME NEW b \in Byte
  PROVE  /\ HexChars(b) \in Seq(Byte) /\ Len(HexChars(b)) = 2
         /\ HexChars(b) = <<HexChars(b)[1], HexChars(b)[2]>>
         /\ \A k \in 1 .. 2 : HexChars(b)[k] \in Byte /\ IsHexChar(HexChars(b)[k])
         /\ 16 * HexValue(HexChars(b)[1]) + HexValue(HexChars(b)[2]) = b
<1> DEFINE hi == HexDigit(b \div 16)  lo == HexDigit(b % 16)
<1>1. /\ hi \in Byte /\ IsHexChar(hi) /\ HexValue(hi) = b \div 16
      /\ lo \in Byte /\ IsHexChar(lo) /\ HexValue(lo) = b % 16
  BY Nibbles, DigitValue
<1>2. HexChars(b) = <<hi, lo>>
  BY DEF HexChars
<1>3. 16 * HexValue(hi) + HexValue(lo) = b
  BY <1>1, Nibbles
<1> HIDE DEF hi, lo
<1> QED
  BY <1>1, <1>2, <1>3

LEMMA HalfIndex ==
  ASSUME NEW n \in Nat, NEW k \in 1 .. 2 * n
  PROVE  (k + 1) \div 2 \in 1 .. n /\ 2 - (k % 2) \in 1 .. 2
<1>1. k \in Int /\ 1 <= k /\ k <= 2 * n
  OBVIOUS
<1>2. \A m \in Nat : m = 2 * (m \div 2) + (m % 2) /\ m % 2 \in 0 .. 1 /\ m \div 2 \in Int
  OBVIOUS
<1>3. k \in Nat /\ k + 1 \in Nat
  BY <1>1
<1> DEFINE q == (k + 1) \div 2  r == (k + 1) % 2
<1>4. k + 1 = 2 * q + r /\ r \in 0 .. 1 /\ q \in Int
  BY <1>2, <1>3
<1> HIDE DEF q, r
<1>5. q \in 1 .. n
  BY <1>1, <1>4
<1>6. 2 - (k % 2) \in 1 .. 2
  BY <1>2, <1>3
<1> QED
  BY <1>5, <1>6 DEF q

LEMMA PairIndex ==
  ASSUME NEW n \in Nat, NEW k \in 1 .. n
  PROVE  /\ 2 * k - 1 \in 1 .. 2 * n /\ (2 * k - 1 + 1) \div 2 = k /\ 2 - ((2 * k - 1) % 2) = 1
         /\ 2 * k \in 1 .. 2 * n /\ (2 * k + 1) \div 2 = k /\ 2 - ((2 * k) % 2) = 2
<1>1. k \in Nat /\ 1 <= k /\ k <= n
  OBVIOUS
<1>2. 2 * k - 1 \in 1 .. 2 * n /\ 2 * k \in 1 .. 2 * n
  BY <1>1
<1>3. \A m \in Nat : (2 * m) \div 2 = m /\ (2 * m + 1) \div 2 = m /\ (2 * m) % 2 = 0
  OBVIOUS
<1>4. \A m \in Nat : m > 0 => (2 * m - 1) % 2 = 1
  OBVIOUS
<1>5. 2 * k - 1 + 1 = 2 * k
  BY <1>1
<1>6. (2 * k - 1 + 1) \div 2 = k
  BY <1>1, <1>3, <1>5
<1> QED
  BY <1>1, <1>2, <1>3, <1>4, <1>6

LEMMA HexOfBytes ==
  ASSUME NEW p \in Seq(Byte)
  PROVE  LET h == BytesToHexStr(p)
         IN  /\ h \in Seq(Byte) /\ Len(h) = 2 * Len(p)
             /\ \A k \in 1 .. 2 * Len(p) : IsHexChar(h[k])
             /\ HexStrToBytes(h) = p
<1> DEFINE n == Len(p)
           e(k) == HexChars(p[(k + 1) \div 2])[2 - (k % 2)]
           h == BytesToHexStr(p)
<1>1. n \in Nat /\ 2 * n \in Nat /\ \A k \in 1 .. n : p[k] \in Byte
  OBVIOUS
<1>2. ASSUME NEW k \in 1 .. 2 * n PROVE e(k) \in Byte /\ IsHexChar(e(k))
  <2>1. (k + 1) \div 2 \in 1 .. n /\ 2 - (k % 2) \in 1 .. 2
    BY <1>1, HalfIndex
  <2>2. p[(k + 1) \div 2] \in Byte
    BY <1>1, <2>1
  <2> QED
    BY <2>1, <2>2, ByteDigits
<1>3. h = [k \in 1 .. 2 * n |-> e(k)]
  BY DEF BytesToHexStr
<1>4. ASSUME NEW k \in 1 .. n
      PROVE  16 * HexValue(e(2 * k - 1)) + HexValue(e(2 * k)) = p[k]
  <2>1. e(2 * k - 1) = HexChars(p[k])[1] /\ e(2 * k) = HexChars(p[k])[2]
    BY <1>1, PairIndex
  <2> HIDE DEF e
  <2>2. p[k] \in Byte
    BY <1>1
  <2> QED
    BY <2>1, <2>2, ByteDigits
<1> HIDE DEF e, h
<1>5. h \in Seq(Byte) /\ Len(h) = 2 * n
  <2>1. h \in Seq(Byte)
    BY <1>1, <1>2, <1>3, IsASeq
  <2> QED
    BY <1>1, <1>3, <2>1
<1>6. \A k \in 1 .. 2 * n : h[k] = e(k)
  BY <1>3
<1>7. HexStrToBytes(h) = [k \in 1 .. n |-> p[k]]
  <2>1. Len(h) \div 2 = n
    <3>1. (2 * n) \div 2 = n
      BY <1>1
    <3> QED
      BY <1>5, <3>1
  <2>2. ASSUME NEW k \in 1 .. n
        PROVE  16 * HexValue(h[2 * k - 1]) + HexValue(h[2 * k]) = p[k]
    <3>1. h[2 * k - 1] = e(2 * k - 1) /\ h[2 * k] = e(2 * k)
      BY <1>1, <1>6, PairIndex
    <3> QED
      BY <1>4, <3>1
  <2>3. HexStrToBytes(h)
          = [k \in 1 .. n |-> 16 * HexValue(h[2 * k - 1]) + HexValue(h[2 * k])]
    BY <2>1 DEF HexStrToBytes
  <2> QED
    BY <2>2, <2>3
<1>8. [k \in 1 .. n |-> p[k]] = p
  OBVIOUS
<1> QED
  BY <1>2, <1>5, <1>6, <1>7, <1>8 DEF h

-----------------------------------------------------------------------------
(* An encoded payload                                                       *)

(* What comm_protocol_encode accepts.                                       *)
Encodable(p) == p \in Seq(Byte) /\ Len(p) > 0 /\ 2 * Len(p) <= MaxValidDataLen

(* The checksum is a byte, as comm_protocol_cal_xor's result is.            *)
ByteChecksum == \A s \in Seq(Byte) : CalXor(s) \in Byte

(* The frame of h, n bytes before its checksum.                             *)
FrameOf(f, h, n) ==
  /\ f \in Seq(Byte) /\ Len(f) = n + 2
  /\ n \in Nat /\ n >= 4 /\ n <= MaxDataLen /\ n % 2 = 0
  /\ f[1] = HEAD /\ f[n] = TAIL
  /\ \A k \in 2 .. n - 1 : f[k] = h[k - 1] /\ IsHexChar(f[k])
  /\ IsHexChar(f[n + 1]) /\ IsHexChar(f[n + 2])
  /\ HexChars(CalXor(SubSeq(f, 1, n))) = <<f[n + 1], f[n + 2]>>

LEMMA EncodedShape ==
  ASSUME ByteChecksum, NEW p, Encodable(p)
  PROVE  FrameOf(Encode(p), BytesToHexStr(p), 2 * Len(p) + 2)
<1> DEFINE h == BytesToHexStr(p)
           m == 2 * Len(p)
           front == <<HEAD>> \o h
           body == front \o <<TAIL>>
           x == HexChars(CalXor(body))
           f == body \o x
<1>1. p \in Seq(Byte) /\ Len(p) \in Nat /\ Len(p) > 0 /\ 2 * Len(p) <= MaxDataLen - 2
  BY DEF Encodable, MaxValidDataLen
<1>2. /\ h \in Seq(Byte) /\ Len(h) = m
      /\ \A k \in 1 .. m : IsHexChar(h[k])
  BY <1>1, HexOfBytes
<1>3. m \in Nat /\ m >= 2 /\ m + 2 <= MaxDataLen /\ (m + 2) % 2 = 0
  <2>1. \A q \in Nat : (2 * q + 2) % 2 = 0
    OBVIOUS
  <2>2. MaxDataLen \in Nat
    BY DecoderConstants
  <2> QED
    BY <1>1, <2>1, <2>2
<1> HIDE DEF h, m
<1>4. /\ front \in Seq(Byte) /\ Len(front) = m + 1
      /\ front[1] = HEAD
      /\ \A k \in 2 .. m + 1 : front[k] = h[k - 1]
  <2>1. <<HEAD>> \in Seq(Byte) /\ Len(<<HEAD>>) = 1 /\ <<HEAD>>[1] = HEAD
    BY Characters
  <2>2. /\ front \in Seq(Byte) /\ Len(front) = 1 + m
        /\ \A k \in 1 .. 1 + m : front[k] = IF k <= 1 THEN <<HEAD>>[k] ELSE h[k - 1]
    BY <1>2, <2>1, ConcatProperties
  <2> HIDE DEF front
  <2> QED
    BY <1>3, <2>1, <2>2
<1> HIDE DEF front
<1>5. /\ body \in Seq(Byte) /\ Len(body) = m + 2
      /\ \A k \in 1 .. m + 1 : body[k] = front[k]
      /\ body[m + 2] = TAIL
  <2>1. <<TAIL>> \in Seq(Byte) /\ Len(<<TAIL>>) = 1 /\ <<TAIL>>[1] = TAIL
    BY Characters
  <2>2. /\ body \in Seq(Byte) /\ Len(body) = m + 1 + 1
        /\ \A k \in 1 .. m + 1 + 1 :
             body[k] = IF k <= m + 1 THEN front[k] ELSE <<TAIL>>[k - (m + 1)]
    BY <1>4, <2>1, ConcatProperties
  <2> HIDE DEF body
  <2> QED
    BY <1>3, <2>1, <2>2
<1> HIDE DEF body
<1>6. CalXor(body) \in Byte
  BY <1>5 DEF ByteChecksum
<1>7. /\ x \in Seq(Byte) /\ Len(x) = 2 /\ x = <<x[1], x[2]>>
      /\ IsHexChar(x[1]) /\ IsHexChar(x[2])
  BY <1>6, ByteDigits
<1>8. /\ f \in Seq(Byte) /\ Len(f) = m + 4
      /\ \A k \in 1 .. m + 2 : f[k] = body[k]
      /\ f[m + 3] = x[1] /\ f[m + 4] = x[2]
  <2> HIDE DEF x
  <2>1. x \in Seq(Byte) /\ Len(x) = 2
    BY <1>7
  <2>2. body \in Seq(Byte) /\ Len(body) = m + 2
    BY <1>5
  <2>3. /\ f \in Seq(Byte) /\ Len(f) = Len(body) + Len(x)
        /\ \A k \in 1 .. Len(body) + Len(x) :
             f[k] = IF k <= Len(body) THEN body[k] ELSE x[k - Len(body)]
    BY <2>1, <2>2, ConcatProperties
  <2> HIDE DEF f
  <2> QED
    BY <1>3, <2>1, <2>2, <2>3
<1>9. Encode(p) = f
  BY <1>1, <1>5 DEF Encode, MaxValidDataLen, body, front, h
<1> HIDE DEF f
<1>10. SubSeq(f, 1, m + 2) = body
  <2> DEFINE g == SubSeq(f, 1, m + 2)
  <2>1. /\ g \in Seq(Byte) /\ Len(g) = m + 2
        /\ \A k \in 1 .. m + 2 : g[k] = f[k]
    BY <1>3, <1>8, SubSeqProperties
  <2> HIDE DEF g
  <2>2. \A k \in 1 .. Len(g) : g[k] = body[k]
    BY <1>8, <2>1
  <2>3. g = body
    BY <1>5, <2>1, <2>2, SeqEqual
  <2> QED
    BY <2>3 DEF g
<1>11. f[1] = HEAD /\ f[m + 2] = TAIL
  BY <1>3, <1>4, <1>5, <1>8
<1>12. ASSUME NEW k \in 2 .. m + 1 PROVE f[k] = h[k - 1] /\ IsHexChar(f[k])
  <2>1. k \in 1 .. m + 2 /\ k \in 1 .. m + 1 /\ k - 1 \in 1 .. m
    BY <1>3
  <2> QED
    BY <1>2, <1>4, <1>5, <1>8, <2>1
<1>13. HexChars(CalXor(SubSeq(f, 1, m + 2))) = <<f[m + 3], f[m + 4]>>
  BY <1>7, <1>8, <1>10
<1> HIDE DEF x
<1>14. FrameOf(f, h, m + 2)
  <2>1. m + 2 \in Nat /\ m + 2 >= 4 /\ m + 2 + 2 = m + 4 /\ m + 2 + 1 = m + 3 /\ m + 2 - 1 = m + 1
    BY <1>3
  <2> QED
    BY <1>3, <1>7, <1>8, <1>11, <1>12, <1>13, <2>1 DEF FrameOf
<1> QED
  BY <1>9, <1>14 DEF h, m

(* The payload in a frame.                                                  *)
LEMMA FramePayload ==
  ASSUME NEW f, NEW h \in Seq(Byte), NEW n, FrameOf(f, h, n), Len(h) = n - 2
  PROVE  SubSeq(f, 2, n - 1) = h
<1> DEFINE g == SubSeq(f, 2, n - 1)
<1>1. f \in Seq(Byte) /\ Len(f) = n + 2 /\ n \in Nat /\ n >= 4
      /\ \A k \in 2 .. n - 1 : f[k] = h[k - 1]
  BY DEF FrameOf
<1>2. /\ g \in Seq(Byte) /\ Len(g) = n - 2
      /\ \A k \in 1 .. n - 2 : g[k] = f[k + 1]
  BY <1>1, SubSeqProperties
<1> HIDE DEF g
<1>3. ASSUME NEW k \in 1 .. Len(g) PROVE g[k] = h[k]
  <2>1. k \in 1 .. n - 2 /\ k + 1 \in 2 .. n - 1 /\ k + 1 - 1 = k
    BY <1>1, <1>2
  <2>2. g[k] = f[k + 1]
    BY <1>2, <2>1
  <2>3. f[k + 1] = h[k + 1 - 1]
    BY <1>1, <2>1
  <2> QED
    BY <2>1, <2>2, <2>3
<1>4. g = h
  BY <1>2, <1>3, SeqEqual
<1> QED
  BY <1>4 DEF g

-----------------------------------------------------------------------------
(* The decoder along a frame                                                *)

LEMMA FrontGrows ==
  ASSUME NEW f \in Seq(Byte), NEW k \in 1 .. Len(f)
  PROVE  /\ SubSeq(f, 1, k) \in Seq(Byte) /\ Len(SubSeq(f, 1, k)) = k
         /\ k = 1 => SubSeq(f, 1, k) = <<f[k]>>
         /\ k > 1 => Append(SubSeq(f, 1, k - 1), f[k]) = SubSeq(f, 1, k)
<1> DEFINE g == SubSeq(f, 1, k)  e == SubSeq(f, 1, k - 1)
<1>1. k \in Nat /\ k >= 1 /\ k - 1 \in Nat /\ k <= Len(f) /\ \A j \in 1 .. k : f[j] \in Byte
  OBVIOUS
<1>2. g \in Seq(Byte) /\ Len(g) = k /\ \A j \in 1 .. k : g[j] = f[j]
  BY <1>1, SubSeqProperties
<1>3. CASE k = 1
  <2>1. <<f[k]>> \in Seq(Byte) /\ Len(<<f[k]>>) = 1
    BY <1>1
  <2> HIDE DEF g
  <2>2. g = <<f[k]>>
    BY <1>2, <1>3, <2>1, SeqEqual
  <2> QED
    BY <1>2, <1>3, <2>2 DEF g
<1>4. CASE k > 1
  <2>1. e \in Seq(Byte) /\ Len(e) = k - 1 /\ \A j \in 1 .. k - 1 : e[j] = f[j]
    BY <1>1, <1>4, SubSeqProperties
  <2> HIDE DEF e, g
  <2>2. f[k] \in Byte
    BY <1>1
  <2> DEFINE a == Append(e, f[k])
  <2>3. /\ a \in Seq(Byte) /\ Len(a) = Len(e) + 1
        /\ \A j \in 1 .. Len(e) : a[j] = e[j]
        /\ a[Len(e) + 1] = f[k]
    BY <2>1, <2>2, AppendProperties
  <2> HIDE DEF a
  <2>4. Len(e) + 1 = k
    BY <1>1, <2>1
  <2>5. ASSUME NEW j \in 1 .. Len(a) PROVE a[j] = g[j]
    <3>1. j \in 1 .. k /\ (j \in 1 .. k - 1 \/ j = k)
      BY <1>1, <2>3, <2>4
    <3> QED
      BY <1>1, <1>2, <2>1, <2>3, <2>4, <3>1
  <2>6. a = g
    BY <1>2, <2>3, <2>4, <2>5, SeqEqual
  <2> QED
    BY <1>2, <1>4, <2>6 DEF a, e, g
<1> QED
  BY <1>1, <1>3, <1>4

(* The decoder after k bytes of a frame of which n come before the checksum.*)
After(d, f, n, k) ==
  /\ d \in DecoderType
  /\ k <= n => d.data = SubSeq(f, 1, k)
  /\ k = 1 => d.state = "HEAD"
  /\ 1 < k /\ k < n => d.state = "DATA"
  /\ k = n => d.state = "TAIL"
  /\ k = n + 1 => d.state = "XOR" /\ d.xor = f[n + 1] /\ d.data = SubSeq(f, 1, n)

LEMMA FrameStep ==
  ASSUME NEW f, NEW h, NEW n, FrameOf(f, h, n), NEW d \in DecoderType,
         NEW k \in 1 .. n + 1, k > 1 => After(d, f, n, k - 1)
  PROVE  After(Step(d, f[k]), f, n, k)
<1> DEFINE e == Step(d, f[k])
<1>1. /\ f \in Seq(Byte) /\ Len(f) = n + 2 /\ n \in Nat /\ n >= 4 /\ n <= MaxDataLen
      /\ f[1] = HEAD /\ f[n] = TAIL /\ IsHexChar(f[n + 1])
      /\ \A j \in 2 .. n - 1 : IsHexChar(f[j])
  BY DEF FrameOf
<1>2. k \in Nat /\ k >= 1 /\ k <= n + 1 /\ k \in 1 .. Len(f) /\ f[k] \in Byte
  BY <1>1
<1>3. MaxDataLen \in Nat
  BY DecoderConstants
<1>4. CASE k = 1
  <2>1. e = [d EXCEPT !.state = "HEAD", !.data = <<HEAD>>]
    BY <1>1, <1>2, <1>4, StepCases
  <2>2. e \in DecoderType /\ e.state = "HEAD" /\ e.data = <<HEAD>>
    BY <2>1, Restarted
  <2>3. SubSeq(f, 1, k) = <<HEAD>>
    BY <1>1, <1>2, <1>4, FrontGrows
  <2> HIDE DEF e
  <2>4. k # n /\ k # n + 1 /\ ~(1 < k)
    BY <1>1, <1>4
  <2>5. After(e, f, n, k)
    BY <2>2, <2>3, <2>4 DEF After
  <2> QED
    BY <2>5 DEF e
<1>5. CASE 1 < k /\ k <= n
  <2>1. /\ k - 1 <= n /\ k - 1 # n /\ k - 1 < n /\ (k - 1 = 1 \/ 1 < k - 1)
        /\ k - 1 \in 1 .. Len(f)
    BY <1>1, <1>2, <1>5
  <2>2. /\ d.data = SubSeq(f, 1, k - 1)
        /\ k - 1 = 1 => d.state = "HEAD"
        /\ 1 < k - 1 => d.state = "DATA"
    BY <1>5, <2>1 DEF After
  <2>3. Len(d.data) < MaxDataLen
    <3>1. Len(d.data) = k - 1
      BY <1>1, <2>1, <2>2, FrontGrows
    <3> QED
      BY <1>1, <1>2, <1>3, <1>5, <3>1
  <2>4. Append(d.data, f[k]) = SubSeq(f, 1, k)
    BY <1>1, <1>2, <1>5, <2>2, FrontGrows
  <2>5. CASE k < n
    <3>1. IsHexChar(f[k])
      BY <1>1, <1>2, <1>5, <2>5
    <3>2. e = Store(d, "DATA", f[k])
      BY <1>2, <2>1, <2>2, <3>1, StepCases
    <3>3. LET q == Store(d, "DATA", f[k])
          IN  q \in DecoderType /\ q.state = "DATA" /\ q.data = SubSeq(f, 1, k)
      <4>1. f[k] \in Byte /\ "DATA" \in {"DATA", "TAIL"}
        BY <1>2
      <4> QED
        BY <2>3, <2>4, <4>1, Stored
    <3> HIDE DEF e
    <3>4. k # 1 /\ k # n /\ k # n + 1
      BY <1>1, <1>2, <1>5, <2>5
    <3>5. After(e, f, n, k)
      BY <3>2, <3>3, <3>4 DEF After
    <3> QED
      BY <3>5 DEF e
  <2>6. CASE k = n
    <3>1. f[k] = TAIL /\ d.state = "DATA"
      BY <1>1, <2>1, <2>2, <2>6
    <3>2. e = Store(d, "TAIL", f[k])
      BY <1>2, <3>1, StepCases
    <3>3. LET q == Store(d, "TAIL", f[k])
          IN  q \in DecoderType /\ q.state = "TAIL" /\ q.data = SubSeq(f, 1, k)
      <4>1. f[k] \in Byte /\ "TAIL" \in {"DATA", "TAIL"}
        BY <1>2
      <4> QED
        BY <2>3, <2>4, <4>1, Stored
    <3> HIDE DEF e
    <3>4. k # 1 /\ ~(k < n) /\ k # n + 1
      BY <1>1, <1>2, <1>5, <2>6
    <3>5. After(e, f, n, k)
      BY <3>2, <3>3, <3>4 DEF After
    <3> QED
      BY <3>5 DEF e
  <2> QED
    BY <1>1, <1>2, <1>5, <2>5, <2>6
<1>6. CASE k = n + 1
  <2>1. k > 1 /\ k - 1 = n /\ k - 1 <= n /\ k # n /\ ~(k <= n)
    BY <1>1, <1>6
  <2>2. d.data = SubSeq(f, 1, n) /\ d.state = "TAIL"
    BY <2>1 DEF After
  <2>3. IsHexChar(f[k]) /\ f[k] = f[n + 1]
    BY <1>1, <1>6
  <2>4. e = [d EXCEPT !.state = "XOR", !.xor = f[k]]
    BY <1>2, <2>2, <2>3, StepCases
  <2>5. \A b \in Byte : LET q == [d EXCEPT !.state = "XOR", !.xor = b]
                        IN  q \in DecoderType /\ q.state = "XOR" /\ q.xor = b /\ q.data = d.data
    BY DEF DecoderType, States
  <2>6. e \in DecoderType /\ e.state = "XOR" /\ e.xor = f[n + 1] /\ e.data = SubSeq(f, 1, n)
    BY <1>2, <2>2, <2>3, <2>4, <2>5
  <2> HIDE DEF e
  <2>7. k # 1 /\ ~(k < n)
    BY <1>1, <2>1
  <2>8. After(e, f, n, k)
    BY <2>1, <2>6, <2>7 DEF After
  <2> QED
    BY <2>8 DEF e
<1> QED
  BY <1>1, <1>2, <1>4, <1>5, <1>6

(* In whatever state it begins, the decoder has the frame at its end.       *)
LEMMA FrameRun ==
  ASSUME NEW f, NEW h, NEW n, FrameOf(f, h, n), NEW d \in DecoderType
  PROVE  After(FoldLeft(Step, d, Front(f)), f, n, n + 1)
<1> DEFINE s == Front(f)
<1>1. f \in Seq(Byte) /\ Len(f) = n + 2 /\ n \in Nat /\ n >= 4
  BY DEF FrameOf
<1>2. s \in Seq(Byte) /\ Len(s) = n + 1 /\ \A k \in 1 .. n + 1 : s[k] = f[k]
  <2>1. s = SubSeq(f, 1, n + 1)
    <3>1. Len(f) - 1 = n + 1
      BY <1>1
    <3> QED
      BY <3>1 DEF Front
  <2>2. n + 1 \in Int /\ 1 <= n + 1 /\ \A k \in 1 .. n + 1 : f[k] \in Byte
    BY <1>1
  <2>3. /\ SubSeq(f, 1, n + 1) \in Seq(Byte) /\ Len(SubSeq(f, 1, n + 1)) = n + 1
        /\ \A k \in 1 .. n + 1 : SubSeq(f, 1, n + 1)[k] = f[k]
    BY <1>1, <2>2, SubSeqProperties
  <2> QED
    BY <2>1, <2>3
<1> HIDE DEF s
<1>3. PICK run : /\ run[0] = d
                 /\ \A k \in 1 .. Len(s) : run[k] = Step(run[k - 1], s[k])
                 /\ FoldLeft(Step, d, s) = run[Len(s)]
  <2>1. s \in Seq(Byte)
    BY <1>2
  <2>2. \E g : /\ g[0] = d
               /\ \A k \in 1 .. Len(s) : g[k] = Step(g[k - 1], s[k])
               /\ FoldLeft(Step, d, s) = g[Len(s)]
    BY ONLY <2>1, FoldRun, Zenon
  <2> QED
    BY ONLY <2>2, Zenon
<1> DEFINE P == {k \in Nat : run[k] \in DecoderType /\ (k > 0 => After(run[k], f, n, k))}
<1>4. 0 \in P
  BY <1>3
<1>5. ASSUME NEW k \in 0 .. n, k \in P PROVE k + 1 \in P
  <2>1. k + 1 \in 1 .. n + 1 /\ k + 1 - 1 = k /\ k + 1 \in Nat /\ (k + 1 > 1 => k > 0)
    BY <1>1
  <2>2. run[k + 1] = Step(run[k], f[k + 1])
    BY <1>2, <1>3, <2>1
  <2>3. run[k] \in DecoderType /\ (k + 1 > 1 => After(run[k], f, n, k + 1 - 1))
    BY <1>5, <2>1
  <2>4. After(Step(run[k], f[k + 1]), f, n, k + 1)
    BY <2>1, <2>3, FrameStep
  <2>5. run[k + 1] \in DecoderType
    BY <2>2, <2>4 DEF After
  <2> QED
    BY <2>1, <2>2, <2>4, <2>5
<1> HIDE DEF P
<1>6. n + 1 \in P
  <2>1. n + 1 \in Nat /\ n + 1 - 1 = n /\ n + 1 \in 0 .. n + 1
    BY <1>1
  <2> DEFINE m == n + 1
  <2>2. \A k \in 0 .. m - 1 : k \in P => k + 1 \in P
    <3>1. m - 1 = n
      BY <1>1
    <3> QED
      BY <1>5, <3>1
  <2> HIDE DEF m
  <2>3. m \in Nat /\ m \in 0 .. m
    BY <2>1 DEF m
  <2>4. \A k \in 0 .. m : k \in P
    BY <1>4, <2>2, <2>3, Induction
  <2> QED
    BY <2>3, <2>4 DEF m
<1>7. After(run[n + 1], f, n, n + 1)
  <2>1. n + 1 > 0
    BY <1>1
  <2> QED
    BY <1>6, <2>1 DEF P
<1>8. FoldLeft(Step, d, s) = run[n + 1]
  BY <1>2, <1>3
<1> QED
  BY <1>7, <1>8 DEF s

-----------------------------------------------------------------------------
(* The format and the encoder agree: what comm_protocol_encode leaves in    *)
(* encoder->data is a frame, and hex_str_to_bytes of what is between '@'     *)
(* and '*' is the payload again, for every payload it accepts.              *)
THEOREM EncodedIsFrame ==
  ASSUME ByteChecksum, NEW p, Encodable(p)
  PROVE  LET f == Encode(p)
         IN  IsFrame(f) /\ HexStrToBytes(SubSeq(f, 2, Len(f) - 3)) = p
<1> DEFINE f == Encode(p)  h == BytesToHexStr(p)  n == 2 * Len(p) + 2
<1>1. p \in Seq(Byte) /\ h \in Seq(Byte) /\ Len(h) = 2 * Len(p) /\ HexStrToBytes(h) = p
  BY HexOfBytes DEF Encodable
<1>2. n \in Nat /\ Len(h) = n - 2
  BY <1>1
<1>3. FrameOf(f, h, n)
  BY EncodedShape
<1> HIDE DEF f, h, n
<1>4. SubSeq(f, 2, n - 1) = h
  BY <1>1, <1>2, <1>3, FramePayload
<1>5. /\ Len(f) = n + 2 /\ n >= 4 /\ n % 2 = 0 /\ f[1] = HEAD /\ f[n] = TAIL
      /\ \A k \in 2 .. n - 1 : IsHexChar(f[k])
      /\ IsHexChar(f[n + 1]) /\ IsHexChar(f[n + 2])
      /\ HexChars(CalXor(SubSeq(f, 1, n))) = <<f[n + 1], f[n + 2]>>
  BY <1>3 DEF FrameOf
<1>6. Len(f) >= 6 /\ Len(f) - 2 = n /\ Len(f) - 1 = n + 1 /\ Len(f) - 3 = n - 1
  BY <1>2, <1>5
<1>7. Len(f) % 2 = 0
  <2>1. \A m \in Nat : m % 2 = 0 => (m + 2) % 2 = 0
    OBVIOUS
  <2> QED
    BY <1>2, <1>5, <2>1
<1>8. ASSUME NEW k \in (2 .. Len(f)) \ {Len(f) - 2} PROVE IsHexChar(f[k])
  <2>1. k \in 2 .. n - 1 \/ k = n + 1 \/ k = n + 2
    BY <1>2, <1>5
  <2> QED
    BY <1>5, <2>1
<1>9. <<f[Len(f) - 1], f[Len(f)]>> = HexChars(CalXor(SubSeq(f, 1, Len(f) - 2)))
  BY <1>5, <1>6
<1>10. IsFrame(f)
  BY <1>5, <1>6, <1>7, <1>8, <1>9 DEF IsFrame
<1>11. SubSeq(f, 2, Len(f) - 3) = h
  BY <1>4, <1>6
<1> QED
  BY <1>1, <1>10, <1>11 DEF f

(* The frame of a payload, byte by byte into the state machine in any state.*)
LEMMA DecodesEncoded ==
  ASSUME ByteChecksum, NEW p, Encodable(p), NEW d \in DecoderType
  PROVE  LET frame == Encode(p)
             e == FoldLeft(Step, d, Front(frame))
         IN  /\ e.state # "OVERRUN"
             /\ CheckXor(e, Last(frame)) /\ EvenData(e) /\ Payload(e) = p
<1> DEFINE f == Encode(p)  h == BytesToHexStr(p)  n == 2 * Len(p) + 2
           e == FoldLeft(Step, d, Front(f))
<1>1. p \in Seq(Byte) /\ h \in Seq(Byte) /\ Len(h) = 2 * Len(p) /\ HexStrToBytes(h) = p
  BY HexOfBytes DEF Encodable
<1>2. n \in Nat /\ Len(h) = n - 2
  BY <1>1
<1>3. FrameOf(f, h, n)
  BY EncodedShape
<1> HIDE DEF f, h, n
<1>4. After(e, f, n, n + 1)
  BY <1>3, FrameRun
<1>5. e.state = "XOR" /\ e.xor = f[n + 1] /\ e.data = SubSeq(f, 1, n)
  BY <1>4 DEF After
<1>6. /\ f \in Seq(Byte) /\ Len(f) = n + 2 /\ n >= 4 /\ n % 2 = 0 /\ IsHexChar(f[n + 2])
      /\ HexChars(CalXor(SubSeq(f, 1, n))) = <<f[n + 1], f[n + 2]>>
  BY <1>3 DEF FrameOf
<1> HIDE DEF e
<1>7. Last(f) = f[n + 2]
  BY <1>6 DEF Last
<1>8. CheckXor(e, Last(f))
  BY <1>5, <1>6, <1>7 DEF CheckXor
<1>9. Len(e.data) = n /\ \A k \in 1 .. n : e.data[k] = f[k]
  <2>1. \A k \in 1 .. n : f[k] \in Byte
    BY <1>2, <1>6
  <2>2. Len(SubSeq(f, 1, n)) = n /\ \A k \in 1 .. n : SubSeq(f, 1, n)[k] = f[k]
    BY <1>2, <1>6, <2>1, SubSeqProperties
  <2> QED
    BY <1>5, <2>2
<1>10. EvenData(e)
  <2>1. \A m \in Nat : m >= 4 /\ m % 2 = 0 => (m - 2) % 2 = 0
    OBVIOUS
  <2> QED
    BY <1>2, <1>6, <1>9, <2>1 DEF EvenData
<1>11. SubSeq(e.data, 2, Len(e.data) - 1) = h
  <2> DEFINE g == SubSeq(e.data, 2, n - 1)
  <2>1. \A k \in 2 .. n - 1 : e.data[k] = h[k - 1] /\ h[k - 1] \in Byte
    <3>1. \A k \in 2 .. n - 1 : k \in 1 .. n /\ f[k] = h[k - 1] /\ k - 1 \in 1 .. n - 2
      BY <1>2, <1>3 DEF FrameOf
    <3> QED
      BY <1>1, <1>2, <1>9, <3>1
  <2>2. /\ g \in Seq(Byte) /\ Len(g) = n - 2
        /\ \A k \in 1 .. n - 2 : g[k] = e.data[k + 1]
    BY <1>2, <1>6, <2>1, SubSeqProperties
  <2> HIDE DEF g
  <2>3. ASSUME NEW k \in 1 .. Len(g) PROVE g[k] = h[k]
    <3>1. k \in 1 .. n - 2 /\ k + 1 \in 2 .. n - 1 /\ k + 1 - 1 = k
      BY <1>2, <2>2
    <3>2. g[k] = e.data[k + 1]
      BY <2>2, <3>1
    <3>3. e.data[k + 1] = h[k + 1 - 1]
      BY <2>1, <3>1
    <3> QED
      BY <3>1, <3>2, <3>3
  <2>4. g = h
    BY <1>1, <1>2, <2>2, <2>3, SeqEqual
  <2> QED
    BY <1>9, <2>4 DEF g
<1>12. Payload(e) = p
  BY <1>1, <1>11 DEF Payload
<1>13. e.state # "OVERRUN"
  BY <1>5
<1> QED
  BY <1>8, <1>10, <1>12, <1>13 DEF e, f

(* Encoder and decoder fit, and the decoder resynchronises: from every state *)
(* a call of comm_protocol_decoder_process can leave it in, the bytes of    *)
(* what comm_protocol_encode made of a payload bring that payload out, for  *)
(* every size of the buffer, every payload that fits and every checksum of  *)
(* one byte.                                                                *)
THEOREM EncodedFramesAlwaysDecode ==
  ASSUME ByteChecksum
  PROVE  Spec => []EncodedFramesDecode
<1>1. ASSUME TypeOK PROVE EncodedFramesDecode
  <2>1. decoder \in DecoderType
    BY <1>1 DEF TypeOK, DecoderType
  <2>2. \A p \in Payloads : Encodable(p)
    BY PayloadsAssumption DEF PayloadsAssumption, Encodable
  <2> QED
    BY <2>1, <2>2, DecodesEncoded DEF EncodedFramesDecode
<1>2. Spec => []TypeOK
  BY DecoderTypeCorrect
<1> QED
  BY <1>1, <1>2, PTL

=============================================================================
