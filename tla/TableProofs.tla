----------------------------- MODULE TableProofs -----------------------------
(***************************************************************************)
(* Proofs about the readers of tables.  The stack roots, for any number of  *)
(* safepoints and roots: find_safepoint() returns nothing but the safepoint *)
(* of the frame's call, even where its walk is out of step with the         *)
(* printer, and with an odd number of roots it never is.  Numbers in        *)
(* LEB128, of any length: which ones the two readers of raise.c decode.     *)
(***************************************************************************)
EXTENDS GcMap, Leb128, TLAPS

-----------------------------------------------------------------------------
(* The inductive invariant.                                                *)

N == Len(live)
Points == 1..Len(starts)

TypeInv ==
  /\ image \in Seq(Nat) /\ Len(image) >= 1
  /\ left \in Nat
  /\ live \in Seq(Nat) /\ N <= MaxRoots /\ \A q \in 1..N : live[q] <= CodeBase
  /\ starts \in Seq(Nat)
  /\ ip \in Nat /\ addr \in Nat /\ i \in Nat
  /\ lookup \in {"print", "walk", "found", "aborted", "wild"}
  /\ image[1] = left + Len(starts) /\ image[1] >= 1

\* What the printer has written of the safepoints so far, ...
PointsInv ==
  \A k \in Points :
    /\ starts[k] >= 3 /\ starts[k] + 3 + N <= Len(image)
    /\ image[starts[k]] = CodeAddress(k)
    /\ image[starts[k] + 1] = 0
    /\ image[starts[k] + 3] = N
    /\ \A q \in 1..N : image[starts[k] + 3 + q] = live[q]

\* ... where: each begins at a multiple of 8, and takes 4 bytes of padding if
\* the number of roots is odd ...
PlacesInv ==
  /\ Len(starts) = 0 => Len(image) = 1
  /\ Len(starts) > 0 => starts[1] = 3 /\ Len(image) = starts[Len(starts)] + 3 + N
  /\ \A k \in Points : starts[k] % 2 = 1
  /\ \A k \in 1..Len(starts) - 1 : starts[k + 1] = starts[k] + 4 + N + (N % 2)

\* ... and that no other word of the table looks like a code address.
WordsInv ==
  \A w \in 2..Len(image) : image[w] > CodeBase => \E k \in Points : w = starts[k]

\* The walk looks up an address of the table.  Its first step is right, and with
\* an odd number of roots so are all others: it has not yet passed the point.
WalkInv ==
  /\ lookup # "print" => left = 0 /\ \E k \in Points : ip = CodeAddress(k)
  /\ lookup = "print" => i = 0
  /\ lookup = "walk" =>
       /\ addr >= 3
       /\ i = 0 => addr = 3
       /\ i > 0 => ip # CodeAddress(1)
       /\ N % 2 = 1 => i + 1 \in Points /\ addr = starts[i + 1] /\ ip >= CodeAddress(i + 1)

Inv ==
  /\ TypeInv /\ PointsInv /\ PlacesInv /\ WordsInv /\ WalkInv
  /\ FoundSafepointIsRight /\ OddRootsFound

-----------------------------------------------------------------------------
(* What the printer writes.                                                *)

LEMMA AddressFacts ==
  /\ CodeBase \in Nat
  /\ \A k \in Nat : CodeAddress(k) \in Nat /\ (k >= 1 => CodeAddress(k) > CodeBase)
  /\ \A j, k \in Nat : CodeAddress(j) = CodeAddress(k) <=> j = k
  /\ \A j, k \in Nat : CodeAddress(j) <= CodeAddress(k) <=> j <= k
  BY DEF CodeAddress, CodeBase

\* EmitAlignment(3) keeps what is there and adds at most a zero word.
LEMMA AlignedFacts ==
  ASSUME NEW s \in Seq(Nat)
  PROVE  /\ Aligned(s) \in Seq(Nat)
         /\ Len(Aligned(s)) = Len(s) + (Len(s) % 2)
         /\ \A w \in 1..Len(s) : Aligned(s)[w] = s[w]
         /\ \A w \in Len(s) + 1..Len(Aligned(s)) : Aligned(s)[w] = 0
  <1>1. CASE Len(s) % 2 = 0
    <2>1. Aligned(s) = s  BY <1>1 DEF Aligned
    <2> QED  BY <1>1, <2>1
  <1>2. CASE Len(s) % 2 # 0
    <2>1. Aligned(s) = s \o <<0>>  BY <1>2 DEF Aligned
    <2>2. Len(s) \in Nat /\ Len(s) % 2 = 1  BY <1>2
    <2>3. Aligned(s) \in Seq(Nat) /\ Len(Aligned(s)) = Len(s) + 1  BY <2>1
    <2>4. \A w \in 1..Len(s) : Aligned(s)[w] = s[w]  BY <2>1
    <2>5. Aligned(s)[Len(s) + 1] = 0  BY <2>1
    <2> QED  BY <2>2, <2>3, <2>4, <2>5
  <1> QED  BY <1>1, <1>2

LEMMA ConcatFacts ==
  ASSUME NEW s \in Seq(Nat), NEW t \in Seq(Nat)
  PROVE  /\ s \o t \in Seq(Nat) /\ Len(s \o t) = Len(s) + Len(t)
         /\ \A w \in 1..Len(s) : (s \o t)[w] = s[w]
         /\ \A w \in 1..Len(t) : (s \o t)[Len(s) + w] = t[w]
  <1>1. s \o t \in Seq(Nat) /\ Len(s \o t) = Len(s) + Len(t)  OBVIOUS
  <1>2. \A w \in 1..Len(s) : (s \o t)[w] = s[w]  OBVIOUS
  <1>3. \A w \in 1..Len(t) : (s \o t)[Len(s) + w] = t[w]  OBVIOUS
  <1> QED  BY <1>1, <1>2, <1>3

LEMMA PointWordsFacts ==
  ASSUME TypeInv, NEW k \in Nat
  PROVE  /\ PointWords(k) \in Seq(Nat) /\ Len(PointWords(k)) = 4 + N
         /\ PointWords(k)[1] = CodeAddress(k) /\ PointWords(k)[2] = 0
         /\ PointWords(k)[3] = FrameSize /\ PointWords(k)[4] = N
         /\ \A q \in 1..N : PointWords(k)[4 + q] = live[q]
  <1> DEFINE h == <<CodeAddress(k), 0, FrameSize, N>>
  <1>1. live \in Seq(Nat) /\ N \in Nat /\ N = Len(live)  BY DEF TypeInv, N
  <1>2. CodeAddress(k) \in Nat /\ FrameSize \in Nat
    BY AddressFacts, GcMapAssumption
  <1>3. h \in Seq(Nat) /\ Len(h) = 4 /\ h[1] = CodeAddress(k) /\ h[2] = 0 /\ h[3] = FrameSize
        /\ h[4] = N
    BY <1>1, <1>2
  <1>4. PointWords(k) = h \o live  BY DEF PointWords, N
  <1> HIDE DEF h
  <1>5. /\ h \o live \in Seq(Nat) /\ Len(h \o live) = 4 + N
        /\ \A w \in 1..4 : (h \o live)[w] = h[w]
        /\ \A q \in 1..N : (h \o live)[4 + q] = live[q]
    <2>1. /\ h \o live \in Seq(Nat) /\ Len(h \o live) = Len(h) + Len(live)
          /\ \A w \in 1..Len(h) : (h \o live)[w] = h[w]
          /\ \A w \in 1..Len(live) : (h \o live)[Len(h) + w] = live[w]
      BY <1>1, <1>3, ConcatFacts
    <2> QED  BY <1>1, <1>3, <2>1
  <1>6. \A w \in 1..4 : PointWords(k)[w] = h[w]  BY <1>4, <1>5
  <1>7. 1 \in 1..4 /\ 2 \in 1..4 /\ 3 \in 1..4 /\ 4 \in 1..4  OBVIOUS
  <1>8. /\ PointWords(k)[1] = CodeAddress(k) /\ PointWords(k)[2] = 0
        /\ PointWords(k)[3] = FrameSize /\ PointWords(k)[4] = N
    BY <1>3, <1>6, <1>7
  <1> QED  BY <1>4, <1>5, <1>8

-----------------------------------------------------------------------------
(* Initially, and in every step.                                           *)

LEMMA InvInit == GcMapInit => Inv
  <1> SUFFICES ASSUME GcMapInit PROVE Inv  OBVIOUS
  <1>1. PICK n \in 1..MaxPoints : image = <<n>> /\ left = n  BY DEF GcMapInit
  <1>2. PICK m \in 0..MaxRoots : live \in [1..m -> Offsets]  BY DEF GcMapInit
  <1>3. /\ starts = <<>> /\ ip = 0 /\ addr = 0 /\ i = 0 /\ lookup = "print"
    BY DEF GcMapInit
  <1>4. live \in Seq(Nat) /\ Len(live) = m /\ \A q \in 1..m : live[q] <= CodeBase
    <2>1. m \in Nat  BY GcMapAssumption
    <2>2. \A q \in 1..m : live[q] \in Nat /\ live[q] <= CodeBase
      <3>1. \A q \in 1..m : live[q] \in Offsets  BY <1>2
      <3>2. \A o \in Offsets : o \in Nat /\ o <= CodeBase  BY GcMapAssumption, AddressFacts
      <3> QED  BY <3>1, <3>2
    <2> QED  BY <1>2, <2>1, <2>2
  <1>5. n \in Nat /\ n >= 1 /\ m <= MaxRoots  BY GcMapAssumption, AddressFacts
  <1>6. TypeInv  BY <1>1, <1>3, <1>4, <1>5 DEF TypeInv, N
  <1>7. PointsInv /\ PlacesInv /\ WordsInv
    BY <1>1, <1>3, <1>5 DEF PointsInv, PlacesInv, WordsInv, Points
  <1>8. WalkInv /\ FoundSafepointIsRight /\ OddRootsFound
    BY <1>3 DEF WalkInv, FoundSafepointIsRight, OddRootsFound
  <1> QED  BY <1>6, <1>7, <1>8 DEF Inv

LEMMA PrintPointInv == Inv /\ PrintPoint => Inv'
  <1> SUFFICES ASSUME Inv, PrintPoint PROVE Inv'  OBVIOUS
  <1>n. PICK n \in Nat : n = N  BY DEF Inv, TypeInv, N
  <1>m. PICK m \in Nat : m = Len(starts)  BY DEF Inv, TypeInv
  <1>l. PICK l \in Nat : l = Len(image) /\ l >= 1  BY DEF Inv, TypeInv
  <1> DEFINE a == Aligned(image)
             p == PointWords(m + 1)
  <1>0. /\ lookup = "print" /\ left > 0 /\ left' = left - 1
        /\ UNCHANGED <<live, ip, addr, i, lookup>>
        /\ image' = a \o p /\ starts' = Append(starts, Len(a) + 1)
    BY <1>m DEF PrintPoint
  <1>1. /\ a \in Seq(Nat) /\ Len(a) = l + (l % 2)
        /\ \A w \in 1..l : a[w] = image[w]
        /\ \A w \in l + 1..Len(a) : a[w] = 0
    BY <1>l, AlignedFacts DEF Inv, TypeInv
  <1>2. /\ p \in Seq(Nat) /\ Len(p) = 4 + n
        /\ p[1] = CodeAddress(m + 1) /\ p[2] = 0 /\ p[3] = FrameSize /\ p[4] = n
        /\ \A q \in 1..n : p[4 + q] = live[q]
    <2>1. m + 1 \in Nat  OBVIOUS
    <2>2. /\ p \in Seq(Nat) /\ Len(p) = 4 + N
          /\ p[1] = CodeAddress(m + 1) /\ p[2] = 0 /\ p[3] = FrameSize /\ p[4] = N
          /\ \A q \in 1..N : p[4 + q] = live[q]
      BY <2>1, PointWordsFacts DEF Inv
    <2> QED  BY <1>n, <2>2
  <1> HIDE DEF a, p
  <1>s. PICK s \in Nat : s = Len(a) + 1  BY <1>1
  <1>3. s >= l + 1 /\ s <= l + 2 /\ s % 2 = 1 /\ s >= 3 /\ s = l + (l % 2) + 1
    <2>1. l % 2 \in {0, 1} /\ Len(a) = l + (l % 2) /\ l >= 1  BY <1>1, <1>l
    <2>2. s = l + (l % 2) + 1  BY <1>s, <2>1
    <2>3. CASE l % 2 = 0  BY <2>1, <2>2, <2>3
    <2>4. CASE l % 2 = 1  BY <2>1, <2>2, <2>4
    <2> QED  BY <2>1, <2>3, <2>4
  <1>4. /\ image' \in Seq(Nat) /\ Len(image') = s + 3 + n
        /\ \A w \in 1..l : image'[w] = image[w]
        /\ \A w \in l + 1..s - 1 : image'[w] = 0
        /\ \A w \in 1..4 + n : image'[s - 1 + w] = p[w]
    <2>0. a \in Seq(Nat) /\ p \in Seq(Nat) /\ image' = a \o p /\ Len(p) = 4 + n  BY <1>0, <1>1, <1>2
    <2>a. Len(a) = s - 1  BY <1>s, <2>0
    <2>1. /\ image' \in Seq(Nat) /\ Len(image') = s - 1 + (4 + n)
          /\ \A w \in 1..s - 1 : image'[w] = a[w]
          /\ \A w \in 1..4 + n : image'[s - 1 + w] = p[w]
      <3>1. /\ a \o p \in Seq(Nat) /\ Len(a \o p) = Len(a) + Len(p)
            /\ \A w \in 1..Len(a) : (a \o p)[w] = a[w]
            /\ \A w \in 1..Len(p) : (a \o p)[Len(a) + w] = p[w]
        BY <2>0, ConcatFacts
      <3> QED  BY <2>0, <2>a, <3>1
    <2>2. \A w \in 1..s - 1 : image'[w] = a[w]  BY <2>1
    <2>3. \A w \in 1..4 + n : image'[s - 1 + w] = p[w]  BY <2>1
    <2>4. Len(image') = s + 3 + n  BY <2>1
    <2>5. \A w \in 1..l : w \in 1..s - 1  BY <1>3
    <2>6. \A w \in l + 1..s - 1 : w \in 1..s - 1 /\ w \in l + 1..Len(a)  BY <1>3, <1>s, <1>1
    <2> QED  BY <1>1, <2>1, <2>2, <2>3, <2>4, <2>5, <2>6
  <1>5. /\ starts' \in Seq(Nat) /\ Len(starts') = m + 1 /\ starts'[m + 1] = s
        /\ \A k \in 1..m : starts'[k] = starts[k]
    BY <1>0, <1>m, <1>s DEF Inv, TypeInv
  <1>6. N' = n  BY <1>0, <1>n DEF N
  <1>7. /\ image'[s] = CodeAddress(m + 1) /\ image'[s + 1] = 0 /\ image'[s + 2] = FrameSize
        /\ image'[s + 3] = n /\ \A q \in 1..n : image'[s + 3 + q] = live[q]
    <2>1. /\ image'[s - 1 + 1] = p[1] /\ image'[s - 1 + 2] = p[2] /\ image'[s - 1 + 3] = p[3]
          /\ image'[s - 1 + 4] = p[4] /\ \A q \in 1..n : image'[s - 1 + (4 + q)] = p[4 + q]
      BY <1>4
    <2>2. /\ s - 1 + 1 = s /\ s - 1 + 2 = s + 1 /\ s - 1 + 3 = s + 2 /\ s - 1 + 4 = s + 3
          /\ \A q \in 1..n : s - 1 + (4 + q) = s + 3 + q
      OBVIOUS
    <2> QED  BY <1>2, <2>1, <2>2
  <1>8. TypeInv'
    <2>1. image'[1] = image[1] /\ left' + Len(starts') = left + Len(starts) /\ left' \in Nat
      <3>1. 1 \in 1..l  BY <1>l
      <3>2. left \in Nat /\ left > 0  BY <1>0 DEF Inv, TypeInv
      <3>3. image'[1] = image[1]  BY <1>4, <3>1
      <3>4. left' = left - 1 /\ Len(starts') = m + 1 /\ Len(starts) = m  BY <1>0, <1>5, <1>m
      <3> QED  BY <3>2, <3>3, <3>4
    <2>2. Len(image') >= 1  BY <1>3, <1>4
    <2> QED  BY <1>0, <1>4, <1>5, <2>1, <2>2 DEF Inv, TypeInv, N
  <1>9. PointsInv'
    <2>1. ASSUME NEW k \in 1..m
          PROVE  /\ starts[k] >= 3 /\ starts[k] + 3 + n <= s + 3 + n
                 /\ image'[starts[k]] = CodeAddress(k) /\ image'[starts[k] + 1] = 0
                 /\ image'[starts[k] + 3] = n
                 /\ \A q \in 1..n : image'[starts[k] + 3 + q] = live[q]
      <3>1. /\ starts[k] >= 3 /\ starts[k] + 3 + n <= l /\ starts[k] \in Nat
            /\ image[starts[k]] = CodeAddress(k) /\ image[starts[k] + 1] = 0
            /\ image[starts[k] + 3] = n
            /\ \A q \in 1..n : image[starts[k] + 3 + q] = live[q]
        <4>1. PointsInv /\ starts \in Seq(Nat) /\ k \in Points
          BY <1>m DEF Inv, TypeInv, Points
        <4>2. Len(image) = l /\ N = n  BY <1>l, <1>n
        <4>3. starts[k] \in Nat  BY <4>1 DEF Points
        <4> QED  BY <4>1, <4>2, <4>3 DEF PointsInv
      <3>2. /\ starts[k] \in 1..l /\ starts[k] + 1 \in 1..l /\ starts[k] + 3 \in 1..l
            /\ \A q \in 1..n : starts[k] + 3 + q \in 1..l
        BY <3>1
      <3>3. starts[k] + 3 + n <= s + 3 + n  BY <3>1, <1>3
      <3> QED  BY <1>4, <3>1, <3>2, <3>3
    <2>2. \A k \in 1..m + 1 : k \in 1..m \/ k = m + 1  OBVIOUS
    <2> SUFFICES ASSUME NEW k \in 1..m + 1
                 PROVE  /\ starts'[k] >= 3 /\ starts'[k] + 3 + n <= s + 3 + n
                        /\ image'[starts'[k]] = CodeAddress(k)
                        /\ image'[starts'[k] + 1] = 0
                        /\ image'[starts'[k] + 3] = n
                        /\ \A q \in 1..n : image'[starts'[k] + 3 + q] = live'[q]
      BY <1>4, <1>5, <1>6 DEF PointsInv, Points
    <2>3. live' = live  BY <1>0
    <2>4. CASE k \in 1..m
      <3>1. starts'[k] = starts[k]  BY <2>4, <1>5
      <3> QED  BY <2>1, <2>3, <2>4, <3>1
    <2>5. CASE k = m + 1
      <3>1. starts'[k] = s  BY <2>5, <1>5
      <3> QED  BY <1>3, <1>7, <2>3, <2>5, <3>1
    <2> QED  BY <2>2, <2>4, <2>5
  <1>10. PlacesInv'
    <2>1. m = 0 => s = 3  BY <1>3, <1>l, <1>m DEF Inv, PlacesInv
    <2>2. ASSUME m > 0
          PROVE  starts[1] = 3 /\ s = starts[m] + 4 + n + (n % 2)
      <3>1. starts[1] = 3 /\ l = starts[m] + 3 + n /\ starts[m] % 2 = 1 /\ starts[m] \in Nat
        <4>1. PlacesInv /\ starts \in Seq(Nat)  BY DEF Inv, TypeInv
        <4>2. Len(starts) = m /\ Len(image) = l /\ N = n  BY <1>l, <1>m, <1>n
        <4>3. m \in Points  BY <2>2, <4>2 DEF Points
        <4>4. starts[m] \in Nat /\ starts[m] % 2 = 1  BY <4>1, <4>3 DEF PlacesInv, Points
        <4> QED  BY <2>2, <4>1, <4>2, <4>4 DEF PlacesInv
      <3>2. l % 2 = n % 2  BY <3>1
      <3>3. s = l + (n % 2) + 1 /\ n % 2 \in Nat  BY <1>3, <3>2
      <3>4. s = starts[m] + 4 + n + (n % 2)  BY <3>1, <3>3
      <3> QED  BY <3>1, <3>4
    <2>3. \A k \in 1..m + 1 : starts'[k] % 2 = 1
      <3>1. \A k \in 1..m : starts[k] % 2 = 1  BY <1>m DEF Inv, PlacesInv, Points
      <3>2. \A k \in 1..m + 1 : k \in 1..m \/ k = m + 1  OBVIOUS
      <3> QED  BY <1>3, <1>5, <3>1, <3>2
    <2>4. ASSUME NEW k \in 1..m
          PROVE  starts'[k + 1] = starts'[k] + 4 + n + (n % 2)
      <3>1. CASE k = m  BY <3>1, <1>5, <2>2
      <3>2. CASE k \in 1..m - 1
        <4>1. starts[k + 1] = starts[k] + 4 + n + (n % 2)
          BY <3>2, <1>m, <1>n DEF Inv, PlacesInv
        <4>2. k \in 1..m /\ k + 1 \in 1..m  BY <3>2
        <4> QED  BY <1>5, <4>1, <4>2
      <3>3. \A x \in 1..m : x = m \/ x \in 1..m - 1  OBVIOUS
      <3> QED  BY <3>1, <3>2, <3>3
    <2>5. starts'[1] = 3
      <3>1. CASE m = 0  BY <3>1, <2>1, <1>5
      <3>2. CASE m > 0
        <4>1. 1 \in 1..m  BY <3>2
        <4> QED  BY <3>2, <4>1, <2>2, <1>5
      <3> QED  BY <3>1, <3>2
    <2>6. m + 1 - 1 = m /\ m + 1 > 0 /\ m + 1 # 0  OBVIOUS
    <2> QED  BY <1>4, <1>5, <1>6, <2>3, <2>4, <2>5, <2>6 DEF PlacesInv, Points
  <1>11. WordsInv'
    <2> SUFFICES ASSUME NEW w \in 2..s + 3 + n, image'[w] > CodeBase
                 PROVE  \E k \in 1..m + 1 : w = starts'[k]
      BY <1>4, <1>5 DEF WordsInv, Points
    <2>1. CASE w \in 2..l
      <3>1. w \in 1..l  BY <2>1
      <3>2. image[w] > CodeBase  BY <1>4, <3>1
      <3>3. PICK k \in 1..m : w = starts[k]  BY <2>1, <3>2, <1>l, <1>m DEF Inv, WordsInv, Points
      <3>4. k \in 1..m + 1 /\ starts'[k] = starts[k]  BY <1>5
      <3> QED  BY <3>3, <3>4
    <2>2. CASE w \in l + 1..s - 1
      <3>1. image'[w] = 0  BY <1>4, <2>2
      <3> QED  BY <3>1, AddressFacts
    <2>3. CASE w = s
      <3>1. m + 1 \in 1..m + 1  OBVIOUS
      <3> QED  BY <2>3, <1>5, <3>1
    <2>4. CASE w \in s + 1..s + 3 + n
      <3>1. w = s + 1 \/ w = s + 2 \/ w = s + 3 \/ w \in s + 4..s + 3 + n  BY <2>4
      <3>2. n <= CodeBase /\ FrameSize <= CodeBase /\ 0 <= CodeBase
        <4>1. n <= MaxRoots  BY <1>n DEF Inv, TypeInv
        <4> QED  BY <4>1, GcMapAssumption, AddressFacts
      <3>3. CASE w \in s + 4..s + 3 + n
        <4>1. PICK q \in 1..n : w = s + 3 + q
          <5>1. w - s - 3 \in 1..n /\ w = s + 3 + (w - s - 3)  BY <3>3
          <5> QED  BY <5>1
        <4>2. image'[w] = live[q] /\ live[q] <= CodeBase /\ live[q] \in Nat
          <5>1. image'[w] = live[q]  BY <4>1, <1>7
          <5>2. live \in Seq(Nat) /\ \A x \in 1..N : live[x] <= CodeBase  BY DEF Inv, TypeInv
          <5>3. q \in 1..N  BY <4>1, <1>n
          <5>4. live[q] \in Nat  BY <5>2, <5>3 DEF N
          <5> QED  BY <5>1, <5>2, <5>3, <5>4
        <4> QED  BY <4>2, AddressFacts
      <3>4. CASE w = s + 1  BY <3>4, <3>2, <1>7, AddressFacts
      <3>5. CASE w = s + 2
        <4>1. FrameSize \in Nat  BY GcMapAssumption
        <4> QED  BY <4>1, <3>5, <3>2, <1>7, AddressFacts
      <3>6. CASE w = s + 3  BY <3>6, <3>2, <1>7, AddressFacts
      <3> QED  BY <3>1, <3>3, <3>4, <3>5, <3>6
    <2>5. w \in 2..l \/ w \in l + 1..s - 1 \/ w = s \/ w \in s + 1..s + 3 + n  BY <1>3
    <2> QED  BY <2>1, <2>2, <2>3, <2>4, <2>5
  <1>12. WalkInv'  BY <1>0 DEF Inv, WalkInv
  <1>13. FoundSafepointIsRight' /\ OddRootsFound'
    BY <1>0 DEF FoundSafepointIsRight, OddRootsFound
  <1> QED  BY <1>8, <1>9, <1>10, <1>11, <1>12, <1>13 DEF Inv

\* The printed table, which the walk leaves alone.
LEMMA TableKept ==
  ASSUME Inv, UNCHANGED <<image, left, live, starts>>
  PROVE  PointsInv' /\ PlacesInv' /\ WordsInv'
  <1>1. PointsInv'  BY DEF Inv, PointsInv, Points, N
  <1>2. PlacesInv'  BY DEF Inv, PlacesInv, Points, N
  <1>3. WordsInv'  BY DEF Inv, WordsInv, Points
  <1> QED  BY <1>1, <1>2, <1>3

LEMMA StartLookupInv == Inv /\ StartLookup => Inv'
  <1> SUFFICES ASSUME Inv, StartLookup PROVE Inv'  OBVIOUS
  <1>1. /\ lookup = "print" /\ left = 0 /\ addr' = 3 /\ lookup' = "walk"
        /\ UNCHANGED <<image, left, live, starts, i>>
    BY DEF StartLookup
  <1>2. PICK k \in 1..Len(starts) : ip' = CodeAddress(k)  BY DEF StartLookup
  <1>3. i = 0 /\ Len(starts) \in Nat  BY <1>1 DEF Inv, WalkInv, TypeInv
  <1>4. k \in Nat /\ k >= 1 /\ Len(starts) >= 1  BY <1>3
  <1>5. TypeInv'
    <2>1. ip' \in Nat  BY <1>2, <1>4, AddressFacts
    <2> QED  BY <1>1, <2>1 DEF Inv, TypeInv, N
  <1>6. WalkInv'
    <2>1. i' = 0 /\ starts[1] = 3 /\ 0 + 1 = 1 /\ 1 \in 1..Len(starts)
      BY <1>1, <1>3, <1>4 DEF Inv, PlacesInv
    <2>2. ip' >= CodeAddress(1)  BY <1>2, <1>4, AddressFacts
    <2> QED  BY <1>1, <1>2, <2>1, <2>2 DEF WalkInv, Points
  <1>7. FoundSafepointIsRight' /\ OddRootsFound'
    BY <1>1 DEF FoundSafepointIsRight, OddRootsFound
  <1> QED  BY <1>1, <1>5, <1>6, <1>7, TableKept DEF Inv

\* A frame's roots are read where a safepoint was printed.
LEMMA RootsAtPoint ==
  ASSUME Inv, NEW k \in Points
  PROVE  RootsAt(starts[k]) = live
  <1>n. PICK n \in Nat : n = N  BY DEF Inv, TypeInv, N
  <1>s. PICK s \in Nat : s = starts[k]  BY DEF Inv, TypeInv, Points
  <1>1. /\ s >= 3 /\ s + 3 + n <= Len(image) /\ image[s + 3] = n
        /\ \A q \in 1..n : image[s + 3 + q] = live[q]
    BY <1>n, <1>s DEF Inv, PointsInv
  <1>2. image \in Seq(Nat) /\ live \in Seq(Nat) /\ Len(live) = n
    BY <1>n DEF Inv, TypeInv, N
  <1> DEFINE r == SubSeq(image, s + 4, s + 3 + n)
  <1>3. RootsAt(s) = r  BY <1>1 DEF RootsAt
  <1>4. r \in Seq(Nat) /\ Len(r) = n /\ \A q \in 1..n : r[q] = image[s + 4 + q - 1]
    <2>1. s + 4 \in 1..Len(image) + 1 /\ s + 3 + n \in s + 3..Len(image)  BY <1>1, <1>2
    <2>2. r = [q \in 1..s + 3 + n - (s + 4) + 1 |-> image[s + 4 + q - 1]]  BY <1>2, <2>1
    <2>3. s + 3 + n - (s + 4) + 1 = n  OBVIOUS
    <2>4. \A q \in 1..n : image[s + 4 + q - 1] \in Nat
      <3>1. \A q \in 1..n : s + 4 + q - 1 \in 1..Len(image)  BY <1>1, <1>2
      <3>2. \A w \in 1..Len(image) : image[w] \in Nat  BY <1>2
      <3> QED  BY <3>1, <3>2, Zenon
    <2>5. r = [q \in 1..n |-> image[s + 4 + q - 1]]  BY <2>2, <2>3
    <2> HIDE DEF r
    <2> QED  BY <2>4, <2>5
  <1>5. \A q \in 1..n : s + 4 + q - 1 = s + 3 + q  OBVIOUS
  <1>6. \A q \in 1..n : r[q] = live[q]  BY <1>1, <1>4, <1>5
  <1> HIDE DEF r
  <1>7. r = live  BY <1>2, <1>4, <1>6
  <1> QED  BY <1>3, <1>7, <1>s

\* The first step of the walk is at the first safepoint, ...
LEMMA FirstStep ==
  ASSUME Inv, lookup = "walk", i = 0
  PROVE  /\ 1 \in Points /\ addr = starts[1]
         /\ addr + 3 <= Len(image) /\ image[addr] = CodeAddress(1) /\ image[addr + 1] = 0
  <1>1. addr = 3 /\ left = 0  BY DEF Inv, WalkInv
  <1>2. Len(starts) \in Nat /\ Len(starts) >= 1 /\ N \in Nat /\ Len(image) \in Nat
    BY <1>1 DEF Inv, TypeInv, N
  <1>3. 1 \in Points /\ starts[1] = 3  BY <1>2 DEF Inv, PlacesInv, Points
  <1>4. 3 + 3 + N <= Len(image) /\ image[3] = CodeAddress(1) /\ image[3 + 1] = 0
    BY <1>3 DEF Inv, PointsInv
  <1> QED  BY <1>1, <1>2, <1>3, <1>4

\* ... and with an odd number of roots every step is at a safepoint, up to the
\* one looked for.
LEMMA OddStep ==
  ASSUME Inv, lookup = "walk", N % 2 = 1
  PROVE  /\ i + 1 \in Points /\ addr = starts[i + 1]
         /\ addr + 3 <= Len(image) /\ image[addr] = CodeAddress(i + 1) /\ image[addr + 1] = 0
         /\ image[addr + 3] = N
         /\ ip # CodeAddress(i + 1) =>
              i + 2 \in Points /\ starts[i + 2] = starts[i + 1] + 5 + N /\ ip >= CodeAddress(i + 2)
  <1>1. i + 1 \in Points /\ addr = starts[i + 1] /\ ip >= CodeAddress(i + 1)
    BY DEF Inv, WalkInv
  <1>0. TypeInv  BY DEF Inv
  <1>2. N \in Nat /\ addr \in Nat /\ Len(image) \in Nat /\ i \in Nat /\ Len(starts) \in Nat
    <2>1. addr \in Nat /\ i \in Nat  BY <1>0 DEF TypeInv
    <2>2. Len(image) \in Nat /\ Len(starts) \in Nat  BY <1>0 DEF TypeInv
    <2>3. N \in Nat  BY <1>0 DEF TypeInv, N
    <2> QED  BY <2>1, <2>2, <2>3
  <1>3. /\ addr + 3 + N <= Len(image) /\ image[addr] = CodeAddress(i + 1)
        /\ image[addr + 1] = 0 /\ image[addr + 3] = N
    BY <1>1 DEF Inv, PointsInv
  <1>4. PICK k \in Points : ip = CodeAddress(k)  BY DEF Inv, WalkInv
  <1>5. ASSUME ip # CodeAddress(i + 1)
        PROVE  i + 2 \in Points /\ starts[i + 2] = starts[i + 1] + 5 + N /\ ip >= CodeAddress(i + 2)
    <2>1. k \in Nat /\ i + 1 \in Nat /\ i + 2 \in Nat /\ k <= Len(starts)  BY <1>2 DEF Points
    <2>2. k >= i + 1 /\ k # i + 1  BY <1>1, <1>4, <1>5, <2>1, AddressFacts
    <2>3. k >= i + 2  BY <1>2, <2>1, <2>2
    <2>4. ip >= CodeAddress(i + 2)  BY <1>4, <2>1, <2>3, AddressFacts
    <2>5. i + 2 \in Points /\ i + 1 \in 1..Len(starts) - 1 /\ (i + 1) + 1 = i + 2
      BY <1>2, <2>1, <2>3 DEF Points
    <2>6. starts[i + 2] = starts[i + 1] + 4 + N + 1
      <3>1. \A x \in 1..Len(starts) - 1 : starts[x + 1] = starts[x] + 4 + N + (N % 2)
        BY DEF Inv, PlacesInv
      <3>2. starts[(i + 1) + 1] = starts[i + 1] + 4 + N + (N % 2)  BY <2>5, <3>1
      <3> QED  BY <2>5, <3>2
    <2>7. starts[i + 1] \in Nat  BY <1>1, <1>2
    <2>8. starts[i + 2] = starts[i + 1] + 5 + N
      <3> DEFINE y == starts[i + 1]
      <3>1. y \in Nat /\ N \in Nat /\ starts[i + 2] = y + 4 + N + 1  BY <1>2, <2>6, <2>7
      <3> HIDE DEF y
      <3>2. starts[i + 2] = y + 5 + N  BY <3>1
      <3> QED  BY <3>2 DEF y
    <2> QED  BY <2>4, <2>5, <2>8
  <1>6. addr + 3 <= Len(image)  BY <1>2, <1>3
  <1> QED  BY <1>1, <1>3, <1>5, <1>6

LEMMA WalkStepInv == Inv /\ WalkStep => Inv'
  <1> SUFFICES ASSUME Inv, WalkStep PROVE Inv'  OBVIOUS
  <1>1. lookup = "walk" /\ UNCHANGED <<image, left, live, starts, ip>>  BY DEF WalkStep
  <1>2. /\ image \in Seq(Nat) /\ Len(image) \in Nat /\ addr \in Nat /\ i \in Nat /\ addr >= 3
        /\ left = 0
    BY <1>1 DEF Inv, TypeInv, WalkInv
  <1>3. PICK k \in Points : ip = CodeAddress(k)  BY <1>1 DEF Inv, WalkInv
  <1>t. PointsInv' /\ PlacesInv' /\ WordsInv'  BY <1>1, TableKept
  <1>p. N' = N /\ Points' = Points  BY <1>1 DEF N, Points
  <1>4. CASE addr + 3 > Len(image)
    <2>1. lookup' = "wild" /\ UNCHANGED <<addr, i>>  BY <1>4 DEF WalkStep
    <2>2. TypeInv'  BY <1>1, <2>1 DEF Inv, TypeInv, N
    <2>3. WalkInv'  BY <1>1, <1>2, <1>3, <1>p, <2>1 DEF WalkInv
    <2>4. i # 0  BY <1>1, <1>2, <1>4, FirstStep
    <2>5. ip # CodeAddress(1)  BY <1>1, <1>2, <2>4 DEF Inv, WalkInv
    <2>6. N % 2 # 1  BY <1>1, <1>2, <1>4, OddStep
    <2>7. N % 2 = 0
      <3>1. N \in Nat  BY DEF Inv, TypeInv, N
      <3> QED  BY <2>6, <3>1
    <2>8. OddRootsFound'  BY <1>1, <2>5, <2>7 DEF OddRootsFound, N
    <2>9. FoundSafepointIsRight'  BY <2>1 DEF FoundSafepointIsRight
    <2> QED  BY <1>t, <2>2, <2>3, <2>8, <2>9 DEF Inv
  <1>5. CASE addr + 3 <= Len(image) /\ <<image[addr], image[addr + 1]>> = <<ip, 0>>
    <2>0. ~(addr + 3 > Len(image))  BY <1>2, <1>5
    <2>1. lookup' = "found" /\ UNCHANGED <<addr, i>>  BY <1>5, <2>0 DEF WalkStep
    <2>2. TypeInv'  BY <1>1, <2>1 DEF Inv, TypeInv, N
    <2>3. WalkInv'  BY <1>1, <1>2, <1>3, <1>p, <2>1 DEF WalkInv
    <2>4. image[addr] = ip /\ addr \in 2..Len(image)  BY <1>2, <1>5
    <2>5. k \in Nat /\ k >= 1  BY DEF Points
    <2>6. image[addr] > CodeBase  BY <1>3, <2>4, <2>5, AddressFacts
    <2>7. PICK j \in Points : addr = starts[j]  BY <2>4, <2>6 DEF Inv, WordsInv
    <2>8. image[addr] = CodeAddress(j)  BY <2>7 DEF Inv, PointsInv
    <2>9. RootsAt(addr) = live  BY <2>7, RootsAtPoint
    <2>10. RootsAt(addr)' = RootsAt(addr)  BY <1>1, <2>1 DEF RootsAt
    <2>11. FoundSafepointIsRight'
      <3>1. addr + 3 + image[addr + 3] <= Len(image)
        <4>1. image[starts[j] + 3] = N /\ starts[j] + 3 + N <= Len(image)  BY DEF Inv, PointsInv
        <4> QED  BY <2>7, <4>1
      <3> QED
        BY <1>1, <2>1, <2>4, <2>7, <2>8, <2>9, <2>10, <3>1 DEF FoundSafepointIsRight, Points
    <2>12. OddRootsFound'  BY <2>1 DEF OddRootsFound
    <2> QED  BY <1>t, <2>2, <2>3, <2>11, <2>12 DEF Inv
  <1>6. CASE addr + 3 <= Len(image) /\ <<image[addr], image[addr + 1]>> # <<ip, 0>>
    <2>0. ~(addr + 3 > Len(image))  BY <1>2, <1>6
    <2>1. addr' = addr + (4 + image[addr + 3] + 1) /\ i' = i + 1 /\ lookup' = lookup
      BY <1>6, <2>0 DEF WalkStep, Skip
    <2>2. image[addr + 3] \in Nat
      <3>1. addr + 3 \in 1..Len(image)  BY <1>2, <1>6
      <3> QED  BY <1>2, <3>1
    <2>3. addr' \in Nat /\ addr' >= 3 /\ i' \in Nat /\ i' > 0
      <3> DEFINE z == image[addr + 3]
      <3>1. z \in Nat /\ addr \in Nat /\ addr >= 3 /\ i \in Nat  BY <1>2, <2>2
      <3>2. addr' = addr + (4 + z + 1) /\ i' = i + 1  BY <2>1
      <3> HIDE DEF z
      <3> QED  BY <3>1, <3>2
    <2>4. TypeInv'  BY <1>1, <2>1, <2>3 DEF Inv, TypeInv, N
    <2>5. ip # CodeAddress(1)
      <3>1. CASE i = 0  BY <1>1, <1>6, <3>1, FirstStep
      <3>2. CASE i > 0  BY <1>1, <3>2 DEF Inv, WalkInv
      <3> QED  BY <1>2, <3>1, <3>2
    <2>6. ASSUME N % 2 = 1
          PROVE  i' + 1 \in Points /\ addr' = starts[i' + 1] /\ ip >= CodeAddress(i' + 1)
      <3>1. /\ i + 1 \in Points /\ addr = starts[i + 1] /\ image[addr + 3] = N
            /\ image[addr] = CodeAddress(i + 1) /\ image[addr + 1] = 0
        BY <1>1, <2>6, OddStep
      <3>2. ip # CodeAddress(i + 1)  BY <1>6, <3>1
      <3>3. i + 2 \in Points /\ starts[i + 2] = starts[i + 1] + 5 + N /\ ip >= CodeAddress(i + 2)
        BY <1>1, <2>6, <3>2, OddStep
      <3>4. i' + 1 = i + 2 /\ addr' = addr + 5 + N
        <4>1. N \in Nat  BY DEF Inv, TypeInv, N
        <4>2. addr' = addr + (4 + N + 1) /\ i' = i + 1  BY <2>1, <3>1
        <4> QED  BY <1>2, <4>1, <4>2
      <3> QED  BY <3>1, <3>3, <3>4
    <2>7. WalkInv'
      <3>1. i' # 0  BY <2>3
      <3>2. (N % 2 = 1)' => (i + 1 \in Points /\ addr = starts[i + 1] /\ ip >= CodeAddress(i + 1))'
        BY <1>1, <1>p, <2>6
      <3> QED  BY <1>1, <1>2, <1>3, <1>p, <2>1, <2>3, <2>5, <3>1, <3>2 DEF WalkInv
    <2>8. FoundSafepointIsRight' /\ OddRootsFound'
      BY <1>1, <2>1 DEF FoundSafepointIsRight, OddRootsFound
    <2> QED  BY <1>t, <2>4, <2>7, <2>8 DEF Inv
  <1> QED  BY <1>2, <1>4, <1>5, <1>6

LEMMA WalkFailsInv == Inv /\ WalkFails => Inv'
  <1> SUFFICES ASSUME Inv, WalkFails PROVE Inv'  OBVIOUS
  <1>1. /\ lookup = "walk" /\ i = image[1] /\ lookup' = "aborted"
        /\ UNCHANGED <<image, left, live, starts, ip, addr, i>>
    BY DEF WalkFails
  <1>2. PointsInv' /\ PlacesInv' /\ WordsInv'  BY <1>1, TableKept
  <1>3. TypeInv'  BY <1>1 DEF Inv, TypeInv, N
  <1>4. left = 0 /\ i = Len(starts) /\ i >= 1 /\ i \in Nat /\ N \in Nat
    BY <1>1 DEF Inv, TypeInv, WalkInv, N
  <1>5. WalkInv'
    <2>1. \E k \in Points : ip = CodeAddress(k)  BY <1>1 DEF Inv, WalkInv
    <2> QED  BY <1>1, <1>4, <2>1 DEF WalkInv, Points
  <1>6. ip # CodeAddress(1)  BY <1>1, <1>4 DEF Inv, WalkInv
  <1>7. N % 2 = 0
    <2>1. i + 1 \notin Points  BY <1>4 DEF Points
    <2>2. N % 2 # 1  BY <1>1, <2>1, OddStep
    <2> QED  BY <1>4, <2>2
  <1>8. OddRootsFound'  BY <1>1, <1>6, <1>7 DEF OddRootsFound, N
  <1>9. FoundSafepointIsRight'  BY <1>1 DEF FoundSafepointIsRight
  <1> QED  BY <1>2, <1>3, <1>5, <1>8, <1>9 DEF Inv

LEMMA InvNext == Inv /\ [GcMapNext]_gcMapVars => Inv'
  <1> SUFFICES ASSUME Inv, [GcMapNext]_gcMapVars PROVE Inv'  OBVIOUS
  <1>1. CASE UNCHANGED gcMapVars
    <2>1. /\ UNCHANGED <<image, left, live, starts>>
          /\ ip' = ip /\ addr' = addr /\ i' = i /\ lookup' = lookup
      BY <1>1 DEF gcMapVars
    <2>2. PointsInv' /\ PlacesInv' /\ WordsInv'  BY <2>1, TableKept
    <2>3. TypeInv'  BY <2>1 DEF Inv, TypeInv, N
    <2>4. WalkInv'  BY <2>1 DEF Inv, WalkInv, Points, N
    <2>5. FoundSafepointIsRight'  BY <2>1 DEF Inv, FoundSafepointIsRight, RootsAt
    <2>6. OddRootsFound'  BY <2>1 DEF Inv, OddRootsFound
    <2> QED  BY <2>2, <2>3, <2>4, <2>5, <2>6 DEF Inv
  <1> QED
    BY <1>1, PrintPointInv, StartLookupInv, WalkStepInv, WalkFailsInv DEF GcMapNext

-----------------------------------------------------------------------------
(* The theorems.                                                           *)

\* The inductive invariant holds, for every table.
THEOREM InvHolds == GcMapSpec => []Inv
  BY InvInit, InvNext, PTL DEF GcMapSpec

\* Whatever find_safepoint() returns is the safepoint of the frame's call, with
\* all of its roots, in a table of any size and although the walk may be out of
\* step with the printer.
THEOREM FoundIsRight == GcMapSpec => []FoundSafepointIsRight
  <1>1. Inv => FoundSafepointIsRight  BY DEF Inv
  <1> QED  BY <1>1, InvHolds, PTL

\* With an odd number of roots find_safepoint() finds every safepoint and never
\* leaves the table; with any number it finds the first.
THEOREM OddFound == GcMapSpec => []OddRootsFound
  <1>1. Inv => OddRootsFound  BY DEF Inv
  <1> QED  BY <1>1, InvHolds, PTL

-----------------------------------------------------------------------------
(* Numbers in LEB128.  Of a number that is being read all bytes but the      *)
(* last one say that there is more.                                          *)

LebInv ==
  /\ bytes \in Seq(0..255)
  /\ \A k \in 1..Len(bytes) - 1 : ~LastByte(bytes[k])

LEMMA LebInvHolds == Leb128Spec => []LebInv
  <1>1. Leb128Init => LebInv  BY DEF Leb128Init, LebInv
  <1>2. LebInv /\ [NextByte]_leb128Vars => LebInv'
    <2> SUFFICES ASSUME LebInv, [NextByte]_leb128Vars PROVE LebInv'  OBVIOUS
    <2>1. CASE NextByte
      <3>1. PICK b \in SomeBytes : bytes' = Append(bytes, b)  BY <2>1 DEF NextByte
      <3>2. b \in 0..255 /\ bytes \in Seq(0..255)  BY Leb128Assumption DEF LebInv
      <3>3. /\ bytes' \in Seq(0..255) /\ Len(bytes') = Len(bytes) + 1
            /\ \A k \in 1..Len(bytes) : bytes'[k] = bytes[k]
        BY <3>1, <3>2
      <3>4. \A k \in 1..Len(bytes) : ~LastByte(bytes[k])  BY <2>1 DEF NextByte
      <3>5. Len(bytes') - 1 = Len(bytes)  BY <3>2, <3>3
      <3> QED  BY <3>3, <3>4, <3>5 DEF LebInv
    <2>2. CASE UNCHANGED leb128Vars  BY <2>2 DEF leb128Vars, LebInv
    <2> QED  BY <2>1, <2>2
  <1> QED  BY <1>1, <1>2, PTL DEF Leb128Spec

\* Both readers take all bytes of a whole number.
LEMMA LebLengthOfWhole ==
  ASSUME LebInv, Whole
  PROVE  Len(bytes) \in Nat /\ Len(bytes) >= 1 /\ LebLength(bytes, 1) = Len(bytes)
  <1>n. PICK n \in Nat : n = Len(bytes) /\ n >= 1
    <2>1. bytes \in Seq(0..255) /\ bytes # <<>>  BY DEF LebInv, Whole
    <2> QED  BY <2>1
  <1> DEFINE S == {m \in 1..n : LastByte(bytes[m])}
  <1>1. LebLength(bytes, 1) = Min({m \in 1..n - 1 + 1 : LastByte(bytes[1 + m - 1])})
    BY <1>n DEF LebLength
  <1>2. n - 1 + 1 = n /\ \A m \in 1..n : 1 + m - 1 = m  OBVIOUS
  <1>3. LebLength(bytes, 1) = Min(S)  BY <1>1, <1>2
  <1>4. \A m \in S : m = n
    <2>1. \A m \in 1..n : m = n \/ m \in 1..n - 1  OBVIOUS
    <2> QED  BY <1>n, <2>1 DEF LebInv
  <1>5. n \in S  BY <1>n DEF Whole
  <1> HIDE DEF S
  <1>6. S = {n}  BY <1>4, <1>5
  <1>7. Min(S) = n  BY <1>6 DEF Min
  <1> QED  BY <1>n, <1>3, <1>7

LEMMA PayloadBits == \A x : Payload(x) \subseteq 0..6
  BY DEF Payload, Bits

\* A shifted int: what its bits are if none is lost, and that a bit beyond 31
\* is there only with all others, which the sign makes.
LEMMA IntShiftFacts ==
  ASSUME NEW bits \in SUBSET Nat, NEW shift \in Nat
  PROVE  /\ IntShift(bits, shift) \subseteq 0..63
         /\ \A m \in IntShift(bits, shift) : m > 31 => 63 \in IntShift(bits, shift)
         /\ \A k \in bits : shift < 32 /\ k + shift = 31 => 63 \in IntShift(bits, shift)
         /\ shift < 32 /\ (\A k \in bits : k + shift <= 30)
              => IntShift(bits, shift) = {k + shift : k \in bits}
         /\ bits = {} => IntShift(bits, shift) = {}
  <1> DEFINE moved == {k + (shift % 32) : k \in bits} \cap Word32
  <1>1. shift % 32 \in 0..31 /\ (shift < 32 => shift % 32 = shift)  OBVIOUS
  <1>2. moved \subseteq 0..31  BY DEF Word32
  <1>3. IntShift(bits, shift) = IF 31 \in moved THEN moved \cup (32..63) ELSE moved
    BY DEF IntShift
  <1>4. shift < 32 => moved = {k + shift : k \in bits} \cap Word32  BY <1>1
  <1>5. bits = {} => moved = {}  OBVIOUS
  <1> HIDE DEF moved
  <1>6. IntShift(bits, shift) \subseteq 0..63  BY <1>2, <1>3
  <1>7. \A m \in IntShift(bits, shift) : m > 31 => 63 \in IntShift(bits, shift)
    <2>1. CASE 31 \in moved  BY <1>3, <2>1
    <2>2. CASE 31 \notin moved
      <3>1. \A m \in IntShift(bits, shift) : m \in 0..31  BY <1>2, <1>3, <2>2
      <3>2. \A m \in 0..31 : ~(m > 31)  OBVIOUS
      <3> QED  BY <3>1, <3>2
    <2> QED  BY <2>1, <2>2
  <1>8. \A k \in bits : shift < 32 /\ k + shift = 31 => 63 \in IntShift(bits, shift)
    BY <1>3, <1>4 DEF Word32
  <1>9. ASSUME shift < 32, \A k \in bits : k + shift <= 30
        PROVE  IntShift(bits, shift) = {k + shift : k \in bits}
    <2>1. \A k \in bits : k + shift \in 0..30  BY <1>9
    <2>2. {k + shift : k \in bits} \subseteq Word32 /\ 31 \notin {k + shift : k \in bits}
      BY <2>1 DEF Word32
    <2>3. moved = {k + shift : k \in bits}  BY <1>4, <1>9, <2>2
    <2> QED  BY <1>3, <2>2, <2>3
  <1>10. bits = {} => IntShift(bits, shift) = {}  BY <1>3, <1>5
  <1> QED  BY <1>6, <1>7, <1>8, <1>9, <1>10

\* What |= collects from the bytes, and the bits DWARF means.
LEMMA Collected ==
  ASSUME LebInv, Whole
  PROVE  /\ \A m : m \in Accumulate(bytes, 1, Len(bytes)) <=>
                     \E j \in 1..Len(bytes) : m \in IntShift(Payload(bytes[j]), 7 * (j - 1))
         /\ \A m : m \in Unsigned <=>
                     \E j \in 1..Len(bytes) : \E k \in Payload(bytes[j]) : m = k + 7 * (j - 1)
  <1>n. PICK n \in Nat : n = Len(bytes) /\ n >= 1  BY LebLengthOfWhole
  <1>1. ASSUME NEW m
        PROVE  m \in Accumulate(bytes, 1, n) <=>
                 \E j \in 1..n : m \in IntShift(Payload(bytes[j]), 7 * (j - 1))
    <2>1. m \in Accumulate(bytes, 1, n) <=>
            \E k \in 0..n - 1 : m \in IntShift(Payload(bytes[1 + k]), 7 * k)
      BY DEF Accumulate
    <2>2. \A k \in 0..n - 1 : 1 + k \in 1..n /\ (1 + k) - 1 = k  OBVIOUS
    <2>3. \A j \in 1..n : j - 1 \in 0..n - 1 /\ 1 + (j - 1) = j  OBVIOUS
    <2>4. ASSUME NEW k \in 0..n - 1, m \in IntShift(Payload(bytes[1 + k]), 7 * k)
          PROVE  \E j \in 1..n : m \in IntShift(Payload(bytes[j]), 7 * (j - 1))
      <3>1. 1 + k \in 1..n /\ m \in IntShift(Payload(bytes[1 + k]), 7 * ((1 + k) - 1))
        BY <2>2, <2>4
      <3> QED  BY <3>1
    <2>5. ASSUME NEW j \in 1..n, m \in IntShift(Payload(bytes[j]), 7 * (j - 1))
          PROVE  \E k \in 0..n - 1 : m \in IntShift(Payload(bytes[1 + k]), 7 * k)
      <3>1. j - 1 \in 0..n - 1 /\ m \in IntShift(Payload(bytes[1 + (j - 1)]), 7 * (j - 1))
        BY <2>3, <2>5
      <3> QED  BY <3>1
    <2> QED  BY <2>1, <2>4, <2>5
  <1>2. \A m : m \in Unsigned <=>
                 \E j \in 1..n : \E k \in Payload(bytes[j]) : m = k + 7 * (j - 1)
    BY <1>n DEF Unsigned
  <1> QED  BY <1>n, <1>1, <1>2

LEMMA ShiftOfByte ==
  ASSUME LebInv, NEW j \in 1..Len(bytes)
  PROVE  /\ Payload(bytes[j]) \in SUBSET Nat /\ 7 * (j - 1) \in Nat
         /\ Payload(bytes[j]) \subseteq 0..6
  <1>1. Len(bytes) \in Nat  BY DEF LebInv
  <1>2. j \in Nat /\ j >= 1  BY <1>1
  <1> QED  BY <1>2, PayloadBits

\* A number below 2^31: no byte is shifted beyond bit 30.
LEMMA SmallIsExact ==
  ASSUME LebInv, Whole, Unsigned \subseteq 0..30
  PROVE  Accumulate(bytes, 1, Len(bytes)) = Unsigned
  <1>1. ASSUME NEW j \in 1..Len(bytes), NEW m
        PROVE  m \in IntShift(Payload(bytes[j]), 7 * (j - 1)) <=>
                 \E k \in Payload(bytes[j]) : m = k + 7 * (j - 1)
    <2> DEFINE shift == 7 * (j - 1)
               bits == Payload(bytes[j])
    <2>1. bits \in SUBSET Nat /\ shift \in Nat  BY ShiftOfByte
    <2>2. \A k \in bits : k + shift \in Unsigned  BY Collected
    <2> HIDE DEF shift, bits
    <2>3. \A k \in bits : k + shift <= 30
      <3>1. \A k \in bits : k + shift \in 0..30  BY <2>2, Zenon
      <3> QED  BY <2>1, <3>1
    <2>4. CASE bits = {}
      <3>1. IntShift(bits, shift) = {}  BY <2>1, <2>4, IntShiftFacts
      <3> QED  BY <2>4, <3>1 DEF bits, shift
    <2>5. CASE bits # {}
      <3>1. shift < 32
        <4>1. PICK k \in bits : TRUE  BY <2>5
        <4>2. k \in Nat /\ k + shift <= 30  BY <2>1, <2>3
        <4> QED  BY <2>1, <4>2
      <3>2. IntShift(bits, shift) = {k + shift : k \in bits}
        BY <2>1, <2>3, <3>1, IntShiftFacts
      <3> QED  BY <3>2 DEF bits, shift
    <2> QED  BY <2>4, <2>5
  <1>2. ASSUME NEW m
        PROVE  m \in Accumulate(bytes, 1, Len(bytes)) <=> m \in Unsigned
    <2>1. m \in Accumulate(bytes, 1, Len(bytes)) <=>
            \E j \in 1..Len(bytes) : m \in IntShift(Payload(bytes[j]), 7 * (j - 1))
      BY Collected
    <2>2. m \in Unsigned <=>
            \E j \in 1..Len(bytes) : \E k \in Payload(bytes[j]) : m = k + 7 * (j - 1)
      BY Collected
    <2>3. ASSUME NEW j \in 1..Len(bytes), m \in IntShift(Payload(bytes[j]), 7 * (j - 1))
          PROVE  m \in Unsigned
      <3>1. \E k \in Payload(bytes[j]) : m = k + 7 * (j - 1)  BY <1>1, <2>3
      <3> QED  BY <2>2, <3>1
    <2>4. ASSUME NEW j \in 1..Len(bytes), \E k \in Payload(bytes[j]) : m = k + 7 * (j - 1)
          PROVE  m \in Accumulate(bytes, 1, Len(bytes))
      <3>1. m \in IntShift(Payload(bytes[j]), 7 * (j - 1))  BY <1>1, <2>4
      <3> QED  BY <2>1, <3>1
    <2> QED  BY <2>1, <2>2, <2>3, <2>4
  <1> QED  BY <1>2

\* One that is not, but below 2^63: the sign of the int is in the result.
LEMMA LargeIsLost ==
  ASSUME LebInv, Whole, Unsigned \subseteq 0..62,
         Accumulate(bytes, 1, Len(bytes)) = Unsigned
  PROVE  Unsigned \subseteq 0..30
  <1>1. \A j \in 1..Len(bytes) : 63 \notin IntShift(Payload(bytes[j]), 7 * (j - 1))
    <2>1. 63 \notin Accumulate(bytes, 1, Len(bytes))  OBVIOUS
    <2> QED  BY <2>1, Collected
  <1> SUFFICES ASSUME NEW m \in Unsigned, m > 30 PROVE FALSE  OBVIOUS
  <1>2. m \in Nat  OBVIOUS
  <1>3. CASE m = 31
    <2>1. PICK j \in 1..Len(bytes) : \E k \in Payload(bytes[j]) : m = k + 7 * (j - 1)
      BY Collected
    <2> DEFINE shift == 7 * (j - 1)
               bits == Payload(bytes[j])
    <2>2. bits \in SUBSET Nat /\ shift \in Nat  BY ShiftOfByte
    <2>3. PICK k \in bits : m = k + shift  BY <2>1
    <2>4. 63 \notin IntShift(bits, shift)  BY <1>1
    <2> HIDE DEF shift, bits
    <2>5. shift < 32 /\ k + shift = 31  BY <1>3, <2>2, <2>3
    <2> QED  BY <2>2, <2>4, <2>5, IntShiftFacts
  <1>4. CASE m > 31
    <2>1. PICK j \in 1..Len(bytes) : m \in IntShift(Payload(bytes[j]), 7 * (j - 1))
      BY Collected
    <2> DEFINE shift == 7 * (j - 1)
               bits == Payload(bytes[j])
    <2>2. bits \in SUBSET Nat /\ shift \in Nat  BY ShiftOfByte
    <2>3. m \in IntShift(bits, shift) /\ 63 \notin IntShift(bits, shift)  BY <1>1, <2>1
    <2> HIDE DEF shift, bits
    <2> QED  BY <1>4, <2>2, <2>3, IntShiftFacts
  <1> QED  BY <1>2, <1>3, <1>4

\* A number below 2^31 is decoded exactly by readULEB128(), however many bytes
\* encode it, and no other one below 2^63 is.
THEOREM UnsignedRead == Leb128Spec => []UnsignedExact
  <1>1. LebInv => UnsignedExact
    <2> SUFFICES ASSUME LebInv, Whole, Unsigned \subseteq 0..62
                 PROVE  readULEB128(bytes, 1).value = Unsigned <=> Unsigned \subseteq 0..30
      BY DEF UnsignedExact
    <2>1. readULEB128(bytes, 1).value = Accumulate(bytes, 1, Len(bytes))
      BY LebLengthOfWhole DEF readULEB128
    <2> QED  BY <2>1, SmallIsExact, LargeIsLost
  <1> QED  BY <1>1, LebInvHolds, PTL

\* Negative numbers of up to four bytes, and the others below 2^31, are decoded
\* exactly by readSLEB128().
THEOREM SignedRead == Leb128Spec => []SignedExact
  <1>1. LebInv => SignedExact
    <2> SUFFICES ASSUME LebInv, Whole,
                        IF 63 \in Signed THEN Len(bytes) <= 4 ELSE Signed \subseteq 0..30
                 PROVE  readSLEB128(bytes, 1).value = Signed
      BY DEF SignedExact
    <2>n. PICK n \in Nat : n = Len(bytes) /\ n >= 1 /\ LebLength(bytes, 1) = n
      BY LebLengthOfWhole
    <2> DEFINE negative == 6 \in Payload(bytes[n])
               sign == IF negative /\ 7 * n < 64 THEN IntShift(Word32, 7 * n) ELSE {}
    <2>1. readSLEB128(bytes, 1).value = Accumulate(bytes, 1, n) \cup sign
      <3>1. 1 + n - 1 = n  OBVIOUS
      <3>2. negative <=> SignBit \in Bits(bytes[n])  BY DEF Payload, SignBit
      <3>3. readSLEB128(bytes, 1).value =
              Accumulate(bytes, 1, n) \cup
                (IF SignBit \in Bits(bytes[1 + n - 1]) /\ 7 * n < 64
                 THEN IntShift(Word32, 7 * n) ELSE {})
        BY <2>n DEF readSLEB128
      <3> QED  BY <3>1, <3>2, <3>3
    <2>2. Signed = IF negative THEN Unsigned \cup ((7 * n)..63) ELSE Unsigned
      BY <2>n DEF Signed
    <2>3. negative => 6 + 7 * (n - 1) \in Unsigned
      <3>1. n \in 1..n  BY <2>n
      <3>2. \A j \in 1..n : \A k \in Payload(bytes[j]) : k + 7 * (j - 1) \in Unsigned
        BY <2>n, Collected
      <3> QED  BY <3>1, <3>2
    <2>4. n <= 4 => Unsigned \subseteq 0..27
      <3> SUFFICES ASSUME n <= 4, NEW m \in Unsigned PROVE m \in 0..27  OBVIOUS
      <3>1. PICK j \in 1..n : \E k \in Payload(bytes[j]) : m = k + 7 * (j - 1)
        BY <2>n, Collected
      <3>2. PICK k \in 0..6 : m = k + 7 * (j - 1)  BY <3>1, PayloadBits
      <3>3. j \in 1..4  BY <3>1
      <3> QED  BY <3>2, <3>3
    <2>5. n <= 4 => IntShift(Word32, 7 * n) = (7 * n)..63
      <3> SUFFICES ASSUME n <= 4 PROVE IntShift(Word32, 7 * n) = (7 * n)..63  OBVIOUS
      <3>s. PICK s \in 7..28 : s = 7 * n
        <4>1. n \in 1..4  BY <2>n
        <4> QED  BY <4>1
      <3>1. s % 32 = s  OBVIOUS
      <3> DEFINE moved == {k + (s % 32) : k \in Word32} \cap Word32
      <3>2. IntShift(Word32, s) = IF 31 \in moved THEN moved \cup (32..63) ELSE moved
        BY DEF IntShift
      <3>3. moved = s..31
        <4>1. \A m \in s..31 : m - s \in 0..31 /\ (m - s) + s = m /\ m \in 0..31  OBVIOUS
        <4>2. \A k \in 0..31 : k + s \in 0..31 => k + s \in s..31  OBVIOUS
        <4>3. moved = {k + s : k \in 0..31} \cap (0..31)  BY <3>1 DEF Word32
        <4> HIDE DEF moved
        <4> QED  BY <4>1, <4>2, <4>3
      <3> HIDE DEF moved
      <3>4. 31 \in s..31 /\ (s..31) \cup (32..63) = s..63
        <4>1. \A m \in s..63 : m \in s..31 \/ m \in 32..63  OBVIOUS
        <4>2. \A m \in s..31 : m \in s..63  OBVIOUS
        <4>3. \A m \in 32..63 : m \in s..63  OBVIOUS
        <4>4. (s..31) \cup (32..63) = s..63  BY <4>1, <4>2, <4>3, Zenon
        <4> QED  BY <4>4
      <3> QED  BY <3>s, <3>2, <3>3, <3>4
    <2> HIDE DEF negative, sign
    <2>6. CASE 63 \in Signed
      <3>1. n <= 4 /\ Unsigned \subseteq 0..30  BY <2>n, <2>4, <2>6
      <3>2. negative
        <4>1. 63 \notin Unsigned  BY <3>1
        <4> QED  BY <2>2, <2>6, <4>1
      <3>3. sign = (7 * n)..63  BY <2>5, <3>1, <3>2 DEF sign
      <3>4. Accumulate(bytes, 1, n) = Unsigned  BY <2>n, <3>1, SmallIsExact
      <3> QED  BY <2>1, <2>2, <3>2, <3>3, <3>4
    <2>7. CASE 63 \notin Signed
      <3>1. Signed \subseteq 0..30  BY <2>7
      <3>2. Unsigned \subseteq 0..30  BY <2>2, <3>1
      <3>3. ~negative
        <4> SUFFICES ASSUME negative PROVE FALSE  OBVIOUS
        <4>1. 6 + 7 * (n - 1) <= 30  BY <2>3, <3>2
        <4>2. 63 \in (7 * n)..63  BY <4>1
        <4> QED  BY <2>2, <2>7, <4>2
      <3>4. Accumulate(bytes, 1, n) = Unsigned  BY <2>n, <3>2, SmallIsExact
      <3> QED  BY <2>1, <2>2, <3>3, <3>4 DEF sign
    <2> QED  BY <2>6, <2>7
  <1> QED  BY <1>1, LebInvHolds, PTL
==============================================================================
