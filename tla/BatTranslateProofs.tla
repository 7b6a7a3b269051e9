-------------------------- MODULE BatTranslateProofs ------------------------
(***************************************************************************)
(* Proofs about BatTranslate, for every size of the address space, every   *)
(* set of block lengths that divide it and every number of BATs: the types *)
(* of the registers, and that E_MemVirtToPhys is the processor's rule.     *)
(***************************************************************************)
EXTENDS BatTranslate, TLAPS

-----------------------------------------------------------------------------
(* Aligned blocks: arithmetic on multiples of a length. *)
LEMMA Divided ==
    ASSUME NEW n \in Nat, n >= 1, NEW a \in Nat
    PROVE  /\ a \div n \in Nat /\ a % n \in 0 .. n - 1
           /\ a = n * (a \div n) + (a % n)
           /\ Floor(a, n) = n * (a \div n)
BY DEF Floor

LEMMA SameQuotient ==
    ASSUME NEW n \in Nat, n >= 1, NEW p \in Nat, NEW q \in Nat, NEW r \in 0 .. n - 1
    PROVE  /\ n * q <= n * p + r /\ n * p + r < n * q + n => p = q
           /\ n * p = n * q => p = q
           /\ n * p < n * q => n * p + n <= n * q
<1>1. p = q \/ p >= q + 1 \/ q >= p + 1
  OBVIOUS
<1>2. n * (q + 1) = n * q + n /\ n * (p + 1) = n * p + n
  OBVIOUS
<1>3. CASE p >= q + 1
  <2>1. n * p >= n * (q + 1)
    BY <1>3
  <2> QED
    BY <1>2, <1>3, <2>1
<1>4. CASE q >= p + 1
  <2>1. n * q >= n * (p + 1)
    BY <1>4
  <2> QED
    BY <1>2, <1>4, <2>1
<1> QED
  BY <1>1, <1>3, <1>4

(* An aligned block holds the addresses that agree with it above its       *)
(* length, and the low bits of one of them are its distance from the base. *)
LEMMA InBlock ==
    ASSUME NEW n \in Nat, n >= 1, NEW a \in Nat, NEW b \in Nat, b % n = 0
    PROVE  /\ (a >= b /\ a < b + n) <=> Floor(a, n) = Floor(b, n)
           /\ Floor(a, n) = Floor(b, n) => a - b = a % n
<1> DEFINE p == a \div n
           q == b \div n
           r == a % n
<1>1. /\ p \in Nat /\ q \in Nat /\ r \in 0 .. n - 1
      /\ a = n * p + r /\ Floor(a, n) = n * p
      /\ b = n * q /\ Floor(b, n) = n * q
  <2>1. p \in Nat /\ r \in 0 .. n - 1 /\ a = n * p + r /\ Floor(a, n) = n * p
    BY Divided
  <2>2. q \in Nat /\ b = n * q + (b % n) /\ Floor(b, n) = n * q
    BY Divided
  <2>3. n * q \in Nat
    BY <2>2
  <2> HIDE DEF p, q, r
  <2> QED
    BY <2>1, <2>2, <2>3
<1> HIDE DEF p, q, r
<1>2. (n * p = n * q => p = q) /\ (n * q <= n * p + r /\ n * p + r < n * q + n => p = q)
  BY <1>1, SameQuotient
<1>3. (a >= b /\ a < b + n) => p = q
  BY <1>1, <1>2
<1>4. p = q => a >= b /\ a < b + n /\ a - b = r /\ Floor(a, n) = Floor(b, n)
  BY <1>1
<1>5. Floor(a, n) = Floor(b, n) => p = q
  BY <1>1, <1>2
<1> QED
  BY <1>3, <1>4, <1>5 DEF r

(* A block that starts in the address space on a multiple of a length that *)
(* divides it ends in it.                                                  *)
LEMMA EndsInSpace ==
    ASSUME NEW n \in Nat, n >= 1, NEW A \in Nat, A % n = 0, NEW b \in Nat, b < A
    PROVE  Floor(b, n) \in Nat /\ Floor(b, n) <= b /\ Floor(b, n) + n <= A
<1> DEFINE q == b \div n
           m == A \div n
<1>1. /\ q \in Nat /\ m \in Nat /\ A = n * m /\ b % n \in 0 .. n - 1
      /\ b = n * q + (b % n) /\ Floor(b, n) = n * q
  <2>1. q \in Nat /\ b % n \in 0 .. n - 1 /\ b = n * q + (b % n) /\ Floor(b, n) = n * q
    BY Divided
  <2>2. m \in Nat /\ A = n * m + (A % n) /\ n * m \in Nat
    BY Divided
  <2> HIDE DEF q, m
  <2> QED
    BY <2>1, <2>2
<1> HIDE DEF q, m
<1>2. n * q \in Nat /\ n * q <= b
  BY <1>1
<1>3. n * q < n * m
  BY <1>1, <1>2
<1>4. n * q + n <= n * m
  BY <1>1, <1>3, SameQuotient, 0 \in 0 .. n - 1
<1> QED
  BY <1>1, <1>2, <1>4

-----------------------------------------------------------------------------
(* The registers. *)
LEMMA Sizes ==
    /\ ASize \in Nat /\ ASize >= 16 /\ Segment \in Nat /\ 16 * Segment = ASize
    /\ \A n \in 0 .. 15 : n * Segment \in Addr
    /\ Longest - 1 \in Nat
    /\ \A n \in Blocks : n * Unit \in Nat /\ n * Unit >= 1 /\ ASize % (n * Unit) = 0
<1>1. /\ Unit \in Nat /\ Unit >= 1 /\ Longest \in Nat /\ Longest >= 1
      /\ ASize = 16 * (Longest * Unit)
  BY SizesAssumption
<1> DEFINE g == Longest * Unit
<1>2. g \in Nat /\ g >= 1 /\ ASize = 16 * g
  BY <1>1
<1> HIDE DEF g
<1>3. ASize \in Nat /\ ASize >= 16 /\ Segment = g
  BY <1>2 DEF Segment
<1>4. \A n \in 0 .. 15 : n * g \in 0 .. 16 * g - 1
  BY <1>2
<1>5. \A n \in Blocks : n * Unit \in Nat /\ n * Unit >= 1 /\ ASize % (n * Unit) = 0
  <2> TAKE n \in Blocks
  <2>1. n \in Nat /\ n >= 1
    BY SizesAssumption
  <2>2. n * Unit \in Nat /\ n * Unit >= 1
    BY <1>1, <2>1
  <2> QED
    BY <2>2, SizesAssumption
<1> QED
  BY <1>1, <1>2, <1>3, <1>4, <1>5 DEF Addr

LEMMA SizeIs ==
    ASSUME TypeOK, NEW s \in Side, NEW i \in BatIdx
    PROVE  /\ upper[s][i].bepi \in Addr /\ upper[s][i].bepi \in Nat /\ upper[s][i].bepi < ASize
           /\ lower[s][i].bprn \in Nat /\ lower[s][i].bprn < ASize
           /\ Size(s, i) \in Nat
           /\ Size(s, i) # 0 => Size(s, i) >= 1 /\ ASize % Size(s, i) = 0
<1>1. upper[s][i] \in Upper /\ lower[s][i] \in Lower
  BY DEF TypeOK
<1>2. upper[s][i].bepi \in Addr /\ lower[s][i].bprn \in Addr /\ upper[s][i].bl \in Nat
  BY <1>1 DEF Upper, Lower
<1>3. Length(upper[s][i].bl) \in Nat
      /\ (Length(upper[s][i].bl) # 0 =>
             Length(upper[s][i].bl) >= 1 /\ ASize % Length(upper[s][i].bl) = 0)
  BY <1>2, Sizes DEF Length
<1> QED
  BY <1>2, <1>3, Sizes DEF Addr, Size

LEMMA InitTypes == Init => TypeOK
<1> SUFFICES ASSUME Init PROVE TypeOK
  OBVIOUS
<1>1. \A n \in 0 .. 15 : At(n) \in Upper /\ To(n) \in Lower
  BY Sizes DEF At, To, Upper, Lower
<1>2. NoUpper \in Upper /\ NoLower \in Lower
  BY Sizes DEF NoUpper, NoLower, Upper, Lower, Addr
<1>3. \A s \in Side, i \in BatIdx :
          /\ (CASE i = 0             -> At(8)
                [] i = 1 /\ s = "D"  -> At(12)
                [] i = 4             -> At(9)
                [] i = 5 /\ s = "D"  -> At(13)
                [] OTHER             -> NoUpper) \in Upper
          /\ (CASE i = 0 \/ (i = 1 /\ s = "D") -> To(0)
                [] i = 4 \/ (i = 5 /\ s = "D") -> To(1)
                [] OTHER                       -> NoLower) \in Lower
  BY <1>1, <1>2
<1> QED
  BY <1>3 DEF Init, TypeOK

LEMMA NextTypes == TypeOK /\ [Next]_vars => TypeOK'
<1> SUFFICES ASSUME TypeOK, [Next]_vars PROVE TypeOK'
  OBVIOUS
<1>1. ASSUME NEW w \in Writes, MtsprBatU(w) PROVE TypeOK'
  BY <1>1, WritesAssumption DEF MtsprBatU, TypeOK
<1>2. ASSUME NEW w \in Writes, MtsprBatL(w) PROVE TypeOK'
  BY <1>2, WritesAssumption DEF MtsprBatL, TypeOK
<1>3. CASE UNCHANGED vars
  BY <1>3 DEF vars, TypeOK
<1> QED
  BY <1>1, <1>2, <1>3 DEF Next

-----------------------------------------------------------------------------
(* The code's comparison is the processor's, but for a block at the top.   *)
LEMMA Hits ==
    ASSUME TypeOK, NEW s \in Side, WellFormed(s), NEW i \in BatIdx, NEW a \in Addr
    PROVE  upper[s][i].valid /\ Within(a, upper[s][i].bepi, Size(s, i))
               <=> Matches(a, s, i) /\ ~EndsAtTop(s, i)
<1> DEFINE b == upper[s][i].bepi
           n == Size(s, i)
<1>1. /\ b \in Nat /\ b < ASize /\ a \in Nat /\ n \in Nat /\ ASize \in Nat /\ ASize >= 16
      /\ n # 0 => n >= 1 /\ ASize % n = 0
  BY SizeIs, Sizes DEF Addr
<1>2. upper[s][i].valid /\ n # 0 => b % n = 0
  BY DEF WellFormed
<1>3. /\ Matches(a, s, i) <=> upper[s][i].valid /\ n # 0 /\ Floor(a, n) = Floor(b, n)
      /\ EndsAtTop(s, i) <=> b + n = ASize
  BY DEF Matches, EndsAtTop
<1> HIDE DEF b, n
<1>4. CASE n = 0
  <2>1. (b + n) % ASize = b
    BY <1>1, <1>4
  <2> QED
    BY <1>1, <1>3, <1>4, <2>1 DEF Within, b, n
<1>5. CASE n # 0 /\ upper[s][i].valid
  <2>1. Floor(b, n) = b
    BY <1>1, <1>2, <1>5 DEF Floor
  <2>2. b + n <= ASize
    BY <1>1, <1>5, <2>1, EndsInSpace
  <2>3. (a >= b /\ a < b + n) <=> Floor(a, n) = Floor(b, n)
    BY <1>1, <1>2, <1>5, InBlock
  <2>4. CASE b + n = ASize
    <3>1. (b + n) % ASize = 0
      BY <1>1, <2>4
    <3>2. ~Within(a, b, n)
      BY <1>1, <3>1 DEF Within
    <3> QED
      BY <1>3, <2>4, <3>2 DEF b, n
  <2>5. CASE b + n < ASize
    <3>1. (b + n) % ASize = b + n
      BY <1>1, <2>5
    <3>2. Within(a, b, n) <=> Floor(a, n) = Floor(b, n)
      BY <2>3, <3>1 DEF Within
    <3> QED
      BY <1>1, <1>3, <1>5, <2>5, <3>2 DEF b, n
  <2> QED
    BY <1>1, <2>2, <2>4, <2>5
<1> QED
  BY <1>3, <1>4, <1>5

(* Where an address is in a block, the code adds its offset to the block's *)
(* physical base; the processor replaces the bits above the length.        *)
LEMMA SameAddress ==
    ASSUME TypeOK, NEW s \in Side, WellFormed(s), NEW i \in BatIdx, NEW a \in Addr, Matches(a, s, i)
    PROVE  (Floor(lower[s][i].bprn, Size(s, i)) + (a - upper[s][i].bepi)) % ASize = Replaced(a, s, i)
<1> DEFINE b == upper[s][i].bepi
           n == Size(s, i)
           p == lower[s][i].bprn
<1>1. /\ b \in Nat /\ a \in Nat /\ p \in Nat /\ p < ASize /\ ASize \in Nat
      /\ n \in Nat /\ n >= 1 /\ ASize % n = 0 /\ b % n = 0 /\ Floor(a, n) = Floor(b, n)
  BY SizeIs, Sizes DEF Addr, Matches, WellFormed
<1> HIDE DEF b, n, p
<1>2. a - b = a % n /\ a % n \in 0 .. n - 1
  BY <1>1, InBlock, Divided
<1>3. Floor(p, n) \in Nat /\ Floor(p, n) + n <= ASize
  BY <1>1, EndsInSpace
<1>4. Floor(p, n) + (a % n) \in Nat /\ Floor(p, n) + (a % n) < ASize
  BY <1>1, <1>2, <1>3
<1>5. (Floor(p, n) + (a % n)) % ASize = Floor(p, n) + (a % n)
  BY <1>1, <1>4
<1> QED
  BY <1>2, <1>5 DEF Replaced, b, n, p

LEMMA Translates == TypeOK => TranslatesLikeHardware
<1> SUFFICES ASSUME TypeOK, NEW s \in Side, WellFormed(s), NEW a \in Addr
             PROVE  LET r == E_MemVirtToPhys(a, s)
                    IN  /\ r.mapped <=> \E i \in BatIdx : Matches(a, s, i) /\ ~EndsAtTop(s, i)
                        /\ \A i \in BatIdx : Matches(a, s, i) /\ r.mapped => r.addr = Replaced(a, s, i)
  BY DEF TranslatesLikeHardware
<1> DEFINE r    == E_MemVirtToPhys(a, s)
           hits == {i \in BatIdx : upper[s][i].valid /\ Within(a, upper[s][i].bepi, Size(s, i))}
<1>1. hits = {i \in BatIdx : Matches(a, s, i) /\ ~EndsAtTop(s, i)}
  BY Hits
<1>2. CASE hits = {}
  <2>1. r = NotMapped
    BY <1>2 DEF E_MemVirtToPhys
  <2> QED
    BY <1>1, <1>2, <2>1 DEF NotMapped
<1>3. CASE hits # {}
  <2>1. PICK i \in hits : TRUE
    BY <1>3
  <2>2. i \in BatIdx /\ Matches(a, s, i) /\ ~EndsAtTop(s, i)
    BY <1>1, <2>1
  <2>3. \A j \in BatIdx : Matches(a, s, j) => j = i
    BY <2>2 DEF WellFormed
  <2>4. hits = {i}
    BY <1>1, <2>1, <2>2, <2>3
  <2>5. Least(hits) = i
    <3>1. i <= i
      BY <2>2, SizesAssumption DEF BatIdx
    <3>2. Least({i}) = i
      BY <3>1 DEF Least
    <3> QED
      BY <2>4, <3>2
  <2>6. r.mapped /\ r.addr = (Floor(lower[s][i].bprn, Size(s, i)) + (a - upper[s][i].bepi)) % ASize
    BY <1>3, <2>5 DEF E_MemVirtToPhys
  <2>7. r.addr = Replaced(a, s, i)
    BY <2>2, <2>6, SameAddress
  <2> QED
    BY <2>2, <2>3, <2>6, <2>7
<1> QED
  BY <1>2, <1>3

LEMMA DataResolves == TypeOK => DataResolvesLikeHardware
<1> SUFFICES ASSUME TypeOK, WellFormed("I"), WellFormed("D"), NEW a \in Addr, NEW d \in BatIdx,
                    Matches(a, "D", d), ~EndsAtTop("D", d),
                    \A i \in BatIdx : Matches(a, "I", i) => Replaced(a, "I", i) = Replaced(a, "D", d)
             PROVE  Resolve(a).mapped /\ Resolve(a).addr = Replaced(a, "D", d)
  BY DEF DataResolvesLikeHardware
<1> DEFINE f == E_MemVirtToPhys(a, "I")
           r == E_MemVirtToPhys(a, "D")
<1>1. TranslatesLikeHardware /\ "I" \in Side /\ "D" \in Side
  BY Translates DEF Side
<1>2. /\ f.mapped <=> \E i \in BatIdx : Matches(a, "I", i) /\ ~EndsAtTop("I", i)
      /\ \A i \in BatIdx : Matches(a, "I", i) /\ f.mapped => f.addr = Replaced(a, "I", i)
  BY <1>1 DEF TranslatesLikeHardware
<1>3. r.mapped /\ r.addr = Replaced(a, "D", d)
  BY <1>1 DEF TranslatesLikeHardware
<1>4. Resolve(a) = IF f.mapped THEN f ELSE r
  BY DEF Resolve
<1> HIDE DEF f, r
<1> QED
  BY <1>2, <1>3, <1>4

-----------------------------------------------------------------------------
(* Every BAT keeps addresses and a length (cpu/mtspr.c). *)
THEOREM TypeCorrect == Spec => []TypeOK
BY InitTypes, NextTypes, PTL DEF Spec

(* For every address and every programming of the BATs the processor       *)
(* allows, E_MemVirtToPhys finds the block the processor finds and the     *)
(* address it gives, except for a block at the top of the address space    *)
(* (mem.c:592).                                                            *)
THEOREM TranslatesLikeHardwareHolds == Spec => []TranslatesLikeHardware
BY TypeCorrect, Translates, PTL

(* The SIGSEGV handler tries the IBATs first even for data: it gets the    *)
(* processor's address where both sides agree (emu.c:218).                 *)
THEOREM DataResolvesLikeHardwareHolds == Spec => []DataResolvesLikeHardware
BY TypeCorrect, DataResolves, PTL
=============================================================================
