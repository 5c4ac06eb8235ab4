---------------------------- MODULE GlobalIP_proofs ----------------------------
(***************************************************************************)
(* IsGlobalIP for every address: the tables of net.IPNet and the search in *)
(* them are the blocks of RFC 6890, from the first address to the last.    *)
(***************************************************************************)
EXTENDS GlobalIP, WellFoundedInduction, TLAPS

(* A set of natural numbers has a least one. *)
LEMMA Least ==
    ASSUME NEW S \in SUBSET Nat, S # {}
    PROVE  \E m \in S : \A n \in S : m <= n
<1>1. PICK m \in S : \A n \in S : <<n, m>> \notin OpToRel(<, Nat)
  BY NatLessThanWellFounded, WFMin
<1>2. \A n \in S : ~(n < m)
  BY <1>1 DEF OpToRel
<1> QED
  BY <1>2

(* The bytes of an address. *)
LEMMA ByteOf ==
    ASSUME NEW N \in Nat, NEW x \in Bytes(N)
    PROVE  /\ DOMAIN x = 1..N
           /\ \A i \in 1..N : x[i] \in 0..255 /\ x[i] \in Int /\ 0 <= x[i] /\ x[i] <= 255
<1>1. DOMAIN x = 1..N
  BY DEF Bytes
<1>2. \A i \in 1..N : x[i] \in 0..255
  BY DEF Bytes
<1>3. \A y \in 0..255 : y \in Int /\ 0 <= y /\ y <= 255
  OBVIOUS
<1> QED
  BY <1>1, <1>2, <1>3, Zenon

(* The lexical order: an address whose first difference from another is downwards is below it. *)
LEMMA NotAboveByBytes ==
    ASSUME NEW N \in Nat, NEW x \in Bytes(N), NEW y \in Bytes(N),
           \A i \in 1..N : x[i] <= y[i]
    PROVE  NotAbove(x, y)
<1> DEFINE D == {i \in 1..N : x[i] # y[i]}
<1>a. DOMAIN x = 1..N /\ \A i \in 1..N : x[i] \in Int /\ y[i] \in Int
  BY ByteOf
<1>0. x = [i \in 1..N |-> x[i]] /\ y = [i \in 1..N |-> y[i]]
  BY DEF Bytes
<1>1. CASE D = {}
  BY <1>0, <1>1 DEF NotAbove
<1>2. CASE D # {}
  <2>1. D \in SUBSET Nat
    OBVIOUS
  <2> HIDE DEF D
  <2>2. PICK i \in D : \A n \in D : i <= n
    BY <1>2, <2>1, Least
  <2>3. i \in 1..N /\ x[i] # y[i] /\ \A j \in 1..i - 1 : x[j] = y[j]
    BY <2>2 DEF D
  <2>4. x[i] < y[i]
    BY <1>a, <2>3
  <2> QED
    BY <1>a, <2>3, <2>4 DEF NotAbove
<1> QED
  BY <1>1, <1>2

(* Two addresses that differ in byte k and end in zeros and in ones. *)
Ends(first, last, k, N) ==
    /\ \A i \in 1..N : i < k => first[i] = last[i]
    /\ first[k] <= last[k]
    /\ \A i \in 1..N : i > k => first[i] = 0 /\ last[i] = 255

(* The addresses between them, by byte k and the bytes before it. *)
Within(x, first, last, k, N) ==
    /\ \A i \in 1..N : i < k => x[i] = first[i]
    /\ first[k] <= x[k] /\ x[k] <= last[k]

(* What lies between the ends of a block. *)
LEMMA Between ==
    ASSUME NEW N \in Nat, NEW k \in 1..N,
           NEW first \in Bytes(N), NEW last \in Bytes(N), NEW x \in Bytes(N),
           Ends(first, last, k, N)
    PROVE  NotAbove(first, x) /\ NotAbove(x, last) <=> Within(x, first, last, k, N)
<1> USE DEF Ends, Within
<1>a. DOMAIN x = 1..N /\ DOMAIN first = 1..N
  BY ByteOf
<1>0. \A i \in 1..N : /\ x[i] \in Int /\ first[i] \in Int /\ last[i] \in Int
                      /\ 0 <= x[i] /\ x[i] <= 255
  BY ByteOf
<1>1. ASSUME \A i \in 1..N : i < k => x[i] = first[i], first[k] <= x[k], x[k] <= last[k]
      PROVE  NotAbove(first, x) /\ NotAbove(x, last)
  <2>1. \A i \in 1..N : first[i] <= x[i] /\ x[i] <= last[i]
    <3> TAKE i \in 1..N
    <3>1. CASE i < k
      BY <1>0, <1>1, <3>1
    <3>2. CASE i = k
      BY <1>1, <3>2
    <3>3. CASE i > k
      BY <1>0, <3>3
    <3> QED
      BY <3>1, <3>2, <3>3
  <2> QED
    BY <2>1, NotAboveByBytes
<1>2. ASSUME NotAbove(first, x), NotAbove(x, last)
      PROVE  (\A i \in 1..N : i < k => x[i] = first[i]) /\ first[k] <= x[k] /\ x[k] <= last[k]
  <2>1. CASE x = first
    BY <1>0, <2>1
  <2>2. CASE x = last
    BY <1>0, <2>2
  <2>3. CASE x # first /\ x # last
    <3>1. PICK a \in 1..N : first[a] < x[a] /\ \A j \in 1..a - 1 : first[j] = x[j]
      BY <1>a, <1>2, <2>3 DEF NotAbove
    <3>2. PICK b \in 1..N : x[b] < last[b] /\ \A j \in 1..b - 1 : x[j] = last[j]
      BY <1>a, <1>2, <2>3 DEF NotAbove
    <3>3. /\ \A j \in 1..N : j < a => first[j] = x[j]
          /\ \A j \in 1..N : j < b => x[j] = last[j]
      BY <3>1, <3>2
    <3>4. a >= k
      <4> SUFFICES ASSUME a < k PROVE FALSE
        OBVIOUS
      <4>1. first[a] = last[a]
        OBVIOUS
      <4>2. CASE b < a
        BY <1>0, <3>2, <3>3, <4>2
      <4>3. CASE b = a
        BY <1>0, <3>1, <3>2, <4>1, <4>3
      <4>4. CASE b > a
        BY <1>0, <3>1, <3>3, <4>1, <4>4
      <4> QED
        BY <4>2, <4>3, <4>4
    <3>5. b >= k
      <4> SUFFICES ASSUME b < k PROVE FALSE
        OBVIOUS
      <4>1. x[b] = first[b] /\ first[b] = last[b]
        BY <3>3, <3>4
      <4> QED
        BY <1>0, <3>2, <4>1
    <3>6. first[k] <= x[k]
      <4>1. CASE a = k
        BY <1>0, <3>1, <4>1
      <4>2. CASE a > k
        BY <1>0, <3>3, <4>2
      <4> QED
        BY <3>4, <4>1, <4>2
    <3>7. x[k] <= last[k]
      <4>1. CASE b = k
        BY <1>0, <3>2, <4>1
      <4>2. CASE b > k
        BY <1>0, <3>3, <4>2
      <4> QED
        BY <3>5, <4>1, <4>2
    <3> QED
      BY <3>3, <3>4, <3>6, <3>7
  <2> QED
    BY <2>1, <2>2, <2>3
<1> QED
  BY <1>1, <1>2

(* The length of an address of n bytes. *)
LEMMA AddressLength ==
    ASSUME NEW n \in Nat, NEW x \in Bytes(n)
    PROVE  Len(x) = n /\ DOMAIN x = 1..n
  BY DEF Bytes

(* A mask byte of ones. *)
LEMMA MaskOnes == \A x \in 0..255 : Masked(x, 255) = x
  BY DEF Masked

(* A mask byte of zeros. *)
LEMMA MaskZeros == \A x \in 0..255 : Masked(x, 0) = 0
  BY DEF Masked

(* The bytes that the mask bytes between ones and zeros tell apart. *)
LEMMA MaskedByte ==
    /\ \A x \in 0..255, y \in {0, 252} : Masked(x, 254) = y <=> y <= x /\ x <= y + 1
    /\ \A x \in 0..255 : Masked(x, 248) = 0 <=> x <= 7
    /\ \A x \in 0..255, y \in {16, 240} : Masked(x, 240) = y <=> y <= x /\ x <= y + 15
    /\ \A x \in 0..255, y \in {64, 128} : Masked(x, 192) = y <=> y <= x /\ x <= y + 63
<1>3. \A x \in 0..255, y \in {0, 252} : Masked(x, 254) = y <=> y <= x /\ x <= y + 1
  BY DEF Masked
<1>4. \A x \in 0..255 : Masked(x, 248) = 0 <=> x <= 7
  BY DEF Masked
<1>5. \A x \in 0..255, y \in {16, 240} : Masked(x, 240) = y <=> y <= x /\ x <= y + 15
  BY DEF Masked
<1>6. \A x \in 0..255, y \in {64, 128} : Masked(x, 192) = y <=> y <= x /\ x <= y + 63
  BY DEF Masked
<1> QED
  BY <1>3, <1>4, <1>5, <1>6

(* A net and a block have the same addresses, of n bytes. *)
Same(net, block, n) ==
    /\ Len(net.ip) = n /\ Len(block.first) = n
    /\ \A x \in Bytes(n) :
          (\A i \in 1..n : Masked(x[i], net.mask[i]) = Masked(net.ip[i], net.mask[i]))
            <=> NotAbove(block.first, x) /\ NotAbove(x, block.last)

(* The mask has ones before byte k and zeros after it, and masks byte k to the range of it. *)
MaskFits(mask, first, last, k, N) ==
    /\ \A i \in 1..N : i < k => mask[i] = 255
    /\ \A i \in 1..N : i > k => mask[i] = 0
    /\ \A y \in 0..255 : Masked(y, mask[k]) = Masked(first[k], mask[k]) <=> first[k] <= y /\ y <= last[k]

(* An address that agrees with the net under such a mask lies in the block, and conversely. *)
LEMMA NetIsBlock ==
    ASSUME NEW N \in Nat, NEW k \in 1..N, NEW first \in Bytes(N), NEW last \in Bytes(N), NEW mask,
           Len(first) = N, Ends(first, last, k, N), MaskFits(mask, first, last, k, N)
    PROVE  Same(Net(first, mask), Block(first, last), N)
<1> SUFFICES ASSUME NEW x \in Bytes(N)
             PROVE  (\A i \in 1..N : Masked(x[i], mask[i]) = Masked(first[i], mask[i]))
                      <=> NotAbove(first, x) /\ NotAbove(x, last)
  BY DEF Same, Net, Block
<1>1. \A i \in 1..N : x[i] \in 0..255
  BY DEF Bytes
<1>2. \A i \in 1..N : first[i] \in 0..255
  BY DEF Bytes
<1>3. NotAbove(first, x) /\ NotAbove(x, last) <=> Within(x, first, last, k, N)
  BY Between
<1>4. \A i \in 1..N : i < k => (Masked(x[i], mask[i]) = Masked(first[i], mask[i]) <=> x[i] = first[i])
  <2> SUFFICES ASSUME NEW i \in 1..N, i < k
               PROVE  Masked(x[i], mask[i]) = Masked(first[i], mask[i]) <=> x[i] = first[i]
    OBVIOUS
  <2>1. x[i] \in 0..255 /\ first[i] \in 0..255 /\ mask[i] = 255
    BY ZenonT(30), <1>1, <1>2 DEF MaskFits
  <2>2. Masked(x[i], 255) = x[i] /\ Masked(first[i], 255) = first[i]
    BY ZenonT(30), <2>1, MaskOnes
  <2> QED
    BY <2>1, <2>2
<1>5. \A i \in 1..N : i > k => Masked(x[i], mask[i]) = Masked(first[i], mask[i])
  <2> SUFFICES ASSUME NEW i \in 1..N, i > k
               PROVE  Masked(x[i], mask[i]) = Masked(first[i], mask[i])
    OBVIOUS
  <2>1. x[i] \in 0..255 /\ first[i] \in 0..255 /\ mask[i] = 0
    BY ZenonT(30), <1>1, <1>2 DEF MaskFits
  <2>2. Masked(x[i], 0) = 0 /\ Masked(first[i], 0) = 0
    BY <2>1, MaskZeros
  <2> QED
    BY <2>1, <2>2
<1>6. Masked(x[k], mask[k]) = Masked(first[k], mask[k]) <=> first[k] <= x[k] /\ x[k] <= last[k]
  BY <1>1 DEF MaskFits
<1>7. \A i \in 1..N : i < k \/ i = k \/ i > k
  OBVIOUS
<1>8. (\A i \in 1..N : Masked(x[i], mask[i]) = Masked(first[i], mask[i])) <=> Within(x, first, last, k, N)
  BY <1>4, <1>5, <1>6, <1>7, Zenon DEF Within
<1> QED
  BY <1>3, <1>8

(* A net of 4 bytes. *)
LEMMA V4Net ==
    ASSUME NEW first \in Bytes(4), NEW last \in Bytes(4), NEW mask, NEW k \in 1..4,
           Len(first) = 4, Ends(first, last, k, 4), MaskFits(mask, first, last, k, 4)
    PROVE  Same(Net(first, mask), Block(first, last), 4)
<1>1. 4 \in Nat
  OBVIOUS
<1> QED
  BY <1>1, NetIsBlock

(* The blocks of IPv4. *)
LEMMA V4Blocks ==
    /\ Same(Net(<<0, 0, 0, 0>>, <<255, 0, 0, 0>>), Block(<<0, 0, 0, 0>>, <<0, 255, 255, 255>>), 4)
    /\ Same(Net(<<10, 0, 0, 0>>, <<255, 0, 0, 0>>), Block(<<10, 0, 0, 0>>, <<10, 255, 255, 255>>), 4)
    /\ Same(Net(<<100, 64, 0, 0>>, <<255, 192, 0, 0>>), Block(<<100, 64, 0, 0>>, <<100, 127, 255, 255>>), 4)
    /\ Same(Net(<<127, 0, 0, 0>>, <<255, 0, 0, 0>>), Block(<<127, 0, 0, 0>>, <<127, 255, 255, 255>>), 4)
    /\ Same(Net(<<169, 254, 0, 0>>, <<255, 255, 0, 0>>), Block(<<169, 254, 0, 0>>, <<169, 254, 255, 255>>), 4)
    /\ Same(Net(<<172, 16, 0, 0>>, <<255, 240, 0, 0>>), Block(<<172, 16, 0, 0>>, <<172, 31, 255, 255>>), 4)
    /\ Same(Net(<<192, 0, 0, 0>>, <<255, 255, 255, 248>>), Block(<<192, 0, 0, 0>>, <<192, 0, 0, 7>>), 4)
    /\ Same(Net(<<192, 88, 99, 0>>, <<255, 255, 255, 0>>), Block(<<192, 88, 99, 0>>, <<192, 88, 99, 255>>), 4)
    /\ Same(Net(<<192, 168, 0, 0>>, <<255, 255, 0, 0>>), Block(<<192, 168, 0, 0>>, <<192, 168, 255, 255>>), 4)
    /\ Same(Net(<<240, 0, 0, 0>>, <<240, 0, 0, 0>>), Block(<<240, 0, 0, 0>>, <<255, 255, 255, 255>>), 4)
<1>1. Same(Net(<<0, 0, 0, 0>>, <<255, 0, 0, 0>>), Block(<<0, 0, 0, 0>>, <<0, 255, 255, 255>>), 4)
  <2>1. <<0, 0, 0, 0>> \in Bytes(4) /\ <<0, 255, 255, 255>> \in Bytes(4)
    BY DEF Bytes
  <2>2. Ends(<<0, 0, 0, 0>>, <<0, 255, 255, 255>>, 1, 4)
    BY DEF Ends
  <2>3. MaskFits(<<255, 0, 0, 0>>, <<0, 0, 0, 0>>, <<0, 255, 255, 255>>, 1, 4)
    BY MaskOnes DEF MaskFits
  <2> QED
    BY <2>1, <2>2, <2>3, V4Net
<1>2. Same(Net(<<10, 0, 0, 0>>, <<255, 0, 0, 0>>), Block(<<10, 0, 0, 0>>, <<10, 255, 255, 255>>), 4)
  <2>1. <<10, 0, 0, 0>> \in Bytes(4) /\ <<10, 255, 255, 255>> \in Bytes(4)
    BY DEF Bytes
  <2>2. Ends(<<10, 0, 0, 0>>, <<10, 255, 255, 255>>, 1, 4)
    BY DEF Ends
  <2>3. MaskFits(<<255, 0, 0, 0>>, <<10, 0, 0, 0>>, <<10, 255, 255, 255>>, 1, 4)
    BY MaskOnes DEF MaskFits
  <2> QED
    BY <2>1, <2>2, <2>3, V4Net
<1>3. Same(Net(<<100, 64, 0, 0>>, <<255, 192, 0, 0>>), Block(<<100, 64, 0, 0>>, <<100, 127, 255, 255>>), 4)
  <2>1. <<100, 64, 0, 0>> \in Bytes(4) /\ <<100, 127, 255, 255>> \in Bytes(4)
    BY DEF Bytes
  <2>2. Ends(<<100, 64, 0, 0>>, <<100, 127, 255, 255>>, 2, 4)
    BY DEF Ends
  <2>3. MaskFits(<<255, 192, 0, 0>>, <<100, 64, 0, 0>>, <<100, 127, 255, 255>>, 2, 4)
    BY MaskedByte DEF MaskFits
  <2> QED
    BY <2>1, <2>2, <2>3, V4Net
<1>4. Same(Net(<<127, 0, 0, 0>>, <<255, 0, 0, 0>>), Block(<<127, 0, 0, 0>>, <<127, 255, 255, 255>>), 4)
  <2>1. <<127, 0, 0, 0>> \in Bytes(4) /\ <<127, 255, 255, 255>> \in Bytes(4)
    BY DEF Bytes
  <2>2. Ends(<<127, 0, 0, 0>>, <<127, 255, 255, 255>>, 1, 4)
    BY DEF Ends
  <2>3. MaskFits(<<255, 0, 0, 0>>, <<127, 0, 0, 0>>, <<127, 255, 255, 255>>, 1, 4)
    BY MaskOnes DEF MaskFits
  <2> QED
    BY <2>1, <2>2, <2>3, V4Net
<1>5. Same(Net(<<169, 254, 0, 0>>, <<255, 255, 0, 0>>), Block(<<169, 254, 0, 0>>, <<169, 254, 255, 255>>), 4)
  <2>1. <<169, 254, 0, 0>> \in Bytes(4) /\ <<169, 254, 255, 255>> \in Bytes(4)
    BY DEF Bytes
  <2>2. Ends(<<169, 254, 0, 0>>, <<169, 254, 255, 255>>, 2, 4)
    BY DEF Ends
  <2>3. MaskFits(<<255, 255, 0, 0>>, <<169, 254, 0, 0>>, <<169, 254, 255, 255>>, 2, 4)
    BY MaskOnes DEF MaskFits
  <2> QED
    BY <2>1, <2>2, <2>3, V4Net
<1>6. Same(Net(<<172, 16, 0, 0>>, <<255, 240, 0, 0>>), Block(<<172, 16, 0, 0>>, <<172, 31, 255, 255>>), 4)
  <2>1. <<172, 16, 0, 0>> \in Bytes(4) /\ <<172, 31, 255, 255>> \in Bytes(4)
    BY DEF Bytes
  <2>2. Ends(<<172, 16, 0, 0>>, <<172, 31, 255, 255>>, 2, 4)
    BY DEF Ends
  <2>3. MaskFits(<<255, 240, 0, 0>>, <<172, 16, 0, 0>>, <<172, 31, 255, 255>>, 2, 4)
    BY MaskedByte DEF MaskFits
  <2> QED
    BY <2>1, <2>2, <2>3, V4Net
<1>7. Same(Net(<<192, 0, 0, 0>>, <<255, 255, 255, 248>>), Block(<<192, 0, 0, 0>>, <<192, 0, 0, 7>>), 4)
  <2>1. <<192, 0, 0, 0>> \in Bytes(4) /\ <<192, 0, 0, 7>> \in Bytes(4)
    BY DEF Bytes
  <2>2. Ends(<<192, 0, 0, 0>>, <<192, 0, 0, 7>>, 4, 4)
    BY DEF Ends
  <2>3. MaskFits(<<255, 255, 255, 248>>, <<192, 0, 0, 0>>, <<192, 0, 0, 7>>, 4, 4)
    BY MaskedByte DEF MaskFits
  <2> QED
    BY <2>1, <2>2, <2>3, V4Net
<1>8. Same(Net(<<192, 88, 99, 0>>, <<255, 255, 255, 0>>), Block(<<192, 88, 99, 0>>, <<192, 88, 99, 255>>), 4)
  <2>1. <<192, 88, 99, 0>> \in Bytes(4) /\ <<192, 88, 99, 255>> \in Bytes(4)
    BY DEF Bytes
  <2>2. Ends(<<192, 88, 99, 0>>, <<192, 88, 99, 255>>, 3, 4)
    BY DEF Ends
  <2>3. MaskFits(<<255, 255, 255, 0>>, <<192, 88, 99, 0>>, <<192, 88, 99, 255>>, 3, 4)
    BY MaskOnes DEF MaskFits
  <2> QED
    BY <2>1, <2>2, <2>3, V4Net
<1>9. Same(Net(<<192, 168, 0, 0>>, <<255, 255, 0, 0>>), Block(<<192, 168, 0, 0>>, <<192, 168, 255, 255>>), 4)
  <2>1. <<192, 168, 0, 0>> \in Bytes(4) /\ <<192, 168, 255, 255>> \in Bytes(4)
    BY DEF Bytes
  <2>2. Ends(<<192, 168, 0, 0>>, <<192, 168, 255, 255>>, 2, 4)
    BY DEF Ends
  <2>3. MaskFits(<<255, 255, 0, 0>>, <<192, 168, 0, 0>>, <<192, 168, 255, 255>>, 2, 4)
    BY MaskOnes DEF MaskFits
  <2> QED
    BY <2>1, <2>2, <2>3, V4Net
<1>10. Same(Net(<<240, 0, 0, 0>>, <<240, 0, 0, 0>>), Block(<<240, 0, 0, 0>>, <<255, 255, 255, 255>>), 4)
  <2>1. <<240, 0, 0, 0>> \in Bytes(4) /\ <<255, 255, 255, 255>> \in Bytes(4)
    BY DEF Bytes
  <2>2. Ends(<<240, 0, 0, 0>>, <<255, 255, 255, 255>>, 1, 4)
    BY DEF Ends
  <2>3. MaskFits(<<240, 0, 0, 0>>, <<240, 0, 0, 0>>, <<255, 255, 255, 255>>, 1, 4)
    BY MaskedByte DEF MaskFits
  <2> QED
    BY <2>1, <2>2, <2>3, V4Net
<1> QED
  BY <1>1, <1>2, <1>3, <1>4, <1>5, <1>6, <1>7, <1>8, <1>9, <1>10

(* A net of 16 bytes. *)
LEMMA V6Net ==
    ASSUME NEW first \in Bytes(16), NEW last \in Bytes(16), NEW mask, NEW k \in 1..16,
           Ends(first, last, k, 16), MaskFits(mask, first, last, k, 16)
    PROVE  Same(Net(first, mask), Block(first, last), 16)
<1>1. 16 \in Nat /\ Len(first) = 16
  BY AddressLength
<1> QED
  BY <1>1, NetIsBlock

(* The blocks of IPv6. *)
LEMMA V6Blocks ==
    /\ Same(Net(V6(<<>>), [i \in 1..16 |-> IF i = 16 THEN 254 ELSE 255]), Block(V6(<<>>), [i \in 1..16 |-> IF i = 16 THEN 1 ELSE 0]), 16)
    /\ Same(Net(V6(<<1>>), V6(<<255, 255, 255, 255, 255, 255, 255, 255>>)), Block(V6(<<1>>), Fill(<<1, 0, 0, 0, 0, 0, 0, 0>>)), 16)
    /\ Same(Net(V6(<<252>>), V6(<<254>>)), Block(V6(<<252>>), Fill(<<253>>)), 16)
    /\ Same(Net(V6(<<254, 128>>), V6(<<255, 192>>)), Block(V6(<<254, 128>>), Fill(<<254, 191>>)), 16)
<1>1. Same(Net(V6(<<>>), [i \in 1..16 |-> IF i = 16 THEN 254 ELSE 255]), Block(V6(<<>>), [i \in 1..16 |-> IF i = 16 THEN 1 ELSE 0]), 16)
  <2> DEFINE first == V6(<<>>)
             last == [i \in 1..16 |-> IF i = 16 THEN 1 ELSE 0]
             mask == [i \in 1..16 |-> IF i = 16 THEN 254 ELSE 255]
  <2>1. first \in Bytes(16) /\ last \in Bytes(16)
    BY DEF Bytes, V6, Fill
  <2>2. Ends(first, last, 16, 16)
    BY DEF Ends, V6, Fill
  <2>3. MaskFits(mask, first, last, 16, 16)
    <3>1. first[16] = 0 /\ last[16] = 1 /\ mask[16] = 254
      BY DEF V6, Fill
    <3>2. /\ \A i \in 1..16 : i < 16 => mask[i] = 255
          /\ \A i \in 1..16 : i > 16 => mask[i] = 0
      BY DEF V6
    <3>3. \A y \in 0..255 : Masked(y, 254) = Masked(0, 254) <=> 0 <= y /\ y <= 1
      BY MaskedByte
    <3> HIDE DEF first, last, mask
    <3> QED
      BY <3>1, <3>2, <3>3 DEF MaskFits
  <2> QED
    BY <2>1, <2>2, <2>3, V6Net
<1>2. Same(Net(V6(<<1>>), V6(<<255, 255, 255, 255, 255, 255, 255, 255>>)), Block(V6(<<1>>), Fill(<<1, 0, 0, 0, 0, 0, 0, 0>>)), 16)
  <2> DEFINE first == V6(<<1>>)
             last == Fill(<<1, 0, 0, 0, 0, 0, 0, 0>>)
             mask == V6(<<255, 255, 255, 255, 255, 255, 255, 255>>)
  <2>1. first \in Bytes(16) /\ last \in Bytes(16)
    BY DEF Bytes, V6, Fill
  <2>2. Ends(first, last, 8, 16)
    BY DEF Ends, V6, Fill
  <2>3. MaskFits(mask, first, last, 8, 16)
    BY MaskOnes DEF MaskFits, V6, Fill
  <2> QED
    BY <2>1, <2>2, <2>3, V6Net
<1>3. Same(Net(V6(<<252>>), V6(<<254>>)), Block(V6(<<252>>), Fill(<<253>>)), 16)
  <2> DEFINE first == V6(<<252>>)
             last == Fill(<<253>>)
             mask == V6(<<254>>)
  <2>1. first \in Bytes(16) /\ last \in Bytes(16)
    BY DEF Bytes, V6, Fill
  <2>2. Ends(first, last, 1, 16)
    BY DEF Ends, V6, Fill
  <2>3. MaskFits(mask, first, last, 1, 16)
    <3>1. first[1] = 252 /\ last[1] = 253 /\ mask[1] = 254
      BY DEF V6, Fill
    <3>2. /\ \A i \in 1..16 : i < 1 => mask[i] = 255
          /\ \A i \in 1..16 : i > 1 => mask[i] = 0
      BY DEF V6
    <3>3. \A y \in 0..255 : Masked(y, 254) = Masked(252, 254) <=> 252 <= y /\ y <= 253
      BY MaskedByte
    <3> HIDE DEF first, last, mask
    <3> QED
      BY <3>1, <3>2, <3>3 DEF MaskFits
  <2> QED
    BY <2>1, <2>2, <2>3, V6Net
<1>4. Same(Net(V6(<<254, 128>>), V6(<<255, 192>>)), Block(V6(<<254, 128>>), Fill(<<254, 191>>)), 16)
  <2> DEFINE first == V6(<<254, 128>>)
             last == Fill(<<254, 191>>)
             mask == V6(<<255, 192>>)
  <2>1. first \in Bytes(16) /\ last \in Bytes(16)
    BY DEF Bytes, V6, Fill
  <2>2. Ends(first, last, 2, 16)
    BY DEF Ends, V6, Fill
  <2>3. MaskFits(mask, first, last, 2, 16)
    <3>1. first[2] = 128 /\ last[2] = 191 /\ mask[2] = 192
      BY DEF V6, Fill
    <3>2. /\ \A i \in 1..16 : i < 2 => mask[i] = 255
          /\ \A i \in 1..16 : i > 2 => mask[i] = 0
      BY DEF V6
    <3>3. \A y \in 0..255 : Masked(y, 192) = Masked(128, 192) <=> 128 <= y /\ y <= 191
      BY MaskedByte
    <3> HIDE DEF first, last, mask
    <3> QED
      BY <3>1, <3>2, <3>3 DEF MaskFits
  <2> QED
    BY <2>1, <2>2, <2>3, V6Net
<1> QED
  BY <1>1, <1>2, <1>3, <1>4

(* A net has address x; InNet for an address in its short form. *)
Has(net, x) ==
    /\ Len(x) = Len(net.ip)
    /\ \A i \in DOMAIN x : Masked(x[i], net.mask[i]) = Masked(net.ip[i], net.mask[i])

(* A net of one length, and the block of it. *)
LEMMA OneNet ==
    ASSUME NEW n \in Nat, NEW x \in Bytes(n), NEW net, NEW block, Same(net, block, n)
    PROVE  Has(net, x) <=> InBlock(x, block)
<1>1. DOMAIN x = 1..n /\ Len(x) = n
  BY DEF Bytes
<1>2. /\ Len(net.ip) = n /\ Len(block.first) = n
      /\ (\A i \in 1..n : Masked(x[i], net.mask[i]) = Masked(net.ip[i], net.mask[i]))
            <=> NotAbove(block.first, x) /\ NotAbove(x, block.last)
  BY DEF Same
<1> QED
  BY <1>1, <1>2 DEF InBlock, Has

(* No block of one length has an address of the other. *)
LEMMA OtherLength ==
    ASSUME NEW n \in Nat, NEW m \in Nat, n # m, NEW x \in Bytes(n), NEW net, NEW block, Same(net, block, m)
    PROVE  ~InBlock(x, block)
<1>1. Len(x) = n
  BY DEF Bytes
<1> QED
  BY <1>1 DEF InBlock, Same

(* Every net has its block, and every block its net. *)
LEMMA Paired ==
    /\ \A n \in localIPv4Nets : \E b \in LocalBlocks : Same(n, b, 4)
    /\ \A n \in localIPv6Nets : \E b \in LocalBlocks : Same(n, b, 16)
    /\ \A b \in LocalBlocks : \/ \E n \in localIPv4Nets : Same(n, b, 4)
                              \/ \E n \in localIPv6Nets : Same(n, b, 16)
<1> DEFINE
      n1 == Net(<<0, 0, 0, 0>>, <<255, 0, 0, 0>>)
      b1 == Block(<<0, 0, 0, 0>>, <<0, 255, 255, 255>>)
      n2 == Net(<<10, 0, 0, 0>>, <<255, 0, 0, 0>>)
      b2 == Block(<<10, 0, 0, 0>>, <<10, 255, 255, 255>>)
      n3 == Net(<<100, 64, 0, 0>>, <<255, 192, 0, 0>>)
      b3 == Block(<<100, 64, 0, 0>>, <<100, 127, 255, 255>>)
      n4 == Net(<<127, 0, 0, 0>>, <<255, 0, 0, 0>>)
      b4 == Block(<<127, 0, 0, 0>>, <<127, 255, 255, 255>>)
      n5 == Net(<<169, 254, 0, 0>>, <<255, 255, 0, 0>>)
      b5 == Block(<<169, 254, 0, 0>>, <<169, 254, 255, 255>>)
      n6 == Net(<<172, 16, 0, 0>>, <<255, 240, 0, 0>>)
      b6 == Block(<<172, 16, 0, 0>>, <<172, 31, 255, 255>>)
      n7 == Net(<<192, 0, 0, 0>>, <<255, 255, 255, 248>>)
      b7 == Block(<<192, 0, 0, 0>>, <<192, 0, 0, 7>>)
      n8 == Net(<<192, 88, 99, 0>>, <<255, 255, 255, 0>>)
      b8 == Block(<<192, 88, 99, 0>>, <<192, 88, 99, 255>>)
      n9 == Net(<<192, 168, 0, 0>>, <<255, 255, 0, 0>>)
      b9 == Block(<<192, 168, 0, 0>>, <<192, 168, 255, 255>>)
      n10 == Net(<<240, 0, 0, 0>>, <<240, 0, 0, 0>>)
      b10 == Block(<<240, 0, 0, 0>>, <<255, 255, 255, 255>>)
      n11 == Net(V6(<<>>), [i \in 1..16 |-> IF i = 16 THEN 254 ELSE 255])
      b11 == Block(V6(<<>>), [i \in 1..16 |-> IF i = 16 THEN 1 ELSE 0])
      n12 == Net(V6(<<1>>), V6(<<255, 255, 255, 255, 255, 255, 255, 255>>))
      b12 == Block(V6(<<1>>), Fill(<<1, 0, 0, 0, 0, 0, 0, 0>>))
      n13 == Net(V6(<<252>>), V6(<<254>>))
      b13 == Block(V6(<<252>>), Fill(<<253>>))
      n14 == Net(V6(<<254, 128>>), V6(<<255, 192>>))
      b14 == Block(V6(<<254, 128>>), Fill(<<254, 191>>))
<1>1. /\ localIPv4Nets = {n1, n2, n3, n4, n5, n6, n7, n8, n9, n10}
      /\ localIPv6Nets = {n11, n12, n13, n14}
      /\ LocalBlocks = {b1, b2, b3, b4, b5, b6, b7, b8, b9, b10, b11, b12, b13, b14}
  BY DEF localIPv4Nets, localIPv6Nets, LocalBlocks
<1>2. /\ Same(n1, b1, 4)
      /\ Same(n2, b2, 4)
      /\ Same(n3, b3, 4)
      /\ Same(n4, b4, 4)
      /\ Same(n5, b5, 4)
      /\ Same(n6, b6, 4)
      /\ Same(n7, b7, 4)
      /\ Same(n8, b8, 4)
      /\ Same(n9, b9, 4)
      /\ Same(n10, b10, 4)
      /\ Same(n11, b11, 16)
      /\ Same(n12, b12, 16)
      /\ Same(n13, b13, 16)
      /\ Same(n14, b14, 16)
  BY V4Blocks, V6Blocks
<1> HIDE DEF n1, n2, n3, n4, n5, n6, n7, n8, n9, n10, n11, n12, n13, n14, b1, b2, b3, b4, b5, b6, b7, b8, b9, b10, b11, b12, b13, b14
<1> QED
  BY <1>1, <1>2, Zenon

(* The table of IPv4 has the addresses of 4 bytes that lie in some block. *)
LEMMA V4Table ==
    ASSUME NEW x \in Bytes(4)
    PROVE  (\E n \in localIPv4Nets : Has(n, x)) <=> \E b \in LocalBlocks : InBlock(x, b)
<1>1. 4 \in Nat /\ 16 \in Nat /\ 4 # 16
  OBVIOUS
<1>2. ASSUME NEW net, NEW block, Same(net, block, 4)
      PROVE  Has(net, x) <=> InBlock(x, block)
  BY <1>1, <1>2, OneNet
<1>3. ASSUME NEW net, NEW block, Same(net, block, 16)
      PROVE  ~InBlock(x, block)
  BY <1>1, <1>3, OtherLength
<1> QED
  BY <1>2, <1>3, Paired, Zenon

(* That of IPv6 has those of 16. *)
LEMMA V6Table ==
    ASSUME NEW x \in Bytes(16)
    PROVE  (\E n \in localIPv6Nets : Has(n, x)) <=> \E b \in LocalBlocks : InBlock(x, b)
<1>1. 4 \in Nat /\ 16 \in Nat /\ 4 # 16
  OBVIOUS
<1>2. ASSUME NEW net, NEW block, Same(net, block, 16)
      PROVE  Has(net, x) <=> InBlock(x, block)
  BY <1>1, <1>2, OneNet
<1>3. ASSUME NEW net, NEW block, Same(net, block, 4)
      PROVE  ~InBlock(x, block)
  BY <1>1, <1>3, OtherLength
<1> QED
  BY <1>2, <1>3, Paired, Zenon

(* The short form of an address. *)
LEMMA ShortForm ==
    ASSUME NEW ip \in IP, ip # NoIP
    PROVE  /\ ip \in Bytes(4) \/ Mapped(ip) =>
                  To4(ip) \in Bytes(4) /\ Len(To4(ip)) = 4 /\ Short(ip) = To4(ip)
           /\ ~(ip \in Bytes(4) \/ Mapped(ip)) =>
                  ip \in Bytes(16) /\ Len(To4(ip)) # 4 /\ Short(ip) = ip
<1>1. CASE ip \in Bytes(4)
  <2>1. Len(ip) = 4 /\ ip # <<>>
    BY <1>1 DEF Bytes
  <2>2. To4(ip) = ip
    BY <2>1 DEF To4, Mapped
  <2> QED
    BY <1>1, <2>1, <2>2 DEF Short, NoIP
<1>2. CASE ip \in Bytes(16)
  <2>1. Len(ip) = 16 /\ ip \notin Bytes(4)
    <3>1. Len(ip) = 16
      BY <1>2, AddressLength
    <3>2. ip \in Bytes(4) => Len(ip) = 4
      BY AddressLength
    <3> QED
      BY <3>1, <3>2
  <2>2. CASE Mapped(ip)
    <3>1. To4(ip) = SubSeq(ip, 13, 16)
      BY <2>1, <2>2 DEF To4
    <3>a. SubSeq(ip, 13, 16) = [i \in 1..4 |-> ip[i + 12]]
      BY <1>2 DEF Bytes
    <3>b. \A i \in 1..4 : ip[i + 12] \in 0..255
      BY SMTT(20), <1>2 DEF Bytes
    <3>2. SubSeq(ip, 13, 16) \in Bytes(4)
      BY <3>a, <3>b DEF Bytes
    <3>3. Len(SubSeq(ip, 13, 16)) = 4 /\ Len(<<>>) = 0
      BY <3>2, AddressLength
    <3> QED
      BY <2>2, <3>1, <3>2, <3>3 DEF Short, NoIP
  <2>3. CASE ~Mapped(ip)
    <3>1. To4(ip) = NoIP
      BY <2>1, <2>3 DEF To4
    <3>2. Len(NoIP) # 4
      BY DEF NoIP
    <3> QED
      BY <1>2, <2>1, <2>3, <3>1, <3>2 DEF Short
  <2> QED
    BY <2>2, <2>3
<1> QED
  BY <1>1, <1>2 DEF IP

(* IsGlobalIP takes exactly the addresses outside the blocks for global ones, IPv4 and IPv6, *)
(* in 4 or 16 bytes, and no address for none.                                               *)
THEOREM GlobalIsPublic == \A ip \in IP : IsGlobalIP(ip) <=> Public(ip)
<1> SUFFICES ASSUME NEW ip \in IP
             PROVE  IsGlobalIP(ip) <=> Public(ip)
  OBVIOUS
<1>1. CASE ip = NoIP
  BY <1>1 DEF IsGlobalIP, Public
<1>2. \A n : InNet(n, ip) <=> Has(n, Short(ip))
  BY DEF InNet, Has
<1>3. CASE ip # NoIP /\ (ip \in Bytes(4) \/ Mapped(ip))
  <2>1. Short(ip) \in Bytes(4) /\ Len(To4(ip)) = 4
    BY <1>3, ShortForm
  <2>2. (\E n \in localIPv4Nets : Has(n, Short(ip))) <=> \E b \in LocalBlocks : InBlock(Short(ip), b)
    BY <2>1, V4Table
  <2> QED
    BY <1>2, <1>3, <2>1, <2>2 DEF IsGlobalIP, Public
<1>4. CASE ip # NoIP /\ ~(ip \in Bytes(4) \/ Mapped(ip))
  <2>1. Short(ip) \in Bytes(16) /\ Len(To4(ip)) # 4
    BY <1>4, ShortForm
  <2>2. (\E n \in localIPv6Nets : Has(n, Short(ip))) <=> \E b \in LocalBlocks : InBlock(Short(ip), b)
    BY <2>1, V6Table
  <2> QED
    BY <1>2, <1>4, <2>1, <2>2 DEF IsGlobalIP, Public
<1> QED
  BY <1>1, <1>3, <1>4
===============================================================================
