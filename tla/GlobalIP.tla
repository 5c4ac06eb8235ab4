------------------------------- MODULE GlobalIP -------------------------------
(***************************************************************************)
(* Which addresses are global ones (json-dns/globalip.go).  doh-server and *)
(* doh-client send only such an address upstream as a client subnet.  An   *)
(* address is a sequence of 4 or 16 bytes, as net.IP is.                   *)
(***************************************************************************)
EXTENDS Integers, Sequences

(* nil *)
NoIP == <<>>

(* What net.ParseIP and net.ResolveTCPAddr return. *)
Bytes(n) == [1..n -> 0..255]

IP == {NoIP} \cup Bytes(4) \cup Bytes(16)

Net(ip, mask) == [ip |-> ip, mask |-> mask]

(* An IPv6 address or mask: the bytes given, then zeros. *)
V6(bytes) == [i \in 1..16 |-> IF i <= Len(bytes) THEN bytes[i] ELSE 0]

localIPv4Nets ==
    {Net(<<0, 0, 0, 0>>, <<255, 0, 0, 0>>),
     Net(<<10, 0, 0, 0>>, <<255, 0, 0, 0>>),
     Net(<<100, 64, 0, 0>>, <<255, 192, 0, 0>>),
     Net(<<127, 0, 0, 0>>, <<255, 0, 0, 0>>),
     Net(<<169, 254, 0, 0>>, <<255, 255, 0, 0>>),
     Net(<<172, 16, 0, 0>>, <<255, 240, 0, 0>>),
     Net(<<192, 0, 0, 0>>, <<255, 255, 255, 248>>),
     Net(<<192, 88, 99, 0>>, <<255, 255, 255, 0>>),
     Net(<<192, 168, 0, 0>>, <<255, 255, 0, 0>>),
     Net(<<240, 0, 0, 0>>, <<240, 0, 0, 0>>)}

localIPv6Nets ==
    {Net(V6(<<>>), [i \in 1..16 |-> IF i = 16 THEN 254 ELSE 255]),
     Net(V6(<<1>>), V6(<<255, 255, 255, 255, 255, 255, 255, 255>>)),
     Net(V6(<<252>>), V6(<<254>>)),
     Net(V6(<<254, 128>>), V6(<<255, 192>>))}

Mapped(ip) ==
    /\ Len(ip) = 16
    /\ \A i \in 1..10 : ip[i] = 0
    /\ ip[11] = 255 /\ ip[12] = 255

(* net.IP.To4: the IPv4 address that ip is, in either form, or nil. *)
To4(ip) ==
    CASE Len(ip) = 4 -> ip
      [] Mapped(ip)  -> SubSeq(ip, 13, 16)
      [] OTHER       -> NoIP

(* The bitwise and of byte x and mask byte m, whose ones are its highest bits. *)
Masked(x, m) == x - (x % (256 - m))

(* An IPv4 address in 4 bytes, any other as it is. *)
Short(ip) == IF To4(ip) # NoIP THEN To4(ip) ELSE ip

(* net.IPNet.Contains. *)
InNet(n, ip) ==
    LET x == Short(ip)
    IN  /\ Len(x) = Len(n.ip)
        /\ \A i \in DOMAIN x : Masked(x[i], n.mask[i]) = Masked(n.ip[i], n.mask[i])

(* Mutant: the form of the address decides which table is used. *)
IsGlobalByLength(ip) ==
    /\ ip # NoIP
    /\ \A n \in (IF Len(ip) = 4 THEN localIPv4Nets ELSE localIPv6Nets) : ~InNet(n, ip)

IsGlobalIP(ip) ==
    /\ ip # NoIP
    /\ \A n \in (IF Len(To4(ip)) = 4 THEN localIPv4Nets ELSE localIPv6Nets) : ~InNet(n, ip)
-------------------------------------------------------------------------------
(* The reference: the first and last address of each block of RFC 6890 that the table names. *)

Block(first, last) == [first |-> first, last |-> last]

Fill(bytes) == [i \in 1..16 |-> IF i <= Len(bytes) THEN bytes[i] ELSE 255]

LocalBlocks ==
    {Block(<<0, 0, 0, 0>>, <<0, 255, 255, 255>>),
     Block(<<10, 0, 0, 0>>, <<10, 255, 255, 255>>),
     Block(<<100, 64, 0, 0>>, <<100, 127, 255, 255>>),
     Block(<<127, 0, 0, 0>>, <<127, 255, 255, 255>>),
     Block(<<169, 254, 0, 0>>, <<169, 254, 255, 255>>),
     Block(<<172, 16, 0, 0>>, <<172, 31, 255, 255>>),
     Block(<<192, 0, 0, 0>>, <<192, 0, 0, 7>>),
     Block(<<192, 88, 99, 0>>, <<192, 88, 99, 255>>),
     Block(<<192, 168, 0, 0>>, <<192, 168, 255, 255>>),
     Block(<<240, 0, 0, 0>>, <<255, 255, 255, 255>>),
     Block(V6(<<>>), [i \in 1..16 |-> IF i = 16 THEN 1 ELSE 0]),
     Block(V6(<<1>>), Fill(<<1, 0, 0, 0, 0, 0, 0, 0>>)),
     Block(V6(<<252>>), Fill(<<253>>)),
     Block(V6(<<254, 128>>), Fill(<<254, 191>>))}

(* The order of addresses of one length. *)
NotAbove(x, y) ==
    \/ x = y
    \/ \E i \in DOMAIN x : x[i] < y[i] /\ \A j \in 1..i - 1 : x[j] = y[j]

InBlock(x, r) == Len(x) = Len(r.first) /\ NotAbove(r.first, x) /\ NotAbove(x, r.last)

(* An address, in 4 or 16 bytes, that lies in no block. *)
Public(ip) == ip # NoIP /\ \A b \in LocalBlocks : ~InBlock(Short(ip), b)
===============================================================================
