----------------------------- MODULE Addresses -----------------------------
(***************************************************************************)
(* Addresses (src/src/tcp-ip/address.cpp): the networks of an IP address,  *)
(* the text it is printed as, and what Lookup() takes for an address and   *)
(* a port.  An IPv4 address is a number; an IPv6 address is the sequence   *)
(* of its octets, with the octet that lies behind them in a sockaddr_in6   *)
(* (the first of sin6_scope_id) at its end.                                *)
(***************************************************************************)
EXTENDS Integers, Sequences, SequencesExt, Bitwise

CONSTANTS Octet,        \* bits of an octet: 8
          OctetCount,   \* octets of an IPv6 address: 16
          Word          \* bits of an int and of an IPv4 address: 32

Full(w) == 2^w - 1
\* ~x at w bits.
Complement(x, w) == Full(w) - x

-----------------------------------------------------------------------------
(* Networks.  Each call gives the set of what it may return; nullptr is no *)
(* result.                                                                 *)

\* 1 << n for an int.  To shift by all its bits is undefined: the processor shifts by
\* none, and a compiler that knows n gives 0.  (Of 1 << 31 the mask takes 1 away, which
\* wraps.)
Shifted(n) == IF n < Word THEN {2^n} ELSE {0, 1}
\* CreateMask() for a type of w bits.
CreateMask(w, bits) == {(s - 1) % 2^w : s \in Shifted(w - bits)}

NetworkV4(a, prefix) == IF prefix > Word THEN {} ELSE {a & Complement(m, Word) : m \in CreateMask(Word, prefix)}
BroadcastV4(a, prefix) == IF prefix > Word THEN {} ELSE {a | m : m \in CreateMask(Word, prefix)}
SubnetMaskV4(prefix) == IF prefix > Word THEN {} ELSE {Complement(m, Word) : m \in CreateMask(Word, prefix)}

\* The octet at the border, s6_addr[prefix / 8]: with the longest prefix the one
\* behind the address.
Border(prefix) == prefix \div Octet + 1
\* The address with that octet and those on one side of it replaced.
NetworkV6(a, prefix) ==
  {[i \in DOMAIN a |-> IF i = Border(prefix) THEN a[i] & Complement(m, Octet)
                       ELSE IF i > Border(prefix) /\ i <= OctetCount THEN 0 ELSE a[i]]
     : m \in CreateMask(Octet, prefix % Octet)}
BroadcastV6(a, prefix) ==
  {[i \in DOMAIN a |-> IF i = Border(prefix) THEN a[i] | m
                       ELSE IF i > Border(prefix) /\ i <= OctetCount THEN Full(Octet) ELSE a[i]]
     : m \in CreateMask(Octet, prefix % Octet)}
SubnetMaskV6(prefix) ==
  {[i \in 1 .. OctetCount + 1 |-> IF i = Border(prefix) THEN Complement(m, Octet)
                              ELSE IF i < Border(prefix) THEN Full(Octet) ELSE 0]
     : m \in CreateMask(Octet, prefix % Octet)}

\* CountBytes(): the bits that are set, one cleared in each round.
CountBits[x \in Nat] == IF x = 0 THEN 0 ELSE 1 + CountBits[x & (x - 1)]

-----------------------------------------------------------------------------
(* Texts.                                                                  *)

HexDigit(n) == <<"0", "1", "2", "3", "4", "5", "6", "7", "8", "9", "a", "b", "c", "d", "e", "f">>[n + 1]
Based(base) == LET f[n \in Nat] == IF n < base THEN <<HexDigit(n)>> ELSE f[n \div base] \o <<HexDigit(n % base)>>
               IN f
Decimal(n) == Based(10)[n]
Hexadecimal(n) == Based(16)[n]

Colon == <<":">>
OctetText(a, i) == Decimal((a \div 2^(Octet * i)) % 2^Octet)
Dotted(a) ==
  OctetText(a, 3) \o <<".">> \o OctetText(a, 2) \o <<".">> \o OctetText(a, 1) \o <<".">> \o OctetText(a, 0)
PrintV4(a, port) == Dotted(a) \o Colon \o Decimal(port)

\* The groups of two octets.
Groups(a) == [i \in 1 .. OctetCount \div 2 |-> a[2 * i - 1] * 2^Octet + a[2 * i]]

\* Mutant of PrintGroup: every run of zeros is left out.
PrintGroupShort(g, out, i) ==
  IF g[i] = 0 THEN out
  ELSE LET gap == i > 1 /\ g[i - 1] = 0
       IN [text |-> out.text \o (IF gap THEN Colon ELSE <<>>) \o (IF i > 1 THEN Colon ELSE <<>>)
                      \o Hexadecimal(g[i]),
           zeros |-> out.zeros \/ gap]

\* One group: the first run of zeros is left out, and a second colon stands for it as
\* soon as it is over.
PrintGroup(g, out, i) ==
  IF g[i] = 0 /\ ~out.zeros THEN out
  ELSE LET gap == i > 1 /\ g[i - 1] = 0 /\ ~out.zeros
       IN [text |-> out.text \o (IF gap THEN Colon ELSE <<>>) \o (IF i > 1 THEN Colon ELSE <<>>)
                      \o Hexadecimal(g[i]),
           zeros |-> out.zeros \/ gap]
PrintGroups(g) ==
  LET out == FoldLeft(LAMBDA o, i : PrintGroup(g, o, i), [text |-> <<>>, zeros |-> FALSE], [i \in DOMAIN g |-> i])
  IN out.text \o (IF ~out.zeros /\ g[Len(g)] = 0 THEN Colon \o Colon ELSE <<>>)
PrintV6(a, port) == <<"[">> \o PrintGroups(Groups(a)) \o <<"]">> \o Colon \o Decimal(port)

\* Where a sign stands first in a text behind position i; 0 if nowhere.
Find(text, sign, i) == SelectInSubSeq(text, i + 1, Len(text), LAMBDA c : c = sign)
Behind(text, i) == SubSeq(text, i + 1, Len(text))
Node(address) == [address |-> address, service |-> FALSE, port |-> <<>>]
NodeAt(address, port) == [address |-> address, service |-> TRUE, port |-> port]

\* A host without brackets, or with nothing in them; of one with several colons the
\* address is empty and the first colon begins the port.
SplitPlain(host) ==
  LET i == Find(host, ":", 0) IN
  IF i = 0 THEN Node(host)
  ELSE IF Find(host, ":", i) = 0 THEN NodeAt(SubSeq(host, 1, i - 1), Behind(host, i))
  ELSE NodeAt(<<>>, Behind(host, i - 1))
\* What Lookup() asks getaddrinfo() for.
Split(host) ==
  LET end == IF host # <<>> /\ host[1] = "[" THEN Find(host, "]", 1) ELSE 0 IN
  IF end <= 2 THEN SplitPlain(host)
  ELSE IF end < Len(host) /\ host[end + 1] = ":" THEN NodeAt(SubSeq(host, 2, end - 1), Behind(host, end + 1))
  ELSE Node(SubSeq(host, 2, end - 1))

-----------------------------------------------------------------------------
(* What the calls are for.                                                 *)

\* An address of w bits with the bits behind the prefix cleared; the bits that may
\* follow it.
Kept(value, prefix, w) == value - (value % 2^(w - prefix))
Rest(prefix, w) == 2^(w - prefix) - 1
Value(octets) == FoldLeft(LAMBDA v, o : v * 2^Octet + o, 0, octets)
AddressOf(a) == Value(SubSeq(a, 1, OctetCount))
Scope(a) == a[OctetCount + 1]

\* The network, the broadcast address and the mask agree with the prefix, which can be
\* counted again; without a prefix the network may be the address itself.
NetworksV4(a) ==
  \A prefix \in 0 .. Word :
    LET lax(results) == IF prefix = 0 THEN results ELSE {} IN
    /\ NetworkV4(a, prefix) = {Kept(a, prefix, Word)} \cup lax({a})
    /\ BroadcastV4(a, prefix) = {Kept(a, prefix, Word) + Rest(prefix, Word)} \cup lax({a})
    /\ {CountBits[m] : m \in SubnetMaskV4(prefix)} = {prefix} \cup lax({Word})
    /\ {m & a : m \in SubnetMaskV4(prefix)} = NetworkV4(a, prefix)

\* The same for IPv6, where the longest prefix changes the octet behind the address.
NetworksV6(a) ==
  LET size == Octet * OctetCount IN
  \A prefix \in 0 .. size :
    /\ \A n \in NetworkV6(a, prefix) :
         /\ AddressOf(n) = Kept(AddressOf(a), prefix, size)
         /\ Scope(n) = IF prefix = size THEN 0 ELSE Scope(a)
    /\ \A b \in BroadcastV6(a, prefix) :
         /\ AddressOf(b) = Kept(AddressOf(a), prefix, size) + Rest(prefix, size)
         /\ Scope(b) = IF prefix = size THEN Full(Octet) ELSE Scope(a)
    /\ \A m \in SubnetMaskV6(prefix) :
         FoldLeft(LAMBDA n, o : n + CountBits[o], 0, SubSeq(m, 1, OctetCount)) = prefix

\* A text stands for groups: all of them, or those around some that are zero.
Joined(g) ==
  FoldLeft(LAMBDA text, i : text \o (IF i > 1 THEN Colon ELSE <<>>) \o Hexadecimal(g[i]),
           <<>>, [i \in DOMAIN g |-> i])
Means(text, g) ==
  \/ text = Joined(g)
  \/ \E i, j \in DOMAIN g :
       /\ i <= j /\ \A k \in i .. j : g[k] = 0
       /\ text = Joined(SubSeq(g, 1, i - 1)) \o Colon \o Colon \o Joined(SubSeq(g, j + 1, Len(g)))

\* What is printed means the address, and Lookup() finds address and port in it.
PrintedV6(a, port) ==
  /\ Means(PrintGroups(Groups(a)), Groups(a))
  /\ Split(PrintV6(a, port)) = NodeAt(PrintGroups(Groups(a)), Decimal(port))
PrintedV4(a, port) == Split(PrintV4(a, port)) = NodeAt(Dotted(a), Decimal(port))
=============================================================================
