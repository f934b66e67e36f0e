------------------------------- MODULE Subnets -------------------------------
(***************************************************************************)
(* The ranges of creditor and debtor IDs (peer_data.py, Subnet) and the    *)
(* translation between two of them (process_messages.py, _change_subnet).  *)
(*                                                                         *)
(* An ID is a signed integer of Width bits; a subnet and its mask are      *)
(* unsigned ones.  A mask is a run of ones and then zeros, so that `n &    *)
(* mask`, on Python's unbounded two's complement integers, is arithmetic   *)
(* on powers of two: And below.                                            *)
(***************************************************************************)
EXTENDS Integers, Sequences, FiniteSets

CONSTANTS
    DigitBits,   \* bits of a hexadecimal digit (4)
    IdDigits     \* digits of an ID (16); two digits are a byte

ASSUME WidthAssumption ==
    DigitBits \in Nat \ {0} /\ IdDigits \in Nat \ {0} /\ IdDigits % 2 = 0

Width == DigitBits * IdDigits
Int64 == -(2 ^ (Width - 1)) .. 2 ^ (Width - 1) - 1

Bytes == IdDigits \div 2
ByteBits == 2 * DigitBits

\* n & mask, for a mask of a subnet and any integer n
And(n, mask) == (n % 2 ^ Width) - (n % (2 ^ Width - mask))

Invalid == [subnet |-> -1, subnet_mask |-> -1]   \* a ValueError

Digits == 0 .. 2 ^ DigitBits - 1

\* The value of a sequence of digits, the first being the most significant.
ValueOf(s) ==
    LET v[i \in 0 .. Len(s)] == IF i = 0 THEN 0 ELSE 2 ^ DigitBits * v[i - 1] + s[i]
    IN v[Len(s)]

\* Subnet.parse
Parse(s) ==
    LET rest   == Width - DigitBits * Len(s)
        subnet == ValueOf(s) * 2 ^ rest
    IN IF Len(s) <= IdDigits /\ subnet < 2 ^ Width - 1
       THEN [subnet |-> subnet, subnet_mask |-> 2 ^ Width - 2 ^ rest]
       ELSE Invalid

Match(sn, n) == n \in Int64 /\ And(n, sn.subnet_mask) = sn.subnet

ByteOf(n, i) == (n \div 2 ^ (ByteBits * (Bytes - i))) % 2 ^ ByteBits

\* Subnet.binding_key without the closing '#': the bytes that must match.  A
\* mask that ends inside a byte has none.
HasBindingKey(sn) ==
    \A i \in 1 .. Bytes : ByteOf(sn.subnet_mask, i) \in {0, 2 ^ ByteBits - 1}
BindingKey(sn) ==
    [i \in 1 .. Cardinality({j \in 1 .. Bytes : ByteOf(sn.subnet_mask, j) # 0}) |->
        ByteOf(sn.subnet, i)]

\* The routing key that the applications give to a message for an ID.
RoutingKey(n) == [i \in 1 .. Bytes |-> ByteOf(n % 2 ^ Width, i)]

\* A topic exchange's match of the two.
KeyMatches(sn, n) ==
    \A i \in DOMAIN BindingKey(sn) : RoutingKey(n)[i] = BindingKey(sn)[i]

\* Mutant: the ID keeps the bits of the subnet it comes from.
ChangeSubnetKeeps(n, from, to) == n + to.subnet

\* `subnet ^ n` takes away bits of n, `to_.subnet | relative_id` adds bits that
\* are not in relative_id: a subtraction and an addition of unbounded integers.
ChangeSubnet(n, from, to) ==
    LET subnet      == And(n, from.subnet_mask)
        relative_id == n - subnet
    IN to.subnet + relative_id

ZERO_SUBNET == Parse([i \in 1 .. IdDigits |-> 0])
UNIVERSAL_SUBNET == Parse(<<>>)

=============================================================================
