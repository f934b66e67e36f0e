---------------------------- MODULE MCMessagePath ----------------------------
EXTENDS MessagePath, TLC

\* IDs have 4 bits, digits 1 bit, and bytes 2: -8 .. 7.
Dir(type, id, subnet, peers) ==
    [nodetype |-> type, nodeid |-> id, subnet |-> subnet, peers |-> peers]
Peer(type, subnet) == [nodetype |-> type, subnet |-> subnet]

\* Two accounting authorities with the debtors 4 .. 7 and -4 .. -1.  The first
\* has two creditors agents and a debtors agent for the debtor 6.  The second
\* has one of the creditors agents, with another range than the one the agent
\* believes to have, and a debtors agent that believes to have all debtors.
OwnRange(ca1) ==
    "aa1" :> Dir("AA", <<0, 1>>, <<>>, "ca1" :> Peer("CA", <<1, 1>>)
                                    @@ "ca2" :> Peer("CA", <<0, 1>>)
                                    @@ "da1" :> Peer("DA", <<0, 1, 1, 0>>))
    @@ "aa2" :> Dir("AA", <<1, 1>>, <<>>, "ca1" :> Peer("CA", <<0, 1>>)
                                       @@ "da2" :> Peer("DA", <<1, 1, 1, 0>>))
    @@ "ca1" :> Dir("CA", <<0>>, ca1, "aa1" :> Peer("AA", <<1, 1>>)
                                   @@ "aa2" :> Peer("AA", <<1, 0>>))
    @@ "ca2" :> Dir("CA", <<1>>, <<0, 0>>, "aa1" :> Peer("AA", <<0, 1>>))
    @@ "da1" :> Dir("DA", <<1>>, <<0, 1, 1, 0>>, "aa1" :> Peer("AA", <<>>))
    @@ "da2" :> Dir("DA", <<1>>, <<1, 1>>, "aa2" :> Peer("AA", <<>>))

MCNet == OwnRange(<<1, 0>>)
SignNet == OwnRange(<<0, 1>>)
MCFresh == {<<"aa1", "ca1">>}
MCSampleIds == {-7, -3, 1, 6}
NoFresh == {}
=============================================================================
