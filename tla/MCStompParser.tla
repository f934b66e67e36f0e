--------------------------- MODULE MCStompParser ---------------------------
EXTENDS StompParser

Empty   == [command |-> <<"A">>, headers |-> <<>>, body |-> <<>>]
Escaped == [command |-> <<"A", "A">>,
            headers |-> <<<<<<"x", ":">>, <<BS, CR>>>>, <<<<"c">>, <<LF>>>>>>,
            body |-> <<>>]
Binary  == [command |-> <<"A">>, headers |-> <<<<<<"x">>, <<>>>>>>,
            body |-> <<NUL, "x", NUL>>]
Lines   == [command |-> <<"A">>, headers |-> <<>>, body |-> <<LF, "A", LF, LF>>]

MCSendable ==
    {<<Empty, Binary>>, <<Escaped, Empty>>, <<Binary, Lines>>, <<Lines, Escaped>>}

MCBreaks == {<<>>, <<CR, LF, LF>>}
MCNoise == {"1", ":", NUL, LF, "FF"}
MCSlips == {<<"-">>, <<"-", "1">>}
None == {}
=============================================================================
