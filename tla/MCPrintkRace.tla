---------------------------- MODULE MCPrintkRace ----------------------------
EXTENDS PrintkRace
MCKMessage == <<"a", "b">>
MCHMessage == <<"k">>
MCZeroed == <<>>
MCItem == {<<>>, <<"k">>, <<"a", "b">>}
=============================================================================
