------------------------------- MODULE MCRefSort -------------------------------
EXTENDS RefSort
MCContents == {<<>>, <<2>>, <<3, 1, 1>>, <<1, 2, 0, 2, 1, 0>>}
===============================================================================
